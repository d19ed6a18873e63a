------------------------------ MODULE Jitter_proofs ------------------------------
(***************************************************************************)
(* Proofs about Jitter, for every set of packets, every word and every     *)
(* bound. The first part is about sequences alone: what FlattenSeq and     *)
(* FoldLeft compute, by induction over their length.                       *)
(***************************************************************************)
EXTENDS Jitter, WellFoundedInduction, SequenceTheorems, TLAPS

(* Induction over the natural numbers, for the members of a set. *)
LEMMA SetInduction ==
  ASSUME NEW T, 0 \in T, \A n \in Nat : n \in T => n + 1 \in T
  PROVE  Nat \subseteq T
<1> DEFINE Bad == Nat \ T
<1> SUFFICES ASSUME Bad # {} PROVE FALSE
  OBVIOUS
<1>1. PICK x \in Bad : \A y \in Bad : ~(<<y, x>> \in OpToRel(<, Nat))
  BY NatLessThanWellFounded, WFMin
<1>2. \A y \in Bad : ~(y < x)
  BY <1>1 DEF OpToRel
<1>3. x # 0 /\ x - 1 \in Nat
  OBVIOUS
<1>4. x - 1 \in T
  BY <1>2, <1>3
<1> QED
  BY <1>3, <1>4

(* The same, counting up to the number. *)
LEMMA SetInductionDown ==
  ASSUME NEW T, 0 \in T, \A n \in Nat \ {0} : n - 1 \in T => n \in T
  PROVE  Nat \subseteq T
<1>1. ASSUME NEW n \in Nat, n \in T PROVE n + 1 \in T
  <2>1. n + 1 \in Nat \ {0} /\ (n + 1) - 1 = n
    OBVIOUS
  <2> QED  BY <1>1, <2>1
<1> QED
  BY <1>1, SetInduction

-----------------------------------------------------------------------------
(* f[i] is the concatenation of the first i of seqs. *)
Flattens(f, S, seqs, n) ==
  /\ f \in [1 .. n -> Seq(S)]
  /\ \A i \in 1 .. n : f[i] = IF i = 1 THEN seqs[i] ELSE f[i - 1] \o seqs[i]

(* There is such a function, for any number of sequences. *)
LEMMA FlattensExists ==
  ASSUME NEW S, NEW seqs \in Seq(Seq(S)), NEW m \in 0 .. Len(seqs)
  PROVE  \E f : Flattens(f, S, seqs, m)
<1> DEFINE T == {n \in Nat : n <= Len(seqs) => \E f : Flattens(f, S, seqs, n)}
<1>1. 0 \in T
  <2>1. Flattens(<<>>, S, seqs, 0)
    BY DEF Flattens
  <2> QED  BY <2>1
<1>2. ASSUME NEW n \in Nat, n \in T PROVE n + 1 \in T
  <2> SUFFICES ASSUME n + 1 <= Len(seqs) PROVE \E f : Flattens(f, S, seqs, n + 1)
    OBVIOUS
  <2>1. PICK g : Flattens(g, S, seqs, n)
    BY <1>2
  <2> DEFINE x == IF n = 0 THEN seqs[1] ELSE g[n] \o seqs[n + 1]
             f == [i \in 1 .. n + 1 |-> IF i = n + 1 THEN x ELSE g[i]]
  <2>2. x \in Seq(S)
    <3>1. seqs[n + 1] \in Seq(S)
      OBVIOUS
    <3>2. n # 0 => g[n] \in Seq(S)
      BY <2>1 DEF Flattens
    <3> QED  BY <3>1, <3>2, ConcatProperties
  <2>3. f \in [1 .. n + 1 -> Seq(S)]
    BY <2>1, <2>2 DEF Flattens
  <2>4. ASSUME NEW i \in 1 .. n + 1
        PROVE  f[i] = IF i = 1 THEN seqs[i] ELSE f[i - 1] \o seqs[i]
    <3>1. CASE i = n + 1
      <4>1. i # 1 => f[i - 1] = g[n]
        BY <3>1
      <4> QED  BY <3>1, <4>1
    <3>2. CASE i # n + 1
      <4>1. i \in 1 .. n /\ (i # 1 => i - 1 \in 1 .. n)
        BY <3>2
      <4>2. f[i] = g[i] /\ (i # 1 => f[i - 1] = g[i - 1])
        BY <3>2, <4>1
      <4>3. g[i] = IF i = 1 THEN seqs[i] ELSE g[i - 1] \o seqs[i]
        BY <2>1, <4>1 DEF Flattens
      <4> QED  BY <4>1, <4>2, <4>3
    <3> QED  BY <3>1, <3>2
  <2>5. Flattens(f, S, seqs, n + 1)
    BY <2>3, <2>4 DEF Flattens
  <2> QED  BY <2>5
<1> HIDE DEF T
<1>3. Nat \subseteq T
  BY <1>1, <1>2, SetInduction
<1> QED
  BY <1>3 DEF T

(* FlattenSeq is well defined. *)
LEMMA FlattenSeqDef ==
  ASSUME NEW S, NEW seqs \in Seq(Seq(S)), Len(seqs) # 0
  PROVE  \E f : Flattens(f, S, seqs, Len(seqs)) /\ FlattenSeq(seqs) = f[Len(seqs)]
<1>1. PICK g : Flattens(g, S, seqs, Len(seqs))
  BY FlattensExists
<1> DEFINE D(f) == [i \in 1 .. Len(seqs) |-> IF i = 1 THEN seqs[i] ELSE f[i - 1] \o seqs[i]]
           flatten == CHOOSE f : f = D(f)
<1>2. g = D(g)
  BY <1>1 DEF Flattens
<1>3. flatten = D(flatten)
  BY <1>2
<1>4. FlattenSeq(seqs) = flatten[Len(seqs)]
  BY DEF FlattenSeq
<1> HIDE DEF flatten
<1> DEFINE T == {n \in Nat : n \in 1 .. Len(seqs) => flatten[n] = g[n]}
<1>5. 0 \in T
  OBVIOUS
<1>6. ASSUME NEW n \in Nat \ {0}, n - 1 \in T PROVE n \in T
  <2> SUFFICES ASSUME n \in 1 .. Len(seqs) PROVE flatten[n] = g[n]
    OBVIOUS
  <2>1. flatten[n] = IF n = 1 THEN seqs[n] ELSE flatten[n - 1] \o seqs[n]
    BY <1>3
  <2>2. g[n] = IF n = 1 THEN seqs[n] ELSE g[n - 1] \o seqs[n]
    BY <1>1 DEF Flattens
  <2>3. n # 1 => flatten[n - 1] = g[n - 1]
    BY <1>6
  <2> QED  BY <2>1, <2>2, <2>3
<1> HIDE DEF T
<1>7. Nat \subseteq T
  BY <1>5, <1>6, SetInductionDown
<1>8. flatten[Len(seqs)] = g[Len(seqs)]
  BY <1>7 DEF T
<1> QED
  BY <1>1, <1>4, <1>8

(* Two such functions agree where the sequences do. *)
LEMMA FlattensUnique ==
  ASSUME NEW S, NEW s, NEW t, NEW m \in Nat, NEW n \in Nat, m <= n,
         NEW f, Flattens(f, S, s, m), NEW g, Flattens(g, S, t, n),
         \A i \in 1 .. m : s[i] = t[i]
  PROVE  \A i \in 1 .. m : f[i] = g[i]
<1> DEFINE T == {i \in Nat : i \in 1 .. m => f[i] = g[i]}
<1>1. 0 \in T
  OBVIOUS
<1>2. ASSUME NEW i \in Nat \ {0}, i - 1 \in T PROVE i \in T
  <2> SUFFICES ASSUME i \in 1 .. m PROVE f[i] = g[i]
    OBVIOUS
  <2>1. f[i] = IF i = 1 THEN s[i] ELSE f[i - 1] \o s[i]
    BY DEF Flattens
  <2>2. g[i] = IF i = 1 THEN t[i] ELSE g[i - 1] \o t[i]
    <3>1. i \in 1 .. n
      OBVIOUS
    <3> QED  BY <3>1 DEF Flattens
  <2>3. i # 1 => f[i - 1] = g[i - 1]
    BY <1>2
  <2> QED  BY <2>1, <2>2, <2>3
<1> HIDE DEF T
<1>3. Nat \subseteq T
  BY <1>1, <1>2, SetInductionDown
<1> QED
  BY <1>3 DEF T

(* Nothing concatenated is nothing. *)
LEMMA FlattenEmpty == FlattenSeq(<<>>) = <<>>
BY DEF FlattenSeq

(* What is concatenated has the elements of the parts. *)
LEMMA FlattenType ==
  ASSUME NEW S, NEW seqs \in Seq(Seq(S))
  PROVE  FlattenSeq(seqs) \in Seq(S)
<1>1. CASE Len(seqs) = 0
  <2>1. seqs = <<>>
    BY <1>1
  <2> QED  BY <2>1, FlattenEmpty, EmptySeq
<1>2. CASE Len(seqs) # 0
  <2>1. PICK f : Flattens(f, S, seqs, Len(seqs)) /\ FlattenSeq(seqs) = f[Len(seqs)]
    BY <1>2, FlattenSeqDef
  <2>2. Len(seqs) \in 1 .. Len(seqs)
    BY <1>2
  <2>3. \A n \in 1 .. Len(seqs) : f[n] \in Seq(S)
    BY <2>1, Zenon DEF Flattens
  <2> QED  BY <2>1, <2>2, <2>3, Zenon
<1> QED
  BY <1>1, <1>2

(* One sequence more. *)
LEMMA FlattenAppend ==
  ASSUME NEW S, NEW seqs \in Seq(Seq(S)), NEW x \in Seq(S)
  PROVE  FlattenSeq(Append(seqs, x)) = FlattenSeq(seqs) \o x
<1> DEFINE n == Len(seqs)
           more == Append(seqs, x)
<1>1. /\ more \in Seq(Seq(S)) /\ Len(more) = n + 1 /\ more[n + 1] = x
      /\ \A i \in 1 .. n : seqs[i] = more[i]
  OBVIOUS
<1> HIDE DEF more
<1>2. PICK g : Flattens(g, S, more, n + 1) /\ FlattenSeq(more) = g[n + 1]
  BY <1>1, FlattenSeqDef
<1>3. CASE n = 0
  <2>1. g[n + 1] = x
    BY <1>1, <1>2, <1>3 DEF Flattens
  <2>2. FlattenSeq(seqs) = <<>>
    BY <1>3, FlattenEmpty
  <2> QED  BY <1>2, <2>1, <2>2, ConcatEmptySeq DEF more
<1>4. CASE n # 0
  <2>1. PICK f : Flattens(f, S, seqs, n) /\ FlattenSeq(seqs) = f[n]
    BY <1>4, FlattenSeqDef
  <2>2. f[n] = g[n]
    <3>1. \A i \in 1 .. n : f[i] = g[i]
      <4>1. n \in Nat /\ n + 1 \in Nat /\ n <= n + 1
        OBVIOUS
      <4> HIDE DEF n
      <4> QED  BY <1>1, <1>2, <2>1, <4>1, FlattensUnique
    <3> QED  BY <1>4, <3>1
  <2>3. g[n + 1] = g[n] \o x
    <3>1. n + 1 # 1 /\ (n + 1) - 1 = n /\ n + 1 \in 1 .. n + 1
      BY <1>4
    <3>2. g[n + 1] = g[(n + 1) - 1] \o more[n + 1]
      BY <1>2, <3>1 DEF Flattens
    <3> QED  BY <1>1, <3>1, <3>2
  <2> QED  BY <1>2, <2>1, <2>2, <2>3 DEF more
<1> QED
  BY <1>3, <1>4

(* One sequence concatenated is itself. *)
LEMMA FlattenSingle ==
  ASSUME NEW S, NEW x \in Seq(S)
  PROVE  FlattenSeq(<<x>>) = x
<1>1. <<x>> = Append(<<>>, x) /\ <<>> \in Seq(Seq(S))
  OBVIOUS
<1>2. FlattenSeq(Append(<<>>, x)) = FlattenSeq(<<>>) \o x
  BY <1>1, FlattenAppend
<1> QED
  BY <1>1, <1>2, FlattenEmpty, ConcatEmptySeq

(* Flattening distributes over concatenation. *)
LEMMA FlattenConcat ==
  ASSUME NEW S, NEW s \in Seq(Seq(S)), NEW t \in Seq(Seq(S))
  PROVE  FlattenSeq(s \o t) = FlattenSeq(s) \o FlattenSeq(t)
<1>0. \A a, b, c \in Seq(S) : (a \o b) \o c = a \o (b \o c)
  OBVIOUS
<1> DEFINE T == {n \in Nat : \A u \in Seq(Seq(S)) :
                   Len(u) = n => FlattenSeq(s \o u) = FlattenSeq(s) \o FlattenSeq(u)}
<1>1. 0 \in T
  <2> SUFFICES ASSUME NEW u \in Seq(Seq(S)), Len(u) = 0
               PROVE  FlattenSeq(s \o u) = FlattenSeq(s) \o FlattenSeq(u)
    OBVIOUS
  <2>1. u = <<>> /\ s \o u = s
    BY ConcatEmptySeq
  <2> QED  BY <2>1, FlattenEmpty, FlattenType, ConcatEmptySeq
<1>2. ASSUME NEW n \in Nat, n \in T PROVE n + 1 \in T
  <2> SUFFICES ASSUME NEW u \in Seq(Seq(S)), Len(u) = n + 1
               PROVE  FlattenSeq(s \o u) = FlattenSeq(s) \o FlattenSeq(u)
    OBVIOUS
  <2>1. u # <<>>
    OBVIOUS
  <2>2. PICK v \in Seq(Seq(S)), x \in Seq(S) : u = Append(v, x)
    BY <2>1, SequenceEmptyOrAppend
  <2>3. Len(v) = n
    BY <2>2
  <2>4. FlattenSeq(s \o v) = FlattenSeq(s) \o FlattenSeq(v)
    BY <1>2, <2>3
  <2>5. s \o u = Append(s \o v, x) /\ s \o v \in Seq(Seq(S))
    BY <2>2
  <2>6. FlattenSeq(s \o u) = (FlattenSeq(s) \o FlattenSeq(v)) \o x
    BY <2>4, <2>5, FlattenAppend
  <2>7. FlattenSeq(u) = FlattenSeq(v) \o x
    BY <2>2, FlattenAppend
  <2>8. FlattenSeq(s) \in Seq(S) /\ FlattenSeq(v) \in Seq(S)
    BY FlattenType
  <2>9. (FlattenSeq(s) \o FlattenSeq(v)) \o x = FlattenSeq(s) \o (FlattenSeq(v) \o x)
    BY <1>0, <2>8
  <2> QED  BY <2>6, <2>7, <2>9
<1> HIDE DEF T
<1>3. Nat \subseteq T
  BY <1>1, <1>2, SetInduction
<1>4. Len(t) \in T
  BY <1>3
<1> QED
  BY <1>4 DEF T

-----------------------------------------------------------------------------
Message == {"increase", "decrease"}

(* a[i] is the delay after the first i of msgs. *)
Settles(a, d, msgs, n) ==
  /\ a \in [0 .. n -> Int]
  /\ a[0] = d
  /\ \A i \in 1 .. n : a[i] = Applied(a[i - 1], msgs[i])

(* Handling a message leaves the delay an integer. *)
LEMMA AppliedType ==
  ASSUME NEW d \in Int, NEW m
  PROVE  Applied(d, m) \in Int
BY JitterAssumption DEF Applied

(* The greatest of the first numbers. *)
LEMMA MaxOfPrefix ==
  ASSUME NEW n \in Nat, NEW s \in SUBSET (1 .. n + 1), n + 1 \in s
  PROVE  Max(s) = n + 1
<1>1. \A k \in s : n + 1 >= k
  OBVIOUS
<1>2. \A m \in s : (\A k \in s : m >= k) => m = n + 1
  OBVIOUS
<1> QED
  BY <1>1, <1>2 DEF Max

(* The function that defines FoldLeft, over the sets of indices up to n. *)
FoldStep(f, d, msgs, n) ==
  [s \in SUBSET (1 .. n) |->
     IF s = {} THEN d ELSE Applied(f[s \ {Max(s)}], msgs[Max(s)])]

(* The function by which FoldLeft is defined exists. *)
LEMMA FoldExists ==
  ASSUME NEW d, NEW msgs, NEW m \in Nat
  PROVE  \E f : f = FoldStep(f, d, msgs, m)
<1> DEFINE T == {n \in Nat : \E f : f = FoldStep(f, d, msgs, n)}
<1>1. 0 \in T
  <2> DEFINE f == [s \in SUBSET (1 .. 0) |-> d]
  <2>1. SUBSET (1 .. 0) = {{}}
    OBVIOUS
  <2>2. f = FoldStep(f, d, msgs, 0)
    BY <2>1 DEF FoldStep
  <2> QED  BY <2>2
<1>2. ASSUME NEW n \in Nat, n \in T PROVE n + 1 \in T
  <2>1. PICK g : g = FoldStep(g, d, msgs, n)
    BY <1>2
  <2> DEFINE f == [s \in SUBSET (1 .. n + 1) |->
                     IF n + 1 \in s THEN Applied(g[s \ {n + 1}], msgs[n + 1]) ELSE g[s]]
  <2>2. ASSUME NEW s \in SUBSET (1 .. n + 1)
        PROVE  f[s] = IF s = {} THEN d ELSE Applied(f[s \ {Max(s)}], msgs[Max(s)])
    <3>1. CASE n + 1 \in s
      <4>1. Max(s) = n + 1
        BY <3>1, MaxOfPrefix
      <4>2. s \ {n + 1} \in SUBSET (1 .. n + 1) /\ n + 1 \notin s \ {n + 1}
        OBVIOUS
      <4>3. f[s \ {n + 1}] = g[s \ {n + 1}]
        BY <4>2
      <4>4. f[s] = Applied(g[s \ {n + 1}], msgs[n + 1])
        BY <3>1
      <4> QED  BY <3>1, <4>1, <4>3, <4>4
    <3>2. CASE n + 1 \notin s
      <4>1. s \in SUBSET (1 .. n)
        BY <3>2
      <4>2. g[s] = IF s = {} THEN d ELSE Applied(g[s \ {Max(s)}], msgs[Max(s)])
        BY <2>1, <4>1 DEF FoldStep
      <4>3. s \ {Max(s)} \in SUBSET (1 .. n + 1) /\ n + 1 \notin s \ {Max(s)}
        BY <3>2
      <4>4. f[s \ {Max(s)}] = g[s \ {Max(s)}]
        BY <4>3
      <4>5. f[s] = g[s]
        BY <3>2
      <4> QED  BY <4>2, <4>4, <4>5
    <3> QED  BY <3>1, <3>2
  <2>3. f = FoldStep(f, d, msgs, n + 1)
    <3> HIDE DEF f
    <3>1. DOMAIN f = SUBSET (1 .. n + 1) /\ f = [s \in SUBSET (1 .. n + 1) |-> f[s]]
      BY DEF f
    <3> QED  BY <2>2, <3>1 DEF FoldStep
  <2> QED  BY <2>3
<1> HIDE DEF T
<1>3. Nat \subseteq T
  BY <1>1, <1>2, SetInduction
<1> QED
  BY <1>3 DEF T

(* FoldLeft is well defined: it goes through the messages one by one. *)
LEMMA FoldLeftDef ==
  ASSUME NEW d \in Int, NEW msgs \in Seq(Message)
  PROVE  \E a : Settles(a, d, msgs, Len(msgs)) /\ FoldLeft(Applied, d, msgs) = a[Len(msgs)]
<1> DEFINE n == Len(msgs)
           iter == CHOOSE f : f = FoldStep(f, d, msgs, n)
           a == [i \in 0 .. n |-> iter[1 .. i]]
<1>1. n \in Nat /\ DOMAIN msgs = 1 .. n
  OBVIOUS
<1>2. iter = FoldStep(iter, d, msgs, n)
  BY <1>1, FoldExists
<1>3. FoldLeft(Applied, d, msgs) = iter[DOMAIN msgs]
  BY <1>1 DEF FoldLeft, MapThenFoldSet, FoldStep
<1> HIDE DEF iter, n
<1>4. a[0] = d
  <2>1. 1 .. 0 = {} /\ 1 .. 0 \in SUBSET (1 .. n)
    BY <1>1
  <2>2. iter[1 .. 0] = d
    BY <1>2, <2>1 DEF FoldStep
  <2> QED  BY <1>1, <2>2
<1>5. ASSUME NEW i \in 1 .. n PROVE a[i] = Applied(a[i - 1], msgs[i])
  <2>1. /\ 1 .. i \in SUBSET (1 .. n) /\ 1 .. i # {}
        /\ (1 .. i) \ {i} = 1 .. (i - 1)
        /\ i \in 0 .. n /\ i - 1 \in 0 .. n
    <3>1. n \in Nat /\ i \in Nat /\ i >= 1 /\ i <= n
      BY <1>1
    <3>2. 1 .. i \in SUBSET (1 .. n) /\ i \in 1 .. i
      BY <3>1
    <3>3. (1 .. i) \ {i} = 1 .. (i - 1)
      BY <3>1
    <3>4. i \in 0 .. n /\ i - 1 \in 0 .. n
      BY <3>1
    <3>5. 1 .. i # {}
      BY <3>2
    <3> HIDE DEF a
    <3> QED  BY <3>2, <3>3, <3>4, <3>5
  <2>2. Max(1 .. i) = i
    <3>1. i - 1 \in Nat /\ (i - 1) + 1 = i /\ 1 .. i \in SUBSET (1 .. i) /\ i \in 1 .. i
      BY <1>1
    <3> QED  BY <3>1, MaxOfPrefix
  <2>3. iter[1 .. i] = Applied(iter[(1 .. i) \ {i}], msgs[i])
    BY <1>2, <2>1, <2>2 DEF FoldStep
  <2> QED  BY <2>1, <2>3
<1>6. ASSUME NEW i \in 0 .. n PROVE a[i] \in Int
  <2> DEFINE T == {j \in Nat : j <= n => a[j] \in Int}
  <2> HIDE DEF a
  <2>1. 0 \in T
    BY <1>4
  <2>2. ASSUME NEW j \in Nat \ {0}, j - 1 \in T PROVE j \in T
    <3> SUFFICES ASSUME j <= n PROVE a[j] \in Int
      OBVIOUS
    <3>1. a[j - 1] \in Int /\ j \in 1 .. n
      BY <1>1, <2>2
    <3> QED  BY <1>5, <3>1, AppliedType
  <2> HIDE DEF T
  <2>3. Nat \subseteq T
    BY <2>1, <2>2, SetInductionDown
  <2> QED  BY <1>1, <2>3 DEF T
<1>7. Settles(a, d, msgs, n)
  <2>1. a \in [0 .. n -> Int]
    BY <1>6
  <2> QED  BY <1>4, <1>5, <2>1 DEF Settles
<1>8. a[n] = iter[DOMAIN msgs]
  BY <1>1
<1> QED
  BY <1>3, <1>7, <1>8 DEF n

(* There is one way through the messages. *)
LEMMA SettlesUnique ==
  ASSUME NEW d, NEW s, NEW t, NEW m \in Nat, NEW n \in Nat, m <= n,
         NEW a, Settles(a, d, s, m), NEW b, Settles(b, d, t, n),
         \A i \in 1 .. m : s[i] = t[i]
  PROVE  a[m] = b[m]
<1> DEFINE T == {i \in Nat : i <= m => a[i] = b[i]}
<1>1. 0 \in T
  BY DEF Settles
<1>2. ASSUME NEW i \in Nat \ {0}, i - 1 \in T PROVE i \in T
  <2> SUFFICES ASSUME i <= m PROVE a[i] = b[i]
    OBVIOUS
  <2>1. i \in 1 .. m /\ i \in 1 .. n /\ a[i - 1] = b[i - 1]
    BY <1>2
  <2>2. a[i] = Applied(a[i - 1], s[i]) /\ b[i] = Applied(b[i - 1], t[i])
    BY <2>1 DEF Settles
  <2> QED  BY <2>1, <2>2
<1> HIDE DEF T
<1>3. Nat \subseteq T
  BY <1>1, <1>2, SetInductionDown
<1> QED
  BY <1>3 DEF T

(* What the delay will be once the messages are handled. *)
LEMMA FoldEmpty ==
  ASSUME NEW d \in Int
  PROVE  FoldLeft(Applied, d, <<>>) = d
<1>1. <<>> \in Seq(Message) /\ Len(<<>>) = 0
  BY EmptySeq
<1>2. PICK a : Settles(a, d, <<>>, 0) /\ FoldLeft(Applied, d, <<>>) = a[0]
  BY <1>1, FoldLeftDef
<1> QED
  BY <1>2 DEF Settles

(* The delay stays at or above its lower bound. *)
LEMMA FoldBound ==
  ASSUME NEW d \in Int, d >= Start, NEW msgs \in Seq(Message)
  PROVE  FoldLeft(Applied, d, msgs) \in Int /\ FoldLeft(Applied, d, msgs) >= Start
<1>1. PICK a : Settles(a, d, msgs, Len(msgs)) /\ FoldLeft(Applied, d, msgs) = a[Len(msgs)]
  BY FoldLeftDef
<1> DEFINE T == {i \in Nat : i <= Len(msgs) => a[i] >= Start}
<1>2. 0 \in T
  BY <1>1 DEF Settles
<1>3. ASSUME NEW i \in Nat \ {0}, i - 1 \in T PROVE i \in T
  <2> SUFFICES ASSUME i <= Len(msgs) PROVE a[i] >= Start
    OBVIOUS
  <2>1. i \in 1 .. Len(msgs) /\ i - 1 \in 0 .. Len(msgs) /\ a[i - 1] >= Start
    BY <1>3
  <2>2. a[i] = Applied(a[i - 1], msgs[i]) /\ a[i - 1] \in Int
    BY <1>1, <2>1 DEF Settles
  <2> QED  BY <2>1, <2>2, JitterAssumption DEF Applied
<1> HIDE DEF T
<1>4. Nat \subseteq T
  BY <1>2, <1>3, SetInductionDown
<1>5. a[Len(msgs)] >= Start
  BY <1>4 DEF T
<1>6. a[Len(msgs)] \in Int
  BY <1>1 DEF Settles
<1> QED
  BY <1>1, <1>5, <1>6

(* A message more at the end takes effect last. *)
LEMMA FoldAppend ==
  ASSUME NEW d \in Int, NEW msgs \in Seq(Message), NEW m \in Message
  PROVE  FoldLeft(Applied, d, Append(msgs, m)) = Applied(FoldLeft(Applied, d, msgs), m)
<1> DEFINE n == Len(msgs)
           more == Append(msgs, m)
<1>1. /\ n \in Nat /\ n + 1 \in Nat /\ n <= n + 1
      /\ more \in Seq(Message) /\ Len(more) = n + 1 /\ more[n + 1] = m
      /\ \A i \in 1 .. n : msgs[i] = more[i]
  OBVIOUS
<1>2. PICK a : Settles(a, d, msgs, n) /\ FoldLeft(Applied, d, msgs) = a[n]
  BY FoldLeftDef
<1> HIDE DEF more
<1>3. PICK b : Settles(b, d, more, n + 1) /\ FoldLeft(Applied, d, more) = b[n + 1]
  BY <1>1, FoldLeftDef
<1> HIDE DEF n
<1>4. a[n] = b[n]
  BY <1>1, <1>2, <1>3, SettlesUnique
<1>5. b[n + 1] = Applied(b[n], m)
  <2>1. n + 1 \in 1 .. n + 1 /\ (n + 1) - 1 = n
    BY <1>1
  <2>2. b[n + 1] = Applied(b[(n + 1) - 1], more[n + 1])
    BY <1>3, <2>1 DEF Settles
  <2> QED  BY <1>1, <2>1, <2>2
<1> QED
  BY <1>2, <1>3, <1>4, <1>5 DEF more

(* Handling the first message changes nothing in the end. *)
LEMMA FoldTail ==
  ASSUME NEW d \in Int, NEW msgs \in Seq(Message), msgs # <<>>
  PROVE  FoldLeft(Applied, Applied(d, Head(msgs)), Tail(msgs)) = FoldLeft(Applied, d, msgs)
<1> DEFINE n == Len(Tail(msgs))
           e == Applied(d, Head(msgs))
<1>1. /\ n \in Nat /\ n + 1 = Len(msgs) /\ Tail(msgs) \in Seq(Message)
      /\ Head(msgs) = msgs[1]
      /\ \A i \in 1 .. n : Tail(msgs)[i] = msgs[i + 1]
  OBVIOUS
<1>2. e \in Int
  BY AppliedType
<1>3. PICK a : Settles(a, d, msgs, n + 1) /\ FoldLeft(Applied, d, msgs) = a[n + 1]
  BY <1>1, FoldLeftDef
<1> HIDE DEF e
<1>4. PICK b : Settles(b, e, Tail(msgs), n) /\ FoldLeft(Applied, e, Tail(msgs)) = b[n]
  BY <1>1, <1>2, FoldLeftDef
<1> HIDE DEF n
<1> DEFINE c == [i \in 0 .. n |-> a[i + 1]]
<1>5. Settles(c, e, Tail(msgs), n)
  <2>1. c \in [0 .. n -> Int]
    <3>1. ASSUME NEW i \in 0 .. n PROVE a[i + 1] \in Int
      BY <1>1, <1>3 DEF Settles
    <3> QED  BY <3>1
  <2>2. c[0] = e
    <3>1. 1 \in 1 .. n + 1 /\ 1 - 1 = 0 /\ 0 + 1 = 1 /\ 0 \in 0 .. n
      BY <1>1
    <3>2. a[1] = Applied(a[1 - 1], msgs[1]) /\ a[0] = d
      BY <1>3, <3>1 DEF Settles
    <3> QED  BY <1>1, <3>1, <3>2 DEF e
  <2>3. ASSUME NEW i \in 1 .. n PROVE c[i] = Applied(c[i - 1], Tail(msgs)[i])
    <3>1. i + 1 \in 1 .. n + 1 /\ (i + 1) - 1 = (i - 1) + 1 /\ i \in 0 .. n /\ i - 1 \in 0 .. n
      BY <1>1
    <3>2. a[i + 1] = Applied(a[(i + 1) - 1], msgs[i + 1])
      BY <1>3, <3>1 DEF Settles
    <3>3. c[i] = a[i + 1] /\ c[i - 1] = a[(i - 1) + 1]
      BY <3>1
    <3> QED  BY <1>1, <3>1, <3>2, <3>3
  <2> QED  BY <2>1, <2>2, <2>3 DEF Settles
<1>6. c[n] = b[n]
  <2> HIDE DEF c
  <2> QED  BY <1>1, <1>4, <1>5, SettlesUnique
<1>7. c[n] = a[n + 1]
  BY <1>1
<1> QED
  BY <1>3, <1>4, <1>6, <1>7 DEF e

-----------------------------------------------------------------------------
(* What RemoveAt leaves, element by element. *)
LEMMA RemoveAtPoint ==
  ASSUME NEW S, NEW s \in Seq(S), NEW k \in 1 .. Len(s)
  PROVE  /\ RemoveAt(s, k) \in Seq(S)
         /\ Len(RemoveAt(s, k)) = Len(s) - 1
         /\ \A j \in 1 .. Len(s) - 1 : RemoveAt(s, k)[j] = IF j < k THEN s[j] ELSE s[j + 1]
<1> DEFINE u == SubSeq(s, 1, k - 1)
           v == SubSeq(s, k + 1, Len(s))
<1>1. u \in Seq(S) /\ Len(u) = k - 1 /\ \A j \in 1 .. k - 1 : u[j] = s[j]
  OBVIOUS
<1>2. v \in Seq(S) /\ Len(v) = Len(s) - k /\ \A j \in 1 .. Len(s) - k : v[j] = s[k + j]
  OBVIOUS
<1>3. RemoveAt(s, k) = u \o v
  BY DEF RemoveAt
<1> HIDE DEF u, v
<1>4. \A j \in 1 .. Len(s) - 1 : j >= k => k + (j - (k - 1)) = j + 1
  OBVIOUS
<1>5. \A j \in 1 .. Len(s) - 1 : (u \o v)[j] = IF j < k THEN u[j] ELSE v[j - (k - 1)]
  BY <1>1, <1>2
<1>6. ASSUME NEW j \in 1 .. Len(s) - 1
      PROVE  RemoveAt(s, k)[j] = IF j < k THEN s[j] ELSE s[j + 1]
  <2>1. CASE j < k
    BY <1>1, <1>3, <1>5, <2>1
  <2>2. CASE ~(j < k)
    <3>1. j - (k - 1) \in 1 .. Len(s) - k
      BY <2>2
    <3>2. v[j - (k - 1)] = s[k + (j - (k - 1))]
      BY <1>2, <3>1
    <3>3. k + (j - (k - 1)) = j + 1
      OBVIOUS
    <3>4. (u \o v)[j] = v[j - (k - 1)]
      BY <1>5, <2>2
    <3> QED  BY <1>3, <2>2, <3>2, <3>3, <3>4
  <2> QED  BY <2>1, <2>2
<1> QED
  BY <1>1, <1>2, <1>3, <1>6

(* A sequence that differs from s in the k-th element at most is what      *)
(* comes before that element in s, its own, and what comes after it in s.  *)
LEMMA SplitAt ==
  ASSUME NEW S, NEW s \in Seq(S), NEW k \in 1 .. Len(s), NEW t \in Seq(S), Len(t) = Len(s),
         \A j \in 1 .. Len(s) : j # k => t[j] = s[j]
  PROVE  /\ SubSeq(s, 1, k - 1) \in Seq(S) /\ SubSeq(s, k + 1, Len(s)) \in Seq(S)
         /\ t = (SubSeq(s, 1, k - 1) \o <<t[k]>>) \o SubSeq(s, k + 1, Len(s))
<1> DEFINE u == SubSeq(s, 1, k - 1)
           v == SubSeq(s, k + 1, Len(s))
           y == t[k]
           w == u \o <<y>>
<1>1. u \in Seq(S) /\ Len(u) = k - 1 /\ \A j \in 1 .. k - 1 : u[j] = s[j]
  OBVIOUS
<1>2. v \in Seq(S) /\ Len(v) = Len(s) - k /\ \A j \in 1 .. Len(s) - k : v[j] = s[k + j]
  OBVIOUS
<1>3. y \in S
  OBVIOUS
<1> HIDE DEF u, v, y, w
<1>4. <<y>> \in Seq(S) /\ Len(<<y>>) = 1 /\ <<y>>[1] = y
  BY <1>3
<1>5. /\ w \in Seq(S) /\ Len(w) = k
      /\ \A j \in 1 .. k : w[j] = IF j = k THEN y ELSE s[j]
  BY <1>1, <1>4 DEF w
<1>6. ASSUME NEW j \in 1 .. Len(s), j > k PROVE v[j - k] = s[j]
  <2>1. j - k \in 1 .. Len(s) - k /\ k + (j - k) = j
    BY <1>6
  <2> QED  BY <1>2, <2>1
<1>7. /\ w \o v \in Seq(S) /\ Len(w \o v) = Len(s)
      /\ \A j \in 1 .. Len(s) : (w \o v)[j] = IF j <= k THEN w[j] ELSE v[j - k]
  BY <1>2, <1>5
<1>8. ASSUME NEW j \in 1 .. Len(s) PROVE (w \o v)[j] = t[j]
  <2>1. CASE j = k
    BY <1>5, <1>7, <2>1 DEF y
  <2>2. CASE j < k
    BY <1>5, <1>7, <2>2
  <2>3. CASE j > k
    BY <1>6, <1>7, <2>3
  <2>4. j < k \/ j = k \/ j > k
    OBVIOUS
  <2> QED  BY <2>1, <2>2, <2>3, <2>4, Zenon
<1> DEFINE x == w \o v
<1>9. x \in Seq(S) /\ Len(t) = Len(x) /\ \A j \in 1 .. Len(t) : t[j] = x[j]
  BY <1>7, <1>8
<1> HIDE DEF x
<1>10. t = x
  BY <1>9, SeqEqual
<1> QED
  BY <1>1, <1>2, <1>10 DEF x, w, u, v, y

(* Taking out the first element of the second part of a concatenation. *)
LEMMA RemoveMiddle ==
  ASSUME NEW S, NEW a \in Seq(S), NEW f \in Seq(S), f # <<>>
  PROVE  /\ Len(a) + 1 \in 1 .. Len(a \o f)
         /\ (a \o f)[Len(a) + 1] = Head(f)
         /\ RemoveAt(a \o f, Len(a) + 1) = a \o Tail(f)
<1> DEFINE s == a \o f
           t == a \o Tail(f)
           k == Len(a) + 1
<1>1. /\ s \in Seq(S) /\ Len(s) = Len(a) + Len(f)
      /\ k \in 1 .. Len(s) /\ s[k] = Head(f)
  OBVIOUS
<1>2. t \in Seq(S) /\ Len(t) = Len(s) - 1
  OBVIOUS
<1>3. \A j \in 1 .. Len(s) - 1 : t[j] = IF j < k THEN s[j] ELSE s[j + 1]
  OBVIOUS
<1>4. /\ RemoveAt(s, k) \in Seq(S) /\ Len(RemoveAt(s, k)) = Len(s) - 1
      /\ \A j \in 1 .. Len(s) - 1 : RemoveAt(s, k)[j] = IF j < k THEN s[j] ELSE s[j + 1]
  BY <1>1, RemoveAtPoint
<1> HIDE DEF s, t, k
<1>5. RemoveAt(s, k) = t
  BY <1>2, <1>3, <1>4, SeqEqual
<1> QED
  BY <1>1, <1>5 DEF s, t, k

-----------------------------------------------------------------------------
(* What a future has to send. *)
Burst == Seq(Packet) \ {<<>>}

(* The variables of the buffer, of the delay and of the estimate. *)
JitterTypeOK ==
  /\ line \in Seq(Packet) /\ buffer \in Seq(Packet)
  /\ flushes \in Seq(Burst)
  /\ rtc \subseteq Packet /\ replaced \subseteq rtc
  /\ elapsed \in Nat /\ drain \in Nat
  /\ delay \in Nat /\ delay >= Start
  /\ pending \in Seq(Message)
  /\ estimate \in 0 .. Word - 1
  /\ net \in Int /\ net <= MaxDelay
  /\ stale \in Nat

(* No packet is in the line twice. *)
LineDistinct == \A j, k \in DOMAIN line : line[j] = line[k] => j = k

(* Futures send the head of what they have. *)
SentAreHeads == \A p \in rtc : \E i \in DOMAIN flushes : p = Head(flushes[i])

(* A flush that is handled promptly is over before the next one is due. *)
OneFlush == drain < Start /\ flushes # <<>> => Len(flushes) = 1 /\ elapsed <= drain

(* The estimate is net in a machine word. *)
EstimateIsNet == \E k \in Int : net = estimate + k * Word

BufferInv == LineDistinct /\ LineKept /\ SentAreHeads /\ OneFlush

JitterInv == JitterTypeOK /\ BufferInv /\ DelayCoversEstimate /\ EstimateIsNet

(* Taking one element out, or replacing it, keeps the others. *)
LEMMA RemoveKeepsOthers ==
  ASSUME NEW S, NEW s \in Seq(S), NEW i \in 1 .. Len(s), NEW j \in 1 .. Len(s), j # i
  PROVE  \E k \in DOMAIN RemoveAt(s, i) : RemoveAt(s, i)[k] = s[j]
<1> DEFINE t == RemoveAt(s, i)
<1>1. /\ t \in Seq(S) /\ Len(t) = Len(s) - 1
      /\ \A m \in 1 .. Len(s) - 1 : t[m] = IF m < i THEN s[m] ELSE s[m + 1]
  BY RemoveAtPoint
<1> HIDE DEF t
<1>2. DOMAIN t = 1 .. Len(s) - 1
  BY <1>1
<1>3. CASE j < i
  <2>1. j \in 1 .. Len(s) - 1
    BY <1>3
  <2> QED  BY <1>1, <1>2, <1>3, <2>1 DEF t
<1>4. CASE j > i
  <2>1. j - 1 \in 1 .. Len(s) - 1 /\ (j - 1) + 1 = j /\ ~(j - 1 < i)
    BY <1>4
  <2>2. t[j - 1] = s[j]
    BY <1>1, <2>1
  <2> QED  BY <1>2, <2>1, <2>2 DEF t
<1>5. j < i \/ j > i
  OBVIOUS
<1> QED
  BY <1>3, <1>4, <1>5

(* Taking one element out keeps the others different. *)
LEMMA RemoveDistinct ==
  ASSUME NEW S, NEW s \in Seq(S), NEW i \in 1 .. Len(s),
         \A j, k \in DOMAIN s : s[j] = s[k] => j = k
  PROVE  \A j, k \in DOMAIN RemoveAt(s, i) : RemoveAt(s, i)[j] = RemoveAt(s, i)[k] => j = k
<1> DEFINE t == RemoveAt(s, i)
<1>1. /\ t \in Seq(S) /\ Len(t) = Len(s) - 1
      /\ \A m \in 1 .. Len(s) - 1 : t[m] = IF m < i THEN s[m] ELSE s[m + 1]
  BY RemoveAtPoint
<1> HIDE DEF t
<1>2. DOMAIN t = 1 .. Len(s) - 1 /\ DOMAIN s = 1 .. Len(s)
  BY <1>1
<1>3. ASSUME NEW j \in DOMAIN t
      PROVE  \E m \in DOMAIN s : t[j] = s[m] /\ m = IF j < i THEN j ELSE j + 1
  <2>1. CASE j < i
    BY <1>1, <1>2, <2>1
  <2>2. CASE ~(j < i)
    <3>1. j + 1 \in DOMAIN s
      BY <1>2
    <3> QED  BY <1>1, <1>2, <2>2, <3>1
  <2> QED  BY <2>1, <2>2
<1>4. ASSUME NEW j \in DOMAIN t, NEW k \in DOMAIN t, t[j] = t[k] PROVE j = k
  <2>1. PICK m \in DOMAIN s : t[j] = s[m] /\ m = IF j < i THEN j ELSE j + 1
    BY <1>3
  <2>2. PICK n \in DOMAIN s : t[k] = s[n] /\ n = IF k < i THEN k ELSE k + 1
    BY <1>3
  <2>3. m = n
    BY <1>4, <2>1, <2>2
  <2>4. j \in Int /\ k \in Int /\ i \in Int
    BY <1>2
  <2> QED  BY <2>1, <2>2, <2>3, <2>4
<1> QED
  BY <1>4 DEF t

(* The tail of a sequence that is not empty. *)
LEMMA TailFacts ==
  ASSUME NEW S, NEW f \in Seq(S), f # <<>>
  PROVE  /\ Tail(f) \in Seq(S)
         /\ Len(f) = 1 => Tail(f) = <<>>
         /\ Len(f) # 1 => Tail(f) # <<>>
<1>1. Len(f) \in Nat /\ Len(f) # 0 /\ Tail(f) \in Seq(S) /\ Len(Tail(f)) = Len(f) - 1
  OBVIOUS
<1>2. Len(<<>>) = 0
  OBVIOUS
<1>3. \A t \in Seq(S) : Len(t) = 0 => t = <<>>
  OBVIOUS
<1> DEFINE t == Tail(f)
<1> HIDE DEF t
<1>4. t \in Seq(S) /\ Len(t) = Len(f) - 1
  BY <1>1 DEF t
<1> QED
  BY <1>1, <1>2, <1>3, <1>4 DEF t

(* A sequence of bursts is one of sequences of packets. *)
LEMMA BurstSeq ==
  ASSUME NEW s \in Seq(Burst)
  PROVE  s \in Seq(Seq(Packet)) /\ \A j \in 1 .. Len(s) : s[j] \in Seq(Packet) /\ s[j] # <<>>
<1>1. Burst \subseteq Seq(Packet)
  BY DEF Burst
<1> DEFINE S == Seq(Packet)
<1> HIDE DEF S
<1>2. s \in Seq(S)
  BY <1>1 DEF S
<1>3. \A j \in 1 .. Len(s) : s[j] \in Burst
  OBVIOUS
<1> QED
  BY <1>2, <1>3 DEF S, Burst

(* What the invariant needs of the futures once future i has its answer:   *)
(* none is left with nothing to send, the others stay as they are, and the *)
(* first packet of i is the only one that leaves.                          *)
LEMMA RestKeeps ==
  ASSUME JitterTypeOK, NEW i \in DOMAIN flushes
  PROVE  /\ Rest(i) \in Seq(Burst)
         /\ Len(Rest(i)) <= Len(flushes)
         /\ \A j \in DOMAIN flushes : j # i =>
              \E k \in DOMAIN Rest(i) : Rest(i)[k] = flushes[j]
         /\ \E a, b \in Seq(Packet) :
              /\ FlattenSeq(flushes) = (a \o flushes[i]) \o b
              /\ FlattenSeq(Rest(i)) = (a \o Tail(flushes[i])) \o b
<1> DEFINE f == flushes[i]
           g == Tail(f)
           u == SubSeq(flushes, 1, i - 1)
           v == SubSeq(flushes, i + 1, Len(flushes))
           a == FlattenSeq(u)
           b == FlattenSeq(v)
<1>1. /\ flushes \in Seq(Burst) /\ i \in 1 .. Len(flushes) /\ DOMAIN flushes = 1 .. Len(flushes)
      /\ f \in Burst
  BY DEF JitterTypeOK
<1>2. f \in Seq(Packet) /\ f # <<>>
  BY <1>1 DEF Burst
<1>3. g \in Seq(Packet) /\ (Len(f) = 1 => g = <<>>) /\ (Len(f) # 1 => g # <<>>)
  BY <1>2, TailFacts
<1>4. /\ u \in Seq(Burst) /\ v \in Seq(Burst) /\ flushes = (u \o <<f>>) \o v
  BY <1>1, SplitAt
<1>5. ASSUME NEW t \in Seq(Burst), Len(t) = Len(flushes),
             \A j \in 1 .. Len(flushes) : j # i => t[j] = flushes[j]
      PROVE  t = (u \o <<t[i]>>) \o v
  BY <1>1, <1>5, SplitAt
<1> HIDE DEF f, g, u, v
<1>6. /\ u \in Seq(Seq(Packet)) /\ v \in Seq(Seq(Packet))
  BY <1>4, BurstSeq
<1> HIDE DEF a, b
<1>7. a \in Seq(Packet) /\ b \in Seq(Packet)
  BY <1>6, FlattenType DEF a, b
<1>8. ASSUME NEW x \in Seq(Packet)
      PROVE  FlattenSeq((u \o <<x>>) \o v) = (a \o x) \o b
  <2> DEFINE S == Seq(Packet)
  <2>1. x \in S /\ u \in Seq(S) /\ v \in Seq(S)
    BY <1>6
  <2> HIDE DEF S
  <2>2. <<x>> \in Seq(S) /\ u \o <<x>> \in Seq(S)
    BY <2>1
  <2>3. FlattenSeq(u \o <<x>>) = a \o FlattenSeq(<<x>>)
    BY <2>1, <2>2, FlattenConcat DEF a, S
  <2>4. FlattenSeq((u \o <<x>>) \o v) = FlattenSeq(u \o <<x>>) \o b
    BY <2>1, <2>2, FlattenConcat DEF b, S
  <2>5. FlattenSeq(<<x>>) = x
    BY FlattenSingle
  <2> QED  BY <2>3, <2>4, <2>5
<1>9. FlattenSeq(flushes) = (a \o f) \o b
  BY <1>2, <1>4, <1>8
<1>10. /\ Rest(i) \in Seq(Burst) /\ Len(Rest(i)) <= Len(flushes)
      /\ FlattenSeq(Rest(i)) = (a \o g) \o b
      /\ \A j \in DOMAIN flushes : j # i => \E k \in DOMAIN Rest(i) : Rest(i)[k] = flushes[j]
  <2>1. CASE Len(f) = 1
    <3>1. Rest(i) = RemoveAt(flushes, i) /\ Rest(i) = u \o v
      BY <2>1 DEF Rest, RemoveAt, f, u, v
    <3>2. Rest(i) \in Seq(Burst) /\ Len(Rest(i)) = Len(flushes) - 1
      BY <1>1, <3>1, RemoveAtPoint
    <3>3. FlattenSeq(u \o v) = a \o b
      BY <1>6, FlattenConcat DEF a, b
    <3>4. g = <<>>
      BY <1>3, <2>1
    <3>5. a \o g = a
      BY <1>7, <3>4
    <3>6. \A j \in DOMAIN flushes : j # i => \E k \in DOMAIN Rest(i) : Rest(i)[k] = flushes[j]
      <4> SUFFICES ASSUME NEW j \in DOMAIN flushes, j # i
                   PROVE  \E k \in DOMAIN RemoveAt(flushes, i) :
                            RemoveAt(flushes, i)[k] = flushes[j]
        BY <3>1
      <4>1. j \in 1 .. Len(flushes)
        BY <1>1
      <4> QED  BY <1>1, <4>1, RemoveKeepsOthers
    <3>7. Len(Rest(i)) <= Len(flushes)
      BY <1>1, <3>2
    <3> QED  BY <3>1, <3>2, <3>3, <3>5, <3>6, <3>7
  <2>2. CASE Len(f) # 1
    <3>1. Rest(i) = [flushes EXCEPT ![i] = g]
      BY <2>2 DEF Rest, f, g
    <3>2. g # <<>>
      BY <1>3, <2>2
    <3>3. g \in Burst
      BY <1>3, <3>2 DEF Burst
    <3>4. /\ Rest(i) \in Seq(Burst) /\ Len(Rest(i)) = Len(flushes)
          /\ DOMAIN Rest(i) = 1 .. Len(flushes) /\ Rest(i)[i] = g
          /\ \A j \in 1 .. Len(flushes) : j # i => Rest(i)[j] = flushes[j]
      BY <1>1, <3>1, <3>3, ExceptSeq
    <3>5. Rest(i) = (u \o <<g>>) \o v
      BY <1>5, <3>4
    <3>6. FlattenSeq(Rest(i)) = (a \o g) \o b
      BY <1>3, <1>8, <3>5
    <3>7. Len(Rest(i)) <= Len(flushes)
      BY <1>1, <3>4
    <3> QED  BY <1>1, <3>4, <3>6, <3>7
  <2> QED  BY <2>1, <2>2
<1> QED
  BY <1>7, <1>9, <1>10 DEF f, g

(* An answer takes the packet out of the line where it stands, and the     *)
(* rest of the line stays what the futures and the buffer hold.            *)
LEMMA AnswerKeeps ==
  ASSUME JitterTypeOK, BufferInv, NEW i \in DOMAIN flushes, Answer(i)
  PROVE  /\ BufferInv'
         /\ line' \in Seq(Packet) /\ flushes' \in Seq(Burst)
<1> DEFINE f == flushes[i]
           p == Head(f)
<1>1. /\ flushes' = Rest(i) /\ rtc' = rtc \ {p}
      /\ buffer' = buffer /\ elapsed' = elapsed /\ drain' = drain
  BY DEF Answer
<1>2. PICK k \in DOMAIN line : line[k] = p /\ line' = RemoveAt(line, k)
  BY DEF Answer
<1>3. /\ flushes' \in Seq(Burst) /\ Len(flushes') <= Len(flushes)
      /\ \A j \in DOMAIN flushes : j # i =>
           \E m \in DOMAIN flushes' : flushes'[m] = flushes[j]
  BY <1>1, RestKeeps
<1>4. PICK a \in Seq(Packet), b \in Seq(Packet) :
        /\ FlattenSeq(flushes) = (a \o f) \o b
        /\ FlattenSeq(flushes') = (a \o Tail(f)) \o b
  BY <1>1, RestKeeps
<1>5. /\ line \in Seq(Packet) /\ buffer \in Seq(Packet) /\ f \in Seq(Packet) /\ f # <<>>
      /\ k \in 1 .. Len(line)
  BY DEF JitterTypeOK, Burst
<1>6. line = ((a \o f) \o b) \o buffer
  BY <1>4 DEF BufferInv, LineKept
<1> HIDE DEF f
<1>7. /\ Len(a) + 1 \in 1 .. Len(line) /\ line[Len(a) + 1] = p
      /\ RemoveAt(line, Len(a) + 1) = ((a \o Tail(f)) \o b) \o buffer
  <2>1. /\ \A x, y, z \in Seq(Packet) : (x \o y) \o z = x \o (y \o z)
        /\ \A x, y \in Seq(Packet) : x \o y \in Seq(Packet)
    OBVIOUS
  <2> DEFINE d == b \o buffer
             h == f \o d
             g == Tail(f)
  <2>2. d \in Seq(Packet) /\ h \in Seq(Packet) /\ g \in Seq(Packet)
    BY <1>5, <2>1
  <2>3. h # <<>> /\ Head(h) = Head(f) /\ Tail(h) = g \o d
    <3> HIDE DEF d
    <3> QED  BY <1>5, <2>2
  <2> HIDE DEF g
  <2>4. line = a \o h /\ ((a \o g) \o b) \o buffer = a \o (g \o d)
    <3>1. ASSUME NEW y \in Seq(Packet) PROVE ((a \o y) \o b) \o buffer = a \o (y \o d)
      <4> DEFINE ay == a \o y
      <4>1. buffer \in Seq(Packet)
        BY <1>5
      <4>2. ay \in Seq(Packet) /\ d \in Seq(Packet)
        BY <2>1, <2>2
      <4>3. (ay \o b) \o buffer = ay \o d
        <5> HIDE DEF ay
        <5> QED  BY <4>1, <4>2
      <4>4. ay \o d = a \o (y \o d)
        <5> HIDE DEF d
        <5> QED  BY <4>2
      <4> QED  BY <4>3, <4>4, Zenon
    <3> QED  BY <1>5, <1>6, <2>2, <3>1
  <2> HIDE DEF d, h
  <2>5. /\ Len(a) + 1 \in 1 .. Len(a \o h) /\ (a \o h)[Len(a) + 1] = Head(h)
        /\ RemoveAt(a \o h, Len(a) + 1) = a \o Tail(h)
    BY <2>2, <2>3, RemoveMiddle
  <2> QED  BY <2>3, <2>4, <2>5 DEF g
<1>8. k = Len(a) + 1
  BY <1>2, <1>5, <1>7 DEF BufferInv, LineDistinct
<1>9. LineKept'
  BY <1>1, <1>2, <1>4, <1>7, <1>8 DEF LineKept
<1>10. /\ line' \in Seq(Packet) /\ Len(line') = Len(line) - 1
       /\ \A j \in 1 .. Len(line) - 1 : line'[j] = IF j < k THEN line[j] ELSE line[j + 1]
  BY <1>2, <1>5, RemoveAtPoint
<1>11. LineDistinct'
  BY <1>2, <1>5, RemoveDistinct DEF BufferInv, LineDistinct
<1>12. SentAreHeads'
  <2> SUFFICES ASSUME NEW q \in rtc' PROVE \E m \in DOMAIN flushes' : q = Head(flushes'[m])
    BY DEF SentAreHeads
  <2>1. q \in rtc /\ q # p
    BY <1>1
  <2>2. PICK j \in DOMAIN flushes : q = Head(flushes[j])
    BY <2>1 DEF BufferInv, SentAreHeads
  <2>3. j # i
    BY <2>1, <2>2 DEF f
  <2> QED  BY <1>3, <2>2, <2>3
<1>13. OneFlush'
  <2> SUFFICES ASSUME drain' < Start, flushes' # <<>>
               PROVE  Len(flushes') = 1 /\ elapsed' <= drain'
    BY DEF OneFlush
  <2>1. flushes' \in Seq(Burst) /\ flushes \in Seq(Burst) /\ Len(flushes') <= Len(flushes)
    BY <1>3 DEF JitterTypeOK
  <2>2. Len(flushes') \in Nat /\ Len(flushes') # 0
    BY <2>1
  <2>3. flushes # <<>>
    OBVIOUS
  <2>4. Len(flushes) = 1 /\ elapsed <= drain
    BY <1>1, <2>3 DEF BufferInv, OneFlush
  <2> QED  BY <1>1, <2>1, <2>2, <2>4
<1> QED
  BY <1>3, <1>9, <1>10, <1>11, <1>12, <1>13 DEF BufferInv

(* The packet that arrives joins the end of the line. A flush begins only  *)
(* when the delay, never below Start, is over.                             *)
LEMMA ArriveKeeps ==
  ASSUME JitterTypeOK, BufferInv, NEW p \in Packet, Arrive(p)
  PROVE  JitterTypeOK' /\ BufferInv'
<1> USE JitterAssumption
<1>1. /\ line \in Seq(Packet) /\ buffer \in Seq(Packet) /\ flushes \in Seq(Burst)
      /\ elapsed \in Nat /\ drain \in Nat /\ delay \in Nat /\ delay >= Start
  BY DEF JitterTypeOK
<1>2. line' = Append(line, p) /\ UNCHANGED <<rtc, drain, delay, pending, estimateVars>>
  BY DEF Arrive
<1>3. /\ line' \in Seq(Packet) /\ Len(line') = Len(line) + 1 /\ line'[Len(line) + 1] = p
      /\ \A j \in 1 .. Len(line) : line'[j] = line[j]
  BY <1>1, <1>2
<1>4. LineDistinct'
  <2>1. \A j \in 1 .. Len(line) : line[j] # p
    BY <1>1 DEF Arrive, Range
  <2> QED  BY <1>1, <1>3, <2>1 DEF BufferInv, LineDistinct
<1>5. /\ FlattenSeq(flushes) \in Seq(Packet)
      /\ FlattenSeq(flushes) \o Append(buffer, p) = Append(FlattenSeq(flushes) \o buffer, p)
  <2>1. FlattenSeq(flushes) \in Seq(Packet)
    BY <1>1, BurstSeq, FlattenType
  <2> HIDE DEF BufferInv
  <2>2. \A a, b \in Seq(Packet) : a \o Append(b, p) = Append(a \o b, p)
    OBVIOUS
  <2> QED  BY <1>1, <2>1, <2>2
<1>6. line' = FlattenSeq(flushes) \o Append(buffer, p)
  BY <1>2, <1>5 DEF BufferInv, LineKept
<1> DEFINE burst == Append(buffer, p)
<1>7. burst \in Seq(Packet) /\ burst \in Burst
  <2>1. burst \in Seq(Packet) /\ Len(burst) = Len(buffer) + 1 /\ Len(buffer) \in Nat
    BY <1>1
  <2>2. burst # <<>>
    BY <2>1
  <2> QED  BY <2>1, <2>2 DEF Burst
<1>8. CASE elapsed >= delay
  <2>1. buffer' = <<>> /\ flushes' = Append(flushes, Append(buffer, p)) /\ elapsed' = 0
    BY <1>8 DEF Arrive, GetOrStore
  <2> HIDE DEF burst
  <2>2. /\ flushes' \in Seq(Burst) /\ Len(flushes') = Len(flushes) + 1
        /\ DOMAIN flushes' = 1 .. Len(flushes) + 1
        /\ \A j \in 1 .. Len(flushes) : flushes'[j] = flushes[j]
    BY <1>1, <1>7, <2>1 DEF burst
  <2>3. LineKept'
    <3>1. FlattenSeq(flushes') = FlattenSeq(flushes) \o Append(buffer, p)
      <4>1. flushes \in Seq(Seq(Packet))
        BY <1>1, BurstSeq
      <4> QED  BY <1>7, <2>1, <4>1, FlattenAppend DEF burst
    <3>2. line' \o <<>> = line'
      BY <1>3
    <3> QED  BY <1>6, <2>1, <3>1, <3>2 DEF LineKept
  <2>4. SentAreHeads'
    <3> SUFFICES ASSUME NEW q \in rtc PROVE \E i \in DOMAIN flushes' : q = Head(flushes'[i])
      BY <1>2 DEF SentAreHeads
    <3>1. PICK i \in DOMAIN flushes : q = Head(flushes[i])
      BY DEF BufferInv, SentAreHeads
    <3>2. i \in 1 .. Len(flushes) /\ i \in DOMAIN flushes'
      BY <1>1, <2>2
    <3> QED  BY <2>2, <3>1, <3>2
  <2>5. OneFlush'
    <3> SUFFICES ASSUME drain < Start PROVE Len(flushes') = 1 /\ elapsed' <= drain'
      BY <1>2 DEF OneFlush
    <3>1. flushes = <<>>
      BY <1>1, <1>8 DEF BufferInv, OneFlush
    <3> QED  BY <1>1, <1>2, <2>1, <2>2, <3>1
  <2>6. JitterTypeOK'
    BY <1>2, <1>3, <2>1, <2>2, EmptySeq DEF JitterTypeOK, estimateVars
  <2> QED
    BY <1>4, <2>3, <2>4, <2>5, <2>6 DEF BufferInv
<1>9. CASE ~(elapsed >= delay)
  <2>1. buffer' = Append(buffer, p) /\ flushes' = flushes /\ elapsed' = elapsed
    BY <1>9 DEF Arrive, GetOrStore
  <2>2. JitterTypeOK'
    BY <1>2, <1>3, <1>7, <2>1 DEF JitterTypeOK, estimateVars
  <2> QED
    BY <1>2, <1>4, <1>6, <2>1, <2>2 DEF BufferInv, LineKept, SentAreHeads, OneFlush
<1> QED
  BY <1>8, <1>9

-----------------------------------------------------------------------------
(* Arithmetic in a word of W values. *)
LEMMA WordArithmetic ==
  ASSUME NEW W \in Nat, W > 0
  PROVE  /\ \A x \in Int : 0 <= x /\ x < W => x % W = x
         /\ \A x \in Int : W <= x /\ x < 2 * W => x % W = x - W
         /\ \A x \in Int : -W <= x /\ x < 0 => x % W = x + W
<1>1. \A x \in Int : 0 <= x /\ x < W => x % W = x
  OBVIOUS
<1>2. \A x \in Int : W <= x /\ x < 2 * W => x % W = x - W
  OBVIOUS
<1>3. \A x \in Int : -W <= x /\ x < 0 => x % W = x + W
  OBVIOUS
<1> QED
  BY <1>1, <1>2, <1>3

(* Multiples of the word. *)
LEMMA WordMultiples ==
  ASSUME NEW W \in Nat, W > 0, NEW k \in Int
  PROVE  /\ k * W \in Int
         /\ (k + 1) * W = k * W + W /\ (k - 1) * W = k * W - W
         /\ k >= 1 => k * W >= W
         /\ k <= -2 => k * W <= -2 * W
<1>1. k * W \in Int /\ (k + 1) * W = k * W + W /\ (k - 1) * W = k * W - W
  OBVIOUS
<1>2. k >= 1 => k * W >= W
  OBVIOUS
<1>3. k <= -2 => k * W <= -2 * W
  OBVIOUS
<1> QED
  BY <1>1, <1>2, <1>3

(* Counting the estimate up or down in a word keeps it the number net. *)
LEMMA EstimateCounts ==
  ASSUME JitterTypeOK, EstimateIsNet
  PROVE  /\ (estimate + 1) % Word \in 0 .. Word - 1
         /\ \E k \in Int : net + 1 = ((estimate + 1) % Word) + k * Word
         /\ (estimate - 1) % Word \in 0 .. Word - 1
         /\ \E k \in Int : net - 1 = ((estimate - 1) % Word) + k * Word
<1>1. Word \in Nat /\ Word > 0 /\ estimate \in 0 .. Word - 1 /\ net \in Int
  BY JitterAssumption DEF JitterTypeOK
<1>2. PICK k \in Int : net = estimate + k * Word
  BY DEF EstimateIsNet
<1>3. /\ k * Word \in Int /\ (k + 1) * Word = k * Word + Word
      /\ (k - 1) * Word = k * Word - Word
  BY <1>1, WordMultiples
<1>4. (estimate + 1) % Word = IF estimate + 1 < Word THEN estimate + 1 ELSE 0
  <2>1. CASE estimate + 1 < Word
    BY <1>1, <2>1, WordArithmetic
  <2>2. CASE ~(estimate + 1 < Word)
    <3>1. estimate + 1 = Word /\ Word <= estimate + 1 /\ estimate + 1 < 2 * Word
      BY <1>1, <2>2
    <3>2. (estimate + 1) % Word = (estimate + 1) - Word
      BY <1>1, <3>1, WordArithmetic
    <3> QED  BY <1>1, <2>2, <3>1, <3>2
  <2> QED  BY <2>1, <2>2
<1>5. (estimate - 1) % Word = IF estimate > 0 THEN estimate - 1 ELSE Word - 1
  <2>1. CASE estimate > 0
    BY <1>1, <2>1, WordArithmetic
  <2>2. CASE ~(estimate > 0)
    <3>1. estimate - 1 = -1 /\ -Word <= -1
      BY <1>1, <2>2
    <3>2. (-1) % Word = (-1) + Word
      BY <1>1, <3>1, WordArithmetic
    <3> QED  BY <1>1, <2>2, <3>1, <3>2
  <2> QED  BY <2>1, <2>2
<1>6. \E m \in Int : net + 1 = ((estimate + 1) % Word) + m * Word
  <2>1. CASE estimate + 1 < Word
    BY <1>1, <1>2, <1>3, <1>4, <2>1
  <2>2. CASE ~(estimate + 1 < Word)
    <3>1. net + 1 = ((estimate + 1) % Word) + (k + 1) * Word
      BY <1>1, <1>2, <1>3, <1>4, <2>2
    <3>2. k + 1 \in Int
      OBVIOUS
    <3> QED  BY <3>1, <3>2
  <2> QED  BY <2>1, <2>2
<1>7. \E m \in Int : net - 1 = ((estimate - 1) % Word) + m * Word
  <2>1. CASE estimate > 0
    BY <1>1, <1>2, <1>3, <1>5, <2>1
  <2>2. CASE ~(estimate > 0)
    <3>1. net - 1 = ((estimate - 1) % Word) + (k - 1) * Word
      BY <1>1, <1>2, <1>3, <1>5, <2>2
    <3>2. k - 1 \in Int
      OBVIOUS
    <3> QED  BY <3>1, <3>2
  <2> QED  BY <2>1, <2>2
<1>8. /\ (estimate + 1) % Word \in 0 .. Word - 1
      /\ (estimate - 1) % Word \in 0 .. Word - 1
  BY <1>1, <1>4, <1>5
<1> QED
  BY <1>6, <1>7, <1>8

(* What the delay will be once one more message is handled. *)
LEMMA PostSettles ==
  ASSUME JitterTypeOK, NEW m \in Message, Post(m)
  PROVE  /\ pending' \in Seq(Message)
         /\ FoldLeft(Applied, delay, pending) \in Int
         /\ FoldLeft(Applied, delay, pending) >= Start
         /\ FoldLeft(Applied, delay, pending') = Applied(FoldLeft(Applied, delay, pending), m)
<1>1. /\ pending \in Seq(Message) /\ pending' = Append(pending, m)
      /\ delay \in Int /\ delay >= Start
  BY DEF JitterTypeOK, Post
<1> QED
  <2>1. pending' \in Seq(Message)
    BY <1>1
  <2>2. FoldLeft(Applied, delay, pending) \in Int /\ FoldLeft(Applied, delay, pending) >= Start
    BY <1>1, FoldBound
  <2>3. FoldLeft(Applied, delay, Append(pending, m))
          = Applied(FoldLeft(Applied, delay, pending), m)
    BY <1>1, FoldAppend
  <2> QED  BY <1>1, <2>1, <2>2, <2>3

(* The delay, the messages and the estimate, as one answer leaves them. *)
LEMMA EstimateKeeps ==
  ASSUME JitterTypeOK, DelayCoversEstimate, EstimateIsNet, UNCHANGED delay,
         \/ Raise /\ UNCHANGED stale
         \/ Lower /\ UNCHANGED stale
         \/ Post("increase") /\ UNCHANGED <<stale, estimate, net>>
         \/ Post("decrease") /\ stale' = stale + 1 /\ UNCHANGED <<estimate, net>>
         \/ UNCHANGED <<pending, stale, estimate, net>>
  PROVE  /\ pending' \in Seq(Message) /\ estimate' \in 0 .. Word - 1
         /\ net' \in Int /\ net' <= MaxDelay /\ stale' \in Nat
         /\ DelayCoversEstimate' /\ EstimateIsNet'
<1> DEFINE settled == FoldLeft(Applied, delay, pending)
<1>1. /\ net \in Int /\ net <= MaxDelay /\ stale \in Nat /\ MaxDelay \in Nat /\ Start \in Nat
      /\ estimate \in 0 .. Word - 1 /\ pending \in Seq(Message)
  BY JitterAssumption DEF JitterTypeOK
<1>2. settled + stale >= net
  BY DEF DelayCoversEstimate
<1>3. "increase" \in Message /\ "decrease" \in Message
  BY DEF Message
<1>4. FoldLeft(Applied, delay', pending') = FoldLeft(Applied, delay, pending')
  OBVIOUS
<1>5. ASSUME Post("increase")
      PROVE  /\ pending' \in Seq(Message) /\ settled \in Int
             /\ FoldLeft(Applied, delay', pending') = settled + 1
  BY <1>3, <1>4, <1>5, PostSettles DEF Applied
<1>6. ASSUME Post("decrease")
      PROVE  /\ pending' \in Seq(Message) /\ settled \in Int
             /\ FoldLeft(Applied, delay', pending') \in {settled, settled - 1}
  BY <1>3, <1>4, <1>6, PostSettles DEF Applied
<1> HIDE DEF settled
<1>7. CASE Raise /\ UNCHANGED stale
  <2>1. net < MaxDelay /\ net' = net + 1 /\ estimate' = (estimate + 1) % Word
    BY <1>7 DEF Raise
  <2>2. /\ pending' \in Seq(Message) /\ settled \in Int
        /\ FoldLeft(Applied, delay', pending') = settled + 1
    BY <1>5, <1>7 DEF Raise
  <2>3. DelayCoversEstimate'
    BY <1>1, <1>2, <1>7, <2>1, <2>2 DEF DelayCoversEstimate
  <2>4. estimate' \in 0 .. Word - 1 /\ EstimateIsNet'
    BY <2>1, EstimateCounts DEF EstimateIsNet
  <2> QED  BY <1>1, <1>7, <2>1, <2>2, <2>3, <2>4
<1>8. CASE Lower /\ UNCHANGED stale
  <2>1. net' = net - 1 /\ estimate' = (estimate - 1) % Word
    BY <1>8 DEF Lower
  <2>2. /\ pending' \in Seq(Message) /\ settled \in Int
        /\ FoldLeft(Applied, delay', pending') \in {settled, settled - 1}
    BY <1>6, <1>8 DEF Lower
  <2>3. DelayCoversEstimate'
    BY <1>1, <1>2, <1>8, <2>1, <2>2 DEF DelayCoversEstimate
  <2>4. estimate' \in 0 .. Word - 1 /\ EstimateIsNet'
    BY <2>1, EstimateCounts DEF EstimateIsNet
  <2> QED  BY <1>1, <1>8, <2>1, <2>2, <2>3, <2>4
<1>9. CASE Post("increase") /\ UNCHANGED <<stale, estimate, net>>
  BY <1>1, <1>2, <1>5, <1>9 DEF DelayCoversEstimate, EstimateIsNet
<1>10. CASE Post("decrease") /\ stale' = stale + 1 /\ UNCHANGED <<estimate, net>>
  BY <1>1, <1>2, <1>6, <1>10 DEF DelayCoversEstimate, EstimateIsNet
<1>11. CASE UNCHANGED <<pending, stale, estimate, net>>
  BY <1>1, <1>11 DEF DelayCoversEstimate, EstimateIsNet
<1> QED
  BY <1>7, <1>8, <1>9, <1>10, <1>11

(* Every step keeps the invariant. *)
LEMMA JitterStep == JitterInv /\ [JitterNext]_jitterVars => JitterInv'
<1> SUFFICES ASSUME JitterInv, [JitterNext]_jitterVars PROVE JitterInv'
  OBVIOUS
<1>1. JitterTypeOK /\ BufferInv /\ DelayCoversEstimate /\ EstimateIsNet
  BY DEF JitterInv
<1>2. ASSUME NEW p \in Packet, Arrive(p) PROVE JitterInv'
  <2>1. JitterTypeOK' /\ BufferInv'
    BY <1>1, <1>2, ArriveKeeps
  <2>2. DelayCoversEstimate' /\ EstimateIsNet'
    BY <1>1, <1>2 DEF Arrive, estimateVars, DelayCoversEstimate, EstimateIsNet
  <2> QED  BY <2>1, <2>2 DEF JitterInv
<1>3. ASSUME NEW i \in DOMAIN flushes, Send(i) PROVE JitterInv'
  <2>1. /\ rtc' = rtc \cup {Head(flushes[i])}
        /\ UNCHANGED <<line, buffer, elapsed, flushes, drain, delay, pending>>
        /\ UNCHANGED <<replaced, estimate, net, stale>>
    BY <1>3 DEF Send, estimateVars
  <2>2. flushes[i] \in Seq(Packet) /\ flushes[i] # <<>>
    BY <1>1, <1>3 DEF JitterTypeOK, Burst
  <2>3. Head(flushes[i]) \in Packet
    BY <2>2
  <2>4. JitterTypeOK'
    BY <1>1, <2>1, <2>3 DEF JitterTypeOK
  <2>5. BufferInv'
    BY <1>1, <1>3, <2>1 DEF BufferInv, LineDistinct, LineKept, SentAreHeads, OneFlush
  <2> QED
    BY <1>1, <2>1, <2>4, <2>5 DEF JitterInv, DelayCoversEstimate, EstimateIsNet
<1>4. ASSUME NEW i \in DOMAIN flushes, Answer(i),
             \/ Raise /\ UNCHANGED stale
             \/ Lower /\ UNCHANGED stale
             \/ Post("increase") /\ UNCHANGED <<stale, estimate, net>>
             \/ Post("decrease") /\ stale' = stale + 1 /\ UNCHANGED <<estimate, net>>
             \/ UNCHANGED <<pending, stale, estimate, net>>
      PROVE  JitterInv'
  <2>1. BufferInv' /\ line' \in Seq(Packet) /\ flushes' \in Seq(Burst)
    BY <1>1, <1>4, AnswerKeeps
  <2>2. /\ UNCHANGED <<buffer, elapsed, drain, delay>>
        /\ rtc' = rtc \ {Head(flushes[i])} /\ replaced' = replaced \ {Head(flushes[i])}
    BY <1>4 DEF Answer
  <2>3. /\ pending' \in Seq(Message) /\ estimate' \in 0 .. Word - 1
        /\ net' \in Int /\ net' <= MaxDelay /\ stale' \in Nat
        /\ DelayCoversEstimate' /\ EstimateIsNet'
    BY <1>1, <1>4, <2>2, EstimateKeeps
  <2>4. JitterTypeOK'
    BY <1>1, <2>1, <2>2, <2>3 DEF JitterTypeOK
  <2> QED  BY <2>1, <2>3, <2>4 DEF JitterInv
<1>5. ASSUME NEW i \in DOMAIN flushes, FutureStep(i) PROVE JitterInv'
  <2>1. CASE Send(i)
    BY <1>3, <2>1
  <2>2. ASSUME NEW t \in Transits, Estimate(i, t) PROVE JitterInv'
    BY <1>4, <2>2 DEF Estimate
  <2>3. CASE EstimateReplaced(i)
    BY <1>4, <2>3 DEF EstimateReplaced
  <2>4. CASE Refuse(i)
    BY <1>4, <2>4 DEF Refuse
  <2> QED  BY <1>5, <2>1, <2>2, <2>3, <2>4 DEF FutureStep
<1>6. CASE Reconnect
  <2>1. /\ replaced' \subseteq rtc /\ estimate' = Start /\ net' = Start /\ stale' = 0
        /\ UNCHANGED <<line, buffer, elapsed, flushes, rtc, drain, delay, pending>>
    BY <1>6 DEF Reconnect, bufferVars
  <2>2. /\ Start \in 0 .. Word - 1 /\ Start <= MaxDelay /\ Start \in Int
        /\ Start = Start + 0 * Word
    BY JitterAssumption
  <2>3. JitterTypeOK'
    BY <1>1, <2>1, <2>2 DEF JitterTypeOK
  <2>4. BufferInv'
    BY <1>1, <2>1 DEF BufferInv, LineDistinct, LineKept, SentAreHeads, OneFlush
  <2>5. EstimateIsNet'
    BY <2>1, <2>2 DEF EstimateIsNet
  <2>6. DelayCoversEstimate'
    <3>1. delay \in Int /\ delay >= Start /\ pending \in Seq(Message)
      BY <1>1 DEF JitterTypeOK
    <3>2. FoldLeft(Applied, delay, pending) \in Int /\ FoldLeft(Applied, delay, pending) >= Start
      BY <3>1, FoldBound
    <3> QED  BY <2>1, <2>2, <3>2 DEF DelayCoversEstimate
  <2> QED  BY <2>3, <2>4, <2>5, <2>6 DEF JitterInv
<1>7. CASE Control
  <2>1. /\ pending # <<>> /\ delay' = Applied(delay, Head(pending)) /\ pending' = Tail(pending)
        /\ UNCHANGED <<line, buffer, elapsed, flushes, rtc, drain>>
        /\ UNCHANGED <<replaced, estimate, net, stale>>
    BY <1>7 DEF Control, bufferVars, estimateVars
  <2>2. /\ pending \in Seq(Message) /\ delay \in Nat /\ delay >= Start /\ Start \in Nat
    BY <1>1, JitterAssumption DEF JitterTypeOK
  <2>3. delay' \in Nat /\ delay' >= Start
    BY <2>1, <2>2 DEF Applied
  <2>4. pending' \in Seq(Message)
    BY <2>1, <2>2
  <2>5. FoldLeft(Applied, delay', pending') = FoldLeft(Applied, delay, pending)
    <3>1. delay \in Int
      BY <2>2
    <3>2. FoldLeft(Applied, Applied(delay, Head(pending)), Tail(pending))
            = FoldLeft(Applied, delay, pending)
      BY <2>1, <2>2, <3>1, FoldTail
    <3> QED  BY <2>1, <3>2
  <2>6. JitterTypeOK'
    BY <1>1, <2>1, <2>3, <2>4 DEF JitterTypeOK
  <2>7. BufferInv'
    BY <1>1, <2>1 DEF BufferInv, LineDistinct, LineKept, SentAreHeads, OneFlush
  <2> QED
    BY <1>1, <2>1, <2>5, <2>6, <2>7 DEF JitterInv, DelayCoversEstimate, EstimateIsNet
<1>8. CASE Tick
  <2>1. /\ flushes # <<>> => elapsed < drain
        /\ elapsed' = elapsed + 1
        /\ UNCHANGED <<line, buffer, flushes, rtc, drain, delay, pending>>
        /\ UNCHANGED <<replaced, estimate, net, stale>>
    BY <1>8 DEF Tick, estimateVars
  <2>2. JitterTypeOK'
    BY <1>1, <2>1 DEF JitterTypeOK
  <2>3. OneFlush'
    BY <1>1, <2>1 DEF JitterTypeOK, BufferInv, OneFlush
  <2>4. BufferInv'
    BY <1>1, <2>1, <2>3 DEF BufferInv, LineDistinct, LineKept, SentAreHeads
  <2> QED
    BY <1>1, <2>1, <2>2, <2>4 DEF JitterInv, DelayCoversEstimate, EstimateIsNet
<1>9. CASE UNCHANGED jitterVars
  BY <1>1, <1>9 DEF jitterVars, bufferVars, estimateVars, JitterInv, JitterTypeOK, BufferInv,
       LineDistinct, LineKept, SentAreHeads, OneFlush, DelayCoversEstimate, EstimateIsNet
<1> QED
  BY <1>2, <1>5, <1>6, <1>7, <1>8, <1>9 DEF JitterNext

(* The first packet is in the buffer. *)
LEMMA JitterStart == JitterInit => JitterInv
<1> SUFFICES ASSUME JitterInit PROVE JitterInv
  OBVIOUS
<1>1. PICK p \in Packet : line = <<p>> /\ buffer = <<p>>
  BY DEF JitterInit
<1>2. /\ flushes = <<>> /\ rtc = {} /\ replaced = {} /\ elapsed = 0 /\ delay = Start
      /\ estimate = Start /\ net = Start /\ stale = 0 /\ pending = <<>> /\ drain \in Drains
  BY DEF JitterInit
<1>3. /\ Start \in 0 .. Word - 1 /\ Start <= MaxDelay /\ Start \in Nat /\ drain \in Nat
      /\ Start = Start + 0 * Word
  BY <1>2, JitterAssumption
<1>4. <<p>> \in Seq(Packet) /\ Len(<<p>>) = 1 /\ <<>> \o <<p>> = <<p>>
  OBVIOUS
<1>5. <<>> \in Seq(Message) /\ <<>> \in Seq(Seq(Packet)) /\ DOMAIN <<>> = {}
  OBVIOUS
<1>6. JitterTypeOK
  BY <1>1, <1>2, <1>3, <1>4, <1>5 DEF JitterTypeOK
<1>7. LineKept
  BY <1>1, <1>2, <1>4, FlattenEmpty DEF LineKept
<1>8. LineDistinct
  BY <1>1, <1>4 DEF LineDistinct
<1>9. SentAreHeads /\ OneFlush
  BY <1>2 DEF SentAreHeads, OneFlush
<1>10. DelayCoversEstimate
  <2>1. FoldLeft(Applied, Start, <<>>) = Start
    BY <1>3, FoldEmpty
  <2> QED  BY <1>2, <1>3, <2>1 DEF DelayCoversEstimate
<1>11. EstimateIsNet
  BY <1>2, <1>3 DEF EstimateIsNet
<1> QED
  BY <1>6, <1>7, <1>8, <1>9, <1>10, <1>11 DEF JitterInv, BufferInv

(* The invariant holds throughout. *)
LEMMA JitterAlways == JitterSpec => []JitterInv
BY JitterStart, JitterStep, PTL DEF JitterSpec

(* The variables have their types: the delay is never below                *)
(* JITTER_BUFFER_START_DELAY, and no future is left with nothing to send.  *)
THEOREM JitterTyped == JitterSpec => []JitterTypeOK
<1>1. JitterInv => JitterTypeOK
  BY DEF JitterInv
<1> QED
  BY <1>1, JitterAlways, PTL

(* No packet is lost, duplicated or stored out of order between the socket *)
(* and RtcActor, however many flushes, of whatever length, are on their    *)
(* way.                                                                    *)
THEOREM LineIsKept == JitterSpec => []LineKept
<1>1. JitterInv => LineKept
  BY DEF JitterInv, BufferInv
<1> QED
  BY <1>1, JitterAlways, PTL

(* If RtcActor handles a flushed buffer before the shortest delay is over, *)
(* RTP packets are handled in the order of their arrival.                  *)
THEOREM PromptHandlingKeepsOrder == JitterSpec => []HandledInOrder
<1>1. JitterInv => HandledInOrder
  <2> SUFFICES ASSUME JitterInv, drain < Start, NEW p \in rtc
               PROVE  line # <<>> /\ p = Head(line)
    BY DEF HandledInOrder
  <2>1. PICK i \in DOMAIN flushes : p = Head(flushes[i])
    BY DEF JitterInv, BufferInv, SentAreHeads
  <2>2. flushes \in Seq(Burst) /\ buffer \in Seq(Packet) /\ i \in 1 .. Len(flushes)
    BY DEF JitterInv, JitterTypeOK
  <2>3. Len(flushes) = 1
    BY <2>2 DEF JitterInv, BufferInv, OneFlush
  <2>4. i = 1 /\ flushes[1] \in Seq(Packet) /\ flushes[1] # <<>>
    <3>1. 1 \in 1 .. Len(flushes) /\ i = 1
      BY <2>2, <2>3
    <3> QED  BY <2>2, <3>1, BurstSeq
  <2> DEFINE f == flushes[1]
  <2>5. flushes = <<f>> /\ p = Head(f) /\ f \in Seq(Packet) /\ f # <<>>
    BY <2>1, <2>2, <2>3, <2>4
  <2> HIDE DEF f
  <2>6. FlattenSeq(<<f>>) = f
    BY <2>5, FlattenSingle
  <2>7. line = f \o buffer
    BY <2>5, <2>6 DEF JitterInv, BufferInv, LineKept
  <2>8. f \o buffer # <<>> /\ Head(f \o buffer) = Head(f)
    BY <2>2, <2>5
  <2> QED  BY <2>5, <2>7, <2>8
<1> QED
  BY <1>1, JitterAlways, PTL

(* Once its messages are handled the delay is at least what the Client's   *)
(* statistics ask for, whatever number of messages are on their way.       *)
THEOREM DelayIsEnough == JitterSpec => []DelayCoversEstimate
<1>1. JitterInv => DelayCoversEstimate
  BY DEF JitterInv
<1> QED
  BY <1>1, JitterAlways, PTL

(* The threshold is right for every word, although the estimate wraps. *)
THEOREM ThresholdIsExact == JitterSpec => []ThresholdExact
<1>1. JitterInv => ThresholdExact
  <2> SUFFICES ASSUME JitterInv, net + Volatile >= 0
               PROVE  (estimate + Volatile) % Word = net + Volatile
    BY DEF ThresholdExact, Threshold
  <2>1. /\ Word \in Nat /\ Word > 0 /\ MaxDelay \in Nat /\ Volatile \in Nat
        /\ MaxDelay + Volatile < Word
        /\ estimate \in 0 .. Word - 1 /\ net \in Int /\ net <= MaxDelay
    BY JitterAssumption DEF JitterInv, JitterTypeOK
  <2>2. PICK k \in Int : net = estimate + k * Word
    BY DEF JitterInv, EstimateIsNet
  <2>3. /\ k * Word \in Int /\ k >= 1 => k * Word >= Word
        /\ k <= -2 => k * Word <= -2 * Word
    BY <2>1, WordMultiples
  <2>4. k = 0 \/ k = -1
    BY <2>1, <2>2, <2>3
  <2>5. CASE k = 0
    <3>1. net = estimate /\ 0 <= estimate + Volatile /\ estimate + Volatile < Word
      BY <2>1, <2>2, <2>5
    <3> QED  BY <2>1, <3>1, WordArithmetic
  <2>6. CASE k = -1
    <3>1. /\ net = estimate - Word
          /\ Word <= estimate + Volatile /\ estimate + Volatile < 2 * Word
      BY <2>1, <2>2, <2>6
    <3>2. (estimate + Volatile) % Word = (estimate + Volatile) - Word
      BY <2>1, <3>1, WordArithmetic
    <3> QED  BY <2>1, <3>1, <3>2
  <2> QED  BY <2>4, <2>5, <2>6
<1> QED
  BY <1>1, JitterAlways, PTL

=============================================================================
