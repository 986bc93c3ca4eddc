----------------------------- MODULE SeqLemmas -----------------------------
(***************************************************************************)
(* Facts about sequences used as queues, on which the proofs of the stages *)
(* rest: what Append at one end and Head and Tail at the other do to a     *)
(* concatenation of queues.  And induction over numbers and sequences, in  *)
(* terms of sets: the set of what a claim is true of is all there is.      *)
(***************************************************************************)
EXTENDS Integers, Sequences, SequenceTheorems, NaturalsInduction, WellFoundedInduction, TLAPS

\* A sequence of one payload (what a goroutine holds in its hand).
LEMMA Singleton ==
    ASSUME NEW S, NEW d \in S
    PROVE  /\ <<d>> \in Seq(S)
           /\ Len(<<d>>) = 1
           /\ <<d>> # <<>>
           /\ Head(<<d>>) = d
<1>1. <<d>> \in Seq(S) /\ Len(<<d>>) = 1
    OBVIOUS
<1>2. <<d>> # <<>>
    BY <1>1, EmptySeq
<1>3. Head(<<d>>) = <<d>>[1]
    BY <1>1, <1>2, HeadTailProperties
<1>4. QED
    BY <1>1, <1>2, <1>3

\* Three queues in a row, in either grouping.
LEMMA Regroup ==
    ASSUME NEW S, NEW q \in Seq(S), NEW r \in Seq(S), NEW s \in Seq(S)
    PROVE  (q \o r) \o s = q \o (r \o s)
OBVIOUS

\* A payload appended to the last queue is appended to the whole pipeline
\* (Enqueue against the history of accepted payloads).
LEMMA AppendToLast ==
    ASSUME NEW S, NEW s \in Seq(S), NEW t \in Seq(S), NEW d \in S
    PROVE  s \o Append(t, d) = Append(s \o t, d)
<1>1. s \o t \in Seq(S) /\ <<d>> \in Seq(S)
    BY ConcatProperties
<1>2. Append(t, d) = t \o <<d>> /\ Append(s \o t, d) = (s \o t) \o <<d>>
    BY <1>1, AppendIsConcat
<1>3. (s \o t) \o <<d>> = s \o (t \o <<d>>)
    BY <1>1, Regroup
<1>4. QED
    BY <1>2, <1>3

\* A non-empty queue is its head in front of its tail (a receive).
LEMMA HeadThenTail ==
    ASSUME NEW S, NEW t \in Seq(S), t # <<>>
    PROVE  /\ <<Head(t)>> \o Tail(t) = t
           /\ Head(t) \in S
           /\ Tail(t) \in Seq(S)
           /\ Len(Tail(t)) = Len(t) - 1
<1>1. Len(t) \in Nat /\ Len(t) >= 1
    BY EmptySeq
<1>2. Head(t) \in S /\ Tail(t) \in Seq(S) /\ Len(Tail(t)) = Len(t) - 1
    BY HeadTailProperties
<1>3. t = SubSeq(t, 1, Len(t))
    BY SubSeqFull
<1>4. SubSeq(t, 1, Len(t)) = <<t[1]>> \o SubSeq(t, 2, Len(t))
    BY <1>1, SubSeqRecursiveFirst
<1>5. Tail(t) = SubSeq(t, 2, Len(t)) /\ Head(t) = t[1]
    BY TailIsSubSeq
<1>6. QED
    BY <1>2, <1>3, <1>4, <1>5

\* Moving the head of a queue to the end of the queue downstream of it
\* leaves their concatenation as it was.
LEMMA MoveHead ==
    ASSUME NEW S, NEW s \in Seq(S), NEW t \in Seq(S), t # <<>>
    PROVE  Append(s, Head(t)) \o Tail(t) = s \o t
<1>1. /\ <<Head(t)>> \o Tail(t) = t
      /\ Head(t) \in S
      /\ Tail(t) \in Seq(S)
    BY HeadThenTail
<1>2. Append(s, Head(t)) = s \o <<Head(t)>>
    BY <1>1, AppendIsConcat
<1>3. <<Head(t)>> \in Seq(S)
    BY <1>1
<1>4. (s \o <<Head(t)>>) \o Tail(t) = s \o (<<Head(t)>> \o Tail(t))
  <2> DEFINE h == <<Head(t)>>
             u == Tail(t)
  <2>1. h \in Seq(S) /\ u \in Seq(S)
      BY <1>1, <1>3
  <2> HIDE DEF h, u
  <2>2. QED
      BY <2>1, Regroup
<1>5. QED
    BY <1>1, <1>2, <1>4

\* Held between two queues, the head of the upstream one keeps its place
\* (a receive, seen from the pipeline around it).
LEMMA HoldHead ==
    ASSUME NEW S, NEW s \in Seq(S), NEW t \in Seq(S), t # <<>>
    PROVE  (s \o <<Head(t)>>) \o Tail(t) = s \o t
<1>1. Head(t) \in S
    BY HeadThenTail
<1>2. Append(s, Head(t)) = s \o <<Head(t)>>
    BY <1>1, AppendIsConcat
<1>3. QED
    BY <1>2, MoveHead

\* A payload held between two queues reaches the end of the downstream one
\* (a send of what the hand holds).
LEMMA SendHeld ==
    ASSUME NEW S, NEW r \in Seq(S), NEW s \in Seq(S), NEW h \in Seq(S),
           h # <<>>, Len(h) <= 1
    PROVE  /\ r \o Append(s, Head(h)) = (r \o s) \o h
           /\ r \o Append(s, Head(h)) \in Seq(S)
<1>1. /\ Head(h) \in S /\ Tail(h) \in Seq(S)
      /\ Len(Tail(h)) = Len(h) - 1
    BY HeadThenTail
<1>2. Tail(h) = <<>>
  <2>1. Len(h) \in Nat /\ Len(Tail(h)) \in Nat
      BY <1>1, LenProperties
  <2>2. Len(Tail(h)) = 0
      BY <1>1, <2>1
  <2>3. QED
      BY <1>1, <2>2, EmptySeq
<1>3. Append(s, Head(h)) \in Seq(S)
    BY <1>1, AppendProperties
<1>4. Append(s, Head(h)) = s \o h
    BY <1>2, <1>3, MoveHead, ConcatEmptySeq
<1>5. r \o (s \o h) = (r \o s) \o h
    BY Regroup
<1>6. r \o Append(s, Head(h)) \in Seq(S)
    BY <1>3, ConcatProperties
<1>7. QED
    BY <1>4, <1>5, <1>6

\* The first Len(s) elements of s \o t are s.
LEMMA PrefixOfConcat ==
    ASSUME NEW S, NEW s \in Seq(S), NEW t \in Seq(S)
    PROVE  SubSeq(s \o t, 1, Len(s)) = s
<1>1. CASE s = <<>>
  <2>1. SubSeq(s \o t, 1, 0) = <<>>
      BY SubSeqEmpty
  <2>2. QED
      BY <1>1, <2>1, EmptySeq
<1>2. CASE s # <<>>
  <2>1. Len(s) \in Nat /\ Len(s) >= 1
      BY <1>2, EmptySeq
  <2>2. SubSeq(s \o t, 1, Len(s)) = SubSeq(s, 1, Len(s))
      BY <2>1, SubSeqOfConcat1
  <2>3. QED
      BY <2>2, SubSeqFull
<1>3. QED
    BY <1>1, <1>2

\* w begins with q.
Begins(S, w, q) == \E v \in Seq(S) : w = q \o v

\* A pipeline of three queues, and one of four, begin with the first.
LEMMA FirstOfThree ==
    ASSUME NEW S, NEW q \in Seq(S), NEW r \in Seq(S), NEW s \in Seq(S)
    PROVE  Begins(S, (q \o r) \o s, q)
<1>1. (q \o r) \o s = q \o (r \o s)
    BY Regroup
<1>2. r \o s \in Seq(S)
    BY ConcatProperties
<1>3. QED
    BY <1>1, <1>2 DEF Begins

LEMMA FirstOfFour ==
    ASSUME NEW S, NEW q \in Seq(S), NEW r \in Seq(S), NEW s \in Seq(S), NEW t \in Seq(S)
    PROVE  Begins(S, ((q \o r) \o s) \o t, q)
<1>1. (q \o r) \o s = q \o (r \o s)
    BY Regroup
<1>2. r \o s \in Seq(S)
    BY ConcatProperties
<1>3. Begins(S, (q \o (r \o s)) \o t, q)
    BY <1>2, FirstOfThree
<1>4. QED
    BY <1>1, <1>3

\* What begins a beginning begins the whole.
LEMMA BeginsFurther ==
    ASSUME NEW S, NEW q \in Seq(S), NEW p, NEW w, Begins(S, p, q), Begins(S, w, p)
    PROVE  Begins(S, w, q)
<1>1. PICK r \in Seq(S) : p = q \o r
    BY DEF Begins
<1>2. PICK s \in Seq(S) : w = p \o s
    BY DEF Begins
<1>3. Begins(S, (q \o r) \o s, q)
    BY FirstOfThree
<1>4. QED
    BY <1>1, <1>2, <1>3

\* t is a longer beginning of w than s.
Extends(w, s, t) == \E n \in (Len(s) + 1) .. Len(w) : t = SubSeq(w, 1, n)

\* A queue that grew by c, and is still how w begins.
LEMMA LongerPrefix ==
    ASSUME NEW S, NEW s \in Seq(S), NEW c \in Seq(S), NEW w \in Seq(S),
           c # <<>>, Begins(S, w, s \o c)
    PROVE  Extends(w, s, s \o c)
<1>1. PICK p \in Seq(S) : p = s \o c /\ Len(p) = Len(s) + Len(c)
    BY ConcatProperties
<1>b. PICK v \in Seq(S) : w = p \o v
    BY <1>1 DEF Begins
<1>2. Len(w) = Len(p) + Len(v)
    BY <1>b, ConcatProperties
<1>3. Len(s) \in Nat /\ Len(c) \in Nat /\ Len(v) \in Nat /\ Len(c) # 0
    BY LenProperties, EmptySeq
<1>4. SubSeq(w, 1, Len(p)) = p
    BY <1>b, PrefixOfConcat
<1>5. Len(p) \in (Len(s) + 1) .. Len(w)
  <2>1. PICK i \in Nat, j \in Nat, k \in Nat : i = Len(s) /\ j = Len(c) /\ k = Len(v) /\ j # 0
      BY <1>3
  <2>2. i + j \in (i + 1) .. (i + j + k)
      BY <2>1
  <2>3. QED
      BY <1>1, <1>2, <2>1, <2>2
<1>6. QED
    BY <1>1, <1>4, <1>5 DEF Extends

\* What a receive leaves in the channel, by its positions.
LEMMA TailPositions ==
    ASSUME NEW S, NEW t \in Seq(S), t # <<>>
    PROVE  /\ 1 \in DOMAIN t /\ Head(t) = t[1]
           /\ \A i \in DOMAIN Tail(t) : /\ i + 1 \in DOMAIN t /\ i + 1 # 1
                                       /\ Tail(t)[i] = t[i + 1]
           /\ \A j \in DOMAIN t : j # 1 => /\ j - 1 \in DOMAIN Tail(t)
                                          /\ Tail(t)[j - 1] = t[j]
<1>1. Len(t) \in Nat /\ Len(t) >= 1 /\ DOMAIN t = 1..Len(t)
    BY EmptySeq, LenProperties
<1>2. /\ Head(t) = t[1]
      /\ Tail(t) \in Seq(S) /\ Len(Tail(t)) = Len(t) - 1
      /\ \A i \in 1 .. Len(Tail(t)) : Tail(t)[i] = t[i + 1]
    BY HeadTailProperties
<1>3. DOMAIN Tail(t) = 1..(Len(t) - 1)
    BY <1>2, LenProperties
<1>4. QED
    BY <1>1, <1>2, <1>3

\* What a send leaves in it.
LEMMA AppendPositions ==
    ASSUME NEW S, NEW t \in Seq(S), NEW d \in S
    PROVE  LET end == Len(t) + 1 IN
           /\ DOMAIN Append(t, d) = DOMAIN t \cup {end}
           /\ end \notin DOMAIN t
           /\ \A i \in DOMAIN t : Append(t, d)[i] = t[i]
           /\ Append(t, d)[end] = d
<1>1. Len(t) \in Nat /\ DOMAIN t = 1..Len(t)
    BY LenProperties
<1>2. /\ Append(t, d) \in Seq(S)
      /\ Len(Append(t, d)) = Len(t) + 1
      /\ \A i \in 1..Len(t) : Append(t, d)[i] = t[i]
      /\ Append(t, d)[Len(t) + 1] = d
    BY AppendProperties
<1>3. DOMAIN Append(t, d) = 1..(Len(t) + 1)
    BY <1>2, LenProperties
<1>4. QED
    BY <1>1, <1>2, <1>3

-----------------------------------------------------------------------------
(* Induction and recursion. *)

\* A set of natural numbers has a least element.
LEMMA Least ==
    ASSUME NEW T, T \subseteq Nat, T # {}
    PROVE  \E x \in T : \A y \in T : x <= y
<1>1. PICK x \in T : \A y \in T : <<y, x>> \notin OpToRel(<, Nat)
    BY NatLessThanWellFounded, WFMin
<1>2. \A y \in T : ~(y < x)
    BY <1>1 DEF OpToRel
<1>3. QED
    BY <1>2

\* What holds of 0 and with n - 1 of n, up to N, holds of all numbers up to N.
LEMMA UpTo ==
    ASSUME NEW N \in Nat, NEW T,
           0 \in T, \A n \in 1..N : n - 1 \in T => n \in T
    PROVE  0..N \subseteq T
<1> DEFINE Bad == {n \in 0..N : n \notin T}
<1> SUFFICES ASSUME Bad # {} PROVE FALSE
    OBVIOUS
<1>0. Bad \subseteq Nat
    OBVIOUS
<1>1. PICK x \in Bad : \A y \in Bad : x <= y
  <2> HIDE DEF Bad
  <2> QED
      BY <1>0, Least
<1>2. x \in 1..N /\ x - 1 \in 0..N
    BY <1>1
<1>3. x - 1 \in T
    BY <1>1, <1>2
<1>4. QED
    BY <1>1, <1>2, <1>3

\* Functions that take the same steps agree.
LEMMA RecursionUnique ==
    ASSUME NEW N \in Nat, NEW f, NEW g, f[0] = g[0],
           \A n \in 1..N : f[n - 1] = g[n - 1] => f[n] = g[n]
    PROVE  \A n \in 0..N : f[n] = g[n]
<1> DEFINE T == {n \in 0..N : f[n] = g[n]}
<1>1. 0 \in T /\ \A n \in 1..N : n - 1 \in T => n \in T
    OBVIOUS
<1>2. 0..N \subseteq T
  <2> HIDE DEF T
  <2> QED
    BY <1>1, UpTo
<1>3. QED
    BY <1>2

\* Induction over sequences: what holds of <<>> and is kept by Append holds
\* of all.
LEMMA SequencesUpTo ==
    ASSUME NEW D, NEW T, <<>> \in T,
           \A s \in Seq(D), d \in D : s \in T => Append(s, d) \in T
    PROVE  Seq(D) \subseteq T
<1> DEFINE Bad == {n \in Nat : \E t \in Seq(D) : Len(t) = n /\ t \notin T}
<1> SUFFICES ASSUME NEW t0 \in Seq(D), t0 \notin T PROVE FALSE
    OBVIOUS
<1>1. Bad # {} /\ Bad \subseteq Nat
    BY LenProperties
<1>2. PICK n \in Bad : \A m \in Bad : n <= m
  <2> HIDE DEF Bad
  <2> QED
      BY <1>1, Least
<1>3. PICK t \in Seq(D) : Len(t) = n /\ t \notin T
    OBVIOUS
<1>4. PICK s \in Seq(D), d \in D : t = Append(s, d)
    BY <1>3, SequenceEmptyOrAppend
<1>5. s \notin T
    BY <1>3, <1>4
<1>6. Len(s) \in Nat /\ Len(t) = Len(s) + 1
    BY <1>4, LenProperties, AppendProperties
<1>7. Len(s) \in Bad
    BY <1>5, <1>6
<1>8. QED
  <2> HIDE DEF Bad
  <2> QED
      BY <1>2, <1>3, <1>6, <1>7

\* f follows a fold along s: from base, a step for each element.
Way(f, step, base, s, n) ==
    f[0] = base /\ \A k \in 1..n : f[k] = step[f[k - 1]][s[k]]

\* There is such a way.
LEMMA WayExists ==
    ASSUME NEW D, NEW S, NEW base \in S, NEW step \in [S -> [D -> S]],
           NEW N \in Nat, NEW s, \A k \in 1..N : s[k] \in D
    PROVE  \E f \in [0..N -> S] : Way(f, step, base, s, N)
<1> DEFINE T == {n \in 0..N : \E f \in [0..N -> S] : Way(f, step, base, s, n)}
<1>1. 0 \in T
  <2>1. Way([n \in 0..N |-> base], step, base, s, 0)
      BY DEF Way
  <2>2. [n \in 0..N |-> base] \in [0..N -> S]
      OBVIOUS
  <2>3. QED
      BY <2>1, <2>2
<1>2. ASSUME NEW n \in 1..N, n - 1 \in T PROVE n \in T
  <2>1. PICK f \in [0..N -> S] : Way(f, step, base, s, n - 1)
      BY <1>2
  <2> DEFINE x == step[f[n - 1]][s[n]]
             g == [f EXCEPT ![n] = x]
  <2>2. f[n - 1] \in S /\ s[n] \in D
      BY <2>1
  <2>3. x \in S
      BY <2>2
  <2>4. g[n] = x /\ \A k \in 0..(n - 1) : g[k] = f[k]
    <3> HIDE DEF x
    <3> QED
        BY <2>1
  <2>5. g \in [0..N -> S]
    <3> HIDE DEF x
    <3> QED
        BY <2>1, <2>3
  <2> HIDE DEF g
  <2>6. g[0] = base
      BY <2>1, <2>4 DEF Way
  <2>7. ASSUME NEW k \in 1..n PROVE g[k] = step[g[k - 1]][s[k]]
    <3>1. g[k - 1] = f[k - 1]
        BY <2>4
    <3>2. CASE k = n
        BY <2>4, <3>1, <3>2
    <3>3. CASE k # n
      <4>1. k \in 1..(n - 1)
          BY <3>3
      <4>2. f[k] = step[f[k - 1]][s[k]]
          BY <2>1, <4>1 DEF Way
      <4>3. QED
          BY <2>4, <3>1, <4>1, <4>2
    <3>4. QED
        BY <3>2, <3>3
  <2>8. Way(g, step, base, s, n)
      BY <2>6, <2>7 DEF Way
  <2>9. QED
      BY <2>5, <2>8
<1>3. 0..N \subseteq T
  <2> HIDE DEF T
  <2> QED
      BY <1>1, <1>2, UpTo
<1>4. QED
    BY <1>3

\* The way along the first N elements of t, and one that goes on.
LEMMA WaysAgree ==
    ASSUME NEW N \in Nat, NEW step, NEW base, NEW f, NEW g, NEW t,
           Way(f, step, base, t, N), Way(g, step, base, t, N + 1)
    PROVE  g[N + 1] = step[f[N]][t[N + 1]]
<1>1. f[0] = g[0] /\ \A n \in 1..N : f[n - 1] = g[n - 1] => f[n] = g[n]
    BY DEF Way
<1>2. \A n \in 0..N : f[n] = g[n]
    BY <1>1, RecursionUnique
<1>3. N + 1 \in 1..(N + 1) /\ (N + 1) - 1 = N
    OBVIOUS
<1>4. g[N + 1] = step[g[N]][t[N + 1]]
    BY <1>3 DEF Way
<1>5. QED
    BY <1>2, <1>4

\* F is a fold from the left: it starts with base, takes one step for each
\* element appended, and agrees with the loop that computes it.
IsFold(F, D, S, step, base) ==
    /\ F \in [Seq(D) -> S]
    /\ F[<<>>] = base
    /\ \A s \in Seq(D), d \in D : F[Append(s, d)] = step[F[s]][d]
    /\ \A s \in Seq(D) : \E f \in [0..Len(s) -> S] :
          Way(f, step, base, s, Len(s)) /\ f[Len(s)] = F[s]

\* Every fold has a value, for every sequence.
LEMMA FoldExists ==
    ASSUME NEW D, NEW S, NEW base \in S, NEW step \in [S -> [D -> S]]
    PROVE  \E F : IsFold(F, D, S, step, base)
<1> DEFINE The(s) == CHOOSE f \in [0..Len(s) -> S] : Way(f, step, base, s, Len(s))
           F == [s \in Seq(D) |-> The(s)[Len(s)]]
<1>1. ASSUME NEW s \in Seq(D)
      PROVE  /\ Len(s) \in Nat
             /\ The(s) \in [0..Len(s) -> S] /\ Way(The(s), step, base, s, Len(s))
  <2>1. Len(s) \in Nat /\ \A n \in 1..Len(s) : s[n] \in D
      BY LenProperties, ElementOfSeq
  <2>2. \E f \in [0..Len(s) -> S] : Way(f, step, base, s, Len(s))
      BY <2>1, WayExists
  <2>3. QED
      BY <2>1, <2>2
<1> HIDE DEF The
<1>2. ASSUME NEW s \in Seq(D) PROVE The(s)[Len(s)] \in S
    BY <1>1
<1>3. F \in [Seq(D) -> S] /\ \A s \in Seq(D) : F[s] = The(s)[Len(s)]
    BY <1>2
<1> HIDE DEF F
<1>4. F[<<>>] = base
  <2>1. <<>> \in Seq(D) /\ Len(<<>>) = 0
      BY EmptySeq
  <2>2. QED
      BY <1>1, <1>3, <2>1 DEF Way
<1>5. ASSUME NEW s \in Seq(D), NEW d \in D PROVE F[Append(s, d)] = step[F[s]][d]
  <2>1. /\ Append(s, d) \in Seq(D) /\ Len(Append(s, d)) = Len(s) + 1
        /\ Append(s, d)[Len(s) + 1] = d
        /\ \A n \in 1..Len(s) : Append(s, d)[n] = s[n]
      BY AppendProperties
  <2>2. PICK t \in Seq(D) : t = Append(s, d)
      BY <2>1
  <2>3. PICK N \in Nat : N = Len(s)
      BY <1>1
  <2>4. Len(t) = N + 1 /\ t[N + 1] = d /\ \A n \in 1..N : t[n] = s[n]
      BY <2>1, <2>2, <2>3
  <2>5. Way(The(s), step, base, s, N) /\ Way(The(t), step, base, t, N + 1)
      BY <1>1, <2>3, <2>4
  <2>6. The(t)[N + 1] = step[The(s)[N]][t[N + 1]]
    <3>1. Way(The(s), step, base, t, N)
        BY <2>4, <2>5 DEF Way
    <3>2. QED
        BY <2>5, <3>1, WaysAgree
  <2>7. F[t] = The(t)[N + 1] /\ F[s] = The(s)[N]
      BY <1>3, <2>3, <2>4
  <2>8. QED
      BY <2>2, <2>4, <2>6, <2>7
<1>6. ASSUME NEW s \in Seq(D)
      PROVE  \E f \in [0..Len(s) -> S] :
                   Way(f, step, base, s, Len(s)) /\ f[Len(s)] = F[s]
    BY <1>1, <1>3
<1>7. IsFold(F, D, S, step, base)
    BY <1>3, <1>4, <1>5, <1>6 DEF IsFold
<1>8. QED
    BY <1>7

\* A function that makes the same turns as the way of a fold computes it.
LEMMA LoopIsFold ==
    ASSUME NEW N \in Nat, NEW f, NEW g, g[0] = f[0],
           \A n \in 1..N : g[n - 1] = f[n - 1] => g[n] = f[n]
    PROVE  g[N] = f[N]
<1>1. \A n \in 0..N : g[n] = f[n]
    BY RecursionUnique
<1>2. QED
    BY <1>1
=============================================================================
