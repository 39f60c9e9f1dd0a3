--------------------------- MODULE RequestsProofs ---------------------------
(***************************************************************************)
(* Theorems about Requests, for requests of any length.  Whatever the two  *)
(* translations and the properties do with a sequence is to collect what   *)
(* becomes of each of its elements; collections concatenate and compose.   *)
(***************************************************************************)
EXTENDS Requests, SequenceTheorems, FiniteSetTheorems, WellFoundedInduction, TLAPS

-----------------------------------------------------------------------------
(* Sequences                                                               *)

\* Induction over the natural numbers, with a set in place of a predicate.
LEMMA SetInduction ==
  ASSUME NEW S, 0 \in S, \A n \in Nat : n \in S => n + 1 \in S
  PROVE  \A n \in Nat : n \in S
<1> DEFINE T == {n \in Nat : n \notin S}
<1>1. SUFFICES ASSUME T # {} PROVE FALSE
  OBVIOUS
<1>2. PICK x \in T : \A y \in T : ~ (<<y, x>> \in OpToRel(<, Nat))
  BY <1>1, NatLessThanWellFounded, WFMin, Zenon
<1>3. x \in Nat /\ x # 0
  OBVIOUS
<1>4. x - 1 \in Nat /\ x - 1 < x /\ (x - 1) + 1 = x
  BY <1>3
<1>5. <<x - 1, x>> \in OpToRel(<, Nat)
  BY <1>3, <1>4 DEF OpToRel
<1>6. x - 1 \notin T
  BY <1>2, <1>5
<1> QED BY <1>3, <1>4, <1>6

\* FlattenSeq has a value, and it is the one that its recursion says.
LEMMA FlattenRecursion ==
  ASSUME NEW P, NEW s \in Seq(Seq(P))
  PROVE  \E f :
           /\ f[0] = <<>>
           /\ \A n \in 1..Len(s) : f[n] = f[n - 1] \o s[n]
           /\ \A n \in 0..Len(s) : f[n] \in Seq(P)
           /\ FlattenSeq(s) = f[Len(s)]
<1> DEFINE Body(f, n) == [i \in 1..n |-> IF i = 1 THEN s[i] ELSE f[i - 1] \o s[i]]
           S == {n \in Nat : \E f : f = Body(f, n)}
<1>1. 0 \in S
  <2> DEFINE f == [i \in 1..0 |-> <<>>]
  <2>1. f = Body(f, 0)
    OBVIOUS
  <2> HIDE DEF f
  <2> QED BY <2>1
<1>2. ASSUME NEW n \in Nat, n \in S PROVE n + 1 \in S
  <2>1. PICK f : f = Body(f, n)
    BY <1>2
  <2> DEFINE g == [i \in 1..(n + 1) |->
                     IF i # n + 1 THEN f[i] ELSE IF i = 1 THEN s[i] ELSE f[n] \o s[i]]
  <2>2. ASSUME NEW i \in 1..(n + 1)
        PROVE  g[i] = IF i = 1 THEN s[i] ELSE g[i - 1] \o s[i]
    <3>1. CASE i = n + 1
      BY <3>1
    <3>2. CASE i # n + 1
      <4>1. i \in 1..n /\ g[i] = f[i]
        BY <3>2
      <4>2. f[i] = IF i = 1 THEN s[i] ELSE f[i - 1] \o s[i]
        BY <2>1, <4>1
      <4>3. i # 1 => g[i - 1] = f[i - 1]
        BY <4>1
      <4> HIDE DEF g
      <4> QED BY <4>1, <4>2, <4>3
    <3> QED BY <3>1, <3>2
  <2>3. g = [i \in 1..(n + 1) |-> g[i]]
    OBVIOUS
  <2> HIDE DEF g
  <2>4. g = Body(g, n + 1)
    BY <2>2, <2>3
  <2> HIDE DEF Body
  <2> QED BY <2>4
<1>3. Len(s) \in Nat
  OBVIOUS
<1>4. \E f : f = Body(f, Len(s))
  <2> HIDE DEF Body
  <2>1. \A n \in Nat : n \in S
    <3> HIDE DEF S
    <3> QED BY <1>1, <1>2, SetInduction
  <2> QED BY <1>3, <2>1
<1> DEFINE b == CHOOSE f : f = Body(f, Len(s))
<1>5. b = Body(b, Len(s))
  BY <1>4
<1>6. Len(s) # 0 => FlattenSeq(s) = b[Len(s)]
  BY DEF FlattenSeq
<1> HIDE DEF b
<1> DEFINE f == [n \in 0..Len(s) |-> IF n = 0 THEN <<>> ELSE b[n]]
<1>7. \A n \in 1..Len(s) : f[n] = f[n - 1] \o s[n]
  <2> SUFFICES ASSUME NEW n \in 1..Len(s) PROVE f[n] = f[n - 1] \o s[n]
    OBVIOUS
  <2>1. b[n] = IF n = 1 THEN s[n] ELSE b[n - 1] \o s[n]
    BY <1>5
  <2>2. f[n] = b[n] /\ f[n - 1] = IF n = 1 THEN <<>> ELSE b[n - 1]
    BY <1>3
  <2>3. s[n] \in Seq(P)
    OBVIOUS
  <2> HIDE DEF f
  <2>4. n = 1 => <<>> \o s[n] = s[n]
    BY <2>3, ConcatEmptySeq
  <2> QED BY <2>1, <2>2, <2>4
<1>8. f[0] = <<>> /\ FlattenSeq(s) = f[Len(s)]
  <2>1. CASE Len(s) = 0
    <3>1. FlattenSeq(s) = s /\ s = <<>>
      BY <2>1 DEF FlattenSeq
    <3> QED BY <2>1, <3>1
  <2>2. CASE Len(s) # 0
    BY <1>3, <1>6, <2>2
  <2> QED BY <2>1, <2>2
<1> HIDE DEF f
<1>9. \A n \in 0..Len(s) : f[n] \in Seq(P)
  <2> DEFINE R == {n \in Nat : n <= Len(s) => f[n] \in Seq(P)}
  <2>1. 0 \in R
    <3>1. <<>> \in Seq(P)
      OBVIOUS
    <3> QED BY <1>8, <3>1
  <2>2. ASSUME NEW n \in Nat, n \in R PROVE n + 1 \in R
    <3>1. CASE n + 1 <= Len(s)
      <4>1. f[n] \in Seq(P) /\ n + 1 \in 1..Len(s) /\ (n + 1) - 1 = n
        BY <1>3, <2>2, <3>1
      <4>2. s[n + 1] \in Seq(P)
        BY <4>1
      <4>3. f[n + 1] = f[n] \o s[n + 1]
        BY <1>7, <4>1
      <4>4. f[n + 1] \in Seq(P)
        BY <4>1, <4>2, <4>3
      <4> QED BY <4>4
    <3>2. CASE ~(n + 1 <= Len(s))
      BY <3>2
    <3> QED BY <3>1, <3>2
  <2>3. \A n \in Nat : n \in R
    <3> HIDE DEF R
    <3> QED BY <2>1, <2>2, SetInduction
  <2> QED BY <1>3, <2>3
<1> QED BY <1>7, <1>8, <1>9

\* One sequence more comes last.
LEMMA FlattenAppend ==
  ASSUME NEW P, NEW s \in Seq(Seq(P)), NEW x \in Seq(P)
  PROVE  FlattenSeq(Append(s, x)) = FlattenSeq(s) \o x
<1> DEFINE t == Append(s, x)
<1>1. /\ t \in Seq(Seq(P)) /\ Len(s) \in Nat /\ Len(t) = Len(s) + 1
      /\ t[Len(s) + 1] = x
      /\ \A n \in 1..Len(s) : t[n] = s[n]
  OBVIOUS
<1> HIDE DEF t
<1>2. PICK f : /\ f[0] = <<>>
               /\ \A n \in 1..Len(s) : f[n] = f[n - 1] \o s[n]
               /\ FlattenSeq(s) = f[Len(s)]
  BY FlattenRecursion
<1>3. PICK g : /\ g[0] = <<>>
               /\ \A n \in 1..Len(t) : g[n] = g[n - 1] \o t[n]
               /\ FlattenSeq(t) = g[Len(t)]
  BY <1>1, FlattenRecursion
<1> DEFINE S == {n \in Nat : n <= Len(s) => g[n] = f[n]}
<1>4. 0 \in S
  BY <1>2, <1>3
<1>5. ASSUME NEW n \in Nat, n \in S PROVE n + 1 \in S
  <2>1. CASE n + 1 <= Len(s)
    <3>1. g[n] = f[n] /\ n + 1 \in 1..Len(s) /\ n + 1 \in 1..Len(t) /\ (n + 1) - 1 = n
      BY <1>1, <1>5, <2>1
    <3>2. f[n + 1] = f[n] \o s[n + 1] /\ g[n + 1] = g[n] \o t[n + 1] /\ t[n + 1] = s[n + 1]
      BY <1>1, <1>2, <1>3, <3>1
    <3>3. g[n + 1] = f[n + 1]
      <4>1. g[n + 1] = f[n] \o s[n + 1]
        BY <3>1, <3>2, Zenon
      <4> QED BY <3>2, <4>1, Zenon
    <3> QED BY <3>3
  <2>2. CASE ~(n + 1 <= Len(s))
    BY <2>2
  <2> QED BY <2>1, <2>2
<1>6. \A n \in Nat : n \in S
  <2> HIDE DEF S
  <2> QED BY <1>4, <1>5, SetInduction
<1>7. g[Len(s)] = f[Len(s)]
  BY <1>1, <1>6
<1>8. Len(s) + 1 \in 1..Len(t) /\ (Len(s) + 1) - 1 = Len(s)
  BY <1>1
<1>9. FlattenSeq(t) = FlattenSeq(s) \o x
  BY <1>1, <1>2, <1>3, <1>7, <1>8
<1> QED BY <1>9 DEF t
\* Induction over the length of sequences.
LEMMA SeqInduction ==
  ASSUME NEW P, NEW Q, <<>> \in Q,
         \A s \in Seq(P), x \in P : s \in Q => Append(s, x) \in Q
  PROVE  \A s \in Seq(P) : s \in Q
<1> DEFINE S == {n \in Nat : \A s \in Seq(P) : Len(s) = n => s \in Q}
<1>1. 0 \in S
  <2>1. \A s \in Seq(P) : Len(s) = 0 => s = <<>>
    OBVIOUS
  <2> QED BY <2>1
<1>2. ASSUME NEW n \in Nat, n \in S PROVE n + 1 \in S
  <2> SUFFICES ASSUME NEW s \in Seq(P), Len(s) = n + 1 PROVE s \in Q
    OBVIOUS
  <2>1. PICK t \in Seq(P), x \in P : Len(t) = n /\ s = Append(t, x)
    <3> DEFINE t == SubSeq(s, 1, n)
    <3>1. t \in Seq(P) /\ Len(t) = n /\ s[n + 1] \in P /\ s = Append(t, s[n + 1])
      OBVIOUS
    <3> HIDE DEF t
    <3> QED BY <3>1
  <2> QED BY <1>2, <2>1
<1>3. \A n \in Nat : n \in S
  <2> HIDE DEF S
  <2> QED BY <1>1, <1>2, SetInduction
<1>4. \A s \in Seq(P) : Len(s) \in Nat
  OBVIOUS
<1> QED BY <1>3, <1>4

\* Sequences with the same elements are the same.
LEMMA SameSequence ==
  ASSUME NEW P, NEW s \in Seq(P), NEW t \in Seq(P), Len(t) = Len(s),
         \A i \in 1..Len(s) : t[i] = s[i]
  PROVE  t = s
OBVIOUS

-----------------------------------------------------------------------------
(* Collections                                                             *)

\* What f makes of the elements of s, one after the other.
Collect(s, f) == FlattenSeq([i \in DOMAIN s |-> f[s[i]]])

\* Of an element of P, f makes a sequence of elements of Q, and h one such.
Makes(f, P, Q) == \A x \in P : f[x] \in Seq(Q)
Turns(h, P, Q) == \A x \in P : h[x] \in Q

\* An element at a time.
LEMMA CollectFacts ==
  ASSUME NEW P, NEW Q, NEW f, Makes(f, P, Q)
  PROVE  /\ Collect(<<>>, f) = <<>>
         /\ \A s \in Seq(P) : Collect(s, f) \in Seq(Q)
         /\ \A s \in Seq(P), x \in P : Collect(Append(s, x), f) = Collect(s, f) \o f[x]
<1> DEFINE M(s) == [i \in DOMAIN s |-> f[s[i]]]
           T == Seq(Q)
<1>1. Collect(<<>>, f) = <<>>
  BY DEF Collect, FlattenSeq
<1>2. \A s : Collect(s, f) = FlattenSeq(M(s))
  BY DEF Collect
<1>3. \A x \in P : f[x] \in T
  BY DEF Makes
<1>4. ASSUME NEW s \in Seq(P) PROVE M(s) \in Seq(T) /\ Len(M(s)) = Len(s)
  <2>1. DOMAIN s = 1..Len(s) /\ Len(s) \in Nat /\ \A i \in 1..Len(s) : s[i] \in P
    OBVIOUS
  <2> HIDE DEF T
  <2>2. \A i \in 1..Len(s) : f[s[i]] \in T
    BY <1>3, <2>1
  <2> QED BY <2>1, <2>2
<1>5. ASSUME NEW s \in Seq(P), NEW x \in P
      PROVE  M(Append(s, x)) = Append(M(s), f[x])
  <2>1. DOMAIN s = 1..Len(s) /\ Len(s) \in Nat
    OBVIOUS
  <2>2. /\ DOMAIN Append(s, x) = 1..(Len(s) + 1)
        /\ \A i \in 1..Len(s) : Append(s, x)[i] = s[i]
        /\ Append(s, x)[Len(s) + 1] = x
        /\ Append(s, x) \in Seq(P) /\ Len(Append(s, x)) = Len(s) + 1
    OBVIOUS
  <2> DEFINE a == M(s)
             b == M(Append(s, x))
             y == f[x]
  <2>3. a \in Seq(T) /\ Len(a) = Len(s) /\ \A i \in 1..Len(s) : a[i] = f[s[i]]
    <3>1. M(s) \in Seq(T) /\ Len(M(s)) = Len(s)
      BY <1>4
    <3> QED BY <2>1, <3>1
  <2>4. /\ b \in Seq(T) /\ Len(b) = Len(s) + 1
        /\ \A i \in 1..Len(s) : b[i] = f[s[i]]
        /\ b[Len(s) + 1] = y
    <3>1. M(Append(s, x)) \in Seq(T) /\ Len(M(Append(s, x))) = Len(Append(s, x))
      BY <1>4, <2>2, Zenon
    <3> QED BY <2>1, <2>2, <3>1
  <2>5. y \in T
    BY <1>3
  <2> HIDE DEF a, b, y, T
  <2> DEFINE c == Append(a, y)
  <2>6. /\ c \in Seq(T) /\ Len(c) = Len(s) + 1
        /\ \A i \in 1..Len(s) : c[i] = a[i]
        /\ c[Len(s) + 1] = y
    BY <2>3, <2>5
  <2> HIDE DEF c
  <2>7. \A i \in 1..(Len(s) + 1) : b[i] = c[i]
    <3>1. \A i \in 1..(Len(s) + 1) : i \in 1..Len(s) \/ i = Len(s) + 1
      BY <2>1
    <3> QED BY <2>3, <2>4, <2>6, <3>1
  <2>10. b = c
    BY <2>4, <2>6, <2>7, SameSequence
  <2> QED BY <2>10 DEF a, b, c, y
<1>6. ASSUME NEW s \in Seq(P) PROVE Collect(s, f) \in Seq(Q)
  <2>1. M(s) \in Seq(Seq(Q))
    BY <1>4
  <2> HIDE DEF M
  <2>2. PICK g : (\A n \in 0..Len(M(s)) : g[n] \in Seq(Q)) /\ FlattenSeq(M(s)) = g[Len(M(s))]
    BY <2>1, FlattenRecursion
  <2>3. Len(M(s)) \in 0..Len(M(s))
    BY <2>1
  <2> QED BY <1>2, <2>2, <2>3
<1>7. ASSUME NEW s \in Seq(P), NEW x \in P
      PROVE  Collect(Append(s, x), f) = Collect(s, f) \o f[x]
  <2>1. M(s) \in Seq(Seq(Q)) /\ f[x] \in Seq(Q)
    BY <1>3, <1>4
  <2>2. FlattenSeq(Append(M(s), f[x])) = FlattenSeq(M(s)) \o f[x]
    <3> HIDE DEF M
    <3> QED BY <2>1, FlattenAppend
  <2> HIDE DEF M
  <2> QED BY <1>2, <1>5, <2>2
<1> QED BY <1>1, <1>6, <1>7

LEMMA CollectAppend ==
  ASSUME NEW P, NEW Q, NEW f, Makes(f, P, Q), NEW s \in Seq(P), NEW x \in P
  PROVE  Collect(Append(s, x), f) = Collect(s, f) \o f[x]
<1>1. \A t \in Seq(P), y \in P : Collect(Append(t, y), f) = Collect(t, f) \o f[y]
  BY CollectFacts
<1> QED BY <1>1, Zenon

LEMMA CollectTyped ==
  ASSUME NEW P, NEW Q, NEW f, Makes(f, P, Q), NEW s \in Seq(P)
  PROVE  Collect(s, f) \in Seq(Q)
BY CollectFacts

LEMMA CollectEmpty == \A f : Collect(<<>>, f) = <<>>
BY DEF Collect, FlattenSeq

LEMMA CollectOne ==
  ASSUME NEW P, NEW Q, NEW f, Makes(f, P, Q), NEW x \in P
  PROVE  Collect(<<x>>, f) = f[x]
<1>1. <<>> \in Seq(P) /\ <<x>> = Append(<<>>, x)
  OBVIOUS
<1>2. Collect(Append(<<>>, x), f) = Collect(<<>>, f) \o f[x]
  BY <1>1, CollectAppend
<1>3. <<>> \o f[x] = f[x]
  <2>1. f[x] \in Seq(Q)
    BY DEF Makes
  <2> QED BY <2>1, ConcatEmptySeq
<1> QED BY <1>1, <1>2, <1>3, CollectEmpty

\* Functions that agree make the same of a sequence.
LEMMA CollectAgree ==
  ASSUME NEW P, NEW s \in Seq(P), NEW f, NEW g, \A x \in P : f[x] = g[x]
  PROVE  Collect(s, f) = Collect(s, g)
<1>1. \A i \in DOMAIN s : f[s[i]] = g[s[i]]
  OBVIOUS
<1>2. [i \in DOMAIN s |-> f[s[i]]] = [i \in DOMAIN s |-> g[s[i]]]
  BY <1>1, Zenon
<1> QED BY <1>2, Zenon DEF Collect

LEMMA CollectConcat ==
  ASSUME NEW P, NEW Q, NEW f, Makes(f, P, Q), NEW s \in Seq(P), NEW t \in Seq(P)
  PROVE  Collect(s \o t, f) = Collect(s, f) \o Collect(t, f)
<1> DEFINE R == {u \in Seq(P) : Collect(s \o u, f) = Collect(s, f) \o Collect(u, f)}
           a == Collect(s, f)
<1>0. a \in Seq(Q)
  BY CollectTyped
<1>1. <<>> \in R
  <2>1. s \o <<>> = s /\ a \o <<>> = a
    BY <1>0, ConcatEmptySeq
  <2>2. Collect(s \o <<>>, f) = a \o Collect(<<>>, f)
    <3> HIDE DEF a
    <3>1. Collect(s, f) = a
      BY DEF a
    <3> QED BY <2>1, <3>1, CollectEmpty, Zenon
  <2> QED BY <2>2
<1>2. ASSUME NEW u \in Seq(P), NEW x \in P, u \in R PROVE Append(u, x) \in R
  <2> DEFINE b == Collect(u, f)
  <2>1. s \o Append(u, x) = Append(s \o u, x) /\ s \o u \in Seq(P)
    OBVIOUS
  <2>2. Collect(Append(s \o u, x), f) = Collect(s \o u, f) \o f[x]
    BY <2>1, CollectAppend, Zenon
  <2>3. Collect(Append(u, x), f) = b \o f[x]
    BY CollectAppend, Zenon
  <2>4. Collect(s \o u, f) = a \o b
    BY <1>2
  <2>5. b \in Seq(Q) /\ f[x] \in Seq(Q)
    BY CollectTyped DEF Makes
  <2> HIDE DEF a, b
  <2>6. (a \o b) \o f[x] = a \o (b \o f[x])
    <3> DEFINE y == f[x]
    <3> HIDE DEF y
    <3>1. (a \o b) \o y = a \o (b \o y)
      <4>1. y \in Seq(Q)
        BY <2>5 DEF y
      <4>2. \A p, q, r \in Seq(Q) : (p \o q) \o r = p \o (q \o r)
        BY ConcatAssociative
      <4> QED BY <1>0, <2>5, <4>1, <4>2, Zenon
    <3> QED BY <3>1 DEF y
  <2>7. Collect(s \o Append(u, x), f) = a \o Collect(Append(u, x), f)
    BY <2>1, <2>2, <2>3, <2>4, <2>6
  <2> QED BY <2>7 DEF a
<1>3. t \in R
  <2> HIDE DEF R
  <2> QED BY <1>1, <1>2, SeqInduction
<1> QED BY <1>3

\* To collect from a collection is to collect what is made of what is made.
LEMMA CollectTwice ==
  ASSUME NEW P, NEW Q, NEW R, NEW f, NEW g,
         Makes(f, P, Q), Makes(g, Q, R), NEW s \in Seq(P)
  PROVE  Collect(Collect(s, f), g) = Collect(s, [x \in P |-> Collect(f[x], g)])
<1> DEFINE h == [x \in P |-> Collect(f[x], g)]
           U == {t \in Seq(P) : Collect(Collect(t, f), g) = Collect(t, h)}
<1>0. Makes(h, P, R) /\ \A x \in P : h[x] = Collect(f[x], g)
  <2>1. \A x \in P : f[x] \in Seq(Q)
    BY DEF Makes
  <2>2. \A x \in P : Collect(f[x], g) \in Seq(R)
    BY <2>1, CollectTyped, Zenon
  <2> QED BY <2>2 DEF Makes
<1> HIDE DEF h
<1>1. <<>> \in U
  <2>1. Collect(<<>>, f) = <<>> /\ Collect(<<>>, g) = <<>> /\ Collect(<<>>, h) = <<>>
    BY CollectEmpty, Zenon
  <2> QED BY <2>1
<1>2. ASSUME NEW t \in Seq(P), NEW x \in P, t \in U PROVE Append(t, x) \in U
  <2>1. Collect(Append(t, x), f) = Collect(t, f) \o f[x]
    BY CollectAppend, Zenon
  <2>2. Collect(t, f) \in Seq(Q) /\ f[x] \in Seq(Q)
    BY CollectTyped DEF Makes
  <2>3. Collect(Collect(t, f) \o f[x], g) = Collect(Collect(t, f), g) \o Collect(f[x], g)
    <3> DEFINE a == Collect(t, f)
               b == f[x]
    <3>1. a \in Seq(Q) /\ b \in Seq(Q)
      BY <2>2
    <3> HIDE DEF a, b
    <3>2. Collect(a \o b, g) = Collect(a, g) \o Collect(b, g)
      <4>1. \A p, q \in Seq(Q) : Collect(p \o q, g) = Collect(p, g) \o Collect(q, g)
        BY CollectConcat
      <4> QED BY <3>1, <4>1, Zenon
    <3> QED BY <3>2 DEF a, b
  <2>4. Collect(Append(t, x), h) = Collect(t, h) \o h[x]
    BY <1>0, CollectAppend, Zenon
  <2>5. Collect(Collect(t, f), g) = Collect(t, h) /\ h[x] = Collect(f[x], g)
    BY <1>0, <1>2
  <2>6. Collect(Collect(Append(t, x), f), g) = Collect(Append(t, x), h)
    BY <2>1, <2>3, <2>4, <2>5, Zenon
  <2> QED BY <2>6
<1>3. s \in U
  <2> HIDE DEF U
  <2> QED BY <1>1, <1>2, SeqInduction
<1> QED BY <1>3 DEF h

\* To make one of each is to collect ones.
LEMMA MapCollects ==
  ASSUME NEW P, NEW Q, NEW h, Turns(h, P, Q), NEW s \in Seq(P)
  PROVE  [i \in DOMAIN s |-> h[s[i]]] = Collect(s, [x \in P |-> <<h[x]>>])
<1> DEFINE f == [x \in P |-> <<h[x]>>]
           M(t) == [i \in DOMAIN t |-> h[t[i]]]
           U == {t \in Seq(P) : M(t) = Collect(t, f)}
<1>0. Makes(f, P, Q) /\ \A x \in P : f[x] = <<h[x]>>
  BY DEF Makes, Turns
<1> HIDE DEF f
<1>1. <<>> \in U
  <2>1. M(<<>>) = Collect(<<>>, f)
    <3>1. Collect(<<>>, f) = <<>>
      BY CollectEmpty, Zenon
    <3> QED BY <3>1
  <2> HIDE DEF M
  <2> QED BY <2>1
<1>2. ASSUME NEW t \in Seq(P), NEW x \in P, t \in U PROVE Append(t, x) \in U
  <2>1. Collect(Append(t, x), f) = Collect(t, f) \o <<h[x]>>
    <3>1. Collect(Append(t, x), f) = Collect(t, f) \o f[x]
      BY <1>0, CollectAppend, Zenon
    <3> QED BY <1>0, <3>1
  <2>2. M(t) \in Seq(Q) /\ h[x] \in Q /\ Len(M(t)) = Len(t) /\ DOMAIN t = 1..Len(t) /\ Len(t) \in Nat
    BY DEF Turns
  <2>3. M(t) = Collect(t, f)
    BY <1>2
  <2>4. M(Append(t, x)) = Append(M(t), h[x])
    <3> DEFINE a == M(t)
               b == M(Append(t, x))
               y == h[x]
               c == Append(a, y)
    <3>1. /\ b \in Seq(Q) /\ Len(b) = Len(t) + 1
          /\ \A i \in 1..Len(t) : b[i] = a[i]
          /\ b[Len(t) + 1] = y
      <4>1. /\ DOMAIN Append(t, x) = 1..(Len(t) + 1)
            /\ \A i \in 1..Len(t) : Append(t, x)[i] = t[i]
            /\ Append(t, x)[Len(t) + 1] = x
        OBVIOUS
      <4> QED BY <2>2, <4>1
    <3>2. a \in Seq(Q) /\ Len(a) = Len(t) /\ y \in Q
      BY <2>2
    <3> HIDE DEF a, b, y
    <3>3. c \in Seq(Q) /\ Len(c) = Len(t) + 1 /\ (\A i \in 1..Len(t) : c[i] = a[i]) /\ c[Len(t) + 1] = y
      BY <3>2
    <3> HIDE DEF c
    <3>4. \A i \in 1..Len(b) : c[i] = b[i]
      <4>1. \A i \in 1..(Len(t) + 1) : i \in 1..Len(t) \/ i = Len(t) + 1
        BY <2>2
      <4> QED BY <3>1, <3>3, <4>1
    <3>5. c = b
      BY <3>1, <3>3, <3>4, SameSequence
    <3> QED BY <3>5 DEF a, b, y, c
  <2>5. \A u \in Seq(Q), y \in Q : Append(u, y) = u \o <<y>>
    OBVIOUS
  <2>6. M(Append(t, x)) = Collect(Append(t, x), f)
    <3> HIDE DEF M
    <3> QED BY <2>1, <2>2, <2>3, <2>4, <2>5
  <2> HIDE DEF M
  <2> QED BY <2>6
<1>3. s \in U
  <2> HIDE DEF U
  <2> QED BY <1>1, <1>2, SeqInduction
<1> QED BY <1>3 DEF f

LEMMA CollectNone ==
  ASSUME NEW P, NEW f, \A x \in P : f[x] = <<>>, NEW s \in Seq(P)
  PROVE  Collect(s, f) = <<>>
<1> DEFINE U == {t \in Seq(P) : Collect(t, f) = <<>>}
<1>0. Makes(f, P, P) /\ \A x \in P : f[x] = <<>>
  <2>1. <<>> \in Seq(P)
    OBVIOUS
  <2> QED BY <2>1 DEF Makes
<1>1. <<>> \in U
  <2>1. Collect(<<>>, f) = <<>>
    BY CollectEmpty, Zenon
  <2> QED BY <2>1
<1>2. ASSUME NEW t \in Seq(P), NEW x \in P, t \in U PROVE Append(t, x) \in U
  <2>1. Collect(Append(t, x), f) = Collect(t, f) \o f[x]
    BY <1>0, CollectAppend, Zenon
  <2>2. Collect(t, f) = <<>> /\ f[x] = <<>>
    BY <1>0, <1>2
  <2>3. Collect(Append(t, x), f) = <<>>
    BY <2>1, <2>2
  <2> QED BY <2>3
<1>3. s \in U
  <2> HIDE DEF U
  <2> QED BY <1>1, <1>2, SeqInduction
<1> QED BY <1>3

\* Those is a collection of what is in the set.
Kept(P, S) == [x \in P |-> IF x \in S THEN <<x>> ELSE <<>>]

LEMMA KeptMakes ==
  ASSUME NEW P, NEW S
  PROVE  /\ Makes(Kept(P, S), P, P) /\ Makes(Kept(P, S), P, P \cap S)
         /\ \A x \in P : /\ x \in S => Kept(P, S)[x] = <<x>>
                         /\ x \notin S => Kept(P, S)[x] = <<>>
<1> DEFINE R == P \cap S
<1>1. ASSUME NEW x \in P
      PROVE  /\ Kept(P, S)[x] \in Seq(P) /\ Kept(P, S)[x] \in Seq(R)
             /\ x \in S => Kept(P, S)[x] = <<x>>
             /\ x \notin S => Kept(P, S)[x] = <<>>
  <2>1. CASE x \in S
    <3>1. x \in R /\ Kept(P, S)[x] = <<x>>
      BY <2>1 DEF Kept
    <3> HIDE DEF R
    <3> QED BY <2>1, <3>1
  <2>2. CASE x \notin S
    <3>1. Kept(P, S)[x] = <<>>
      BY <2>2 DEF Kept
    <3> QED BY <2>2, <3>1
  <2> QED BY <2>1, <2>2
<1> QED BY <1>1 DEF Makes

LEMMA ThoseCollects ==
  ASSUME NEW P, NEW S, NEW s \in Seq(P)
  PROVE  Those(s, S) = Collect(s, Kept(P, S))
<1>1. \A i \in DOMAIN s : s[i] \in P
  OBVIOUS
<1>2. \A i \in DOMAIN s : Kept(P, S)[s[i]] = IF s[i] \in S THEN <<s[i]>> ELSE <<>>
  BY <1>1, Zenon DEF Kept
<1>3. [i \in DOMAIN s |-> IF s[i] \in S THEN <<s[i]>> ELSE <<>>]
        = [i \in DOMAIN s |-> Kept(P, S)[s[i]]]
  BY <1>2, Zenon
<1> QED BY <1>3, Zenon DEF Those, Collect

LEMMA ThoseTyped ==
  ASSUME NEW P, NEW S, NEW s \in Seq(P)
  PROVE  Those(s, S) \in Seq(P) /\ Those(s, S) \in Seq(P \cap S)
<1>1. Collect(s, Kept(P, S)) \in Seq(P) /\ Collect(s, Kept(P, S)) \in Seq(P \cap S)
  BY KeptMakes, CollectTyped
<1> QED BY <1>1, ThoseCollects

\* Those of a sequence that is typed, of one that is empty.
LEMMA ThoseEmpty == \A S : Those(<<>>, S) = <<>>
BY DEF Those, FlattenSeq

LEMMA ThoseConcat ==
  ASSUME NEW P, NEW S, NEW s \in Seq(P), NEW t \in Seq(P)
  PROVE  Those(s \o t, S) = Those(s, S) \o Those(t, S)
<1>1. s \o t \in Seq(P)
  OBVIOUS
<1>2. Collect(s \o t, Kept(P, S)) = Collect(s, Kept(P, S)) \o Collect(t, Kept(P, S))
  <2>1. Makes(Kept(P, S), P, P)
    BY KeptMakes
  <2> DEFINE f == Kept(P, S)
  <2> HIDE DEF f
  <2>2. Makes(f, P, P)
    BY <2>1 DEF f
  <2>3. \A p, q \in Seq(P) : Collect(p \o q, f) = Collect(p, f) \o Collect(q, f)
    BY <2>2, CollectConcat
  <2> QED BY <2>3, Zenon DEF f
<1> QED BY <1>1, <1>2, ThoseCollects

\* Of the same elements two sets make the same.
LEMMA ThoseAgree ==
  ASSUME NEW P, NEW A, NEW B, NEW s \in Seq(P), \A x \in P : x \in A <=> x \in B
  PROVE  Those(s, A) = Those(s, B)
<1>1. \A i \in DOMAIN s : s[i] \in A <=> s[i] \in B
  OBVIOUS
<1>2. [i \in DOMAIN s |-> IF s[i] \in A THEN <<s[i]>> ELSE <<>>]
        = [i \in DOMAIN s |-> IF s[i] \in B THEN <<s[i]>> ELSE <<>>]
  BY <1>1, Zenon
<1> QED BY <1>2, Zenon DEF Those

\* To choose twice is to choose those in both sets.
LEMMA ThoseTwice ==
  ASSUME NEW P, NEW A, NEW B, NEW s \in Seq(P)
  PROVE  Those(Those(s, A), B) = Those(s, A \cap B)
<1> DEFINE f == Kept(P, A)
           g == Kept(P, B)
           h == Kept(P, A \cap B)
           fg == [x \in P |-> Collect(f[x], g)]
<1>1. Makes(f, P, P) /\ Makes(g, P, P)
  BY KeptMakes
<1>2. Those(s, A) = Collect(s, f) /\ Those(s, A) \in Seq(P) /\ Those(s, A \cap B) = Collect(s, h)
  BY ThoseCollects, ThoseTyped
<1>3. Those(Those(s, A), B) = Collect(Those(s, A), g)
  BY <1>2, ThoseCollects
<1>4. Collect(Collect(s, f), g) = Collect(s, fg)
  <2> HIDE DEF f, g
  <2> QED BY <1>1, CollectTwice
<1>5. ASSUME NEW x \in P PROVE fg[x] = h[x]
  <2>1. Collect(<<>>, g) = <<>> /\ Collect(<<x>>, g) = g[x]
    <3> HIDE DEF g
    <3> QED BY <1>1, CollectEmpty, CollectOne
  <2> HIDE DEF g
  <2>2. fg[x] = IF x \in A THEN g[x] ELSE <<>>
    BY <2>1 DEF Kept
  <2>3. g[x] = IF x \in B THEN <<x>> ELSE <<>>
    BY DEF g, Kept
  <2>4. h[x] = IF x \in A /\ x \in B THEN <<x>> ELSE <<>>
    BY DEF Kept
  <2> QED BY <2>2, <2>3, <2>4
<1>6. Collect(s, fg) = Collect(s, h)
  <2> HIDE DEF fg, h
  <2> QED BY <1>5, CollectAgree
<1> QED BY <1>2, <1>3, <1>4, <1>6

LEMMA ThoseAll ==
  ASSUME NEW P, NEW S, P \subseteq S, NEW s \in Seq(P)
  PROVE  Those(s, S) = s
<1> DEFINE h == [x \in P |-> x]
           f == [x \in P |-> <<h[x]>>]
<1>1. \A x \in P : Kept(P, S)[x] = f[x]
  BY DEF Kept
<1>2. Collect(s, Kept(P, S)) = Collect(s, f)
  <2> HIDE DEF f
  <2> QED BY <1>1, CollectAgree
<1>3. [i \in DOMAIN s |-> h[s[i]]] = Collect(s, f)
  <2>1. Turns(h, P, P)
    BY DEF Turns
  <2> HIDE DEF h
  <2> QED BY <2>1, MapCollects
<1>4. [i \in DOMAIN s |-> h[s[i]]] = s
  OBVIOUS
<1> QED BY <1>2, <1>3, <1>4, ThoseCollects

LEMMA ThoseNone ==
  ASSUME NEW P, NEW S, \A x \in P : x \notin S, NEW s \in Seq(P)
  PROVE  Those(s, S) = <<>>
<1>1. \A x \in P : Kept(P, S)[x] = <<>>
  BY DEF Kept
<1>2. Collect(s, Kept(P, S)) = <<>>
  BY <1>1, CollectNone
<1> QED BY <1>2, ThoseCollects

-----------------------------------------------------------------------------
(* What is said                                                            *)

OpenaiContent == Seq(TextBlocks \cup Images)
Calls == [id : CallIds, arguments : Arguments]
TextResults == [type : {"tool_result"}, id : CallIds, content : Seq(TextBlocks)]
Speakers == {"user", "assistant", "tool", "system"}

\* The kinds of blocks are apart.
LEMMA Kinds ==
  /\ \A b \in TextBlocks : b.type = "text"
  /\ \A b \in Images : b.type = "image"
  /\ \A b \in Uses : b.type = "tool_use" /\ b.input \in Arguments /\ b.input # "not JSON"
  /\ \A b \in Results : b.type = "tool_result"
  /\ \A b \in Carried : b \in TextBlocks \/ b \in Images
  /\ \A b \in Carried : b \notin Results /\ b \notin Uses
  /\ \A b \in TextBlocks : b \in Carried /\ b \notin Uses /\ b \notin Results /\ b \notin Images
  /\ \A b \in Uses : b \notin TextBlocks /\ b \notin Results
  /\ \A b \in Results : b \notin Carried /\ b \notin TextBlocks /\ b \notin Uses
  /\ TextBlocks \cup Images \subseteq Blocks /\ Carried \subseteq Blocks /\ Uses \subseteq Blocks
  /\ Results \subseteq Blocks /\ TextBlocks \subseteq Blocks
BY DEF TextBlocks, Images, Uses, Results, Carried, Blocks

\* A sequence of elements of a set is one of elements of a larger set.
LEMMA Wider ==
  ASSUME NEW P, NEW Q, P \subseteq Q, NEW s \in Seq(P)
  PROVE  s \in Seq(Q)
OBVIOUS

LEMMA TextsTyped ==
  ASSUME NEW c \in Seq(Blocks)
  PROVE  Texts(c) \in Seq(TextBlocks) /\ Texts(c) \in OpenaiContent /\ Texts(c) \in Seq(Blocks)
<1>1. Texts(c) \in Seq(Blocks \cap TextBlocks) /\ Texts(c) \in Seq(Blocks)
  BY ThoseTyped DEF Texts
<1>2. Texts(c) \in Seq(TextBlocks) /\ Texts(c) \in Seq(TextBlocks \cup Images)
  BY <1>1, Wider
<1> QED BY <1>1, <1>2 DEF OpenaiContent

LEMMA TextsOfTexts ==
  ASSUME NEW c \in Seq(TextBlocks)
  PROVE  Texts(c) = c
BY ThoseAll DEF Texts

\* A block as the other side hears it: of a tool's result the text.
Bare(b) == IF b \in Results THEN [b EXCEPT !.content = Texts(b.content)] ELSE b

LEMMA BareFacts ==
  ASSUME NEW b \in Blocks
  PROVE  Bare(b) \in Blocks /\ Bare(b).type = b.type
<1>1. CASE b \in Results
  <2>1. b.content \in Seq(TextBlocks \cup Images) /\ b.id \in CallIds
    BY <1>1 DEF Results
  <2>2. b.content \in Seq(Blocks)
    BY <2>1, Wider, Kinds
  <2>3. Texts(b.content) \in Seq(TextBlocks \cup Images)
    BY <2>2, TextsTyped DEF OpenaiContent
  <2>4. Bare(b) \in Results /\ Bare(b).type = b.type
    BY <1>1, <2>1, <2>3 DEF Bare, Results
  <2> QED BY <2>4, Kinds
<1>2. CASE b \notin Results
  BY <1>2 DEF Bare
<1> QED BY <1>1, <1>2

\* What who says with the blocks of S in c.
Tells(S, who) == [b \in Blocks |-> IF b \in S THEN <<[who |-> who, what |-> Bare(b)]>> ELSE <<>>]
Told(c, S, who) == Collect(c, Tells(S, who))
OfType(type) == {b \in Blocks : b.type = type}

LEMMA TellsFacts ==
  ASSUME NEW S, NEW who \in Speakers
  PROVE  /\ Makes(Tells(S, who), Blocks, Sayings)
         /\ \A b \in Blocks :
              /\ b \in S => Tells(S, who)[b] = <<[who |-> who, what |-> Bare(b)]>>
              /\ b \notin S => Tells(S, who)[b] = <<>>
              /\ [who |-> who, what |-> Bare(b)] \in Sayings
<1>1. ASSUME NEW b \in Blocks
      PROVE  /\ [who |-> who, what |-> Bare(b)] \in Sayings
             /\ b \in S => Tells(S, who)[b] = <<[who |-> who, what |-> Bare(b)]>>
             /\ b \notin S => Tells(S, who)[b] = <<>>
  <2>1. [who |-> who, what |-> Bare(b)] \in Sayings
    BY BareFacts DEF Sayings, Speakers
  <2> QED BY <2>1 DEF Tells
<1>2. \A x \in Sayings : <<x>> \in Seq(Sayings)
  OBVIOUS
<1>3. <<>> \in Seq(Sayings)
  OBVIOUS
<1>4. \A b \in Blocks : Tells(S, who)[b] \in Seq(Sayings)
  BY <1>1, <1>2, <1>3
<1> QED BY <1>1, <1>4 DEF Makes

LEMMA ToldTyped ==
  ASSUME NEW S, NEW who \in Speakers, NEW c \in Seq(Blocks)
  PROVE  Told(c, S, who) \in Seq(Sayings)
<1>1. Makes(Tells(S, who), Blocks, Sayings)
  BY TellsFacts
<1> QED BY <1>1, CollectTyped DEF Told

LEMMA ToldAgree ==
  ASSUME NEW A, NEW B, NEW who, NEW c \in Seq(Blocks), \A b \in Blocks : b \in A <=> b \in B
  PROVE  Told(c, A, who) = Told(c, B, who)
<1>1. \A b \in Blocks : Tells(A, who)[b] = Tells(B, who)[b]
  BY DEF Tells
<1> QED BY <1>1, CollectAgree DEF Told

LEMMA ToldNone ==
  ASSUME NEW S, NEW who, NEW c \in Seq(Blocks), \A b \in Blocks : b \notin S
  PROVE  Told(c, S, who) = <<>>
<1>1. \A b \in Blocks : Tells(S, who)[b] = <<>>
  BY DEF Tells
<1> QED BY <1>1, CollectNone DEF Told

\* Of what is told, who says of a type what it is told of that type.
LEMMA ToldFiltered ==
  ASSUME NEW S, NEW teller \in Speakers, NEW who \in Speakers, NEW type, NEW c \in Seq(Blocks),
         NEW R, \A b \in Blocks : b \in R <=> b \in S /\ teller = who /\ b.type = type
  PROVE  Those(Told(c, S, teller), By(who, type)) = Told(c, R, teller)
<1> DEFINE f == Tells(S, teller)
           g == Kept(Sayings, By(who, type))
           h == Tells(R, teller)
           fg == [b \in Blocks |-> Collect(f[b], g)]
<1>1. Makes(f, Blocks, Sayings) /\ Makes(g, Sayings, Sayings)
  BY TellsFacts, KeptMakes
<1>2. Those(Told(c, S, teller), By(who, type)) = Collect(Collect(c, f), g)
  BY ToldTyped, ThoseCollects DEF Told
<1>3. Collect(Collect(c, f), g) = Collect(c, fg)
  <2> HIDE DEF f, g
  <2> QED BY <1>1, CollectTwice
<1>4. ASSUME NEW b \in Blocks PROVE fg[b] = h[b]
  <2> DEFINE x == [who |-> teller, what |-> Bare(b)]
  <2>1. x \in Sayings /\ (b \in S => f[b] = <<x>>) /\ (b \notin S => f[b] = <<>>)
    BY TellsFacts
  <2>2. x.who = teller /\ x.what.type = b.type
    BY BareFacts
  <2>3. h[b] = IF b \in S /\ teller = who /\ b.type = type THEN <<x>> ELSE <<>>
    BY DEF Tells
  <2> HIDE DEF x, f
  <2>4. g[x] = IF teller = who /\ b.type = type THEN <<x>> ELSE <<>>
    BY <2>1, <2>2 DEF Kept, By
  <2> HIDE DEF g
  <2>5. Collect(<<>>, g) = <<>> /\ Collect(<<x>>, g) = g[x]
    BY <1>1, <2>1, CollectEmpty, CollectOne
  <2>6. fg[b] = IF b \in S THEN g[x] ELSE <<>>
    BY <2>1, <2>5
  <2> HIDE DEF fg, h
  <2> QED BY <2>3, <2>4, <2>6
<1>5. Collect(c, fg) = Collect(c, h)
  <2> HIDE DEF fg, h
  <2> QED BY <1>4, CollectAgree
<1> QED BY <1>2, <1>3, <1>5 DEF Told

LEMMA ToldBy ==
  ASSUME NEW S, NEW who \in Speakers, NEW type, NEW c \in Seq(Blocks)
  PROVE  Those(Told(c, S, who), By(who, type)) = Told(c, S \cap OfType(type), who)
<1>1. \A b \in Blocks : b \in S \cap OfType(type) <=> b \in S /\ b.type = type
  BY DEF OfType
<1> DEFINE R == S \cap OfType(type)
<1> HIDE DEF R
<1>2. \A b \in Blocks : b \in R <=> b \in S /\ who = who /\ b.type = type
  BY <1>1 DEF R
<1>3. Those(Told(c, S, who), By(who, type)) = Told(c, R, who)
  BY <1>2, ToldFiltered
<1> QED BY <1>3 DEF R

LEMMA ToldByOther ==
  ASSUME NEW S, NEW teller \in Speakers, NEW who \in Speakers, teller # who, NEW type,
         NEW c \in Seq(Blocks)
  PROVE  Those(Told(c, S, teller), By(who, type)) = <<>>
<1>1. Those(Told(c, S, teller), By(who, type)) = Told(c, {}, teller)
  BY ToldFiltered
<1>2. Told(c, {}, teller) = <<>>
  BY ToldNone
<1> QED BY <1>1, <1>2

\* OpenAI messages in which only assistants call tools, and only tools answer.
Proper == {m \in OpenaiForms : /\ m.role # "assistant" => m.calls = <<>>
                               /\ m.role = "tool" <=> m.id # ""}

LEMMA ProperContent ==
  ASSUME NEW m \in Proper
  PROVE  /\ m.content \in Seq(TextBlocks \cup Images) /\ m.content \in Seq(Blocks)
         /\ m.calls \in Seq(Calls) /\ (m.role = "tool" => m.id \in CallIds)
<1>1. m.content \in Seq(TextBlocks \cup Images) /\ m.calls \in Seq(Calls) /\ m.id \in CallIds \cup {""}
  BY DEF Proper, OpenaiForms, Calls
<1>2. m.content \in Seq(Blocks)
  BY <1>1, Wider, Kinds
<1> QED BY <1>1, <1>2 DEF Proper

\* To make one of each of those of c, in one pass.
LEMMA MapThose ==
  ASSUME NEW P, NEW Q, NEW S, NEW h, Turns(h, P, Q), NEW c \in Seq(P)
  PROVE  [i \in DOMAIN Those(c, S) |-> h[Those(c, S)[i]]]
           = Collect(c, [x \in P |-> IF x \in S THEN <<h[x]>> ELSE <<>>])
<1> DEFINE s == Those(c, S)
           f == Kept(P, S)
           g == [x \in P |-> <<h[x]>>]
           k == [x \in P |-> IF x \in S THEN <<h[x]>> ELSE <<>>]
           fg == [x \in P |-> Collect(f[x], g)]
<1>1. s \in Seq(P) /\ s = Collect(c, f) /\ Makes(f, P, P)
  BY ThoseTyped, ThoseCollects, KeptMakes
<1>2. Makes(g, P, Q)
  <2>1. \A y \in Q : <<y>> \in Seq(Q)
    OBVIOUS
  <2> QED BY <2>1 DEF Makes, Turns
<1>3. [i \in DOMAIN s |-> h[s[i]]] = Collect(s, g)
  <2> HIDE DEF s
  <2> QED BY <1>1, MapCollects
<1>4. Collect(Collect(c, f), g) = Collect(c, fg)
  <2> HIDE DEF f, g
  <2> QED BY <1>1, <1>2, CollectTwice
<1>5. ASSUME NEW x \in P PROVE fg[x] = k[x]
  <2>1. Collect(<<>>, g) = <<>> /\ Collect(<<x>>, g) = g[x]
    <3> HIDE DEF g
    <3> QED BY <1>2, CollectEmpty, CollectOne
  <2>2. g[x] = <<h[x]>>
    OBVIOUS
  <2> HIDE DEF g
  <2>3. fg[x] = IF x \in S THEN g[x] ELSE <<>>
    BY <2>1 DEF Kept
  <2> QED BY <2>2, <2>3
<1>6. Collect(c, fg) = Collect(c, k)
  <2> HIDE DEF fg, k
  <2> QED BY <1>5, CollectAgree
<1> QED BY <1>1, <1>3, <1>4, <1>6

LEMMA SaidTold ==
  ASSUME NEW S, \A b \in Blocks : b \in S => b \notin Results,
         NEW who \in Speakers, NEW c \in Seq(Blocks)
  PROVE  Said(who, Those(c, S)) = Told(c, S, who)
<1> DEFINE h == [b \in Blocks |-> [who |-> who, what |-> b]]
           k == [b \in Blocks |-> IF b \in S THEN <<h[b]>> ELSE <<>>]
           s == Those(c, S)
<1>1. Turns(h, Blocks, Sayings)
  BY DEF Turns, Sayings, Speakers
<1>2. [i \in DOMAIN s |-> h[s[i]]] = Collect(c, k)
  <2> HIDE DEF h
  <2> QED BY <1>1, MapThose
<1>3. [i \in DOMAIN s |-> h[s[i]]] = Said(who, s)
  <2>1. s \in Seq(Blocks)
    BY ThoseTyped
  <2> HIDE DEF s
  <2>2. \A i \in DOMAIN s : s[i] \in Blocks
    BY <2>1
  <2>3. \A i \in DOMAIN s : h[s[i]] = [who |-> who, what |-> s[i]]
    BY <2>2, Zenon
  <2> QED BY <2>3, Zenon DEF Said
<1>4. \A b \in Blocks : k[b] = Tells(S, who)[b]
  BY DEF Tells, Bare
<1>5. Collect(c, k) = Collect(c, Tells(S, who))
  <2> HIDE DEF k
  <2> QED BY <1>4, CollectAgree
<1> QED BY <1>2, <1>3, <1>5 DEF Told

\* The uses that calls become.
LEMMA UsesTyped ==
  ASSUME NEW calls \in Seq(Calls)
  PROVE  Map(calls, ToolUse) \in Seq(Uses) /\ Map(calls, ToolUse) \in Seq(Blocks)
<1>1. \A k \in Calls : ToolUse(k) \in Uses
  BY ConstantsOK DEF Calls, ToolUse, Parsed, Uses
<1>2. Map(calls, ToolUse) \in Seq(Uses)
  BY <1>1 DEF Map
<1> QED BY <1>2, Wider, Kinds

\* What an OpenAI message says.
LEMMA OpenaiSays ==
  ASSUME NEW m \in Proper
  PROVE  /\ m.role = "tool" =>
              /\ Result(m) \in TextResults /\ Result(m) \in Blocks
              /\ OfOpenai(m) = <<[who |-> "tool", what |-> Result(m)]>>
         /\ m.role = "assistant" =>
              /\ Texts(m.content) \o Map(m.calls, ToolUse) \in Seq(Blocks)
              /\ OfOpenai(m) = Told(Texts(m.content) \o Map(m.calls, ToolUse),
                                    TextBlocks \cup Uses, "assistant")
         /\ m.role = "system" => OfOpenai(m) = Told(m.content, TextBlocks, "system")
         /\ m.role \notin {"tool", "assistant", "system"} =>
              OfOpenai(m) = Told(m.content, Carried, "user")
         /\ OfOpenai(m) \in Seq(Sayings)
<1> DEFINE c == m.content
           calls == m.calls
<1>0. c \in Seq(Blocks) /\ calls \in Seq(Calls) /\ (m.role = "tool" => m.id \in CallIds)
  BY ProperContent
<1>00. m.content = c /\ m.calls = calls
  OBVIOUS
<1> HIDE DEF c, calls
<1>1. CASE m.role = "tool"
  <2>1. m.id \in CallIds /\ Texts(c) \in Seq(TextBlocks)
    BY <1>0, <1>1, TextsTyped
  <2>2. Texts(c) \in Seq(TextBlocks \cup Images)
    BY <2>1, Wider
  <2>3. Result(m) \in TextResults /\ Result(m) \in Results
    BY <2>1, <2>2 DEF Result, c, TextResults, Results
  <2>4. OfOpenai(m) = <<[who |-> "tool", what |-> Result(m)]>>
    <3>1. OfOpenai(m) = Said("tool", <<Result(m)>>)
      BY <1>1 DEF OfOpenai
    <3> QED BY <3>1 DEF Said
  <2>5. [who |-> "tool", what |-> Result(m)] \in Sayings
    BY <2>3, Kinds DEF Sayings
  <2>6. OfOpenai(m) \in Seq(Sayings)
    <3>1. \A x \in Sayings : <<x>> \in Seq(Sayings)
      OBVIOUS
    <3> QED BY <2>4, <2>5, <3>1
  <2> QED BY <1>1, <2>3, <2>4, <2>6, Kinds
<1>2. CASE m.role = "assistant"
  <2> DEFINE s == Texts(c) \o Map(calls, ToolUse)
  <2>1. Texts(c) \in Seq(TextBlocks) /\ Map(calls, ToolUse) \in Seq(Uses)
    BY <1>0, TextsTyped, UsesTyped
  <2>2. Texts(c) \in Seq(TextBlocks \cup Uses) /\ Map(calls, ToolUse) \in Seq(TextBlocks \cup Uses)
    BY <2>1, Wider
  <2>3. s \in Seq(TextBlocks \cup Uses)
    BY <2>2
  <2>4. s \in Seq(Blocks)
    <3>1. TextBlocks \cup Uses \subseteq Blocks
      BY Kinds
    <3> HIDE DEF s
    <3> QED BY <2>3, <3>1, Wider
  <2>5. OfOpenai(m) = Said("assistant", s)
    BY <1>2 DEF OfOpenai, c, calls
  <2> HIDE DEF s
  <2>6. Those(s, TextBlocks \cup Uses) = s
    BY <2>3, ThoseAll
  <2>7. Said("assistant", Those(s, TextBlocks \cup Uses)) = Told(s, TextBlocks \cup Uses, "assistant")
    BY <2>4, SaidTold, Kinds DEF Speakers
  <2>8. OfOpenai(m) = Told(s, TextBlocks \cup Uses, "assistant")
    BY <2>5, <2>6, <2>7
  <2>9. OfOpenai(m) \in Seq(Sayings)
    BY <2>4, <2>8, ToldTyped DEF Speakers
  <2> QED BY <1>00, <1>2, <2>4, <2>8, <2>9 DEF s
<1>3. CASE m.role = "system"
  <2>1. OfOpenai(m) = Said("system", Those(c, TextBlocks))
    BY <1>3 DEF OfOpenai, c, calls, Texts
  <2>2. OfOpenai(m) = Told(c, TextBlocks, "system")
    <3>1. \A b \in Blocks : b \in TextBlocks => b \notin Results
      BY Kinds
    <3>2. "system" \in Speakers
      BY DEF Speakers
    <3> QED BY <1>0, <2>1, <3>1, <3>2, SaidTold
  <2>3. OfOpenai(m) \in Seq(Sayings)
    BY <1>0, <2>2, ToldTyped DEF Speakers
  <2> QED BY <1>00, <1>3, <2>2, <2>3
<1>4. CASE m.role \notin {"tool", "assistant", "system"}
  <2>1. OfOpenai(m) = Said("user", Those(c, Carried))
    BY <1>4 DEF OfOpenai, c, calls
  <2>2. OfOpenai(m) = Told(c, Carried, "user")
    <3>1. \A b \in Blocks : b \in Carried => b \notin Results
      BY Kinds
    <3>2. "user" \in Speakers
      BY DEF Speakers
    <3> QED BY <1>0, <2>1, <3>1, <3>2, SaidTold
  <2>3. OfOpenai(m) \in Seq(Sayings)
    BY <1>0, <2>2, ToldTyped DEF Speakers
  <2> QED BY <1>00, <1>4, <2>2, <2>3
<1> QED BY <1>00, <1>1, <1>2, <1>3, <1>4

\* What is heard of an Anthropic message.
LEMMA AnthropicSays ==
  ASSUME NEW m \in AnthropicForms
  PROVE  /\ OfAnthropic(m) \in Seq(Sayings)
         /\ m.role = "assistant" =>
              OfAnthropic(m) = Told(m.content, TextBlocks \cup Uses, "assistant")
         /\ m.role # "assistant" =>
              \A who \in Speakers : \A type :
                Those(OfAnthropic(m), By(who, type))
                  = CASE who = "tool" -> Told(m.content, Results \cap OfType(type), "tool")
                      [] who = "user" -> Told(m.content, Carried \cap OfType(type), "user")
                      [] OTHER        -> <<>>
<1> DEFINE c == m.content
           S == Heard(m)
           s == Those(c, S)
           h == [b \in Blocks |-> Saying(m, b)]
           k == [b \in Blocks |-> IF b \in S THEN <<h[b]>> ELSE <<>>]
<1>0. c \in Seq(Blocks)
  BY DEF AnthropicForms
<1>1. \A b \in Blocks : /\ h[b] = [who  |-> IF b \in Results THEN "tool" ELSE Speaker(m),
                                   what |-> Bare(b)]
                        /\ h[b] \in Sayings
  <2>1. \A b \in Blocks : h[b] = [who  |-> IF b \in Results THEN "tool" ELSE Speaker(m),
                                  what |-> Bare(b)]
    BY DEF Saying, Bare
  <2>2. \A b \in Blocks : Bare(b) \in Blocks
    BY BareFacts
  <2>3. Speaker(m) \in {"user", "assistant", "tool", "system"}
    BY DEF Speaker
  <2> HIDE DEF h
  <2> QED BY <2>1, <2>2, <2>3 DEF Sayings
<1>2. [i \in DOMAIN s |-> h[s[i]]] = Collect(c, k)
  <2>1. Turns(h, Blocks, Sayings)
    BY <1>1 DEF Turns
  <2> HIDE DEF h, S, c
  <2> QED BY <1>0, <2>1, MapThose
<1>3. [i \in DOMAIN s |-> h[s[i]]] = OfAnthropic(m)
  <2>1. s \in Seq(Blocks)
    BY <1>0, ThoseTyped
  <2>2. OfAnthropic(m) = [i \in DOMAIN s |-> Saying(m, s[i])]
    BY DEF OfAnthropic
  <2> HIDE DEF s
  <2>3. \A i \in DOMAIN s : s[i] \in Blocks
    BY <2>1
  <2>4. \A i \in DOMAIN s : h[s[i]] = Saying(m, s[i])
    BY <2>3, Zenon
  <2> QED BY <2>2, <2>4, Zenon
<1>4. Makes(k, Blocks, Sayings)
  <2>1. <<>> \in Seq(Sayings) /\ \A x \in Sayings : <<x>> \in Seq(Sayings)
    OBVIOUS
  <2> HIDE DEF h, S
  <2> QED BY <1>1, <2>1 DEF Makes
<1>5. OfAnthropic(m) \in Seq(Sayings)
  <2>1. Collect(c, k) \in Seq(Sayings)
    <3> HIDE DEF c, k
    <3> QED BY <1>0, <1>4, CollectTyped
  <2> QED BY <1>2, <1>3, <2>1
<1>6. ASSUME m.role = "assistant"
      PROVE  OfAnthropic(m) = Told(c, TextBlocks \cup Uses, "assistant")
  <2>1. \A b \in Blocks : k[b] = Tells(TextBlocks \cup Uses, "assistant")[b]
    <3>1. S = TextBlocks \cup Uses /\ Speaker(m) = "assistant"
      BY <1>6 DEF Heard, Speaker
    <3> HIDE DEF h, S
    <3> QED BY <1>1, <3>1, Kinds DEF Tells
  <2>2. Collect(c, k) = Collect(c, Tells(TextBlocks \cup Uses, "assistant"))
    <3> DEFINE f == Tells(TextBlocks \cup Uses, "assistant")
    <3> HIDE DEF c, k, f
    <3>1. \A b \in Blocks : k[b] = f[b]
      BY <2>1 DEF f
    <3>2. Collect(c, k) = Collect(c, f)
      BY <1>0, <3>1, CollectAgree
    <3> QED BY <3>2 DEF f
  <2> QED BY <1>2, <1>3, <2>2 DEF Told
<1>7. ASSUME m.role # "assistant", NEW who \in Speakers, NEW type
      PROVE  Those(OfAnthropic(m), By(who, type))
               = CASE who = "tool" -> Told(c, Results \cap OfType(type), "tool")
                   [] who = "user" -> Told(c, Carried \cap OfType(type), "user")
                   [] OTHER        -> <<>>
  <2> DEFINE g == Kept(Sayings, By(who, type))
             kg == [b \in Blocks |-> Collect(k[b], g)]
             T == CASE who = "tool" -> Results \cap OfType(type)
                    [] who = "user" -> Carried \cap OfType(type)
                    [] OTHER        -> {}
  <2>1. Makes(g, Sayings, Sayings)
    BY KeptMakes
  <2>2. Those(OfAnthropic(m), By(who, type)) = Collect(Collect(c, k), g)
    <3>1. Those(OfAnthropic(m), By(who, type)) = Collect(OfAnthropic(m), g)
      BY <1>5, ThoseCollects
    <3> QED BY <1>2, <1>3, <3>1
  <2>3. Collect(Collect(c, k), g) = Collect(c, kg)
    <3> HIDE DEF k, g
    <3> QED BY <1>0, <1>4, <2>1, CollectTwice
  <2>4. ASSUME NEW b \in Blocks PROVE kg[b] = Tells(T, who)[b]
    <3> DEFINE x == h[b]
    <3>1. x \in Sayings /\ x.what = Bare(b) /\ x.what.type = b.type
          /\ x.who = IF b \in Results THEN "tool" ELSE "user"
      <4>1. Speaker(m) = "user"
        BY <1>7 DEF Speaker
      <4> QED BY <1>1, <4>1, BareFacts
    <3>2. S = Carried \cup Results
      BY <1>7 DEF Heard
    <3>3. kg[b] = IF b \in S THEN Collect(<<x>>, g) ELSE Collect(<<>>, g)
      OBVIOUS
    <3>4. x = [who |-> x.who, what |-> x.what]
      BY <1>1
    <3> HIDE DEF x, kg, S
    <3>5. g[x] = IF x.who = who /\ b.type = type THEN <<x>> ELSE <<>>
      BY <3>1 DEF Kept, By
    <3> HIDE DEF g
    <3>6. Collect(<<>>, g) = <<>> /\ Collect(<<x>>, g) = g[x]
      BY <2>1, <3>1, CollectEmpty, CollectOne
    <3>7. Tells(T, who)[b] = IF b \in T THEN <<[who |-> who, what |-> Bare(b)]>> ELSE <<>>
      BY DEF Tells
    <3>8. b \in T <=> b \in S /\ x.who = who /\ b.type = type
      <4>1. CASE who = "tool"
        BY <3>1, <3>2, <4>1, Kinds DEF OfType
      <4>2. CASE who = "user"
        BY <3>1, <3>2, <4>2, Kinds DEF OfType
      <4>3. CASE who \notin {"tool", "user"}
        BY <3>1, <4>3
      <4> QED BY <4>1, <4>2, <4>3
    <3> HIDE DEF T
    <3>9. x.who = who => x = [who |-> who, what |-> Bare(b)]
      BY <3>1, <3>4
    <3> QED BY <3>3, <3>5, <3>6, <3>7, <3>8, <3>9
  <2>5. Collect(c, kg) = Told(c, T, who)
    <3> HIDE DEF kg, T
    <3>1. Collect(c, kg) = Collect(c, Tells(T, who))
      BY <1>0, <2>4, CollectAgree
    <3> QED BY <3>1 DEF Told
  <2>6. who \notin {"tool", "user"} => Told(c, T, who) = <<>>
    BY <1>0, ToldNone
  <2> HIDE DEF c, k, g, kg
  <2> QED BY <2>2, <2>3, <2>5, <2>6
<1> QED BY <1>5, <1>6, <1>7

\* What is said in a sequence of messages.
SayA == [m \in AnthropicForms |-> OfAnthropic(m)]
SayO == [m \in Proper |-> OfOpenai(m)]
SaidA(messages, who, type) == Those(Joined(messages, OfAnthropic), By(who, type))
SaidO(messages, who, type) == Those(Joined(messages, OfOpenai), By(who, type))

LEMMA JoinedSays ==
  /\ Makes(SayA, AnthropicForms, Sayings) /\ Makes(SayO, Proper, Sayings)
  /\ \A ms \in Seq(AnthropicForms) : Joined(ms, OfAnthropic) = Collect(ms, SayA)
  /\ \A ms \in Seq(Proper) : Joined(ms, OfOpenai) = Collect(ms, SayO)
<1>1. Makes(SayA, AnthropicForms, Sayings)
  <2>1. \A m \in AnthropicForms : OfAnthropic(m) \in Seq(Sayings)
    BY AnthropicSays
  <2> QED BY <2>1 DEF Makes, SayA
<1>2. Makes(SayO, Proper, Sayings)
  <2>1. \A m \in Proper : OfOpenai(m) \in Seq(Sayings)
    BY OpenaiSays
  <2> QED BY <2>1 DEF Makes, SayO
<1>3. ASSUME NEW ms \in Seq(AnthropicForms) PROVE Joined(ms, OfAnthropic) = Collect(ms, SayA)
  <2>1. \A i \in DOMAIN ms : ms[i] \in AnthropicForms
    OBVIOUS
  <2>2. \A i \in DOMAIN ms : OfAnthropic(ms[i]) = SayA[ms[i]]
    BY <2>1, Zenon DEF SayA
  <2> QED BY <2>2, Zenon DEF Joined, Map, Collect
<1>4. ASSUME NEW ms \in Seq(Proper) PROVE Joined(ms, OfOpenai) = Collect(ms, SayO)
  <2>1. \A i \in DOMAIN ms : ms[i] \in Proper
    OBVIOUS
  <2>2. \A i \in DOMAIN ms : OfOpenai(ms[i]) = SayO[ms[i]]
    BY <2>1, Zenon DEF SayO
  <2> QED BY <2>2, Zenon DEF Joined, Map, Collect
<1> QED BY <1>1, <1>2, <1>3, <1>4

LEMMA AnthropicGrows ==
  ASSUME NEW ms \in Seq(AnthropicForms), NEW m \in AnthropicForms, NEW who, NEW type
  PROVE  /\ SaidA(Append(ms, m), who, type)
              = SaidA(ms, who, type) \o Those(OfAnthropic(m), By(who, type))
         /\ SaidA(ms, who, type) \in Seq(Sayings)
         /\ Those(OfAnthropic(m), By(who, type)) \in Seq(Sayings)
<1> DEFINE B == By(who, type)
           a == Collect(ms, SayA)
           b == OfAnthropic(m)
<1>1. Append(ms, m) \in Seq(AnthropicForms)
  OBVIOUS
<1>2. Makes(SayA, AnthropicForms, Sayings)
  BY JoinedSays
<1>3. Joined(ms, OfAnthropic) = a /\ Joined(Append(ms, m), OfAnthropic) = Collect(Append(ms, m), SayA)
  BY <1>1, JoinedSays
<1>4. Collect(Append(ms, m), SayA) = a \o SayA[m]
  BY <1>2, CollectAppend, Zenon
<1>5. SayA[m] = b /\ b \in Seq(Sayings) /\ a \in Seq(Sayings)
  <2>1. a \in Seq(Sayings)
    BY <1>2, CollectTyped
  <2> QED BY <2>1, AnthropicSays DEF SayA
<1> HIDE DEF a, b, B
<1>6. Those(a \o b, B) = Those(a, B) \o Those(b, B)
  BY <1>5, ThoseConcat
<1>7. Those(a, B) \in Seq(Sayings) /\ Those(b, B) \in Seq(Sayings)
  BY <1>5, ThoseTyped
<1> QED BY <1>3, <1>4, <1>5, <1>6, <1>7 DEF SaidA, b, B

LEMMA OpenaiGrows ==
  ASSUME NEW ms \in Seq(Proper), NEW ns \in Seq(Proper), NEW who, NEW type
  PROVE  /\ SaidO(ms \o ns, who, type) = SaidO(ms, who, type) \o SaidO(ns, who, type)
         /\ SaidO(ms, who, type) \in Seq(Sayings)
<1> DEFINE B == By(who, type)
           a == Collect(ms, SayO)
           b == Collect(ns, SayO)
<1>1. ms \o ns \in Seq(Proper)
  OBVIOUS
<1>2. Makes(SayO, Proper, Sayings)
  BY JoinedSays
<1>3. Joined(ms, OfOpenai) = a /\ Joined(ns, OfOpenai) = b
      /\ Joined(ms \o ns, OfOpenai) = Collect(ms \o ns, SayO)
  BY <1>1, JoinedSays
<1>4. Collect(ms \o ns, SayO) = a \o b
  BY <1>2, CollectConcat
<1>5. b \in Seq(Sayings) /\ a \in Seq(Sayings)
  BY <1>2, CollectTyped
<1> HIDE DEF a, b, B
<1>6. Those(a \o b, B) = Those(a, B) \o Those(b, B)
  BY <1>5, ThoseConcat
<1>7. Those(a, B) \in Seq(Sayings)
  BY <1>5, ThoseTyped
<1> QED BY <1>3, <1>4, <1>6, <1>7 DEF SaidO, B

LEMMA OpenaiOne ==
  ASSUME NEW m \in Proper, NEW who, NEW type
  PROVE  /\ SaidO(<<m>>, who, type) = Those(OfOpenai(m), By(who, type))
         /\ \A ms \in Seq(Proper) :
              SaidO(Append(ms, m), who, type)
                = SaidO(ms, who, type) \o Those(OfOpenai(m), By(who, type))
<1>1. <<m>> \in Seq(Proper)
  OBVIOUS
<1>2. Joined(<<m>>, OfOpenai) = OfOpenai(m)
  <2>1. Makes(SayO, Proper, Sayings) /\ Joined(<<m>>, OfOpenai) = Collect(<<m>>, SayO)
    BY <1>1, JoinedSays
  <2>2. Collect(<<m>>, SayO) = SayO[m]
    BY <2>1, CollectOne
  <2> QED BY <2>1, <2>2 DEF SayO
<1>3. SaidO(<<m>>, who, type) = Those(OfOpenai(m), By(who, type))
  BY <1>2 DEF SaidO
<1>4. \A ms \in Seq(Proper) : Append(ms, m) = ms \o <<m>>
  OBVIOUS
<1>5. \A ms \in Seq(Proper) : SaidO(ms \o <<m>>, who, type) = SaidO(ms, who, type) \o SaidO(<<m>>, who, type)
  <2> DEFINE n == <<m>>
  <2> HIDE DEF n
  <2>1. n \in Seq(Proper)
    BY <1>1 DEF n
  <2>2. \A ms \in Seq(Proper) : SaidO(ms \o n, who, type) = SaidO(ms, who, type) \o SaidO(n, who, type)
    BY <2>1, OpenaiGrows
  <2> QED BY <2>2 DEF n
<1> QED BY <1>3, <1>4, <1>5

LEMMA MessageTyped ==
  ASSUME NEW role \in Roles, NEW c \in Seq(TextBlocks \cup Images), NEW k \in Seq(Calls),
         NEW i \in CallIds \cup {""}
  PROVE  [role |-> role, content |-> c, calls |-> k, id |-> i] \in OpenaiForms
BY DEF OpenaiForms, Calls

\* The message that a block of results makes, in OpenAI's protocol.
LEMMA ToolMessageFacts ==
  ASSUME NEW b \in Results
  PROVE  /\ ToolMessage(b) \in Proper
         /\ OfOpenai(ToolMessage(b)) = <<[who |-> "tool", what |-> Bare(b)]>>
<1> DEFINE c == b.content
           t == Texts(c)
<1>1. c \in Seq(Blocks) /\ b.id \in CallIds
  <2>1. c \in Seq(TextBlocks \cup Images) /\ b.id \in CallIds
    BY DEF Results
  <2>2. TextBlocks \cup Images \subseteq Blocks
    BY Kinds
  <2> HIDE DEF c
  <2> QED BY <2>1, <2>2, Wider
<1>2. t \in Seq(TextBlocks) /\ t \in Seq(TextBlocks \cup Images)
  <2> HIDE DEF c
  <2> QED BY <1>1, TextsTyped DEF OpenaiContent
<1>3. Texts(t) = t
  <2> HIDE DEF t
  <2> QED BY <1>2, TextsOfTexts
<1>4. ToolMessage(b) = [role |-> "tool", content |-> t, calls |-> <<>>, id |-> b.id]
  BY DEF ToolMessage
<1> HIDE DEF t
<1>5. ToolMessage(b) \in Proper
  <2>1. ToolMessage(b) \in OpenaiForms
    <3>1. <<>> \in Seq(Calls) /\ "tool" \in Roles
      BY DEF Roles
    <3> QED BY <1>1, <1>2, <1>4, <3>1, MessageTyped
  <2>2. b.id # ""
    BY <1>1, ConstantsOK
  <2>3. ToolMessage(b).role = "tool" /\ ToolMessage(b).calls = <<>> /\ ToolMessage(b).id = b.id
    BY <1>4
  <2> QED BY <2>1, <2>2, <2>3 DEF Proper
<1>6. Result(ToolMessage(b)) = [type |-> "tool_result", id |-> b.id, content |-> t]
  BY <1>3, <1>4 DEF Result
<1>7. Bare(b) = [type |-> "tool_result", id |-> b.id, content |-> t]
  BY DEF Bare, Results, t
<1>8. OfOpenai(ToolMessage(b)) = <<[who |-> "tool", what |-> Result(ToolMessage(b))]>>
  BY <1>4, <1>5, OpenaiSays
<1> QED BY <1>5, <1>6, <1>7, <1>8

\* What becomes of an Anthropic message says what the message says.
LEMMA PlainProper ==
  ASSUME NEW role \in Roles, role # "tool", NEW c \in Seq(TextBlocks \cup Images)
  PROVE  Plain(role, c) \in Proper
<1> DEFINE r == [role |-> role, content |-> c, calls |-> <<>>, id |-> ""]
<1>1. Plain(role, c) = r
  BY DEF Plain
<1>2. r \in OpenaiForms
  BY DEF OpenaiForms
<1>3. r.role = role /\ r.id = "" /\ r.calls = <<>>
  OBVIOUS
<1> HIDE DEF r
<1> QED BY <1>1, <1>2, <1>3 DEF Proper

LEMMA AssistantTranslated ==
  ASSUME NEW m \in AnthropicForms, m.role = "assistant", NEW who \in Speakers, NEW type
  PROVE  /\ ToOpenai(m) \in Seq(Proper)
         /\ SaidO(ToOpenai(m), who, type) = Those(OfAnthropic(m), By(who, type))
<1> DEFINE c == m.content
           t == Texts(c)
           u == Those(c, Uses)
           k == Map(u, Call)
           a == [role |-> "assistant", content |-> t, calls |-> k, id |-> ""]
           T == OfType(type)
<1>1. c \in Seq(Blocks)
  BY DEF AnthropicForms
<1>2. ToOpenai(m) = <<a>>
  BY DEF ToOpenai, AssistantToOpenai
<1>3. t \in Seq(TextBlocks) /\ t \in Seq(TextBlocks \cup Images) /\ t \in Seq(Blocks)
  <2> HIDE DEF c
  <2> QED BY <1>1, TextsTyped DEF OpenaiContent
<1>4. u \in Seq(Uses) /\ u \in Seq(Blocks)
  <2> HIDE DEF c
  <2>1. u \in Seq(Blocks \cap Uses) /\ u \in Seq(Blocks)
    BY <1>1, ThoseTyped
  <2> HIDE DEF u
  <2> QED BY <2>1, Wider
<1>5. \A b \in Uses : Call(b) \in Calls /\ ToolUse(Call(b)) = b
  <2> SUFFICES ASSUME NEW b \in Uses PROVE Call(b) \in Calls /\ ToolUse(Call(b)) = b
    OBVIOUS
  <2>1. b \in [type : {"tool_use"}, id : CallIds, input : Arguments \ {"not JSON"}]
    BY DEF Uses
  <2>2. Call(b) = [id |-> b.id, arguments |-> b.input] /\ Call(b) \in Calls
    BY <2>1 DEF Call, Calls
  <2>3. ToolUse(Call(b)) = [type |-> "tool_use", id |-> b.id, input |-> b.input]
    <3> DEFINE x == Call(b)
    <3>1. x.id = b.id /\ x.arguments = b.input /\ b.input # "not JSON"
      <4>1. x.id = b.id /\ x.arguments = b.input
        BY DEF Call
      <4> QED BY <2>1, <4>1
    <3> HIDE DEF x
    <3>2. ToolUse(x) = [type |-> "tool_use", id |-> b.id, input |-> b.input]
      BY <3>1 DEF ToolUse, Parsed
    <3> QED BY <3>2 DEF x
  <2>4. b = [type |-> "tool_use", id |-> b.id, input |-> b.input]
    BY <2>1
  <2> QED BY <2>2, <2>3, <2>4
<1>6. k \in Seq(Calls) /\ Map(k, ToolUse) = u
  <2> HIDE DEF u
  <2>1. k \in Seq(Calls) /\ DOMAIN k = DOMAIN u /\ \A i \in DOMAIN u : k[i] = Call(u[i])
    BY <1>4, <1>5 DEF Map
  <2>2. \A i \in DOMAIN u : u[i] \in Uses
    BY <1>4
  <2> HIDE DEF k
  <2>3. \A i \in DOMAIN k : ToolUse(k[i]) = u[i]
    BY <1>5, <2>1, <2>2
  <2>4. u = [i \in DOMAIN u |-> u[i]]
    BY <1>4
  <2>5. Map(k, ToolUse) = [i \in DOMAIN u |-> u[i]]
    BY <2>1, <2>3 DEF Map
  <2> QED BY <2>1, <2>4, <2>5
<1> HIDE DEF k
<1>7. a \in Proper
  <2> HIDE DEF t
  <2>1. [role |-> "assistant", content |-> t, calls |-> k, id |-> ""] \in OpenaiForms
    BY <1>3, <1>6 DEF OpenaiForms, Calls, Roles
  <2> QED BY <2>1 DEF Proper
<1>8. a.role = "assistant" /\ a.content = t /\ a.calls = k
  OBVIOUS
<1> HIDE DEF a, t, u, c
<1>9. OfOpenai(a) = Told(t \o u, TextBlocks \cup Uses, "assistant")
  <2>1. OfOpenai(a) = Told(Texts(a.content) \o Map(a.calls, ToolUse), TextBlocks \cup Uses, "assistant")
    BY <1>7, <1>8, OpenaiSays
  <2>2. Texts(t) = t
    BY <1>3, TextsOfTexts
  <2> QED BY <1>6, <1>8, <2>1, <2>2
<1> DEFINE S == TextBlocks \cup Uses
<1>10. Those(Told(t \o u, S, "assistant"), By(who, type))
         = IF who = "assistant" THEN Told(t \o u, S \cap T, "assistant") ELSE <<>>
  <2> DEFINE x == t \o u
             by == "assistant"
  <2>1. x \in Seq(Blocks) /\ by \in Speakers
    BY <1>3, <1>4 DEF Speakers
  <2> HIDE DEF S, x, by
  <2>2. Those(Told(x, S, by), By(by, type)) = Told(x, S \cap OfType(type), by)
    BY <2>1, ToldBy
  <2>3. by # who => Those(Told(x, S, by), By(who, type)) = <<>>
    BY <2>1, ToldByOther
  <2> QED BY <2>2, <2>3 DEF x, by
<1>11. Those(Told(c, S, "assistant"), By(who, type))
         = IF who = "assistant" THEN Told(c, S \cap T, "assistant") ELSE <<>>
  <2> DEFINE by == "assistant"
  <2>1. by \in Speakers
    BY DEF Speakers
  <2> HIDE DEF S, by
  <2>2. Those(Told(c, S, by), By(by, type)) = Told(c, S \cap OfType(type), by)
    BY <1>1, <2>1, ToldBy
  <2>3. by # who => Those(Told(c, S, by), By(who, type)) = <<>>
    BY <1>1, <2>1, ToldByOther
  <2> QED BY <2>2, <2>3 DEF by
<1>12. OfAnthropic(m) = Told(c, S, "assistant")
  BY AnthropicSays DEF c
<1>13. Told(t \o u, S \cap T, "assistant") = Told(c, S \cap T, "assistant")
  <2> DEFINE R == S \cap T
             f == Tells(R, "assistant")
  <2>1. Makes(f, Blocks, Sayings)
    BY TellsFacts DEF Speakers
  <2>2. Collect(t \o u, f) = Collect(t, f) \o Collect(u, f)
    <3> HIDE DEF f
    <3> QED BY <1>3, <1>4, <2>1, CollectConcat
  <2>3. ASSUME NEW A PROVE Collect(Those(c, A), f) = Told(c, A \cap R, "assistant")
    <3> DEFINE p == Kept(Blocks, A)
               pf == [b \in Blocks |-> Collect(p[b], f)]
               g == Tells(A \cap R, "assistant")
    <3>1. Makes(p, Blocks, Blocks) /\ Those(c, A) = Collect(c, p)
      BY <1>1, KeptMakes, ThoseCollects
    <3>2. Collect(Collect(c, p), f) = Collect(c, pf)
      <4> HIDE DEF p, f
      <4> QED BY <1>1, <2>1, <3>1, CollectTwice
    <3>3. ASSUME NEW b \in Blocks PROVE pf[b] = g[b]
      <4>1. Collect(<<>>, f) = <<>> /\ Collect(<<b>>, f) = f[b]
        <5> HIDE DEF f
        <5> QED BY <2>1, CollectEmpty, CollectOne
      <4> HIDE DEF f, R
      <4>2. pf[b] = IF b \in A THEN f[b] ELSE <<>>
        BY <4>1 DEF Kept
      <4>3. f[b] = IF b \in R THEN <<[who |-> "assistant", what |-> Bare(b)]>> ELSE <<>>
        BY DEF f, Tells
      <4>4. g[b] = IF b \in A /\ b \in R THEN <<[who |-> "assistant", what |-> Bare(b)]>> ELSE <<>>
        BY DEF Tells
      <4> HIDE DEF pf, g
      <4> QED BY <4>2, <4>3, <4>4
    <3>4. Collect(c, pf) = Collect(c, g)
      <4> HIDE DEF pf, g
      <4> QED BY <1>1, <3>3, CollectAgree
    <3> QED BY <3>1, <3>2, <3>4 DEF Told
  <2> HIDE DEF f
  <2>4. /\ Collect(t, f) = Told(c, TextBlocks \cap R, "assistant")
        /\ Collect(u, f) = Told(c, Uses \cap R, "assistant")
    BY <2>3 DEF t, u, Texts
  <2>5. \A A : Told(c, A, "assistant") \in Seq(Sayings)
    BY <1>1, ToldTyped DEF Speakers
  <2>6. \A s \in Seq(Sayings) : s \o <<>> = s /\ <<>> \o s = s
    BY ConcatEmptySeq
  <2>7. CASE type = "tool_use"
    <3>1. Told(c, TextBlocks \cap R, "assistant") = <<>>
      <4>1. \A b \in Blocks : b \notin TextBlocks \cap R
        BY <2>7, Kinds DEF T, OfType
      <4> QED BY <1>1, <4>1, ToldNone
    <3>2. Told(c, Uses \cap R, "assistant") = Told(c, R, "assistant")
      <4>1. \A b \in Blocks : b \in Uses \cap R <=> b \in R
        BY <2>7, Kinds DEF T, OfType
      <4> HIDE DEF R
      <4> QED BY <1>1, <4>1, ToldAgree
    <3>3. Told(t \o u, R, "assistant") = Collect(t \o u, f)
      BY DEF Told, f
    <3> HIDE DEF R
    <3>4. Told(t \o u, R, "assistant") = Told(c, R, "assistant")
      BY <2>2, <2>4, <2>5, <2>6, <3>1, <3>2, <3>3
    <3> QED BY <3>4 DEF R
  <2>8. CASE type # "tool_use"
    <3>1. Told(c, Uses \cap R, "assistant") = <<>>
      <4>1. \A b \in Blocks : b \notin Uses \cap R
        BY <2>8, Kinds DEF T, OfType
      <4> QED BY <1>1, <4>1, ToldNone
    <3>2. Told(c, TextBlocks \cap R, "assistant") = Told(c, R, "assistant")
      <4>1. \A b \in Blocks : b \in TextBlocks \cap R <=> b \in R
        BY <2>8, Kinds DEF T, OfType
      <4> HIDE DEF R
      <4> QED BY <1>1, <4>1, ToldAgree
    <3>3. Told(t \o u, R, "assistant") = Collect(t \o u, f)
      BY DEF Told, f
    <3> HIDE DEF R
    <3>4. Told(t \o u, R, "assistant") = Told(c, R, "assistant")
      BY <2>2, <2>4, <2>5, <2>6, <3>1, <3>2, <3>3
    <3> QED BY <3>4 DEF R
  <2> QED BY <2>7, <2>8
<1>14. SaidO(<<a>>, who, type) = Those(OfOpenai(a), By(who, type)) /\ <<a>> \in Seq(Proper)
  BY <1>7, OpenaiOne
<1> QED BY <1>2, <1>9, <1>10, <1>11, <1>12, <1>13, <1>14

LEMMA ResultsTranslated ==
  ASSUME NEW c \in Seq(Blocks)
  PROVE  /\ Map(Those(c, Results), ToolMessage) \in Seq(Proper)
         /\ Joined(Map(Those(c, Results), ToolMessage), OfOpenai) = Told(c, Results, "tool")
<1> DEFINE s == Those(c, Results)
           rs == Map(s, ToolMessage)
           h == [b \in Blocks |-> IF b \in Results THEN ToolMessage(b) ELSE Plain("user", <<>>)]
           k == [b \in Blocks |-> IF b \in Results THEN <<h[b]>> ELSE <<>>]
           kf == [b \in Blocks |-> Collect(k[b], SayO)]
<1>1. Turns(h, Blocks, Proper)
  <2>1. \A b \in Results : ToolMessage(b) \in Proper
    BY ToolMessageFacts
  <2>2. Plain("user", <<>>) \in Proper
    <3>1. <<>> \in Seq(TextBlocks \cup Images) /\ "user" \in Roles
      BY DEF Roles
    <3> QED BY <3>1, PlainProper
  <2> QED BY <2>1, <2>2 DEF Turns
<1>2. s \in Seq(Blocks \cap Results)
  BY ThoseTyped
<1>3. [i \in DOMAIN s |-> h[s[i]]] = Collect(c, k)
  <2> HIDE DEF h
  <2> QED BY <1>1, MapThose
<1>4. \A b \in Results : h[b] = ToolMessage(b) /\ h[b] \in Proper
  BY <1>1, Kinds DEF Turns
<1>5. rs = [i \in DOMAIN s |-> h[s[i]]] /\ rs \in Seq(Proper)
  <2> HIDE DEF s, h
  <2>1. \A i \in DOMAIN s : s[i] \in Results
    BY <1>2
  <2>2. \A i \in DOMAIN s : ToolMessage(s[i]) = h[s[i]]
    BY <1>4, <2>1
  <2>3. rs = [i \in DOMAIN s |-> h[s[i]]]
    BY <2>2, Zenon DEF Map
  <2>4. DOMAIN s = 1..Len(s) /\ Len(s) \in Nat /\ \A i \in DOMAIN s : h[s[i]] \in Proper
    BY <1>2, <1>4, <2>1
  <2>5. [i \in DOMAIN s |-> h[s[i]]] \in Seq(Proper)
    BY <2>4
  <2> QED BY <2>3, <2>5
<1>6. Makes(k, Blocks, Proper) /\ Makes(SayO, Proper, Sayings)
  <2> HIDE DEF h
  <2>1. \A x \in Proper : <<x>> \in Seq(Proper)
    OBVIOUS
  <2>2. <<>> \in Seq(Proper)
    OBVIOUS
  <2>3. \A b \in Blocks : k[b] \in Seq(Proper)
    BY <1>1, <2>1, <2>2 DEF Turns
  <2> QED BY <2>3, JoinedSays DEF Makes
<1>7. Joined(rs, OfOpenai) = Collect(rs, SayO)
  <2> HIDE DEF rs
  <2> QED BY <1>5, JoinedSays
<1>8. Collect(Collect(c, k), SayO) = Collect(c, kf)
  <2> HIDE DEF k
  <2> QED BY <1>6, CollectTwice
<1>9. ASSUME NEW b \in Blocks PROVE kf[b] = Tells(Results, "tool")[b]
  <2>1. CASE b \in Results
    <3>1. h[b] = ToolMessage(b) /\ h[b] \in Proper /\ k[b] = <<h[b]>>
      BY <1>4, <2>1
    <3> HIDE DEF h, k
    <3>2. Collect(<<h[b]>>, SayO) = SayO[h[b]]
      BY <1>6, <3>1, CollectOne
    <3>3. SayO[h[b]] = <<[who |-> "tool", what |-> Bare(b)]>>
      BY <2>1, <3>1, ToolMessageFacts DEF SayO
    <3>4. kf[b] = Collect(k[b], SayO)
      OBVIOUS
    <3> HIDE DEF kf
    <3>5. Tells(Results, "tool")[b] = <<[who |-> "tool", what |-> Bare(b)]>>
      BY <2>1 DEF Tells
    <3> QED BY <3>1, <3>2, <3>3, <3>4, <3>5
  <2>2. CASE b \notin Results
    BY <2>2, CollectEmpty DEF Tells
  <2> QED BY <2>1, <2>2
<1>10. Collect(c, kf) = Told(c, Results, "tool")
  <2> DEFINE g == Tells(Results, "tool")
  <2> HIDE DEF kf, g
  <2>1. \A b \in Blocks : kf[b] = g[b]
    BY <1>9 DEF g
  <2>2. Collect(c, kf) = Collect(c, g)
    BY <2>1, CollectAgree
  <2> QED BY <2>2 DEF Told, g
<1> QED BY <1>3, <1>5, <1>7, <1>8, <1>10

\* What is left of a user's message, other than results.
Rest(c) == IF c # <<>> /\ Those(c, Blocks \ Results) = <<>> THEN <<>>
           ELSE <<Plain("user", Those(c, Carried))>>

LEMMA RestTranslated ==
  ASSUME NEW c \in Seq(Blocks)
  PROVE  Rest(c) \in Seq(Proper) /\ Joined(Rest(c), OfOpenai) = Told(c, Carried, "user")
<1> DEFINE p == Those(c, Carried)
           a == Plain("user", p)
<1>1. p \in Seq(Carried) /\ p \in Seq(TextBlocks \cup Images)
  <2>1. p \in Seq(Blocks \cap Carried)
    BY ThoseTyped
  <2> HIDE DEF p
  <2>2. Carried \subseteq TextBlocks \cup Images
    BY Kinds
  <2> QED BY <2>1, <2>2, Wider
<1>2. Said("user", p) = Told(c, Carried, "user")
  <2>1. (\A b \in Blocks : b \in Carried => b \notin Results) /\ "user" \in Speakers
    BY Kinds DEF Speakers
  <2> QED BY <2>1, SaidTold
<1>3. CASE c # <<>> /\ Those(c, Blocks \ Results) = <<>>
  <2> DEFINE A == Blocks \ Results
  <2>1. Those(Those(c, A), Carried) = Those(c, A \cap Carried)
    <3> HIDE DEF A
    <3> QED BY ThoseTwice
  <2>2. Those(c, A \cap Carried) = p
    <3>1. \A b \in Blocks : b \in A \cap Carried <=> b \in Carried
      BY Kinds
    <3> HIDE DEF A
    <3> DEFINE B == A \cap Carried
    <3> HIDE DEF B
    <3>2. \A b \in Blocks : b \in B <=> b \in Carried
      BY <3>1 DEF B
    <3>3. Those(c, B) = p
      BY <3>2, ThoseAgree
    <3> QED BY <3>3 DEF B
  <2>3. p = <<>>
    BY <1>3, <2>1, <2>2, ThoseEmpty
  <2>4. Told(c, Carried, "user") = <<>>
    BY <1>2, <2>3 DEF Said
  <2>5. Rest(c) = <<>>
    BY <1>3 DEF Rest
  <2>6. Joined(<<>>, OfOpenai) = <<>>
    BY DEF Joined, Map, FlattenSeq
  <2> QED BY <2>4, <2>5, <2>6
<1>4. CASE ~(c # <<>> /\ Those(c, Blocks \ Results) = <<>>)
  <2>1. Rest(c) = <<a>>
    BY <1>4 DEF Rest
  <2>2. a \in Proper /\ a.role = "user" /\ a.content = p
    <3> HIDE DEF p
    <3>1. a \in Proper
      BY <1>1, PlainProper DEF Roles
    <3>2. a.role = "user" /\ a.content = p
      BY DEF Plain
    <3> QED BY <3>1, <3>2
  <2>3. OfOpenai(a) = Said("user", Those(p, Carried))
    <3> HIDE DEF a, p
    <3> QED BY <2>2 DEF OfOpenai
  <2>4. Those(p, Carried) = p
    <3> HIDE DEF p
    <3> QED BY <1>1, ThoseAll
  <2>5. Makes(SayO, Proper, Sayings) /\ Collect(<<a>>, SayO) = SayO[a]
    <3> HIDE DEF a
    <3> QED BY <2>2, JoinedSays, CollectOne
  <2> HIDE DEF a
  <2>6. <<a>> \in Seq(Proper)
    BY <2>2
  <2>7. Joined(<<a>>, OfOpenai) = Collect(<<a>>, SayO)
    BY <2>6, JoinedSays
  <2>8. SayO[a] = OfOpenai(a)
    BY <2>2 DEF SayO
  <2> QED BY <1>2, <2>1, <2>3, <2>4, <2>5, <2>6, <2>7, <2>8
<1> QED BY <1>3, <1>4

LEMMA UserTranslated ==
  ASSUME NEW m \in AnthropicForms, m.role # "assistant", NEW who \in Speakers, NEW type
  PROVE  /\ ToOpenai(m) \in Seq(Proper)
         /\ SaidO(ToOpenai(m), who, type) = Those(OfAnthropic(m), By(who, type))
<1> DEFINE c == m.content
           rs == Map(Those(c, Results), ToolMessage)
           B == By(who, type)
           tools == Told(c, Results, "tool")
           users == Told(c, Carried, "user")
<1>1. c \in Seq(Blocks)
  BY DEF AnthropicForms
<1>2. ToOpenai(m) = rs \o Rest(c)
  BY DEF ToOpenai, UserToOpenai, Rest
<1> HIDE DEF c
<1>3. rs \in Seq(Proper) /\ Rest(c) \in Seq(Proper) /\ Joined(rs, OfOpenai) = tools
      /\ Joined(Rest(c), OfOpenai) = users
  BY <1>1, ResultsTranslated, RestTranslated
<1>4. SaidO(rs \o Rest(c), who, type) = Those(tools, B) \o Those(users, B)
  <2> DEFINE a == rs
             b == Rest(c)
  <2> HIDE DEF a, b
  <2>1. SaidO(a \o b, who, type) = SaidO(a, who, type) \o SaidO(b, who, type)
    BY <1>3, OpenaiGrows DEF a, b
  <2>2. SaidO(a, who, type) = Those(tools, B) /\ SaidO(b, who, type) = Those(users, B)
    BY <1>3 DEF SaidO, a, b
  <2> QED BY <2>1, <2>2 DEF a, b
<1>5. Told(c, Results \cap OfType(type), "tool") \in Seq(Sayings)
      /\ Told(c, Carried \cap OfType(type), "user") \in Seq(Sayings)
  BY <1>1, ToldTyped DEF Speakers
<1>6. \A s \in Seq(Sayings) : s \o <<>> = s /\ <<>> \o s = s
  BY ConcatEmptySeq
<1>7. /\ who = "tool" => Those(OfAnthropic(m), B) = Told(c, Results \cap OfType(type), "tool")
      /\ who = "user" => Those(OfAnthropic(m), B) = Told(c, Carried \cap OfType(type), "user")
      /\ who \notin {"tool", "user"} => Those(OfAnthropic(m), B) = <<>>
  BY AnthropicSays DEF c
<1>8. "tool" \in Speakers /\ "user" \in Speakers
  BY DEF Speakers
<1>9. who = "tool" => Those(tools, B) = Told(c, Results \cap OfType(type), "tool")
  BY <1>1, <1>8, ToldBy
<1>10. who # "tool" => Those(tools, B) = <<>>
  BY <1>1, <1>8, ToldByOther
<1>11. who = "user" => Those(users, B) = Told(c, Carried \cap OfType(type), "user")
  BY <1>1, <1>8, ToldBy
<1>12. who # "user" => Those(users, B) = <<>>
  BY <1>1, <1>8, ToldByOther
<1>13. Those(tools, B) \o Those(users, B) = Those(OfAnthropic(m), B)
  <2> HIDE DEF tools, users, B
  <2>1. CASE who = "tool"
    BY <1>5, <1>6, <1>7, <1>9, <1>12, <2>1
  <2>2. CASE who = "user"
    BY <1>5, <1>6, <1>7, <1>10, <1>11, <2>2
  <2>3. CASE who \notin {"tool", "user"}
    <3>1. <<>> \in Seq(Sayings)
      OBVIOUS
    <3> QED BY <1>6, <1>7, <1>10, <1>12, <2>3, <3>1
  <2> QED BY <2>1, <2>2, <2>3
<1>14. rs \o Rest(c) \in Seq(Proper)
  <2> HIDE DEF rs
  <2> QED BY <1>3
<1> QED BY <1>2, <1>4, <1>13, <1>14

-----------------------------------------------------------------------------
(* The state                                                               *)

Typed ==
  /\ pending \in Seq(TextResults) /\ system \in Seq(TextBlocks)
  /\ direction \in {"to_anthropic", "to_openai"}
  /\ direction = "to_anthropic" => read \in Seq(Proper) /\ out \in Seq(AnthropicForms)
  /\ direction = "to_openai" =>
       read \in Seq(AnthropicForms) /\ out \in Seq(Proper) /\ pending = <<>>

\* What the results that wait say.
Waiting(who, type) == Those(Told(pending, Results, "tool"), By(who, type))

LEMMA PendingTyped ==
  ASSUME NEW p \in Seq(TextResults)
  PROVE  p \in Seq(Blocks) /\ [role |-> "user", content |-> p] \in AnthropicForms
<1>1. TextResults \subseteq Blocks
  <2>1. \A s \in Seq(TextBlocks) : s \in Seq(TextBlocks \cup Images)
    BY Wider
  <2>2. TextResults \subseteq Results
    BY <2>1 DEF TextResults, Results
  <2> QED BY <2>2, Kinds
<1>2. p \in Seq(Blocks)
  BY <1>1, Wider
<1> QED BY <1>2 DEF AnthropicForms, Roles

LEMMA FlushedTyped ==
  ASSUME Typed
  PROVE  /\ direction = "to_anthropic" => Flushed \in Seq(AnthropicForms)
         /\ direction = "to_openai" => Flushed = out
<1>1. [role |-> "user", content |-> pending] \in AnthropicForms
  BY PendingTyped DEF Typed
<1> QED BY <1>1 DEF Typed, Flushed

\* What is left of an OpenAI message is in the forms of Anthropic's protocol.
CallMessage(m) == [role |-> "assistant", content |-> CallBlocks(m)]
PlainMessage(m) == [role |-> Speaker(m), content |-> Those(m.content, Carried)]

LEMMA TranslatedTyped ==
  ASSUME NEW m \in Proper
  PROVE  /\ m.role = "assistant" => CallMessage(m) \in AnthropicForms
         /\ PlainMessage(m) \in AnthropicForms
<1>1. m.role = "assistant" => CallBlocks(m) \in Seq(Blocks)
  BY OpenaiSays DEF CallBlocks
<1>2. m.content \in Seq(Blocks)
  BY ProperContent
<1>3. Those(m.content, Carried) \in Seq(Blocks)
  <2> DEFINE c == m.content
  <2> HIDE DEF c
  <2>1. Those(c, Carried) \in Seq(Blocks)
    BY <1>2, ThoseTyped DEF c
  <2> QED BY <2>1 DEF c
<1> QED BY <1>1, <1>3 DEF CallMessage, PlainMessage, AnthropicForms, Speaker, Roles

LEMMA MessagesProper == OpenaiMessages \subseteq Proper
BY ConstantsOK DEF Proper

LEMMA SystemTyped ==
  ASSUME NEW text \in Seq(TextBlocks)
  PROVE  /\ SystemMessage(text) \in Seq(Proper)
         /\ \A who \in {"user", "assistant", "tool"} : \A type :
              SaidO(SystemMessage(text), who, type) = <<>>
<1>1. CASE text = <<>>
  <2>1. SystemMessage(text) = <<>> /\ Joined(<<>>, OfOpenai) = <<>>
    BY <1>1 DEF SystemMessage, Joined, Map, FlattenSeq
  <2> QED BY <2>1, ThoseEmpty DEF SaidO
<1>2. CASE text # <<>>
  <2> DEFINE m == Plain("system", text)
  <2>1. SystemMessage(text) = <<m>>
    BY <1>2 DEF SystemMessage
  <2>2. m \in Proper /\ m.role = "system" /\ m.content = text
    <3>1. text \in Seq(TextBlocks \cup Images) /\ "system" \in Roles
      BY Wider DEF Roles
    <3>2. m.role = "system" /\ m.content = text
      BY DEF Plain
    <3> QED BY <3>1, <3>2, PlainProper
  <2> HIDE DEF m
  <2>3. OfOpenai(m) = Told(text, TextBlocks, "system")
    BY <2>2, OpenaiSays
  <2>4. text \in Seq(Blocks) /\ "system" \in Speakers
    BY Wider, Kinds DEF Speakers
  <2>5. ASSUME NEW who \in {"user", "assistant", "tool"}, NEW type
        PROVE  SaidO(<<m>>, who, type) = <<>>
    <3>1. who \in Speakers /\ who # "system"
      BY DEF Speakers
    <3>2. Those(Told(text, TextBlocks, "system"), By(who, type)) = <<>>
      BY <2>4, <3>1, ToldByOther
    <3> QED BY <2>2, <2>3, <3>2, OpenaiOne
  <2>6. <<m>> \in Seq(Proper)
    BY <2>2
  <2> QED BY <2>1, <2>5, <2>6
<1> QED BY <1>1, <1>2

LEMMA TypedAlways == Spec => []Typed
<1>1. Init => Typed
  <2> SUFFICES ASSUME Init PROVE Typed
    OBVIOUS
  <2>1. CASE direction = "to_anthropic"
    BY <2>1 DEF Init, Typed
  <2>2. CASE direction = "to_openai"
    <3>1. system \in Seq(TextBlocks) /\ out = SystemMessage(system) /\ read = <<>> /\ pending = <<>>
      BY <2>2, ConstantsOK DEF Init
    <3>2. out \in Seq(Proper)
      BY <3>1, SystemTyped
    <3> QED BY <2>2, <3>1, <3>2 DEF Typed
  <2> QED BY <2>1, <2>2 DEF Init
<1>2. Typed /\ [Next]_vars => Typed'
  <2> SUFFICES ASSUME Typed, [Next]_vars PROVE Typed'
    OBVIOUS
  <2>1. CASE UNCHANGED vars
    BY <2>1 DEF vars, Typed
  <2>2. ASSUME direction = "to_anthropic", NEW m \in OpenaiMessages,
               ReadSystem(m) \/ ReadTool(m) \/ ReadCalls(m) \/ ReadPlain(m)
        PROVE  Typed'
    <3>1. m \in Proper /\ direction' = direction
      BY <2>2, MessagesProper DEF ReadSystem, ReadTool, ReadCalls, ReadPlain, Takes
    <3>2. read' \in Seq(Proper)
      <4>1. read' = Append(read, m)
        BY <2>2 DEF ReadSystem, ReadTool, ReadCalls, ReadPlain, Takes
      <4> QED BY <2>2, <3>1, <4>1 DEF Typed
    <3>3. Flushed \in Seq(AnthropicForms)
      BY <2>2, FlushedTyped
    <3>4. m.content \in Seq(Blocks)
      BY <3>1, ProperContent
    <3>5. CASE ReadSystem(m)
      <4> DEFINE t == Texts(m.content)
      <4>1. system' = system \o t /\ out' = Flushed /\ pending' = <<>>
        BY <3>5 DEF ReadSystem, Takes
      <4>2. t \in Seq(TextBlocks)
        <5> DEFINE c == m.content
        <5> HIDE DEF c
        <5>1. Texts(c) \in Seq(TextBlocks)
          BY <3>4, TextsTyped DEF c
        <5> QED BY <5>1 DEF c
      <4> HIDE DEF t
      <4>3. system' \in Seq(TextBlocks) /\ pending' \in Seq(TextResults)
        BY <4>1, <4>2 DEF Typed
      <4> QED BY <2>2, <3>1, <3>2, <3>3, <4>1, <4>3 DEF Typed
    <3>6. CASE ReadTool(m)
      <4>1. out' = out /\ pending' = Append(pending, Result(m)) /\ system' = system
        BY <3>6 DEF ReadTool, Takes
      <4>2. Result(m) \in TextResults
        BY <3>1, <3>6, OpenaiSays DEF ReadTool
      <4>3. pending' \in Seq(TextResults)
        BY <4>1, <4>2 DEF Typed
      <4> QED BY <2>2, <3>1, <3>2, <4>1, <4>3 DEF Typed
    <3>7. CASE ReadCalls(m)
      <4>1. out' = Append(Flushed, CallMessage(m)) /\ pending' = <<>> /\ system' = system
        BY <3>7 DEF ReadCalls, Takes, CallMessage
      <4>2. CallMessage(m) \in AnthropicForms
        BY <3>1, <3>7, TranslatedTyped DEF ReadCalls
      <4>3. out' \in Seq(AnthropicForms) /\ pending' \in Seq(TextResults)
        BY <3>3, <4>1, <4>2
      <4> QED BY <2>2, <3>1, <3>2, <4>1, <4>3 DEF Typed
    <3>8. CASE ReadPlain(m)
      <4>1. out' = Append(Flushed, PlainMessage(m)) /\ pending' = <<>> /\ system' = system
        BY <3>8 DEF ReadPlain, Takes, PlainMessage
      <4>2. PlainMessage(m) \in AnthropicForms
        BY <3>1, TranslatedTyped
      <4>3. out' \in Seq(AnthropicForms) /\ pending' \in Seq(TextResults)
        BY <3>3, <4>1, <4>2
      <4> QED BY <2>2, <3>1, <3>2, <4>1, <4>3 DEF Typed
    <3> QED BY <2>2, <3>5, <3>6, <3>7, <3>8
  <2>3. ASSUME direction = "to_openai", NEW m \in AnthropicMessages, ReadAnthropic(m)
        PROVE  Typed'
    <3>1. m \in AnthropicForms
      BY ConstantsOK
    <3>2. ToOpenai(m) \in Seq(Proper)
      BY <3>1, AssistantTranslated, UserTranslated DEF Speakers
    <3>3. /\ out' = out \o ToOpenai(m) /\ pending' = <<>> /\ system' = system
          /\ direction' = direction /\ read' = Append(read, m)
      BY <2>3 DEF ReadAnthropic, Takes
    <3>4. out \in Seq(Proper) /\ read \in Seq(AnthropicForms)
      BY <2>3 DEF Typed
    <3>5. out' \in Seq(Proper) /\ read' \in Seq(AnthropicForms) /\ pending' \in Seq(TextResults)
      <4> DEFINE t == ToOpenai(m)
      <4> HIDE DEF t
      <4>1. out \o t \in Seq(Proper)
        BY <3>2, <3>4 DEF t
      <4> QED BY <3>1, <3>3, <3>4, <4>1 DEF t
    <3> QED BY <2>3, <3>3, <3>5 DEF Typed
  <2>4. CASE Finish
    <3>1. out' = Flushed /\ pending' = <<>> /\ UNCHANGED <<direction, read, system>>
      BY <2>4 DEF Finish
    <3>2. pending' \in Seq(TextResults)
      BY <3>1
    <3> QED BY <3>1, <3>2, FlushedTyped DEF Typed
  <2> QED BY <2>1, <2>2, <2>3, <2>4 DEF Next
<1> QED BY <1>1, <1>2, PTL DEF Spec

-----------------------------------------------------------------------------
(* Nothing is lost                                                         *)

Kind == {"text", "image", "tool_use", "tool_result"}
Voices == {"user", "assistant", "tool"}

\* What has been read is what is out, and then what the waiting results say.
Same ==
  \A who \in Voices, type \in Kind :
    /\ direction = "to_anthropic" =>
         SaidO(read, who, type) = SaidA(out, who, type) \o Waiting(who, type)
    /\ direction = "to_openai" => SaidA(read, who, type) = SaidO(out, who, type)

LEMMA FlushedSays ==
  ASSUME Typed, direction = "to_anthropic", NEW who \in Speakers, NEW type
  PROVE  /\ SaidA(Flushed, who, type) = SaidA(out, who, type) \o Waiting(who, type)
         /\ SaidA(out, who, type) \in Seq(Sayings) /\ Waiting(who, type) \in Seq(Sayings)
<1> DEFINE x == [role |-> "user", content |-> pending]
           B == By(who, type)
<1>1. pending \in Seq(TextResults) /\ pending \in Seq(Blocks) /\ x \in AnthropicForms
      /\ out \in Seq(AnthropicForms)
  BY PendingTyped DEF Typed
<1>2. SaidA(out, who, type) \in Seq(Sayings)
  BY <1>1, AnthropicGrows
<1>3. "tool" \in Speakers /\ Told(pending, Results, "tool") \in Seq(Sayings)
  BY <1>1, ToldTyped DEF Speakers
<1>4. Waiting(who, type) \in Seq(Sayings)
  BY <1>3, ThoseTyped DEF Waiting
<1>5. CASE pending = <<>>
  <2>1. Waiting(who, type) = <<>>
    <3>1. Told(<<>>, Results, "tool") = <<>>
      BY CollectEmpty DEF Told
    <3> QED BY <1>5, <3>1, ThoseEmpty DEF Waiting
  <2>2. Flushed = out
    BY <1>5 DEF Flushed
  <2>3. \A s \in Seq(Sayings) : s \o <<>> = s
    BY ConcatEmptySeq
  <2> QED BY <1>2, <1>4, <2>1, <2>2, <2>3
<1>6. CASE pending # <<>>
  <2>1. Flushed = Append(out, x)
    BY <1>6 DEF Flushed
  <2>2. SaidA(Append(out, x), who, type) = SaidA(out, who, type) \o Those(OfAnthropic(x), B)
    <3> HIDE DEF x
    <3> QED BY <1>1, AnthropicGrows
  <2>3. x.role # "assistant" /\ x.content = pending
    OBVIOUS
  <2> HIDE DEF x
  <2>4. /\ who = "tool" => Those(OfAnthropic(x), B) = Told(pending, Results \cap OfType(type), "tool")
        /\ who = "user" => Those(OfAnthropic(x), B) = Told(pending, Carried \cap OfType(type), "user")
        /\ who \notin {"tool", "user"} => Those(OfAnthropic(x), B) = <<>>
    BY <1>1, <2>3, AnthropicSays
  <2>5. Told(pending, Carried \cap OfType(type), "user") = <<>>
    <3> DEFINE f == Tells(Carried \cap OfType(type), "user")
    <3>1. \A b \in TextResults : b \in Blocks /\ b \notin Carried
      <4>1. \A b \in TextResults : b.type = "tool_result"
        BY DEF TextResults
      <4>2. TextResults \subseteq Results
        <5>1. \A s \in Seq(TextBlocks) : s \in Seq(TextBlocks \cup Images)
          BY Wider
        <5> QED BY <5>1 DEF TextResults, Results
      <4> QED BY <4>1, <4>2, Kinds
    <3>2. \A b \in TextResults : f[b] = <<>>
      BY <3>1 DEF Tells
    <3> HIDE DEF f
    <3>3. Collect(pending, f) = <<>>
      BY <1>1, <3>2, CollectNone
    <3> QED BY <3>3 DEF Told, f
  <2>6. who = "tool" => Waiting(who, type) = Told(pending, Results \cap OfType(type), "tool")
    BY <1>1, <1>3, ToldBy DEF Waiting
  <2>7. who # "tool" => Waiting(who, type) = <<>>
    BY <1>1, <1>3, ToldByOther DEF Waiting
  <2>8. Those(OfAnthropic(x), B) = Waiting(who, type)
    BY <2>4, <2>5, <2>6, <2>7
  <2> QED BY <1>2, <1>4, <2>1, <2>2, <2>8
<1> QED BY <1>5, <1>6

\* What becomes of a message says what the message says.
LEMMA CallMessageSays ==
  ASSUME NEW m \in Proper, m.role = "assistant"
  PROVE  OfAnthropic(CallMessage(m)) = OfOpenai(m)
<1>1. /\ CallMessage(m) \in AnthropicForms /\ CallMessage(m).role = "assistant"
      /\ CallMessage(m).content = Texts(m.content) \o Map(m.calls, ToolUse)
  <2>1. CallMessage(m) \in AnthropicForms
    BY TranslatedTyped
  <2> QED BY <2>1 DEF CallMessage, CallBlocks
<1> QED BY <1>1, AnthropicSays, OpenaiSays

LEMMA PlainMessageSays ==
  ASSUME NEW m \in Proper, m.role \notin {"system", "tool"}, m.calls = <<>>,
         NEW who \in Speakers, NEW type
  PROVE  Those(OfAnthropic(PlainMessage(m)), By(who, type)) = Those(OfOpenai(m), By(who, type))
<1> DEFINE c == m.content
           x == PlainMessage(m)
           p == Those(c, Carried)
           S == TextBlocks \cup Uses
<1>1. c \in Seq(TextBlocks \cup Images) /\ c \in Seq(Blocks)
  BY ProperContent
<1>2. x \in AnthropicForms /\ x.role = Speaker(m) /\ x.content = p
  <2>1. x \in AnthropicForms
    BY TranslatedTyped
  <2> QED BY <2>1 DEF PlainMessage
<1>3. m.content = c
  OBVIOUS
<1> HIDE DEF c, x
<1>4. p \in Seq(Blocks) /\ p \in Seq(Carried)
  <2>1. p \in Seq(Blocks) /\ p \in Seq(Blocks \cap Carried)
    BY <1>1, ThoseTyped
  <2> HIDE DEF p
  <2> QED BY <2>1, Wider
<1>5. CASE m.role = "assistant"
  <2>1. OfAnthropic(x) = Told(p, S, "assistant")
    <3>1. x.role = "assistant"
      BY <1>2, <1>5 DEF Speaker
    <3> QED BY <1>2, <3>1, AnthropicSays
  <2>2. Told(p, S, "assistant") = Said("assistant", Those(p, S))
    <3>1. (\A b \in Blocks : b \in S => b \notin Results) /\ "assistant" \in Speakers
      BY Kinds DEF Speakers
    <3> HIDE DEF S, p
    <3> QED BY <1>4, <3>1, SaidTold
  <2>3. Those(p, S) = Texts(c)
    <3> DEFINE R == Carried \cap S
    <3>1. Those(p, S) = Those(c, R)
      <4> HIDE DEF S
      <4> QED BY <1>1, ThoseTwice
    <3>2. \A b \in TextBlocks \cup Images : b \in R <=> b \in TextBlocks
      BY Kinds DEF Images, Uses
    <3> HIDE DEF R
    <3>3. Those(c, R) = Those(c, TextBlocks)
      BY <1>1, <3>2, ThoseAgree
    <3> QED BY <3>1, <3>3 DEF Texts
  <2>4. OfOpenai(m) = Said("assistant", Texts(c))
    <3>1. OfOpenai(m) = Said("assistant", Texts(c) \o Map(<<>>, ToolUse))
      BY <1>3, <1>5 DEF OfOpenai
    <3>2. Map(<<>>, ToolUse) = <<>>
      BY DEF Map
    <3>3. Texts(c) \in Seq(Blocks)
      BY <1>1, TextsTyped
    <3>4. Texts(c) \o <<>> = Texts(c)
      BY <3>3, ConcatEmptySeq
    <3> QED BY <3>1, <3>2, <3>4
  <2> QED BY <2>1, <2>2, <2>3, <2>4 DEF x
<1>6. CASE m.role # "assistant"
  <2>1. x.role # "assistant"
    BY <1>2, <1>6 DEF Speaker
  <2>2. /\ who = "tool" => Those(OfAnthropic(x), By(who, type)) = Told(p, Results \cap OfType(type), "tool")
        /\ who = "user" => Those(OfAnthropic(x), By(who, type)) = Told(p, Carried \cap OfType(type), "user")
        /\ who \notin {"tool", "user"} => Those(OfAnthropic(x), By(who, type)) = <<>>
    BY <1>2, <2>1, AnthropicSays
  <2>3. Told(p, Results \cap OfType(type), "tool") = <<>>
    <3> DEFINE f == Tells(Results \cap OfType(type), "tool")
    <3>1. \A b \in Carried : f[b] = <<>>
      BY Kinds DEF Tells
    <3> HIDE DEF f
    <3>2. Collect(p, f) = <<>>
      <4> HIDE DEF p
      <4> QED BY <1>4, <3>1, CollectNone
    <3> QED BY <3>2 DEF Told, f
  <2>4. OfOpenai(m) = Told(c, Carried, "user")
    BY <1>3, <1>6, OpenaiSays
  <2>5. Told(c, Carried, "user") = Told(p, Carried, "user")
    <3>1. (\A b \in Blocks : b \in Carried => b \notin Results) /\ "user" \in Speakers
      BY Kinds DEF Speakers
    <3>2. Said("user", p) = Told(c, Carried, "user")
      BY <1>1, <3>1, SaidTold
    <3> HIDE DEF p
    <3>3. Said("user", Those(p, Carried)) = Told(p, Carried, "user")
      BY <1>4, <3>1, SaidTold
    <3>4. Those(p, Carried) = p
      BY <1>4, ThoseAll
    <3> QED BY <3>2, <3>3, <3>4
  <2>6. "user" \in Speakers
    BY DEF Speakers
  <2> HIDE DEF p
  <2>7. who = "user" => Those(OfOpenai(m), By(who, type)) = Told(p, Carried \cap OfType(type), "user")
    BY <1>4, <2>4, <2>5, <2>6, ToldBy
  <2>8. who # "user" => Those(OfOpenai(m), By(who, type)) = <<>>
    BY <1>4, <2>4, <2>5, <2>6, ToldByOther
  <2> QED BY <2>2, <2>3, <2>7, <2>8 DEF x
<1> QED BY <1>5, <1>6

LEMMA SameInit ==
  ASSUME Init, Typed
  PROVE  Same
<1> SUFFICES ASSUME NEW who \in Voices, NEW type \in Kind
             PROVE  /\ direction = "to_anthropic" =>
                         SaidO(read, who, type) = SaidA(out, who, type) \o Waiting(who, type)
                    /\ direction = "to_openai" => SaidA(read, who, type) = SaidO(out, who, type)
  BY DEF Same
<1>1. read = <<>> /\ pending = <<>>
  BY DEF Init
<1>2. Joined(<<>>, OfOpenai) = <<>> /\ Joined(<<>>, OfAnthropic) = <<>>
  BY DEF Joined, Map, FlattenSeq
<1>3. SaidO(<<>>, who, type) = <<>> /\ SaidA(<<>>, who, type) = <<>>
  BY <1>2, ThoseEmpty DEF SaidO, SaidA
<1>4. Waiting(who, type) = <<>>
  <2>1. Told(<<>>, Results, "tool") = <<>>
    BY CollectEmpty DEF Told
  <2> QED BY <1>1, <2>1, ThoseEmpty DEF Waiting
<1>5. direction = "to_anthropic" => out = <<>>
  BY DEF Init
<1>6. direction = "to_openai" => SaidO(out, who, type) = <<>>
  <2> SUFFICES ASSUME direction = "to_openai" PROVE SaidO(out, who, type) = <<>>
    OBVIOUS
  <2>1. out = SystemMessage(system) /\ system \in Seq(TextBlocks)
    BY DEF Init, Typed
  <2>2. SaidO(SystemMessage(system), who, type) = <<>>
    BY <2>1, SystemTyped DEF Voices
  <2> QED BY <2>1, <2>2
<1>7. <<>> \o <<>> = <<>>
  OBVIOUS
<1> QED BY <1>1, <1>3, <1>4, <1>5, <1>6, <1>7

LEMMA SameStep ==
  ASSUME Typed, Same, [Next]_vars
  PROVE  Same'
<1> SUFFICES ASSUME NEW who \in Voices, NEW type \in Kind
             PROVE  /\ direction' = "to_anthropic" =>
                         SaidO(read', who, type) = SaidA(out', who, type) \o Waiting(who, type)'
                    /\ direction' = "to_openai" => SaidA(read', who, type) = SaidO(out', who, type)
  BY DEF Same, SaidA, SaidO
<1>0. who \in Speakers /\ who # "system" /\ "tool" \in Speakers
  BY DEF Voices, Speakers
<1> DEFINE B == By(who, type)
<1>1. /\ direction = "to_anthropic" =>
           SaidO(read, who, type) = SaidA(out, who, type) \o Waiting(who, type)
      /\ direction = "to_openai" => SaidA(read, who, type) = SaidO(out, who, type)
  BY DEF Same
<1>2. Waiting(who, type)' = Those(Told(pending', Results, "tool"), B)
  BY DEF Waiting, Told
<1>3. Those(Told(<<>>, Results, "tool"), B) = <<>>
  <2>1. Told(<<>>, Results, "tool") = <<>>
    BY CollectEmpty DEF Told
  <2> QED BY <2>1, ThoseEmpty
<1>4. \A s \in Seq(Sayings) : s \o <<>> = s
  BY ConcatEmptySeq
<1>5. CASE UNCHANGED vars
  BY <1>1, <1>2, <1>5 DEF vars, Waiting
<1>6. ASSUME direction = "to_anthropic", NEW m \in OpenaiMessages,
             ReadSystem(m) \/ ReadTool(m) \/ ReadCalls(m) \/ ReadPlain(m)
      PROVE  SaidO(read', who, type) = SaidA(out', who, type) \o Waiting(who, type)'
  <2>1. m \in Proper /\ read \in Seq(Proper) /\ read' = Append(read, m)
    BY <1>6, MessagesProper DEF ReadSystem, ReadTool, ReadCalls, ReadPlain, Takes, Typed
  <2>2. SaidO(read', who, type) = SaidO(read, who, type) \o Those(OfOpenai(m), B)
    BY <2>1, OpenaiOne
  <2>3. /\ SaidA(Flushed, who, type) = SaidO(read, who, type)
        /\ SaidA(out, who, type) \in Seq(Sayings) /\ Waiting(who, type) \in Seq(Sayings)
        /\ SaidO(read, who, type) \in Seq(Sayings)
    <3>1. SaidO(read, who, type) \in Seq(Sayings)
      BY <2>1, OpenaiGrows
    <3> QED BY <1>0, <1>1, <1>6, <3>1, FlushedSays
  <2>4. Flushed \in Seq(AnthropicForms)
    BY <1>6, FlushedTyped
  \* A message of the translated request: the results come before it, and it
  \* says what the client's message says.
  <2>5. ASSUME NEW x \in AnthropicForms, out' = Append(Flushed, x), pending' = <<>>,
               Those(OfAnthropic(x), B) = Those(OfOpenai(m), B)
        PROVE  SaidO(read', who, type) = SaidA(out', who, type) \o Waiting(who, type)'
    <3>1. SaidA(out', who, type) = SaidA(Flushed, who, type) \o Those(OfAnthropic(x), B)
      BY <2>4, <2>5, AnthropicGrows
    <3>2. Those(OfAnthropic(x), B) \in Seq(Sayings)
      BY <2>4, AnthropicGrows
    <3>3. Waiting(who, type)' = <<>>
      BY <1>2, <1>3, <2>5
    <3>4. SaidA(out', who, type) \in Seq(Sayings)
      BY <2>3, <3>1, <3>2
    <3> QED BY <1>4, <2>2, <2>3, <2>5, <3>1, <3>3, <3>4
  <2>6. CASE ReadSystem(m)
    <3>1. out' = Flushed /\ pending' = <<>> /\ m.role = "system"
      BY <2>6 DEF ReadSystem, Takes
    <3>2. Those(OfOpenai(m), B) = <<>>
      <4>1. OfOpenai(m) = Told(m.content, TextBlocks, "system") /\ m.content \in Seq(Blocks)
        BY <2>1, <3>1, OpenaiSays, ProperContent
      <4>2. "system" \in Speakers
        BY DEF Speakers
      <4> DEFINE c == m.content
      <4> HIDE DEF c
      <4>3. Those(Told(c, TextBlocks, "system"), B) = <<>>
        BY <1>0, <4>1, <4>2, ToldByOther DEF c
      <4> QED BY <4>1, <4>3 DEF c
    <3>3. Waiting(who, type)' = <<>>
      BY <1>2, <1>3, <3>1
    <3> QED BY <1>4, <2>2, <2>3, <3>1, <3>2, <3>3
  <2>7. CASE ReadTool(m)
    <3> DEFINE r == Result(m)
               f == Tells(Results, "tool")
    <3>1. out' = out /\ pending' = Append(pending, r) /\ m.role = "tool"
      BY <2>7 DEF ReadTool, Takes
    <3>2. r \in TextResults /\ r \in Blocks /\ OfOpenai(m) = <<[who |-> "tool", what |-> r]>>
      BY <2>1, <3>1, OpenaiSays
    <3>3. pending \in Seq(Blocks)
      BY PendingTyped DEF Typed
    <3> HIDE DEF r
    <3>4. r \in Results /\ Bare(r) = r
      <4>1. r.content \in Seq(TextBlocks)
        BY <3>2 DEF TextResults
      <4>2. r.content \in Seq(TextBlocks \cup Images)
        BY <4>1, Wider
      <4>3. r \in Results
        BY <3>2, <4>2 DEF TextResults, Results
      <4>4. Texts(r.content) = r.content
        BY <4>1, TextsOfTexts
      <4>5. [r EXCEPT !.content = r.content] = r
        BY <3>2 DEF TextResults
      <4> QED BY <4>3, <4>4, <4>5 DEF Bare
    <3>5. f[r] = <<[who |-> "tool", what |-> r]>>
      BY <3>2, <3>4 DEF Tells
    <3>6. Makes(f, Blocks, Sayings)
      BY <1>0, TellsFacts
    <3> HIDE DEF f
    <3>7. Collect(Append(pending, r), f) = Collect(pending, f) \o f[r]
      BY <3>2, <3>3, <3>6, CollectAppend
    <3>8. Collect(pending, f) \in Seq(Sayings) /\ f[r] \in Seq(Sayings)
      BY <3>2, <3>3, <3>6, CollectTyped DEF Makes
    <3> DEFINE a == Collect(pending, f)
               b == f[r]
    <3>9. Those(a \o b, B) = Those(a, B) \o Those(b, B)
      <4> HIDE DEF a, b
      <4>1. a \in Seq(Sayings) /\ b \in Seq(Sayings)
        BY <3>8 DEF a, b
      <4> HIDE DEF B
      <4> QED BY <4>1, ThoseConcat
    <3>10. Waiting(who, type)' = Waiting(who, type) \o Those(OfOpenai(m), B)
      <4>1. Waiting(who, type)' = Those(Collect(Append(pending, r), f), B)
        BY <1>2, <3>1 DEF Told, f
      <4>2. Waiting(who, type) = Those(Collect(pending, f), B)
        BY DEF Waiting, Told, f
      <4> QED BY <3>2, <3>5, <3>7, <3>9, <4>1, <4>2
    <3>11. Those(OfOpenai(m), B) \in Seq(Sayings)
      <4>1. OfOpenai(m) \in Seq(Sayings)
        BY <2>1, OpenaiSays
      <4> QED BY <4>1, ThoseTyped
    <3>12. SaidO(read, who, type) = SaidA(out, who, type) \o Waiting(who, type)
      BY <1>1, <1>6
    <3> DEFINE p == SaidA(out, who, type)
               q == Waiting(who, type)
               s == Those(OfOpenai(m), B)
    <3>13. (p \o q) \o s = p \o (q \o s)
      <4>1. p \in Seq(Sayings) /\ q \in Seq(Sayings) /\ s \in Seq(Sayings)
        BY <2>3, <3>11
      <4> HIDE DEF p, q, s
      <4> QED BY <4>1, ConcatAssociative
    <3> QED BY <2>2, <3>1, <3>10, <3>12, <3>13
  <2>8. CASE ReadCalls(m)
    <3>1. out' = Append(Flushed, CallMessage(m)) /\ pending' = <<>> /\ m.role = "assistant"
      BY <2>8 DEF ReadCalls, Takes, CallMessage
    <3>2. CallMessage(m) \in AnthropicForms /\ OfAnthropic(CallMessage(m)) = OfOpenai(m)
      BY <2>1, <3>1, TranslatedTyped, CallMessageSays
    <3> QED BY <2>5, <3>1, <3>2
  <2>9. CASE ReadPlain(m)
    <3>1. /\ out' = Append(Flushed, PlainMessage(m)) /\ pending' = <<>>
          /\ m.role \notin {"system", "tool"} /\ m.calls = <<>>
      BY <2>9 DEF ReadPlain, Takes, PlainMessage
    <3>2. /\ PlainMessage(m) \in AnthropicForms
          /\ Those(OfAnthropic(PlainMessage(m)), B) = Those(OfOpenai(m), B)
      BY <1>0, <2>1, <3>1, TranslatedTyped, PlainMessageSays
    <3> QED BY <2>5, <3>1, <3>2
  <2> QED BY <1>6, <2>6, <2>7, <2>8, <2>9
<1>7. ASSUME direction = "to_openai", NEW m \in AnthropicMessages, ReadAnthropic(m)
      PROVE  SaidA(read', who, type) = SaidO(out', who, type)
  <2>1. /\ m \in AnthropicForms /\ read' = Append(read, m) /\ out' = out \o ToOpenai(m)
        /\ read \in Seq(AnthropicForms) /\ out \in Seq(Proper)
    BY <1>7, ConstantsOK DEF ReadAnthropic, Takes, Typed
  <2>2. /\ ToOpenai(m) \in Seq(Proper)
        /\ SaidO(ToOpenai(m), who, type) = Those(OfAnthropic(m), B)
    BY <1>0, <2>1, AssistantTranslated, UserTranslated
  <2>3. SaidA(read', who, type) = SaidA(read, who, type) \o Those(OfAnthropic(m), B)
    BY <2>1, AnthropicGrows
  <2>4. SaidO(out \o ToOpenai(m), who, type) = SaidO(out, who, type) \o SaidO(ToOpenai(m), who, type)
    <3> DEFINE t == ToOpenai(m)
    <3> HIDE DEF t
    <3>1. t \in Seq(Proper)
      BY <2>2 DEF t
    <3>2. SaidO(out \o t, who, type) = SaidO(out, who, type) \o SaidO(t, who, type)
      BY <2>1, <3>1, OpenaiGrows
    <3> QED BY <3>2 DEF t
  <2> QED BY <1>1, <1>7, <2>1, <2>2, <2>3, <2>4
<1>8. CASE Finish
  <2>1. out' = Flushed /\ pending' = <<>> /\ UNCHANGED <<direction, read>>
    BY <1>8 DEF Finish
  <2>2. Waiting(who, type)' = <<>>
    BY <1>2, <1>3, <2>1
  <2>3. CASE direction = "to_anthropic"
    <3>1. /\ SaidA(Flushed, who, type) = SaidO(read, who, type)
          /\ SaidA(out, who, type) \in Seq(Sayings) /\ Waiting(who, type) \in Seq(Sayings)
      BY <1>0, <1>1, <2>3, FlushedSays
    <3>2. SaidA(Flushed, who, type) \in Seq(Sayings)
      <4>1. Flushed \in Seq(AnthropicForms)
        BY <2>3, FlushedTyped
      <4>2. SaidA(Flushed, who, type) = SaidA(out, who, type) \o Waiting(who, type)
        BY <1>0, <2>3, FlushedSays
      <4> QED BY <3>1, <4>2
    <3> QED BY <1>4, <2>1, <2>2, <2>3, <3>1, <3>2
  <2>4. CASE direction = "to_openai"
    BY <1>1, <2>1, <2>4, FlushedTyped
  <2> QED BY <2>1, <2>3, <2>4 DEF Typed
<1>9. direction' = direction
  BY DEF Next, vars, ReadSystem, ReadTool, ReadCalls, ReadPlain, ReadAnthropic, Takes, Finish
<1> QED BY <1>5, <1>6, <1>7, <1>8, <1>9 DEF Next

\* Nothing a client may say in both protocols gets lost, doubled or out of
\* order in a translation, however long the request and whatever messages
\* follow each other.
THEOREM SaysWhatWasSaid == Spec => []NothingLost
<1>1. Init /\ Typed => Same
  BY SameInit
<1>2. Same /\ Typed /\ [Next]_vars => Same'
  BY SameStep
<1>3. Same /\ Typed => NothingLost
  <2> SUFFICES ASSUME Same, Typed PROVE NothingLost
    OBVIOUS
  <2> DEFINE before == IF direction = "to_anthropic" THEN Joined(read, OfOpenai)
                                                     ELSE Joined(read, OfAnthropic)
             now == IF direction = "to_anthropic" THEN Joined(Flushed, OfAnthropic)
                                                  ELSE Joined(out, OfOpenai)
  <2>1. ASSUME NEW who \in Voices, NEW type \in Kind
        PROVE  Those(before, By(who, type)) = Those(now, By(who, type))
    <3>1. who \in Speakers
      BY DEF Voices, Speakers
    <3>2. CASE direction = "to_anthropic"
      <4>1. SaidO(read, who, type) = SaidA(out, who, type) \o Waiting(who, type)
        BY <3>2 DEF Same
      <4>2. SaidA(Flushed, who, type) = SaidA(out, who, type) \o Waiting(who, type)
        BY <3>1, <3>2, FlushedSays
      <4> QED BY <3>2, <4>1, <4>2 DEF SaidO, SaidA
    <3>3. CASE direction = "to_openai"
      <4>1. SaidA(read, who, type) = SaidO(out, who, type)
        BY <3>3 DEF Same
      <4> QED BY <3>3, <4>1 DEF SaidO, SaidA
    <3> QED BY <3>2, <3>3 DEF Typed
  <2> QED BY <2>1 DEF NothingLost, Voices, Kind
<1> QED BY <1>1, <1>2, <1>3, TypedAlways, PTL DEF Spec

-----------------------------------------------------------------------------
(* There and back                                                          *)

Returned == [m \in AnthropicForms |-> ToOpenai(m)]
Normals == [m \in Proper |-> Normal(m)]
SystemTexts == [m \in Proper |-> SystemText(m)]

LEMMA CallMessageReturns ==
  ASSUME NEW m \in Proper, m.role = "assistant", m.calls # <<>>
  PROVE  ToOpenai(CallMessage(m)) = Normal(m)
<1> DEFINE c == m.content
           t == Texts(c)
           u == Map(m.calls, ToolUse)
           s == t \o u
           a == [role |-> "assistant", content |-> t, calls |-> Map(u, Call), id |-> ""]
<1>1. c \in Seq(Blocks) /\ m.calls \in Seq(Calls)
  BY ProperContent
<1>2. t \in Seq(TextBlocks) /\ t \in Seq(Blocks)
  <2> HIDE DEF c
  <2> QED BY <1>1, TextsTyped
<1>3. u \in Seq(Uses) /\ u \in Seq(Blocks)
  BY <1>1, UsesTyped
<1>4. CallMessage(m) = [role |-> "assistant", content |-> s]
  BY DEF CallMessage, CallBlocks
<1>5. Normal(m) = <<a>>
  <2> DEFINE calls == m.calls
  <2>1. \A k \in Calls : Call(ToolUse(k)) = NormalCall(k)
    BY DEF Call, ToolUse, NormalCall
  <2>2. \A i \in DOMAIN calls : calls[i] \in Calls
    BY <1>1
  <2>3. \A i \in DOMAIN calls : u[i] = ToolUse(calls[i])
    BY DEF Map
  <2>4. DOMAIN u = DOMAIN calls
    BY DEF Map
  <2> HIDE DEF calls, u
  <2>5. \A i \in DOMAIN calls : Call(u[i]) = NormalCall(calls[i])
    BY <2>1, <2>2, <2>3, Zenon
  <2>6. Map(u, Call) = [i \in DOMAIN calls |-> Call(u[i])]
    BY <2>4, Zenon DEF Map
  <2>7. Map(u, Call) = Map(calls, NormalCall)
    BY <2>5, <2>6, Zenon DEF Map
  <2>8. Normal(m) = <<[role |-> "assistant", content |-> t, calls |-> Map(calls, NormalCall), id |-> ""]>>
    BY DEF Normal, calls
  <2> HIDE DEF t
  <2> QED BY <2>7, <2>8, Zenon
<1> HIDE DEF t, u
<1>6. Texts(s) = t
  <2>1. Those(s, TextBlocks) = Those(t, TextBlocks) \o Those(u, TextBlocks)
    BY <1>2, <1>3, ThoseConcat
  <2>2. Those(t, TextBlocks) = t
    BY <1>2, ThoseAll
  <2>3. Those(u, TextBlocks) = <<>>
    BY <1>3, ThoseNone, Kinds
  <2>4. t \o <<>> = t
    BY <1>2, ConcatEmptySeq
  <2> QED BY <2>1, <2>2, <2>3, <2>4 DEF Texts
<1>7. Those(s, Uses) = u
  <2>1. Those(s, Uses) = Those(t, Uses) \o Those(u, Uses)
    BY <1>2, <1>3, ThoseConcat
  <2>2. Those(t, Uses) = <<>>
    BY <1>2, ThoseNone, Kinds
  <2>3. Those(u, Uses) = u
    BY <1>3, ThoseAll
  <2>4. <<>> \o u = u
    BY <1>3, ConcatEmptySeq
  <2> QED BY <2>1, <2>2, <2>3, <2>4
<1>8. ToOpenai(CallMessage(m)) = <<a>>
  <2>1. ToOpenai(CallMessage(m)) = AssistantToOpenai(s)
    <3> HIDE DEF s
    <3> QED BY <1>4 DEF ToOpenai
  <2> HIDE DEF s
  <2> QED BY <1>6, <1>7, <2>1 DEF AssistantToOpenai
<1> QED BY <1>5, <1>8

LEMMA PlainMessageReturns ==
  ASSUME NEW m \in Proper, m.role \notin {"system", "tool"}, m.calls = <<>>
  PROVE  ToOpenai(PlainMessage(m)) = Normal(m)
<1> DEFINE c == m.content
           p == Those(c, Carried)
<1>1. c \in Seq(TextBlocks \cup Images) /\ c \in Seq(Blocks)
  BY ProperContent
<1>2. PlainMessage(m) = [role |-> Speaker(m), content |-> p]
  BY DEF PlainMessage
<1>3. m \in OpenaiForms /\ m.id = ""
  BY DEF Proper
<1>4. m.content = c
  OBVIOUS
<1> HIDE DEF c
<1>5. p \in Seq(Blocks) /\ p \in Seq(Carried)
  <2>1. p \in Seq(Blocks) /\ p \in Seq(Blocks \cap Carried)
    BY <1>1, ThoseTyped
  <2> HIDE DEF p
  <2> QED BY <2>1, Wider
<1>6. CASE m.role = "assistant"
  <2> DEFINE a == [role |-> "assistant", content |-> Texts(c), calls |-> <<>>, id |-> ""]
  <2>1. Texts(p) = Texts(c)
    <3> DEFINE R == Carried \cap TextBlocks
    <3>1. Those(p, TextBlocks) = Those(c, R)
      BY <1>1, ThoseTwice
    <3>2. \A b \in Blocks : b \in R <=> b \in TextBlocks
      BY Kinds
    <3> HIDE DEF R
    <3>3. Those(c, R) = Those(c, TextBlocks)
      BY <1>1, <3>2, ThoseAgree
    <3> QED BY <3>1, <3>3 DEF Texts
  <2>2. Those(p, Uses) = <<>>
    <3> HIDE DEF p
    <3> QED BY <1>5, ThoseNone, Kinds
  <2>3. ToOpenai(PlainMessage(m)) = AssistantToOpenai(p)
    <3> HIDE DEF p
    <3> QED BY <1>2, <1>6 DEF ToOpenai, Speaker
  <2>4. Map(<<>>, Call) = <<>> /\ Map(<<>>, ToolUse) = <<>>
    BY DEF Map
  <2>5. AssistantToOpenai(p) = <<a>>
    <3> HIDE DEF p
    <3> QED BY <2>1, <2>2, <2>4 DEF AssistantToOpenai
  <2>6. Normal(m) = <<a>>
    <3>1. Map(m.calls, NormalCall) = <<>>
      BY DEF Map
    <3> QED BY <1>4, <1>6, <3>1 DEF Normal
  <2> QED BY <2>3, <2>5, <2>6
<1>7. CASE m.role # "assistant"
  <2>1. ToOpenai(PlainMessage(m)) = UserToOpenai(p)
    <3> HIDE DEF p
    <3> QED BY <1>2, <1>7 DEF ToOpenai, Speaker
  <2>2. Those(p, Results) = <<>>
    <3> HIDE DEF p
    <3> QED BY <1>5, ThoseNone, Kinds
  <2>3. Those(p, Blocks \ Results) = p /\ Those(p, Carried) = p
    <3> HIDE DEF p
    <3>1. Carried \subseteq Blocks \ Results
      BY Kinds
    <3> QED BY <1>5, <3>1, ThoseAll
  <2>4. Map(<<>>, ToolMessage) = <<>>
    BY DEF Map
  <2> HIDE DEF p
  <2>5. UserToOpenai(p) = <<>> \o <<Plain("user", p)>>
    BY <2>2, <2>3, <2>4 DEF UserToOpenai
  <2>6. UserToOpenai(p) = <<Plain("user", p)>>
    <3> DEFINE x == Plain("user", p)
    <3> HIDE DEF x
    <3>1. <<>> \o <<x>> = <<x>>
      OBVIOUS
    <3> QED BY <2>5, <3>1 DEF x
  <2>7. Normal(m) = <<Plain("user", p)>>
    BY <1>4, <1>7 DEF Normal, p
  <2> QED BY <2>1, <2>6, <2>7
<1> QED BY <1>6, <1>7

LEMMA ResultReturns ==
  ASSUME NEW m \in Proper, m.role = "tool"
  PROVE  Result(m) \in TextResults /\ Result(m) \in Results /\ Normal(m) = <<ToolMessage(Result(m))>>
<1> DEFINE c == m.content
           t == Texts(c)
           r == Result(m)
<1>1. r \in TextResults
  BY OpenaiSays
<1>2. r = [type |-> "tool_result", id |-> m.id, content |-> t]
  BY DEF Result
<1>3. c \in Seq(Blocks)
  BY ProperContent
<1>4. t \in Seq(TextBlocks)
  <2> HIDE DEF c
  <2> QED BY <1>3, TextsTyped
<1>5. m \in OpenaiForms /\ m.calls = <<>>
  BY DEF Proper
<1>6. Normal(m) = <<[role |-> "tool", content |-> t, calls |-> <<>>, id |-> m.id]>>
  BY DEF Normal
<1> HIDE DEF t, r
<1>7. Texts(t) = t
  BY <1>4, TextsOfTexts
<1>8. ToolMessage(r) = [role |-> "tool", content |-> t, calls |-> <<>>, id |-> m.id]
  BY <1>2, <1>7 DEF ToolMessage
<1>9. r \in Results
  <2>1. t \in Seq(TextBlocks \cup Images)
    BY <1>4, Wider
  <2>2. m.id \in CallIds
    BY <1>1, <1>2 DEF TextResults
  <2> QED BY <1>2, <2>1, <2>2 DEF Results
<1> QED BY <1>1, <1>6, <1>8, <1>9 DEF r

LEMMA ReturnsTyped ==
  /\ Makes(Returned, AnthropicForms, Proper) /\ Makes(Normals, Proper, Proper)
  /\ Makes(SystemTexts, Proper, TextBlocks)
  /\ \A ms \in Seq(AnthropicForms) : Joined(ms, ToOpenai) = Collect(ms, Returned)
  /\ \A ms \in Seq(Proper) : Joined(ms, Normal) = Collect(ms, Normals)
  /\ \A ms \in Seq(Proper) : Joined(ms, SystemText) = Collect(ms, SystemTexts)
<1>1. \A m \in AnthropicForms : ToOpenai(m) \in Seq(Proper)
  BY AssistantTranslated, UserTranslated DEF Speakers
<1>2. Makes(Returned, AnthropicForms, Proper)
  BY <1>1 DEF Makes, Returned
<1>3. ASSUME NEW m \in Proper PROVE Normal(m) \in Seq(Proper)
  <2>1. CASE m.role = "tool"
    <3> DEFINE x == ToolMessage(Result(m))
    <3>1. x \in Proper /\ Normal(m) = <<x>>
      BY <2>1, ResultReturns, ToolMessageFacts
    <3> HIDE DEF x
    <3> QED BY <3>1
  <2>2. CASE m.role = "system"
    BY <2>2 DEF Normal
  <2>3. CASE m.role = "assistant" /\ m.calls # <<>>
    BY <1>1, <2>3, CallMessageReturns, TranslatedTyped
  <2>4. CASE m.role \notin {"tool", "system"} /\ m.calls = <<>>
    BY <1>1, <2>4, PlainMessageReturns, TranslatedTyped
  <2> QED BY <2>1, <2>2, <2>3, <2>4 DEF Proper
<1>4. Makes(Normals, Proper, Proper)
  BY <1>3 DEF Makes, Normals
<1>5. \A m \in Proper : SystemText(m) \in Seq(TextBlocks)
  <2> SUFFICES ASSUME NEW m \in Proper PROVE SystemText(m) \in Seq(TextBlocks)
    OBVIOUS
  <2> DEFINE c == m.content
  <2>1. c \in Seq(Blocks)
    BY ProperContent
  <2> HIDE DEF c
  <2>2. Texts(c) \in Seq(TextBlocks)
    BY <2>1, TextsTyped
  <2> QED BY <2>2 DEF SystemText, c
<1>6. Makes(SystemTexts, Proper, TextBlocks)
  BY <1>5 DEF Makes, SystemTexts
<1>7. ASSUME NEW ms \in Seq(AnthropicForms) PROVE Joined(ms, ToOpenai) = Collect(ms, Returned)
  <2>1. \A i \in DOMAIN ms : ms[i] \in AnthropicForms
    OBVIOUS
  <2>2. \A i \in DOMAIN ms : ToOpenai(ms[i]) = Returned[ms[i]]
    BY <2>1, Zenon DEF Returned
  <2> QED BY <2>2, Zenon DEF Joined, Map, Collect
<1>8. ASSUME NEW ms \in Seq(Proper) PROVE Joined(ms, Normal) = Collect(ms, Normals)
  <2>1. \A i \in DOMAIN ms : ms[i] \in Proper
    OBVIOUS
  <2>2. \A i \in DOMAIN ms : Normal(ms[i]) = Normals[ms[i]]
    BY <2>1, Zenon DEF Normals
  <2> QED BY <2>2, Zenon DEF Joined, Map, Collect
<1>9. ASSUME NEW ms \in Seq(Proper) PROVE Joined(ms, SystemText) = Collect(ms, SystemTexts)
  <2>1. \A i \in DOMAIN ms : ms[i] \in Proper
    OBVIOUS
  <2>2. \A i \in DOMAIN ms : SystemText(ms[i]) = SystemTexts[ms[i]]
    BY <2>1, Zenon DEF SystemTexts
  <2> QED BY <2>2, Zenon DEF Joined, Map, Collect
<1> QED BY <1>2, <1>4, <1>6, <1>7, <1>8, <1>9


\* A message at a time.
LEMMA BackGrows ==
  ASSUME NEW ms \in Seq(AnthropicForms), NEW x \in AnthropicForms
  PROVE  /\ Joined(Append(ms, x), ToOpenai) = Joined(ms, ToOpenai) \o ToOpenai(x)
         /\ Joined(ms, ToOpenai) \in Seq(Proper) /\ ToOpenai(x) \in Seq(Proper)
<1>1. Append(ms, x) \in Seq(AnthropicForms)
  OBVIOUS
<1>2. Makes(Returned, AnthropicForms, Proper) /\ Returned[x] = ToOpenai(x)
  BY ReturnsTyped DEF Returned
<1>3. Collect(Append(ms, x), Returned) = Collect(ms, Returned) \o Returned[x]
  BY <1>2, CollectAppend
<1>4. Collect(ms, Returned) \in Seq(Proper) /\ Returned[x] \in Seq(Proper)
  BY <1>2, CollectTyped DEF Makes
<1>5. Joined(Append(ms, x), ToOpenai) = Collect(Append(ms, x), Returned)
      /\ Joined(ms, ToOpenai) = Collect(ms, Returned)
  BY <1>1, ReturnsTyped
<1> QED BY <1>2, <1>3, <1>4, <1>5

LEMMA NormalGrows ==
  ASSUME NEW ms \in Seq(Proper), NEW m \in Proper
  PROVE  /\ Joined(Append(ms, m), Normal) = Joined(ms, Normal) \o Normal(m)
         /\ Joined(ms, Normal) \in Seq(Proper) /\ Normal(m) \in Seq(Proper)
<1>1. Append(ms, m) \in Seq(Proper)
  OBVIOUS
<1>2. Makes(Normals, Proper, Proper) /\ Normals[m] = Normal(m)
  BY ReturnsTyped DEF Normals
<1>3. Collect(Append(ms, m), Normals) = Collect(ms, Normals) \o Normals[m]
  BY <1>2, CollectAppend
<1>4. Collect(ms, Normals) \in Seq(Proper) /\ Normals[m] \in Seq(Proper)
  BY <1>2, CollectTyped DEF Makes
<1>5. Joined(Append(ms, m), Normal) = Collect(Append(ms, m), Normals)
      /\ Joined(ms, Normal) = Collect(ms, Normals)
  BY <1>1, ReturnsTyped
<1> QED BY <1>2, <1>3, <1>4, <1>5

LEMMA SystemGrows ==
  ASSUME NEW ms \in Seq(Proper), NEW m \in Proper
  PROVE  /\ Joined(Append(ms, m), SystemText) = Joined(ms, SystemText) \o SystemText(m)
         /\ Joined(ms, SystemText) \in Seq(TextBlocks)
<1>1. Append(ms, m) \in Seq(Proper)
  OBVIOUS
<1>2. Makes(SystemTexts, Proper, TextBlocks) /\ SystemTexts[m] = SystemText(m)
  BY ReturnsTyped DEF SystemTexts
<1>3. Collect(Append(ms, m), SystemTexts) = Collect(ms, SystemTexts) \o SystemTexts[m]
  BY <1>2, CollectAppend
<1>4. Collect(ms, SystemTexts) \in Seq(TextBlocks)
  BY <1>2, CollectTyped
<1>5. Joined(Append(ms, m), SystemText) = Collect(Append(ms, m), SystemTexts)
      /\ Joined(ms, SystemText) = Collect(ms, SystemTexts)
  BY <1>1, ReturnsTyped
<1> QED BY <1>2, <1>3, <1>4, <1>5

LEMMA ResultsAre == TextResults \subseteq Results
<1>1. \A s \in Seq(TextBlocks) : s \in Seq(TextBlocks \cup Images)
  BY Wider
<1> QED BY <1>1 DEF TextResults, Results

\* The messages of the results that wait.
ToolMessages == [b \in TextResults |-> ToolMessage(b)]

LEMMA WaitingReturns ==
  ASSUME NEW p \in Seq(TextResults)
  PROVE  /\ Map(p, ToolMessage) \in Seq(Proper)
         /\ \A r \in TextResults :
              Map(Append(p, r), ToolMessage) = Map(p, ToolMessage) \o <<ToolMessage(r)>>
<1> DEFINE f == [b \in TextResults |-> <<ToolMessages[b]>>]
<1>1. \A b \in TextResults : ToolMessage(b) \in Proper /\ ToolMessages[b] = ToolMessage(b)
  BY ResultsAre, ToolMessageFacts DEF ToolMessages
<1>2. Turns(ToolMessages, TextResults, Proper)
  BY <1>1 DEF Turns
<1>3. ASSUME NEW q \in Seq(TextResults)
      PROVE  Map(q, ToolMessage) = Collect(q, f) /\ Map(q, ToolMessage) \in Seq(Proper)
  <2>1. \A i \in DOMAIN q : q[i] \in TextResults
    OBVIOUS
  <2>2. \A i \in DOMAIN q : ToolMessage(q[i]) = ToolMessages[q[i]]
    BY <1>1, <2>1, Zenon
  <2>3. Map(q, ToolMessage) = [i \in DOMAIN q |-> ToolMessages[q[i]]]
    BY <2>2, Zenon DEF Map
  <2>4. [i \in DOMAIN q |-> ToolMessages[q[i]]] = Collect(q, f)
    BY <1>2, MapCollects
  <2>5. [i \in DOMAIN q |-> ToolMessages[q[i]]] \in Seq(Proper)
    BY <1>2 DEF Turns
  <2> QED BY <2>3, <2>4, <2>5
<1>4. ASSUME NEW r \in TextResults
      PROVE  Map(Append(p, r), ToolMessage) = Map(p, ToolMessage) \o <<ToolMessage(r)>>
  <2>1. Makes(f, TextResults, Proper) /\ f[r] = <<ToolMessage(r)>>
    BY <1>1 DEF Makes
  <2> HIDE DEF f
  <2>2. Collect(Append(p, r), f) = Collect(p, f) \o f[r]
    BY <2>1, CollectAppend
  <2>3. Append(p, r) \in Seq(TextResults)
    OBVIOUS
  <2> QED BY <1>3, <2>1, <2>2, <2>3
<1> HIDE DEF f
<1> QED BY <1>3, <1>4

\* The results that wait come back one by one from the message they will be in.
LEMMA FlushedReturns ==
  ASSUME Typed, direction = "to_anthropic"
  PROVE  /\ Joined(Flushed, ToOpenai) = Joined(out, ToOpenai) \o Map(pending, ToolMessage)
         /\ Joined(out, ToOpenai) \in Seq(Proper) /\ Map(pending, ToolMessage) \in Seq(Proper)
<1> DEFINE x == [role |-> "user", content |-> pending]
<1>1. /\ pending \in Seq(TextResults) /\ pending \in Seq(Blocks) /\ x \in AnthropicForms
      /\ out \in Seq(AnthropicForms)
  BY PendingTyped DEF Typed
<1>2. Joined(out, ToOpenai) \in Seq(Proper)
  BY <1>1, BackGrows
<1>3. Map(pending, ToolMessage) \in Seq(Proper)
  BY <1>1, WaitingReturns
<1>4. CASE pending = <<>>
  <2>1. Map(<<>>, ToolMessage) = <<>> /\ Flushed = out
    BY <1>4 DEF Map, Flushed
  <2>2. \A s \in Seq(Proper) : s \o <<>> = s
    BY ConcatEmptySeq
  <2> QED BY <1>2, <1>3, <1>4, <2>1, <2>2
<1>5. CASE pending # <<>>
  <2>1. Flushed = Append(out, x)
    BY <1>5 DEF Flushed
  <2>2. Joined(Append(out, x), ToOpenai) = Joined(out, ToOpenai) \o ToOpenai(x)
    <3> HIDE DEF x
    <3> QED BY <1>1, BackGrows
  <2>3. ToOpenai(x) = UserToOpenai(pending)
    BY DEF ToOpenai
  <2>4. Those(pending, Results) = pending
    BY <1>1, ResultsAre, ThoseAll
  <2>5. Those(pending, Blocks \ Results) = <<>>
    BY <1>1, ResultsAre, ThoseNone
  <2>6. UserToOpenai(pending) = Map(pending, ToolMessage) \o <<>>
    BY <1>5, <2>4, <2>5 DEF UserToOpenai
  <2>7. \A s \in Seq(Proper) : s \o <<>> = s
    BY ConcatEmptySeq
  <2> HIDE DEF x
  <2> QED BY <1>2, <1>3, <2>1, <2>2, <2>3, <2>6, <2>7
<1> QED BY <1>2, <1>3, <1>4, <1>5

\* What is out, then what waits, is on the way back what has been read.
Returns ==
  /\ at = "done" => pending = <<>>
  /\ direction = "to_anthropic" =>
       /\ system = Joined(read, SystemText)
       /\ Joined(out, ToOpenai) \o Map(pending, ToolMessage) = Joined(read, Normal)

LEMMA ReturnsStep ==
  ASSUME Typed, Returns, [Next]_vars
  PROVE  Returns'
<1>1. Map(<<>>, ToolMessage) = <<>>
  BY DEF Map
<1>2. (\A s \in Seq(Proper) : s \o <<>> = s) /\ \A s \in Seq(TextBlocks) : s \o <<>> = s
  BY ConcatEmptySeq
<1>3. CASE UNCHANGED vars
  BY <1>3 DEF vars, Returns
<1>4. ASSUME direction = "to_anthropic", NEW m \in OpenaiMessages,
             ReadSystem(m) \/ ReadTool(m) \/ ReadCalls(m) \/ ReadPlain(m)
      PROVE  Returns'
  <2>1. /\ m \in Proper /\ read \in Seq(Proper) /\ read' = Append(read, m)
        /\ direction' = direction /\ at' = at /\ at = "messages"
    BY <1>4, MessagesProper DEF ReadSystem, ReadTool, ReadCalls, ReadPlain, Takes, Typed
  <2>2. /\ Joined(read', Normal) = Joined(read, Normal) \o Normal(m)
        /\ Joined(read, Normal) \in Seq(Proper) /\ Normal(m) \in Seq(Proper)
    BY <2>1, NormalGrows
  <2>3. /\ Joined(read', SystemText) = Joined(read, SystemText) \o SystemText(m)
        /\ Joined(read, SystemText) \in Seq(TextBlocks)
    BY <2>1, SystemGrows
  <2>4. /\ Joined(Flushed, ToOpenai) = Joined(read, Normal)
        /\ Joined(out, ToOpenai) \in Seq(Proper) /\ Map(pending, ToolMessage) \in Seq(Proper)
        /\ Joined(out, ToOpenai) \o Map(pending, ToolMessage) = Joined(read, Normal)
    BY <1>4, FlushedReturns DEF Returns
  <2>5. system = Joined(read, SystemText)
    BY <1>4 DEF Returns
  <2>6. Flushed \in Seq(AnthropicForms)
    BY <1>4, FlushedTyped
  <2>7. m.role # "system" => SystemText(m) = <<>>
    BY DEF SystemText
  \* A message of the translated request: the results come before it, and it
  \* comes back as what is left of the client's message.
  <2>8. ASSUME NEW x \in AnthropicForms, out' = Append(Flushed, x), pending' = <<>>,
               system' = system, m.role # "system", ToOpenai(x) = Normal(m)
        PROVE  Returns'
    <3>1. Joined(out', ToOpenai) = Joined(read', Normal)
      BY <2>2, <2>4, <2>6, <2>8, BackGrows
    <3>2. Joined(read', Normal) \in Seq(Proper)
      <4>1. \A s, t \in Seq(Proper) : s \o t \in Seq(Proper)
        OBVIOUS
      <4> QED BY <2>2, <4>1
    <3>3. Joined(out', ToOpenai) \o Map(pending', ToolMessage) = Joined(read', Normal)
      BY <1>1, <1>2, <2>8, <3>1, <3>2
    <3>4. system' = Joined(read', SystemText)
      BY <1>2, <2>3, <2>5, <2>7, <2>8
    <3> QED BY <2>1, <3>3, <3>4 DEF Returns
  <2>9. CASE ReadSystem(m)
    <3>1. out' = Flushed /\ pending' = <<>> /\ m.role = "system" /\ system' = system \o Texts(m.content)
      BY <2>9 DEF ReadSystem, Takes
    <3>2. Normal(m) = <<>> /\ SystemText(m) = Texts(m.content)
      BY <3>1 DEF Normal, SystemText
    <3>3. Joined(out', ToOpenai) \o Map(pending', ToolMessage) = Joined(read', Normal)
      BY <1>1, <1>2, <2>2, <2>4, <3>1, <3>2
    <3>4. system' = Joined(read', SystemText)
      BY <2>3, <2>5, <3>1, <3>2
    <3> QED BY <2>1, <3>3, <3>4 DEF Returns
  <2>10. CASE ReadTool(m)
    <3> DEFINE r == Result(m)
               a == Joined(out, ToOpenai)
               b == Map(pending, ToolMessage)
               c == <<ToolMessage(r)>>
    <3>1. out' = out /\ pending' = Append(pending, r) /\ m.role = "tool" /\ system' = system
      BY <2>10 DEF ReadTool, Takes
    <3>2. r \in TextResults /\ Normal(m) = c
      BY <2>1, <3>1, ResultReturns
    <3>3. pending \in Seq(TextResults)
      BY DEF Typed
    <3>4. Map(pending', ToolMessage) = b \o c
      <4> HIDE DEF r
      <4> QED BY <3>1, <3>2, <3>3, WaitingReturns
    <3>5. (a \o b) \o c = a \o (b \o c)
      <4>1. a \in Seq(Proper) /\ b \in Seq(Proper) /\ c \in Seq(Proper)
        BY <2>2, <2>4, <3>2
      <4> HIDE DEF a, b, c
      <4> QED BY <4>1, ConcatAssociative
    <3>6. Joined(out', ToOpenai) \o Map(pending', ToolMessage) = Joined(read', Normal)
      <4>1. Joined(out', ToOpenai) = a
        BY <3>1
      <4>2. a \o b = Joined(read, Normal)
        BY <2>4
      <4> HIDE DEF a, b, c
      <4> QED BY <2>2, <3>2, <3>4, <3>5, <4>1, <4>2
    <3>7. system' = Joined(read', SystemText)
      BY <1>2, <2>3, <2>5, <2>7, <3>1
    <3> QED BY <2>1, <3>6, <3>7 DEF Returns
  <2>11. CASE ReadCalls(m)
    <3>1. /\ out' = Append(Flushed, CallMessage(m)) /\ pending' = <<>> /\ system' = system
          /\ m.role = "assistant" /\ m.calls # <<>>
      BY <2>11 DEF ReadCalls, Takes, CallMessage
    <3>2. CallMessage(m) \in AnthropicForms /\ ToOpenai(CallMessage(m)) = Normal(m)
      BY <2>1, <3>1, TranslatedTyped, CallMessageReturns
    <3> QED BY <2>8, <3>1, <3>2
  <2>12. CASE ReadPlain(m)
    <3>1. /\ out' = Append(Flushed, PlainMessage(m)) /\ pending' = <<>> /\ system' = system
          /\ m.role \notin {"system", "tool"} /\ m.calls = <<>>
      BY <2>12 DEF ReadPlain, Takes, PlainMessage
    <3>2. PlainMessage(m) \in AnthropicForms /\ ToOpenai(PlainMessage(m)) = Normal(m)
      BY <2>1, <3>1, TranslatedTyped, PlainMessageReturns
    <3> QED BY <2>8, <3>1, <3>2
  <2> QED BY <1>4, <2>9, <2>10, <2>11, <2>12
<1>5. ASSUME direction = "to_openai", NEW m \in AnthropicMessages, ReadAnthropic(m)
      PROVE  Returns'
  BY <1>5 DEF ReadAnthropic, Takes, Returns
<1>6. CASE Finish
  <2>1. out' = Flushed /\ pending' = <<>> /\ UNCHANGED <<direction, read, system>>
    BY <1>6 DEF Finish
  <2>2. CASE direction = "to_anthropic"
    <3>1. /\ Joined(Flushed, ToOpenai) = Joined(read, Normal) /\ system = Joined(read, SystemText)
          /\ Flushed \in Seq(AnthropicForms)
      BY <2>2, FlushedReturns, FlushedTyped DEF Returns
    <3>2. Joined(Flushed, ToOpenai) \in Seq(Proper)
      <4>1. \A s, t \in Seq(Proper) : s \o t \in Seq(Proper)
        OBVIOUS
      <4> QED BY <2>2, <4>1, FlushedReturns
    <3> QED BY <1>1, <1>2, <2>1, <3>1, <3>2 DEF Returns
  <2>3. CASE direction = "to_openai"
    BY <2>1, <2>3 DEF Returns
  <2> QED BY <2>2, <2>3 DEF Typed
<1> QED BY <1>3, <1>4, <1>5, <1>6 DEF Next

\* A conversation translated to Anthropic's protocol and back is the client's,
\* message by message, but for its system messages, which come first and as
\* one: so it is whatever the conversation and however long.
THEOREM ThereAndBack == Spec => []RoundTrip
<1>1. Init => Returns
  <2> SUFFICES ASSUME Init PROVE Returns
    OBVIOUS
  <2>1. Joined(<<>>, ToOpenai) = <<>> /\ Joined(<<>>, Normal) = <<>> /\ Joined(<<>>, SystemText) = <<>>
    BY DEF Joined, Map, FlattenSeq
  <2>2. Map(<<>>, ToolMessage) = <<>> /\ <<>> \o <<>> = <<>>
    BY DEF Map
  <2> QED BY <2>1, <2>2 DEF Init, Returns
<1>2. Returns /\ Typed /\ [Next]_vars => Returns'
  BY ReturnsStep
<1>3. Returns /\ Typed => RoundTrip
  <2> SUFFICES ASSUME Returns, Typed, at = "done", direction = "to_anthropic"
               PROVE  system = Joined(read, SystemText) /\ Joined(out, ToOpenai) = Joined(read, Normal)
    BY DEF RoundTrip
  <2>1. /\ system = Joined(read, SystemText) /\ pending = <<>>
        /\ Joined(out, ToOpenai) \o Map(pending, ToolMessage) = Joined(read, Normal)
    BY DEF Returns
  <2>2. Joined(out, ToOpenai) \in Seq(Proper)
    BY FlushedReturns
  <2>3. Map(<<>>, ToolMessage) = <<>> /\ \A s \in Seq(Proper) : s \o <<>> = s
    BY ConcatEmptySeq DEF Map
  <2> QED BY <2>1, <2>2, <2>3
<1> QED BY <1>1, <1>2, <1>3, TypedAlways, PTL DEF Spec

-----------------------------------------------------------------------------
(* The other fields                                                        *)

Once(set) == \A p, q \in set : p[1] = q[1] \/ p[2] = q[2] => p = q
Arrived(names, set) == \A f \in names : \E p \in set : p[2] = f \/ p[1] = f

Left(names, set) == \A p \in set : p[1] \notin names /\ p[2] \notin names

\* Fields that are not known are added to those that are, and take no name and
\* no source away from them.
LEMMA UnknownAdded ==
  ASSUME NEW set, NEW known, Once(set), Arrived(Expressible \cap known, set), Left(odd, set),
         odd \subseteq known, \A p \in set : p[2] \in known \/ p[2] \notin fields
  PROVE  /\ Once(WithUnknown(set, known)) /\ Left(odd, WithUnknown(set, known))
         /\ Arrived(Expressible, WithUnknown(set, known))
<1> DEFINE G == {g \in fields : g \notin known /\ \A p \in set : p[1] # g}
           U == {<<f, f>> : f \in G}
<1>1. WithUnknown(set, known) = set \cup U
  BY DEF WithUnknown
<1>2. \A g \in G : g \in fields /\ g \notin known /\ \A p \in set : p[1] # g /\ p[2] # g
  OBVIOUS
<1>3. \A q \in U : \E g \in G : q = <<g, g>> /\ q[1] = g /\ q[2] = g
  OBVIOUS
<1>4. Once(set \cup U)
  <2> SUFFICES ASSUME NEW p \in set \cup U, NEW q \in set \cup U, p[1] = q[1] \/ p[2] = q[2]
               PROVE  p = q
    BY DEF Once
  <2> HIDE DEF G, U
  <2>1. CASE p \in set /\ q \in set
    BY <2>1 DEF Once
  <2>2. CASE p \in U /\ q \in U
    BY <1>3, <2>2
  <2>3. CASE p \in set /\ q \in U
    BY <1>2, <1>3, <2>3
  <2>4. CASE p \in U /\ q \in set
    BY <1>2, <1>3, <2>4
  <2> QED BY <2>1, <2>2, <2>3, <2>4
<1>5. Arrived(Expressible, set \cup U)
  <2> SUFFICES ASSUME NEW f \in Expressible, f \in fields PROVE \E p \in set \cup U : p[2] = f \/ p[1] = f
    BY DEF Arrived, Expressible
  <2>1. CASE f \in known
    BY <2>1 DEF Arrived
  <2>2. CASE f \in G
    <3>1. <<f, f>> \in U /\ <<f, f>>[1] = f
      BY <2>2
    <3> QED BY <3>1
  <2>3. CASE f \notin known /\ f \notin G
    BY <2>3
  <2> QED BY <2>1, <2>2, <2>3
<1>6. Left(odd, set \cup U)
  BY <1>2, <1>3 DEF Left
<1> QED BY <1>1, <1>4, <1>5, <1>6

LEMMA AnthropicOnce ==
  ASSUME fields \cap {"default", "messages"} = {}, odd \subseteq Converted
  PROVE  /\ Once(AnthropicParams) /\ Left(odd, AnthropicParams)
         /\ Arrived(Expressible, AnthropicParams)
<1> DEFINE A == {<<f, f>> : f \in Expressible \cap SameNames}
           B == {<<"stop_sequences", "stop">> : f \in fields \cap {"stop"}}
           d == IF "max_tokens" \in fields THEN "max_tokens" ELSE "default"
           C == {<<"max_tokens", d>>}
           D == IF system = <<>> THEN {} ELSE {<<"system", "messages">>}
           S == A \cup B \cup C \cup D
<1>1. AnthropicParams = WithUnknown(S, OpenaiKnown)
  BY DEF AnthropicParams
<1>2. /\ \A p \in A : p = <<p[1], p[1]>> /\ p[2] = p[1] /\ p[1] \in Expressible /\ p[1] \in SameNames
      /\ \A p \in B : p = <<"stop_sequences", "stop">> /\ p[1] = "stop_sequences" /\ p[2] = "stop"
      /\ \A p \in C : p = <<"max_tokens", d>> /\ p[1] = "max_tokens" /\ p[2] = d
      /\ \A p \in D : p = <<"system", "messages">> /\ p[1] = "system" /\ p[2] = "messages"
  OBVIOUS
<1>3. /\ \A f \in SameNames : f \notin {"stop", "stop_sequences", "max_tokens", "default", "system", "messages"}
      /\ SameNames \subseteq OpenaiKnown /\ {"stop", "max_tokens"} \subseteq OpenaiKnown
      /\ \A f \in OpenaiKnown : f \in SameNames \/ f = "stop" \/ f = "max_tokens"
  BY DEF SameNames, OpenaiKnown
<1>4. d \in {"max_tokens", "default"}
  OBVIOUS
<1>5. Arrived(Expressible \cap OpenaiKnown, S)
  <2> SUFFICES ASSUME NEW f \in Expressible \cap OpenaiKnown PROVE \E p \in S : p[2] = f \/ p[1] = f
    BY DEF Arrived
  <2>1. CASE f \in SameNames
    <3>1. <<f, f>> \in A /\ <<f, f>>[1] = f
      BY <2>1
    <3> QED BY <3>1
  <2>2. CASE f = "stop"
    <3>1. <<"stop_sequences", "stop">> \in B /\ <<"stop_sequences", "stop">>[2] = f
      BY <2>2 DEF Expressible
    <3> QED BY <3>1
  <2>3. CASE f = "max_tokens"
    <3>1. <<"max_tokens", d>> \in C /\ <<"max_tokens", d>>[1] = f
      BY <2>3
    <3> QED BY <3>1
  <2> QED BY <1>3, <2>1, <2>2, <2>3
<1> HIDE DEF A, B, C, D, d
<1>6. Once(S)
  <2> SUFFICES ASSUME NEW p \in S, NEW q \in S, p[1] = q[1] \/ p[2] = q[2] PROVE p = q
    BY DEF Once
  <2>1. CASE p \in A
    BY <1>2, <1>3, <1>4, <2>1
  <2>2. CASE p \in B
    BY <1>2, <1>3, <1>4, <2>2
  <2>3. CASE p \in C
    BY <1>2, <1>3, <1>4, <2>3
  <2>4. CASE p \in D
    BY <1>2, <1>3, <1>4, <2>4
  <2> QED BY <2>1, <2>2, <2>3, <2>4
<1>7. \A p \in S : p[2] \in OpenaiKnown \/ p[2] \notin fields
  BY <1>2, <1>3, <1>4
<1>8. Left(odd, S) /\ odd \subseteq OpenaiKnown
  BY <1>2, <1>4 DEF Left, Expressible, Converted, OpenaiKnown, SameNames
<1> HIDE DEF S
<1> QED BY <1>1, <1>5, <1>6, <1>7, <1>8, UnknownAdded

LEMMA OpenaiOnce ==
  ASSUME "system" \notin fields, odd \subseteq Converted
  PROVE  /\ Once(OpenaiParams) /\ Left(odd, OpenaiParams)
         /\ Arrived(Expressible, OpenaiParams)
<1> DEFINE N == SameNames \cup {"max_tokens"}
           A == {<<f, f>> : f \in Expressible \cap N}
           B == {<<"stop", "stop_sequences">> : f \in fields \cap {"stop_sequences"}}
           S == A \cup B
<1>1. OpenaiParams = WithUnknown(S, AnthropicKnown)
  BY DEF OpenaiParams
<1>2. /\ \A p \in A : p = <<p[1], p[1]>> /\ p[2] = p[1] /\ p[1] \in Expressible /\ p[1] \in N
      /\ \A p \in B : p = <<"stop", "stop_sequences">> /\ p[1] = "stop" /\ p[2] = "stop_sequences"
  OBVIOUS
<1>3. /\ \A f \in N : f \notin {"stop", "stop_sequences"} /\ f \in AnthropicKnown
      /\ "stop_sequences" \in AnthropicKnown
      /\ \A f \in AnthropicKnown : f \in N \/ f = "stop_sequences" \/ f = "system"
  BY DEF SameNames, AnthropicKnown
<1>4. Arrived(Expressible \cap AnthropicKnown, S)
  <2> SUFFICES ASSUME NEW f \in Expressible \cap AnthropicKnown, f # "system" PROVE \E p \in S : p[2] = f \/ p[1] = f
    BY DEF Arrived, Expressible
  <2>1. CASE f \in N
    <3>1. <<f, f>> \in A /\ <<f, f>>[1] = f
      BY <2>1
    <3> QED BY <3>1
  <2>2. CASE f = "stop_sequences"
    <3>1. <<"stop", "stop_sequences">> \in B /\ <<"stop", "stop_sequences">>[2] = f
      BY <2>2 DEF Expressible
    <3> QED BY <3>1
  <2> QED BY <1>3, <2>1, <2>2
<1> HIDE DEF A, B, N
<1>5. Once(S)
  <2> SUFFICES ASSUME NEW p \in S, NEW q \in S, p[1] = q[1] \/ p[2] = q[2] PROVE p = q
    BY DEF Once
  <2>1. CASE p \in A
    BY <1>2, <1>3, <2>1
  <2>2. CASE p \in B
    BY <1>2, <1>3, <2>2
  <2> QED BY <2>1, <2>2
<1>6. \A p \in S : p[2] \in AnthropicKnown \/ p[2] \notin fields
  BY <1>2, <1>3
<1>7. Left(odd, S) /\ odd \subseteq AnthropicKnown
  BY <1>2 DEF Left, Expressible, Converted, AnthropicKnown, SameNames
<1> HIDE DEF S
<1> QED BY <1>1, <1>4, <1>5, <1>6, <1>7, UnknownAdded

\* The client's fields, and what the request has of them when it is translated.
Given ==
  /\ direction \in {"to_anthropic", "to_openai"}
  /\ fields \cap {"default", "messages"} = {} /\ odd \subseteq Converted
  /\ direction = "to_openai" => "system" \notin fields
  /\ at = "done" => Once(params) /\ Left(odd, params) /\ Arrived(Expressible, params)

\* Every other field of the client arrives, under one name, and the provider
\* gets no name twice; tools and a tool_choice that cannot be converted are not
\* sent.
THEOREM FieldsArriveOnce == Spec => []EveryFieldOnce
<1>1. Init => Given
  BY ConstantsOK DEF Init, Given
<1>2. Given /\ [Next]_vars => Given'
  <2> SUFFICES ASSUME Given, [Next]_vars PROVE Given'
    OBVIOUS
  <2>1. CASE UNCHANGED vars
    BY <2>1 DEF vars, Given, Expressible
  <2>2. ASSUME UNCHANGED <<direction, fields, odd, params, at>> PROVE Given'
    BY <2>2 DEF Given, Expressible
  <2>3. CASE Finish
    <3>1. /\ params' = IF direction = "to_anthropic" THEN AnthropicParams ELSE OpenaiParams
          /\ UNCHANGED <<direction, fields, odd>>
      BY <2>3 DEF Finish
    <3>2. CASE direction = "to_anthropic"
      BY <3>1, <3>2, AnthropicOnce DEF Given, Expressible
    <3>3. CASE direction = "to_openai"
      BY <3>1, <3>3, OpenaiOnce DEF Given, Expressible
    <3> QED BY <3>2, <3>3 DEF Given
  <2>4. Next => Finish \/ UNCHANGED <<direction, fields, odd, params, at>>
    BY DEF Next, ReadSystem, ReadTool, ReadCalls, ReadPlain, ReadAnthropic, Takes
  <2> QED BY <2>1, <2>2, <2>3, <2>4
<1>3. Given => EveryFieldOnce
  BY DEF Given, Once, Arrived, Left, Expressible, EveryFieldOnce
<1> QED BY <1>1, <1>2, <1>3, PTL DEF Spec

-----------------------------------------------------------------------------
(* Answers                                                                 *)

SameIds(s, t) == Len(s) = Len(t) /\ \A i \in 1..Len(s) : s[i].id = t[i].id

\* What is said of answers and calls is said of their ids.
LEMMA SameIdsAnswer ==
  ASSUME NEW P, NEW Q, NEW R, NEW S, NEW a \in Seq(P), NEW b \in Seq(Q), SameIds(a, b),
         NEW c \in Seq(R), NEW d \in Seq(S), SameIds(c, d), Answer(a, c)
  PROVE  Answer(b, d)
<1>1. ASSUME NEW T, NEW U, NEW s \in Seq(T), NEW t \in Seq(U), SameIds(s, t)
      PROVE  Ids(s) = Ids(t) /\ (Distinct(s) => Distinct(t))
  <2>1. DOMAIN s = DOMAIN t /\ \A i \in DOMAIN s : s[i].id = t[i].id
    BY <1>1 DEF SameIds
  <2>2. Ids(s) = Ids(t)
    BY <2>1, Zenon DEF Ids
  <2>3. Distinct(s) => Distinct(t)
    BY <2>1, Zenon DEF Distinct
  <2> QED BY <2>2, <2>3
<1>2. Ids(a) = Ids(b) /\ (Distinct(a) => Distinct(b))
  BY <1>1
<1>3. Ids(c) = Ids(d) /\ (Distinct(c) => Distinct(d))
  BY <1>1
<1> QED BY <1>2, <1>3 DEF Answer

LEMMA SameIdsBack ==
  ASSUME NEW P, NEW Q, NEW a \in Seq(P), NEW b \in Seq(Q), SameIds(a, b)
  PROVE  SameIds(b, a) /\ SameIds(a, a)
BY DEF SameIds

\* A sequence of different ids is as long as the set of its ids is large.
LEMMA DistinctCounted ==
  ASSUME NEW P, NEW s \in Seq(P), Distinct(s)
  PROVE  Cardinality(Ids(s)) = Len(s)
<1> DEFINE f == [i \in 1..Len(s) |-> s[i].id]
<1>1. DOMAIN s = 1..Len(s) /\ Len(s) \in Nat
  OBVIOUS
<1>2. f \in Bijection(1..Len(s), Ids(s))
  BY <1>1 DEF Bijection, Injection, Surjection, IsInjective, Ids, Distinct
<1> HIDE DEF f
<1>3. ExistsBijection(1..Len(s), Ids(s))
  BY <1>2 DEF ExistsBijection
<1> QED BY <1>1, <1>3, FS_CountingElements

LEMMA AnswerFacts ==
  /\ Answer(<<>>, <<>>)
  /\ \A P, Q : \A a \in Seq(P), c \in Seq(Q) :
       Answer(a, c) => Len(a) = Len(c) /\ (a = <<>> <=> c = <<>>)
<1>1. Answer(<<>>, <<>>)
  BY DEF Answer, Ids, Distinct
<1>2. ASSUME NEW P, NEW Q, NEW a \in Seq(P), NEW c \in Seq(Q), Answer(a, c)
      PROVE  Len(a) = Len(c) /\ (a = <<>> <=> c = <<>>)
  <2>1. Cardinality(Ids(a)) = Len(a) /\ Cardinality(Ids(c)) = Len(c) /\ Ids(a) = Ids(c)
    BY <1>2, DistinctCounted DEF Answer
  <2> QED BY <2>1
<1> QED BY <1>1, <1>2

LEMMA AnswerNone ==
  ASSUME NEW P, NEW r \in Seq(P)
  PROVE  (Answer(r, <<>>) <=> r = <<>>) /\ (Answer(<<>>, r) <=> r = <<>>)
<1>1. Ids(<<>>) = {}
  BY DEF Ids
<1>2. Ids(r) = {} => r = <<>>
  <2>1. r # <<>> => r[1].id \in Ids(r)
    BY DEF Ids
  <2> QED BY <2>1
<1>3. Answer(<<>>, <<>>)
  BY AnswerFacts
<1> QED BY <1>1, <1>2, <1>3 DEF Answer

\* The part of a sequence that both of two have.
LEMMA SameSlice ==
  ASSUME NEW P, NEW s \in Seq(P), NEW t \in Seq(P), NEW a \in Nat, NEW b \in Nat,
         1 <= a, a <= b + 1, b <= Len(s), b <= Len(t), \A i \in a..b : s[i] = t[i]
  PROVE  SubSeq(s, a, b) = SubSeq(t, a, b)
<1>1. \A i \in a..b : s[i] \in P /\ t[i] \in P
  OBVIOUS
<1>2. /\ SubSeq(s, a, b) \in Seq(P) /\ SubSeq(t, a, b) \in Seq(P)
      /\ Len(SubSeq(s, a, b)) = b - a + 1 /\ Len(SubSeq(t, a, b)) = b - a + 1
      /\ \A i \in 1..(b - a + 1) : SubSeq(s, a, b)[i] = s[a + i - 1]
      /\ \A i \in 1..(b - a + 1) : SubSeq(t, a, b)[i] = t[a + i - 1]
  BY <1>1, SubSeqProperties
<1> DEFINE x == SubSeq(s, a, b)
           y == SubSeq(t, a, b)
<1>3. \A i \in 1..(b - a + 1) : x[i] = y[i]
  <2>1. \A i \in 1..(b - a + 1) : a + i - 1 \in a..b
    OBVIOUS
  <2>2. \A i \in 1..(b - a + 1) : s[a + i - 1] = t[a + i - 1]
    BY <2>1
  <2> QED BY <1>2, <2>2, Zenon
<1> HIDE DEF x, y
<1>4. x = y
  BY <1>2, <1>3, SameSequence DEF x, y
<1> QED BY <1>4 DEF x, y


\* The messages that answer the i-th one.
Answering(ms, i) == SubSeq(ms, i + 1, i + Len(ms[i].calls))

LEMMA ProperFacts ==
  ASSUME NEW ms \in Seq(Proper)
  PROVE  /\ Len(ms) \in Nat
         /\ \A i \in 1..Len(ms) :
              /\ ms[i] \in Proper /\ ms[i].calls \in Seq(Calls) /\ Len(ms[i].calls) \in Nat
              /\ (ms[i].role = "tool" => ms[i].calls = <<>> /\ Len(ms[i].calls) = 0)
<1>1. \A m \in Proper : m.calls \in Seq(Calls) /\ (m.role = "tool" => m.calls = <<>>)
  BY ProperContent DEF Proper
<1> QED BY <1>1

\* What it is to be answered, message by message.
AnsweredAt(ms, i) ==
  /\ i + Len(ms[i].calls) <= Len(ms)
  /\ \A j \in (i + 1)..(i + Len(ms[i].calls)) : ms[j].role = "tool"
  /\ Answer(Answering(ms, i), ms[i].calls)

Called(ms, j) == \E i \in 1..(j - 1) : j <= i + Len(ms[i].calls)

LEMMA AnsweredUnfolds ==
  ASSUME NEW ms \in Seq(Proper)
  PROVE  AnsweredInOpenai(ms) <=>
           /\ \A i \in 1..Len(ms) : AnsweredAt(ms, i)
           /\ \A j \in 1..Len(ms) : ms[j].role = "tool" => Called(ms, j)
<1>1. DOMAIN ms = 1..Len(ms)
  OBVIOUS
<1>2. \A i \in 1..Len(ms) :
        i + Len(ms[i].calls) <= Len(ms) <=> \A j \in (i + 1)..(i + Len(ms[i].calls)) : j \in 1..Len(ms)
  <2> SUFFICES ASSUME NEW i \in 1..Len(ms)
               PROVE  i + Len(ms[i].calls) <= Len(ms)
                        <=> \A j \in (i + 1)..(i + Len(ms[i].calls)) : j \in 1..Len(ms)
    OBVIOUS
  <2>1. Len(ms) \in Nat /\ Len(ms[i].calls) \in Nat
    BY ProperFacts
  <2> DEFINE n == Len(ms[i].calls)
             L == Len(ms)
  <2>2. n \in Nat /\ L \in Nat /\ i \in 1..L
    BY <2>1
  <2> HIDE DEF n, L
  <2>3. i + n <= L <=> \A j \in (i + 1)..(i + n) : j \in 1..L
    <3>1. CASE n = 0
      BY <2>2, <3>1
    <3>2. CASE n # 0
      <4>1. i + n \in (i + 1)..(i + n)
        BY <2>2, <3>2
      <4> QED BY <2>2, <4>1
    <3> QED BY <3>1, <3>2
  <2> QED BY <2>3 DEF n, L
<1>3. ASSUME NEW i \in 1..Len(ms)
      PROVE  AnsweredAt(ms, i) <=>
               /\ \A j \in (i + 1)..(i + Len(ms[i].calls)) : j \in DOMAIN ms /\ ms[j].role = "tool"
               /\ Answer(SubSeq(ms, i + 1, i + Len(ms[i].calls)), ms[i].calls)
  BY <1>1, <1>2, Zenon DEF AnsweredAt, Answering
<1> QED BY <1>1, <1>3, Zenon DEF AnsweredInOpenai, Called

\* A message with its answers comes after what has been answered.
LEMMA AppendAnswered ==
  ASSUME NEW ms \in Seq(Proper), AnsweredInOpenai(ms), NEW a \in Proper, a.role # "tool",
         NEW ts \in Seq(Proper), \A i \in 1..Len(ts) : ts[i].role = "tool",
         Answer(ts, a.calls)
  PROVE  AnsweredInOpenai(Append(ms, a) \o ts)
<1> DEFINE ns == Append(ms, a) \o ts
           L == Len(ms)
           T == Len(ts)
<1>1. /\ L \in Nat /\ T \in Nat /\ ns \in Seq(Proper) /\ Len(ns) = L + 1 + T
      /\ \A i \in 1..L : ns[i] = ms[i]
      /\ ns[L + 1] = a
      /\ \A i \in 1..T : ns[L + 1 + i] = ts[i]
  OBVIOUS
<1>2. Len(a.calls) = T /\ a.calls \in Seq(Calls)
  BY AnswerFacts, ProperContent
<1>3. /\ \A i \in 1..L : AnsweredAt(ms, i) /\ Len(ms[i].calls) \in Nat
      /\ \A j \in 1..L : ms[j].role = "tool" => Called(ms, j)
  BY AnsweredUnfolds, ProperFacts
<1>4. ASSUME NEW i \in (L + 2)..(L + 1 + T) PROVE ns[i].role = "tool" /\ ns[i].calls = <<>>
  <2> DEFINE k == i - L - 1
  <2>1. k \in 1..T /\ L + 1 + k = i
    BY <1>1
  <2>2. ts[k].role = "tool" /\ ts[k].calls = <<>>
    <3> HIDE DEF k
    <3> QED BY <2>1, ProperFacts
  <2>3. ns[i] = ts[k]
    <3> HIDE DEF k, ns, L, T
    <3>1. ns[L + 1 + k] = ts[k]
      BY <1>1, <2>1
    <3> QED BY <2>1, <3>1
  <2> HIDE DEF k, ns
  <2> QED BY <2>2, <2>3
<1> HIDE DEF ns, L, T
<1>5. ASSUME NEW i \in 1..L PROVE AnsweredAt(ns, i)
  <2> DEFINE n == Len(ms[i].calls)
  <2>1. AnsweredAt(ms, i) /\ n \in Nat /\ ns[i] = ms[i] /\ i \in Nat
    BY <1>1, <1>3
  <2>2. i + n <= L /\ (\A j \in (i + 1)..(i + n) : ms[j].role = "tool") /\ Answer(Answering(ms, i), ms[i].calls)
    BY <2>1 DEF AnsweredAt, L
  <2> HIDE DEF n
  <2>3. \A j \in (i + 1)..(i + n) : ns[j] = ms[j]
    BY <1>1, <2>1, <2>2
  <2>4. SubSeq(ns, i + 1, i + n) = SubSeq(ms, i + 1, i + n)
    <3>1. i + 1 \in Nat /\ i + n \in Nat /\ 1 <= i + 1 /\ i + 1 <= (i + n) + 1
          /\ i + n <= Len(ns) /\ i + n <= Len(ms)
      BY <1>1, <2>1, <2>2 DEF L
    <3> QED BY <1>1, <2>3, <3>1, SameSlice
  <2>5. i + n <= Len(ns)
    BY <1>1, <2>1, <2>2
  <2> QED BY <2>1, <2>2, <2>3, <2>4, <2>5, Zenon DEF AnsweredAt, Answering, n
<1>6. AnsweredAt(ns, L + 1)
  <2>1. \A i \in (L + 2)..(L + 1 + T) : ns[i] \in Proper
    BY <1>1
  <2>2. /\ SubSeq(ns, L + 2, L + 1 + T) \in Seq(Proper)
        /\ Len(SubSeq(ns, L + 2, L + 1 + T)) = T
        /\ \A i \in 1..T : SubSeq(ns, L + 2, L + 1 + T)[i] = ns[L + 1 + i]
    <3>1. L + 2 \in Int /\ L + 1 + T \in Int /\ (L + 1 + T) - (L + 2) + 1 = T
      BY <1>1
    <3>2. \A i \in 1..T : L + 2 + i - 1 = L + 1 + i
      BY <1>1
    <3> DEFINE x == SubSeq(ns, L + 2, L + 1 + T)
    <3>3. /\ x \in Seq(Proper)
          /\ Len(x) = IF L + 2 <= L + 1 + T THEN (L + 1 + T) - (L + 2) + 1 ELSE 0
          /\ \A i \in 1..((L + 1 + T) - (L + 2) + 1) : x[i] = ns[L + 2 + i - 1]
      BY <2>1, <3>1, SubSeqProperties
    <3> HIDE DEF x
    <3>4. Len(x) = T
      BY <1>1, <3>3
    <3>5. \A i \in 1..T : x[i] = ns[L + 1 + i]
      BY <3>1, <3>2, <3>3
    <3> QED BY <3>3, <3>4, <3>5 DEF x
  <2> DEFINE x == SubSeq(ns, L + 2, L + 1 + T)
  <2>3. \A i \in 1..T : x[i] = ts[i]
    BY <1>1, <2>2
  <2>4. x = ts
    <3>1. x \in Seq(Proper) /\ Len(x) = Len(ts)
      BY <2>2 DEF T
    <3> HIDE DEF x
    <3> QED BY <2>3, <3>1, SameSequence DEF T
  <2>5. (L + 1) + 1 = L + 2 /\ (L + 1) + Len(ns[L + 1].calls) = L + 1 + T /\ L + 1 + T <= Len(ns)
    BY <1>1, <1>2
  <2>6. Answering(ns, L + 1) = ts
    BY <2>4, <2>5 DEF Answering
  <2> QED BY <1>1, <1>2, <1>4, <2>5, <2>6 DEF AnsweredAt
<1>7. ASSUME NEW i \in (L + 2)..(L + 1 + T) PROVE AnsweredAt(ns, i)
  <2>1. ns[i].calls = <<>> /\ Len(<<>>) = 0
    BY <1>4
  <2>2. i + Len(ns[i].calls) = i /\ i \in Int /\ i <= Len(ns)
    BY <1>1, <2>1
  <2>3. SubSeq(ns, i + 1, i) = <<>>
    BY <2>2, SubSeqEmpty
  <2>4. Answer(Answering(ns, i), ns[i].calls)
    BY <2>1, <2>2, <2>3, AnswerFacts DEF Answering
  <2>5. \A j \in (i + 1)..(i + Len(ns[i].calls)) : FALSE
    BY <2>2
  <2> QED BY <2>2, <2>4, <2>5 DEF AnsweredAt
<1>8. ASSUME NEW j \in 1..Len(ns), ns[j].role = "tool" PROVE Called(ns, j)
  <2>1. CASE j \in 1..L
    <3>1. Called(ms, j)
      BY <1>1, <1>3, <1>8, <2>1
    <3>2. PICK i \in 1..(j - 1) : j <= i + Len(ms[i].calls)
      BY <3>1 DEF Called
    <3>3. ns[i] = ms[i]
      BY <1>1, <2>1, <3>2
    <3> QED BY <3>2, <3>3 DEF Called
  <2>2. CASE j = L + 1
    BY <1>1, <1>8, <2>2
  <2>3. CASE j \in (L + 2)..(L + 1 + T)
    <3>1. L + 1 \in 1..(j - 1) /\ j <= (L + 1) + Len(ns[L + 1].calls)
      BY <1>1, <1>2, <2>3
    <3> QED BY <3>1 DEF Called
  <2> QED BY <1>1, <2>1, <2>2, <2>3
<1>9. \A i \in 1..Len(ns) : i \in 1..L \/ i = L + 1 \/ i \in (L + 2)..(L + 1 + T)
  BY <1>1
<1>10. \A i \in 1..Len(ns) : AnsweredAt(ns, i)
  BY <1>5, <1>6, <1>7, <1>9
<1> QED BY <1>1, <1>8, <1>10, AnsweredUnfolds DEF ns


\* The beginning of a conversation that is answered as Anthropic wants it; what
\* its last message calls is to be answered by the next.
Fits(m) == IF m.role = "assistant" THEN ResultsIn(m) = <<>> ELSE UsedIn(m) = <<>>
LastUsed(ms) == IF ms = <<>> THEN <<>> ELSE UsedIn(ms[Len(ms)])
Begun(ms) ==
  /\ \A i \in 1..Len(ms) : Fits(ms[i]) /\ (i = 1 => ResultsIn(ms[i]) = <<>>)
  /\ \A i \in 1..(Len(ms) - 1) : Answer(ResultsIn(ms[i + 1]), UsedIn(ms[i]))

LEMMA InTyped ==
  ASSUME NEW m \in AnthropicForms
  PROVE  UsedIn(m) \in Seq(Blocks) /\ ResultsIn(m) \in Seq(Blocks)
         /\ UsedIn(m) \in Seq(Blocks \cap Uses) /\ ResultsIn(m) \in Seq(Blocks \cap Results)
<1> DEFINE c == m.content
<1>1. c \in Seq(Blocks)
  BY DEF AnthropicForms
<1> HIDE DEF c
<1>2. /\ Those(c, Uses) \in Seq(Blocks) /\ Those(c, Uses) \in Seq(Blocks \cap Uses)
      /\ Those(c, Results) \in Seq(Blocks) /\ Those(c, Results) \in Seq(Blocks \cap Results)
  BY <1>1, ThoseTyped
<1> QED BY <1>2 DEF UsedIn, ResultsIn, c

LEMMA LastUsedTyped ==
  ASSUME NEW ms \in Seq(AnthropicForms)
  PROVE  LastUsed(ms) \in Seq(Blocks)
<1>1. CASE ms = <<>>
  BY <1>1 DEF LastUsed
<1>2. CASE ms # <<>>
  <2>1. ms[Len(ms)] \in AnthropicForms
    BY <1>2
  <2> QED BY <1>2, <2>1, InTyped DEF LastUsed
<1> QED BY <1>1, <1>2

LEMMA BegunGrows ==
  ASSUME NEW ms \in Seq(AnthropicForms), NEW x \in AnthropicForms
  PROVE  /\ LastUsed(Append(ms, x)) = UsedIn(x)
         /\ Begun(Append(ms, x)) <=>
              Begun(ms) /\ Fits(x) /\ Answer(ResultsIn(x), LastUsed(ms))
<1> DEFINE ns == Append(ms, x)
           L == Len(ms)
<1>1. /\ L \in Nat /\ ns \in Seq(AnthropicForms) /\ Len(ns) = L + 1 /\ ns # <<>>
      /\ \A i \in 1..L : ns[i] = ms[i]
      /\ ns[L + 1] = x
      /\ ms = <<>> <=> L = 0
  OBVIOUS
<1>2. /\ ResultsIn(x) \in Seq(Blocks) /\ LastUsed(ms) \in Seq(Blocks)
  BY InTyped, LastUsedTyped
<1> HIDE DEF ns
<1>3. LastUsed(ns) = UsedIn(x)
  BY <1>1 DEF LastUsed
<1>4. L = 0 => (Answer(ResultsIn(x), LastUsed(ms)) <=> ResultsIn(x) = <<>>)
  <2>1. L = 0 => LastUsed(ms) = <<>>
    BY <1>1 DEF LastUsed
  <2> DEFINE r == ResultsIn(x)
  <2>2. Answer(r, <<>>) <=> r = <<>>
    <3>1. r \in Seq(Blocks)
      BY <1>2
    <3> HIDE DEF r
    <3> QED BY <3>1, AnswerNone
  <2> QED BY <2>1, <2>2
<1>5. ASSUME Begun(ns) PROVE Begun(ms) /\ Fits(x) /\ Answer(ResultsIn(x), LastUsed(ms))
  <2>1. /\ \A i \in 1..(L + 1) : Fits(ns[i]) /\ (i = 1 => ResultsIn(ns[i]) = <<>>)
        /\ \A i \in 1..L : Answer(ResultsIn(ns[i + 1]), UsedIn(ns[i]))
    BY <1>1, <1>5 DEF Begun
  <2>2. \A i \in 1..(L - 1) : i \in 1..L /\ i + 1 \in 1..L
    BY <1>1
  <2>3. Begun(ms)
    <3>1. \A i \in 1..L : Fits(ms[i]) /\ (i = 1 => ResultsIn(ms[i]) = <<>>)
      BY <1>1, <2>1
    <3>2. \A i \in 1..(L - 1) : Answer(ResultsIn(ms[i + 1]), UsedIn(ms[i]))
      <4> SUFFICES ASSUME NEW i \in 1..(L - 1) PROVE Answer(ResultsIn(ms[i + 1]), UsedIn(ms[i]))
        OBVIOUS
      <4>1. ns[i + 1] = ms[i + 1] /\ ns[i] = ms[i]
        BY <1>1, <2>2
      <4>2. Answer(ResultsIn(ns[i + 1]), UsedIn(ns[i]))
        BY <2>1, <2>2
      <4> QED BY <4>1, <4>2, Zenon
    <3> QED BY <3>1, <3>2 DEF Begun
  <2>4. Fits(x)
    BY <1>1, <2>1
  <2>5. CASE L = 0
    <3>1. ResultsIn(x) = <<>>
      BY <1>1, <2>1, <2>5
    <3> QED BY <1>4, <2>3, <2>4, <2>5, <3>1
  <2>6. CASE L # 0
    <3>1. L \in 1..L /\ ns[L] = ms[L] /\ LastUsed(ms) = UsedIn(ms[L])
      BY <1>1, <2>6 DEF LastUsed
    <3>2. Answer(ResultsIn(ns[L + 1]), UsedIn(ns[L]))
      BY <2>1, <3>1
    <3>3. Answer(ResultsIn(x), LastUsed(ms))
      BY <1>1, <3>1, <3>2, Zenon
    <3> QED BY <2>3, <2>4, <3>3
  <2> QED BY <2>5, <2>6
<1>6. ASSUME Begun(ms), Fits(x), Answer(ResultsIn(x), LastUsed(ms)) PROVE Begun(ns)
  <2>1. ASSUME NEW i \in 1..(L + 1) PROVE Fits(ns[i]) /\ (i = 1 => ResultsIn(ns[i]) = <<>>)
    <3>1. CASE i \in 1..L
      BY <1>1, <1>6, <3>1 DEF Begun
    <3>2. CASE i = L + 1
      BY <1>1, <1>4, <1>6, <3>2
    <3> QED BY <1>1, <3>1, <3>2
  <2>2. ASSUME NEW i \in 1..L PROVE Answer(ResultsIn(ns[i + 1]), UsedIn(ns[i]))
    <3>1. CASE i # L
      <4>1. i \in 1..(L - 1) /\ i + 1 \in 1..L
        BY <1>1, <3>1
      <4>2. Answer(ResultsIn(ms[i + 1]), UsedIn(ms[i]))
        BY <1>6, <4>1 DEF Begun
      <4>3. ns[i + 1] = ms[i + 1] /\ ns[i] = ms[i]
        BY <1>1, <4>1
      <4> QED BY <4>2, <4>3, Zenon
    <3>2. CASE i = L
      <4>1. ns[i] = ms[L] /\ ns[i + 1] = x /\ LastUsed(ms) = UsedIn(ms[L])
        BY <1>1, <3>2 DEF LastUsed
      <4> QED BY <1>6, <4>1, Zenon
    <3> QED BY <3>1, <3>2
  <2> QED BY <1>1, <2>1, <2>2 DEF Begun
<1>7. LastUsed(Append(ms, x)) = UsedIn(x)
  BY <1>3 DEF ns
<1>8. Begun(Append(ms, x)) <=> Begun(ms) /\ Fits(x) /\ Answer(ResultsIn(x), LastUsed(ms))
  BY <1>5, <1>6, Zenon DEF ns
<1> QED BY <1>7, <1>8

\* It is all answered when nothing is called last.
LEMMA BegunEnds ==
  ASSUME NEW ms \in Seq(AnthropicForms)
  PROVE  AnsweredInAnthropic(ms) <=> Begun(ms) /\ LastUsed(ms) = <<>>
<1> DEFINE L == Len(ms)
<1>1. DOMAIN ms = 1..L /\ L \in Nat /\ (ms = <<>> <=> L = 0) /\ \A i \in 1..L : ms[i] \in AnthropicForms
  OBVIOUS
<1>2. \A i \in 1..L : UsedIn(ms[i]) \in Seq(Blocks)
  BY <1>1, InTyped
<1> HIDE DEF L
<1>3. AnsweredInAnthropic(ms) <=>
        \A i \in 1..L :
          /\ Fits(ms[i]) /\ (i = 1 => ResultsIn(ms[i]) = <<>>)
          /\ i = L => Answer(<<>>, UsedIn(ms[i]))
          /\ i # L => Answer(ResultsIn(ms[i + 1]), UsedIn(ms[i]))
  BY <1>1, Zenon DEF AnsweredInAnthropic, Fits, L
<1>4. (\A i \in 1..L : i = L => Answer(<<>>, UsedIn(ms[i]))) <=> LastUsed(ms) = <<>>
  <2>1. CASE L = 0
    BY <1>1, <2>1 DEF LastUsed
  <2>2. CASE L # 0
    <3>1. L \in 1..L /\ LastUsed(ms) = UsedIn(ms[L])
      BY <1>1, <2>2 DEF LastUsed, L
    <3>2. Answer(<<>>, UsedIn(ms[L])) <=> UsedIn(ms[L]) = <<>>
      <4>1. <<>> \in Seq(Blocks) /\ UsedIn(ms[L]) \in Seq(Blocks)
        BY <1>2, <3>1
      <4> QED BY <4>1, AnswerFacts
    <3> QED BY <3>1, <3>2
  <2> QED BY <2>1, <2>2
<1>5. \A i \in 1..L : i # L <=> i \in 1..(L - 1)
  BY <1>1
<1>6. \A i \in 1..(L - 1) : i \in 1..L
  BY <1>1
<1>7. Begun(ms) <=>
        /\ \A i \in 1..L : Fits(ms[i]) /\ (i = 1 => ResultsIn(ms[i]) = <<>>)
        /\ \A i \in 1..L : i # L => Answer(ResultsIn(ms[i + 1]), UsedIn(ms[i]))
  BY <1>5, <1>6, Zenon DEF Begun, L
<1> QED BY <1>3, <1>4, <1>7

\* What the messages that a translation makes call and answer.
LEMMA CallBlocksHold ==
  ASSUME NEW m \in Proper
  PROVE  /\ Texts(CallBlocks(m)) = Texts(m.content)
         /\ Those(CallBlocks(m), Uses) = Map(m.calls, ToolUse)
         /\ Those(CallBlocks(m), Results) = <<>>
<1> DEFINE c == m.content
           t == Texts(c)
           u == Map(m.calls, ToolUse)
           s == t \o u
<1>1. c \in Seq(Blocks) /\ m.calls \in Seq(Calls)
  BY ProperContent
<1>2. t \in Seq(TextBlocks) /\ t \in Seq(Blocks)
  <2> HIDE DEF c
  <2> QED BY <1>1, TextsTyped
<1>3. u \in Seq(Uses) /\ u \in Seq(Blocks)
  BY <1>1, UsesTyped
<1>4. CallBlocks(m) = s
  BY DEF CallBlocks
<1> HIDE DEF t, u
<1>5. /\ \A x \in Seq(TextBlocks) : Those(x, TextBlocks) = x /\ Those(x, Uses) = <<>> /\ Those(x, Results) = <<>>
      /\ \A x \in Seq(Uses) : Those(x, TextBlocks) = <<>> /\ Those(x, Uses) = x /\ Those(x, Results) = <<>>
  <2>1. \A x \in Seq(TextBlocks) : Those(x, TextBlocks) = x
    BY ThoseAll
  <2>2. \A x \in Seq(TextBlocks) : Those(x, Uses) = <<>>
    BY ThoseNone, Kinds
  <2>3. \A x \in Seq(TextBlocks) : Those(x, Results) = <<>>
    BY ThoseNone, Kinds
  <2>4. \A x \in Seq(Uses) : Those(x, TextBlocks) = <<>>
    BY ThoseNone, Kinds
  <2>5. \A x \in Seq(Uses) : Those(x, Uses) = x
    BY ThoseAll
  <2>6. \A x \in Seq(Uses) : Those(x, Results) = <<>>
    BY ThoseNone, Kinds
  <2> QED BY <2>1, <2>2, <2>3, <2>4, <2>5, <2>6
<1>6. \A S : Those(s, S) = Those(t, S) \o Those(u, S)
  BY <1>2, <1>3, ThoseConcat
<1>7. t \o <<>> = t /\ <<>> \o u = u /\ <<>> \o <<>> = <<>>
  BY <1>2, <1>3, ConcatEmptySeq
<1>8. Those(s, TextBlocks) = t /\ Those(s, Uses) = u /\ Those(s, Results) = <<>>
  BY <1>2, <1>3, <1>5, <1>6, <1>7
<1> HIDE DEF s
<1> QED BY <1>4, <1>8 DEF Texts, t, u

LEMMA TranslatedHold ==
  ASSUME NEW m \in Proper
  PROVE  /\ m.role = "assistant" =>
              /\ Fits(CallMessage(m)) /\ ResultsIn(CallMessage(m)) = <<>>
              /\ SameIds(UsedIn(CallMessage(m)), m.calls)
         /\ Fits(PlainMessage(m)) /\ ResultsIn(PlainMessage(m)) = <<>>
         /\ UsedIn(PlainMessage(m)) = <<>>
<1>1. ASSUME m.role = "assistant"
      PROVE  /\ Fits(CallMessage(m)) /\ ResultsIn(CallMessage(m)) = <<>>
             /\ SameIds(UsedIn(CallMessage(m)), m.calls)
  <2> DEFINE u == Map(m.calls, ToolUse)
  <2>1. ResultsIn(CallMessage(m)) = <<>> /\ UsedIn(CallMessage(m)) = u
    BY CallBlocksHold DEF ResultsIn, UsedIn, CallMessage
  <2>2. Fits(CallMessage(m))
    BY <2>1 DEF Fits, CallMessage
  <2>3. m.calls \in Seq(Calls) /\ u \in Seq(Uses)
    BY ProperContent, UsesTyped
  <2>4. SameIds(u, m.calls)
    BY <2>3 DEF SameIds, Map, ToolUse
  <2> QED BY <2>1, <2>2, <2>4
<1>2. /\ Fits(PlainMessage(m)) /\ ResultsIn(PlainMessage(m)) = <<>>
      /\ UsedIn(PlainMessage(m)) = <<>>
  <2> DEFINE c == m.content
             p == Those(c, Carried)
  <2>1. c \in Seq(Blocks)
    BY ProperContent
  <2>2. p \in Seq(Carried)
    <3> HIDE DEF c
    <3>1. p \in Seq(Blocks \cap Carried)
      BY <2>1, ThoseTyped
    <3> HIDE DEF p
    <3> QED BY <3>1, Wider
  <2>3. Those(p, Uses) = <<>> /\ Those(p, Results) = <<>>
    <3> HIDE DEF p
    <3> QED BY <2>2, ThoseNone, Kinds
  <2>4. PlainMessage(m).content = p
    BY DEF PlainMessage
  <2> HIDE DEF p
  <2> QED BY <2>3, <2>4 DEF Fits, ResultsIn, UsedIn
<1> QED BY <1>1, <1>2

LEMMA PendingHolds ==
  ASSUME NEW p \in Seq(TextResults)
  PROVE  LET x == [role |-> "user", content |-> p] IN
           Fits(x) /\ ResultsIn(x) = p /\ UsedIn(x) = <<>>
<1>1. Those(p, Results) = p
  BY ResultsAre, ThoseAll
<1>2. Those(p, Uses) = <<>>
  BY ResultsAre, ThoseNone, Kinds
<1> QED BY <1>1, <1>2 DEF Fits, ResultsIn, UsedIn

\* The messages that come of an assistant's message and of a user's.
LEMMA AssistantHolds ==
  ASSUME NEW m \in AnthropicForms, m.role = "assistant"
  PROVE  \E a \in Proper : /\ ToOpenai(m) = <<a>> /\ a.role = "assistant"
                           /\ SameIds(a.calls, UsedIn(m))
<1> DEFINE u == Those(m.content, Uses)
           k == Map(u, Call)
           a == [role |-> "assistant", content |-> Texts(m.content), calls |-> k, id |-> ""]
<1>1. ToOpenai(m) = <<a>>
  BY DEF ToOpenai, AssistantToOpenai
<1>2. a \in Proper
  <2>1. ToOpenai(m) \in Seq(Proper)
    BY AssistantTranslated DEF Speakers
  <2> HIDE DEF a
  <2>2. Len(<<a>>) = 1 /\ <<a>>[1] = a
    OBVIOUS
  <2> QED BY <1>1, <2>1, <2>2
<1>3. u \in Seq(Blocks)
  BY InTyped DEF UsedIn
<1>4. SameIds(k, u)
  <2> HIDE DEF u
  <2>1. Len(k) = Len(u) /\ DOMAIN u = 1..Len(u)
    BY <1>3 DEF Map
  <2>2. \A i \in 1..Len(u) : k[i] = Call(u[i])
    BY <2>1, Zenon DEF Map
  <2> HIDE DEF k
  <2>3. \A i \in 1..Len(u) : k[i].id = u[i].id
    <3>1. \A b : Call(b).id = b.id
      BY DEF Call
    <3> QED BY <2>2, <3>1
  <2> QED BY <2>1, <2>3 DEF SameIds
<1>5. a.role = "assistant" /\ a.calls = k
  OBVIOUS
<1> HIDE DEF a, k, u
<1> QED BY <1>1, <1>2, <1>4, <1>5 DEF UsedIn, u

LEMMA UserHolds ==
  ASSUME NEW m \in AnthropicForms, m.role # "assistant"
  PROVE  \E ts \in Seq(Proper) :
           /\ \A i \in 1..Len(ts) : ts[i].role = "tool"
           /\ SameIds(ts, ResultsIn(m))
           /\ \/ ToOpenai(m) = ts
              \/ \E a \in Proper : /\ a.role = "user" /\ a.calls = <<>>
                                   /\ ToOpenai(m) = ts \o <<a>>
<1> DEFINE c == m.content
           r == Those(c, Results)
           ts == Map(r, ToolMessage)
<1>1. c \in Seq(Blocks)
  BY DEF AnthropicForms
<1>2. ToOpenai(m) = ts \o Rest(c)
  BY DEF ToOpenai, UserToOpenai, Rest
<1> HIDE DEF c
<1>3. ts \in Seq(Proper) /\ Rest(c) \in Seq(Proper)
  BY <1>1, ResultsTranslated, RestTranslated
<1>4. r \in Seq(Blocks)
  BY <1>1, ThoseTyped
<1>5. r = ResultsIn(m)
  BY DEF ResultsIn, c
<1> HIDE DEF r
<1>6. Len(ts) = Len(r) /\ DOMAIN r = 1..Len(r) /\ \A i \in 1..Len(r) : ts[i] = ToolMessage(r[i])
  <2>1. Len(ts) = Len(r) /\ DOMAIN r = 1..Len(r)
    BY <1>4 DEF Map
  <2>2. \A i \in 1..Len(r) : ts[i] = ToolMessage(r[i])
    BY <2>1, Zenon DEF Map
  <2> QED BY <2>1, <2>2
<1> HIDE DEF ts
<1>7. (\A i \in 1..Len(ts) : ts[i].role = "tool") /\ SameIds(ts, r)
  <2>1. \A b : ToolMessage(b).role = "tool" /\ ToolMessage(b).id = b.id
    BY DEF ToolMessage
  <2> QED BY <1>6, <2>1 DEF SameIds
<1>8. CASE Rest(c) = <<>>
  <2>1. ts \o <<>> = ts
    BY <1>3, ConcatEmptySeq
  <2> QED BY <1>2, <1>3, <1>5, <1>7, <1>8, <2>1
<1>9. CASE Rest(c) # <<>>
  <2> DEFINE a == Plain("user", Those(c, Carried))
  <2>1. Rest(c) = <<a>>
    BY <1>9 DEF Rest
  <2>2. a.role = "user" /\ a.calls = <<>>
    BY DEF Plain
  <2> HIDE DEF a
  <2>3. a \in Proper
    <3>1. Len(<<a>>) = 1 /\ <<a>>[1] = a
      OBVIOUS
    <3> QED BY <1>3, <2>1, <3>1
  <2> QED BY <1>2, <1>3, <1>5, <1>7, <2>1, <2>2, <2>3
<1> QED BY <1>8, <1>9


\* A conversation that may still be answered as OpenAI wants it.
Extendable(ms) == \E ns \in Seq(Proper) : AnsweredInOpenai(ms \o ns)

LEMMA ExtendableFacts ==
  ASSUME NEW ms \in Seq(Proper), NEW m \in Proper
  PROVE  /\ Extendable(Append(ms, m)) => Extendable(ms)
         /\ AnsweredInOpenai(ms) => Extendable(ms)
         /\ Extendable(Append(ms, m)) /\ m.role # "tool" => AnsweredInOpenai(ms)
<1>1. ASSUME Extendable(Append(ms, m)) PROVE Extendable(ms)
  <2>1. PICK ns \in Seq(Proper) : AnsweredInOpenai(Append(ms, m) \o ns)
    BY <1>1 DEF Extendable
  <2>2. Append(ms, m) \o ns = ms \o (<<m>> \o ns) /\ <<m>> \o ns \in Seq(Proper)
    <3> DEFINE o == <<m>>
    <3>1. o \in Seq(Proper) /\ Append(ms, m) = ms \o o
      OBVIOUS
    <3> HIDE DEF o
    <3>2. (ms \o o) \o ns = ms \o (o \o ns)
      BY <3>1, ConcatAssociative
    <3>3. o \o ns \in Seq(Proper)
      BY <3>1
    <3> QED BY <3>1, <3>2, <3>3 DEF o
  <2> QED BY <2>1, <2>2 DEF Extendable
<1>2. ASSUME AnsweredInOpenai(ms) PROVE Extendable(ms)
  <2>1. ms \o <<>> = ms /\ <<>> \in Seq(Proper)
    BY ConcatEmptySeq
  <2> QED BY <1>2, <2>1 DEF Extendable
<1>3. ASSUME Extendable(Append(ms, m)), m.role # "tool" PROVE AnsweredInOpenai(ms)
  <2>1. PICK ns \in Seq(Proper) : AnsweredInOpenai(Append(ms, m) \o ns)
    BY <1>3 DEF Extendable
  <2> DEFINE all == Append(ms, m) \o ns
             L == Len(ms)
  <2>2. /\ all \in Seq(Proper) /\ L \in Nat /\ L < Len(all) /\ all[L + 1] = m
        /\ \A i \in 1..L : all[i] = ms[i]
    OBVIOUS
  <2> HIDE DEF all, L
  <2>3. /\ \A i \in 1..Len(all) : AnsweredAt(all, i)
        /\ \A j \in 1..Len(all) : all[j].role = "tool" => Called(all, j)
    BY <2>1, <2>2, AnsweredUnfolds DEF all
  <2>4. ASSUME NEW i \in 1..L PROVE AnsweredAt(ms, i)
    <3> DEFINE n == Len(ms[i].calls)
    <3>1. AnsweredAt(all, i) /\ n \in Nat /\ all[i] = ms[i] /\ i \in Nat
      BY <2>2, <2>3, ProperFacts DEF L
    <3>2. i + n <= Len(all) /\ (\A j \in (i + 1)..(i + n) : all[j].role = "tool") /\ Answer(Answering(all, i), ms[i].calls)
      BY <3>1 DEF AnsweredAt
    <3> HIDE DEF n
    <3>3. i + n <= L
      <4>1. L + 1 \notin (i + 1)..(i + n)
        BY <1>3, <2>2, <3>2
      <4> QED BY <2>2, <3>1, <4>1
    <3>4. \A j \in (i + 1)..(i + n) : all[j] = ms[j]
      BY <2>2, <3>1, <3>3
    <3>5. SubSeq(all, i + 1, i + n) = SubSeq(ms, i + 1, i + n)
      <4>1. i + 1 \in Nat /\ i + n \in Nat /\ 1 <= i + 1 /\ i + 1 <= (i + n) + 1
            /\ i + n <= Len(all) /\ i + n <= Len(ms)
        BY <2>2, <3>1, <3>3 DEF L
      <4> QED BY <2>2, <3>4, <4>1, SameSlice
    <3> QED BY <3>1, <3>2, <3>3, <3>4, <3>5, Zenon DEF AnsweredAt, Answering, n, L
  <2>5. ASSUME NEW j \in 1..L, ms[j].role = "tool" PROVE Called(ms, j)
    <3>1. Called(all, j)
      BY <2>2, <2>3, <2>5
    <3>2. PICK i \in 1..(j - 1) : j <= i + Len(all[i].calls)
      BY <3>1 DEF Called
    <3>3. all[i] = ms[i]
      BY <2>2, <3>2
    <3> QED BY <3>2, <3>3 DEF Called
  <2> QED BY <2>4, <2>5, AnsweredUnfolds DEF L
<1> QED BY <1>1, <1>2, <1>3

\* After the last message that is no answer come the answers to its calls.
LEMMA LastAnswered ==
  ASSUME NEW ms \in Seq(Proper), AnsweredInOpenai(ms), NEW n \in 0..Len(ms),
         \A i \in (n + 1)..Len(ms) : ms[i].role = "tool", n # 0 => ms[n].role # "tool"
  PROVE  /\ n = 0 => Len(ms) = 0
         /\ n # 0 => /\ Len(ms) = n + Len(ms[n].calls)
                     /\ Answer(SubSeq(ms, n + 1, Len(ms)), ms[n].calls)
<1>1. /\ \A i \in 1..Len(ms) : AnsweredAt(ms, i)
      /\ \A j \in 1..Len(ms) : ms[j].role = "tool" => Called(ms, j)
  BY AnsweredUnfolds
<1>2. Len(ms) \in Nat /\ n \in Nat /\ \A i \in 1..Len(ms) : Len(ms[i].calls) \in Nat
  BY ProperFacts
<1>3. ASSUME n # Len(ms) PROVE n # 0 /\ Len(ms) <= n + Len(ms[n].calls)
  <2>1. Len(ms) \in 1..Len(ms) /\ Len(ms) \in (n + 1)..Len(ms)
    BY <1>2, <1>3
  <2>2. PICK i \in 1..(Len(ms) - 1) : Len(ms) <= i + Len(ms[i].calls)
    BY <1>1, <2>1 DEF Called
  <2>3. i \in 1..Len(ms) /\ Len(ms[i].calls) # 0 /\ ms[i].role # "tool"
    <3>1. i \in 1..Len(ms)
      BY <1>2, <2>2
    <3>2. Len(ms[i].calls) # 0
      BY <1>2, <2>2, <3>1
    <3> QED BY <3>1, <3>2, ProperFacts
  <2>4. i <= n
    BY <1>2, <2>3
  <2>5. \A j \in (i + 1)..(i + Len(ms[i].calls)) : ms[j].role = "tool"
    BY <1>1, <2>3 DEF AnsweredAt
  <2>6. n # 0 /\ ~(n \in (i + 1)..(i + Len(ms[i].calls)))
    BY <1>2, <2>2, <2>4, <2>5
  <2>7. i = n
    BY <1>2, <2>2, <2>3, <2>4, <2>6
  <2> QED BY <2>2, <2>6, <2>7
<1>4. n = 0 => Len(ms) = 0
  BY <1>3
<1>5. ASSUME n # 0 PROVE Len(ms) = n + Len(ms[n].calls) /\ Answer(SubSeq(ms, n + 1, Len(ms)), ms[n].calls)
  <2>1. n \in 1..Len(ms)
    BY <1>2, <1>5
  <2>2. AnsweredAt(ms, n) /\ Len(ms[n].calls) \in Nat
    BY <1>1, <1>2, <2>1
  <2>3. n + Len(ms[n].calls) <= Len(ms) /\ Answer(Answering(ms, n), ms[n].calls)
    BY <2>2 DEF AnsweredAt
  <2>4. Len(ms) = n + Len(ms[n].calls)
    BY <1>2, <1>3, <2>2, <2>3
  <2> QED BY <2>3, <2>4 DEF Answering
<1> QED BY <1>4, <1>5

\* The results that wait are those of the messages read last; the message they
\* answer is the last of the translated request.
Due == LET n == Len(read) - Len(pending) IN IF n = 0 THEN <<>> ELSE read[n].calls
Waits ==
  LET n == Len(read) - Len(pending) IN
  /\ n \in 0..Len(read)
  /\ \A i \in 1..Len(pending) : read[n + i].role = "tool" /\ read[n + i].id = pending[i].id
  /\ n # 0 => read[n].role # "tool"
  /\ Extendable(read) => Begun(out) /\ SameIds(LastUsed(out), Due)

LEMMA AllAnswered ==
  ASSUME Typed, direction = "to_anthropic", Waits, AnsweredInOpenai(read)
  PROVE  Begun(Flushed) /\ LastUsed(Flushed) = <<>>
<1> DEFINE n == Len(read) - Len(pending)
           x == [role |-> "user", content |-> pending]
<1>1. /\ read \in Seq(Proper) /\ out \in Seq(AnthropicForms) /\ pending \in Seq(TextResults)
      /\ pending \in Seq(Blocks) /\ x \in AnthropicForms
  BY PendingTyped DEF Typed
<1>2. Begun(out) /\ SameIds(LastUsed(out), Due) /\ LastUsed(out) \in Seq(Blocks)
  <2>1. Extendable(read)
    <3>1. read \o <<>> = read /\ <<>> \in Seq(Proper)
      BY <1>1, ConcatEmptySeq
    <3> QED BY <3>1 DEF Extendable
  <2> QED BY <1>1, <2>1, LastUsedTyped DEF Waits
<1>3. /\ n \in 0..Len(read) /\ Len(read) \in Nat /\ Len(pending) \in Nat /\ n + Len(pending) = Len(read)
      /\ \A i \in 1..Len(pending) : read[n + i].role = "tool" /\ read[n + i].id = pending[i].id
      /\ n # 0 => read[n].role # "tool"
  BY <1>1 DEF Waits
<1>4. Due = IF n = 0 THEN <<>> ELSE read[n].calls
  BY DEF Due
<1> HIDE DEF n
<1>5. \A i \in (n + 1)..Len(read) : read[i].role = "tool"
  <2> SUFFICES ASSUME NEW i \in (n + 1)..Len(read) PROVE read[i].role = "tool"
    OBVIOUS
  <2> DEFINE k == i - n
  <2>1. k \in 1..Len(pending) /\ n + k = i
    BY <1>3
  <2> HIDE DEF k
  <2> QED BY <1>3, <2>1
<1>6. /\ n = 0 => Len(read) = 0
      /\ n # 0 => /\ Len(read) = n + Len(read[n].calls)
                  /\ Answer(SubSeq(read, n + 1, Len(read)), read[n].calls)
  BY <1>1, <1>3, <1>5, LastAnswered
<1>7. CASE pending = <<>>
  <2>1. Flushed = out /\ n = Len(read)
    BY <1>3, <1>7 DEF Flushed
  <2>2. Len(Due) = 0
    <3>1. n # 0 => Len(read[n].calls) = 0
      <4>1. n # 0 => Len(read[n].calls) \in Nat
        BY <1>1, <1>3, ProperFacts
      <4> QED BY <1>3, <1>6, <2>1, <4>1
    <3> QED BY <1>4, <3>1
  <2>3. LastUsed(out) = <<>>
    BY <1>2, <2>2 DEF SameIds
  <2> QED BY <1>2, <2>1, <2>3
<1>8. CASE pending # <<>>
  <2>1. Flushed = Append(out, x)
    BY <1>8 DEF Flushed
  <2>2. n # 0 /\ n \in 1..Len(read)
    BY <1>3, <1>6, <1>8
  <2>3. Fits(x) /\ ResultsIn(x) = pending /\ UsedIn(x) = <<>>
    BY <1>1, PendingHolds
  <2> DEFINE s == SubSeq(read, n + 1, Len(read))
             c == read[n].calls
  <2>4. c \in Seq(Calls) /\ Due = c
    BY <1>1, <1>4, <2>2, ProperFacts
  <2>5. s \in Seq(Proper) /\ Len(s) = Len(pending) /\ \A i \in 1..Len(pending) : s[i] = read[n + i]
    <3>1. /\ \A i \in (n + 1)..Len(read) : read[i] \in Proper
          /\ n + 1 \in Int /\ Len(read) \in Int /\ Len(read) - (n + 1) + 1 = Len(pending)
      BY <1>1, <1>3
    <3>2. /\ s \in Seq(Proper)
          /\ Len(s) = IF n + 1 <= Len(read) THEN Len(read) - (n + 1) + 1 ELSE 0
          /\ \A i \in 1..(Len(read) - (n + 1) + 1) : s[i] = read[n + 1 + i - 1]
      BY <3>1, SubSeqProperties
    <3> HIDE DEF s
    <3>3. Len(s) = Len(pending)
      BY <1>3, <3>1, <3>2
    <3>4. \A i \in 1..Len(pending) : n + 1 + i - 1 = n + i
      BY <1>3
    <3> QED BY <3>1, <3>2, <3>3, <3>4
  <2>6. Answer(s, c)
    BY <1>6, <2>2
  <2> HIDE DEF s, c, x
  <2>7. SameIds(s, pending)
    BY <1>3, <2>5 DEF SameIds
  <2>8. SameIds(c, LastUsed(out))
    BY <1>2, <2>4, SameIdsBack
  <2>9. Answer(pending, LastUsed(out))
    BY <1>1, <1>2, <2>4, <2>5, <2>6, <2>7, <2>8, SameIdsAnswer
  <2> QED BY <1>1, <1>2, <2>1, <2>3, <2>9, BegunGrows
<1> QED BY <1>7, <1>8


\* On the way to OpenAI's protocol the message that calls comes last.
Calling(ms, calls) ==
  \E p \in Seq(Proper), a \in Proper :
    /\ ms = Append(p, a) /\ AnsweredInOpenai(p) /\ a.role = "assistant"
    /\ SameIds(a.calls, calls)

Tended ==
  Begun(read) => IF LastUsed(read) = <<>> THEN AnsweredInOpenai(out)
                                          ELSE Calling(out, LastUsed(read))

LEMMA AppendOther ==
  ASSUME NEW ms \in Seq(Proper), AnsweredInOpenai(ms), NEW a \in Proper,
         a.role # "tool", a.calls = <<>>
  PROVE  AnsweredInOpenai(ms \o <<a>>) /\ AnsweredInOpenai(Append(ms, a))
<1>1. AnsweredInOpenai(Append(ms, a) \o <<>>)
  <2>1. <<>> \in Seq(Proper) /\ Answer(<<>>, a.calls) /\ \A i \in 1..Len(<<>>) : <<>>[i].role = "tool"
    BY AnswerFacts
  <2> QED BY <2>1, AppendAnswered
<1>2. Append(ms, a) \o <<>> = Append(ms, a) /\ ms \o <<a>> = Append(ms, a)
  <2>1. Append(ms, a) \in Seq(Proper)
    OBVIOUS
  <2>2. Append(ms, a) \o <<>> = Append(ms, a)
    BY <2>1, ConcatEmptySeq
  <2>3. ms \o <<a>> = Append(ms, a)
    OBVIOUS
  <2> QED BY <2>2, <2>3
<1> QED BY <1>1, <1>2

LEMMA TendedStep ==
  ASSUME Typed, direction = "to_openai", Tended, NEW m \in AnthropicMessages, ReadAnthropic(m)
  PROVE  Tended'
<1>1. /\ m \in AnthropicForms /\ read \in Seq(AnthropicForms) /\ out \in Seq(Proper)
      /\ read' = Append(read, m) /\ out' = out \o ToOpenai(m)
  BY ConstantsOK DEF ReadAnthropic, Takes, Typed
<1> DEFINE u == LastUsed(read)
<1>2. LastUsed(read') = UsedIn(m) /\ (Begun(read') <=> Begun(read) /\ Fits(m) /\ Answer(ResultsIn(m), u))
  BY <1>1, BegunGrows
<1>3. u \in Seq(Blocks) /\ ResultsIn(m) \in Seq(Blocks) /\ UsedIn(m) \in Seq(Blocks)
  BY <1>1, LastUsedTyped, InTyped
<1> SUFFICES ASSUME Begun(read'), Begun(read), Fits(m), Answer(ResultsIn(m), u)
             PROVE  IF UsedIn(m) = <<>> THEN AnsweredInOpenai(out') ELSE Calling(out', UsedIn(m))
  BY <1>2 DEF Tended
<1>4. IF u = <<>> THEN AnsweredInOpenai(out) ELSE Calling(out, u)
  BY DEF Tended
<1> HIDE DEF u
<1>5. CASE m.role = "assistant"
  <2>1. PICK a \in Proper : ToOpenai(m) = <<a>> /\ a.role = "assistant" /\ SameIds(a.calls, UsedIn(m))
    BY <1>1, <1>5, AssistantHolds
  <2>2. ResultsIn(m) = <<>>
    BY <1>5 DEF Fits
  <2>3. u = <<>>
    BY <1>3, <2>2, AnswerNone
  <2>4. AnsweredInOpenai(out)
    BY <1>4, <2>3
  <2>5. out' = Append(out, a)
    BY <1>1, <2>1
  <2>6. CASE UsedIn(m) = <<>>
    <3>1. a.calls \in Seq(Calls) /\ Len(a.calls) = 0
      BY <2>1, <2>6, ProperContent DEF SameIds
    <3>2. a.calls = <<>>
      BY <3>1
    <3> QED BY <1>1, <2>1, <2>4, <2>5, <2>6, <3>2, AppendOther
  <2>7. CASE UsedIn(m) # <<>>
    <3>1. Calling(out', UsedIn(m))
      BY <1>1, <2>1, <2>4, <2>5 DEF Calling
    <3> QED BY <2>7, <3>1
  <2> QED BY <2>6, <2>7
<1>6. CASE m.role # "assistant"
  <2>1. PICK ts \in Seq(Proper) :
           /\ \A i \in 1..Len(ts) : ts[i].role = "tool"
           /\ SameIds(ts, ResultsIn(m))
           /\ \/ ToOpenai(m) = ts
              \/ \E a \in Proper : /\ a.role = "user" /\ a.calls = <<>>
                                   /\ ToOpenai(m) = ts \o <<a>>
    BY <1>1, <1>6, UserHolds
  <2>2. UsedIn(m) = <<>>
    BY <1>6 DEF Fits
  <2>3. out \o ts \in Seq(Proper) /\ AnsweredInOpenai(out \o ts)
    <3>0. out \o ts \in Seq(Proper)
      BY <1>1
    <3>1. CASE u = <<>>
      <4>1. ResultsIn(m) = <<>>
        BY <1>3, <3>1, AnswerNone
      <4>2. ts = <<>>
        BY <2>1, <4>1 DEF SameIds
      <4>3. out \o <<>> = out
        BY <1>1, ConcatEmptySeq
      <4> QED BY <1>4, <3>0, <3>1, <4>2, <4>3
    <3>2. CASE u # <<>>
      <4>1. PICK p \in Seq(Proper), a \in Proper :
              /\ out = Append(p, a) /\ AnsweredInOpenai(p) /\ a.role = "assistant"
              /\ SameIds(a.calls, u)
        BY <1>4, <3>2 DEF Calling
      <4>2. a.calls \in Seq(Calls)
        BY ProperContent
      <4>3. SameIds(u, a.calls) /\ SameIds(ResultsIn(m), ts)
        BY <1>3, <2>1, <4>1, <4>2, SameIdsBack
      <4>4. Answer(ts, a.calls)
        BY <1>3, <4>2, <4>3, SameIdsAnswer
      <4> QED BY <2>1, <3>0, <4>1, <4>4, AppendAnswered
    <3> QED BY <3>1, <3>2
  <2>4. CASE ToOpenai(m) = ts
    BY <1>1, <2>2, <2>3, <2>4
  <2>5. ASSUME NEW a \in Proper, a.role = "user", a.calls = <<>>, ToOpenai(m) = ts \o <<a>>
        PROVE  AnsweredInOpenai(out')
    <3> DEFINE o == <<a>>
    <3>1. o \in Seq(Proper)
      OBVIOUS
    <3>2. AnsweredInOpenai((out \o ts) \o o)
      BY <2>3, <2>5, AppendOther
    <3> HIDE DEF o
    <3>3. (out \o ts) \o o = out \o (ts \o o)
      BY <1>1, <3>1, ConcatAssociative
    <3> QED BY <1>1, <2>5, <3>2, <3>3 DEF o
  <2> QED BY <2>1, <2>2, <2>4, <2>5
<1> QED BY <1>5, <1>6

LEMMA WaitsStep ==
  ASSUME Typed, direction = "to_anthropic", Waits, NEW m \in OpenaiMessages,
         ReadSystem(m) \/ ReadTool(m) \/ ReadCalls(m) \/ ReadPlain(m)
  PROVE  Waits'
<1>1. /\ m \in Proper /\ read \in Seq(Proper) /\ read' = Append(read, m)
      /\ out \in Seq(AnthropicForms) /\ pending \in Seq(TextResults)
  BY MessagesProper DEF ReadSystem, ReadTool, ReadCalls, ReadPlain, Takes, Typed
<1> DEFINE L == Len(read)
           n == Len(read) - Len(pending)
<1>2. /\ read' \in Seq(Proper) /\ Len(read') = L + 1 /\ read'[L + 1] = m /\ L \in Nat
      /\ \A i \in 1..L : read'[i] = read[i]
  BY <1>1
<1>3. /\ n \in 0..L /\ Len(pending) \in Nat /\ n + Len(pending) = L
      /\ \A i \in 1..Len(pending) : read[n + i].role = "tool" /\ read[n + i].id = pending[i].id
      /\ n # 0 => read[n].role # "tool"
      /\ Extendable(read) => Begun(out) /\ SameIds(LastUsed(out), Due)
  BY <1>1 DEF Waits
<1>4. Flushed \in Seq(AnthropicForms)
  BY FlushedTyped
<1>5. ASSUME m.role # "tool", pending' = <<>>,
             Extendable(read') => Begun(out') /\ SameIds(LastUsed(out'), m.calls)
      PROVE  Waits'
  <2>1. Len(pending') = 0 /\ Len(read') - Len(pending') = L + 1
    BY <1>2, <1>5
  <2>2. Due' = m.calls
    <3>1. Due' = IF Len(read') - Len(pending') = 0 THEN <<>> ELSE read'[Len(read') - Len(pending')].calls
      BY DEF Due
    <3> HIDE DEF L
    <3> QED BY <1>2, <2>1, <3>1
  <2>3. /\ L + 1 \in 0..Len(read')
        /\ \A i \in 1..Len(pending') : FALSE
        /\ read'[L + 1].role # "tool"
        /\ Extendable(read') => Begun(out') /\ SameIds(LastUsed(out'), Due')
    BY <1>2, <1>5, <2>1, <2>2
  <2> HIDE DEF L
  <2> QED BY <2>1, <2>3, Zenon DEF Waits
<1>6. Extendable(read') /\ m.role # "tool" => Begun(Flushed) /\ LastUsed(Flushed) = <<>>
  BY <1>1, ExtendableFacts, AllAnswered
<1>7. CASE ReadSystem(m)
  <2>1. out' = Flushed /\ pending' = <<>> /\ m.role = "system"
    BY <1>7 DEF ReadSystem, Takes
  <2>2. m.calls = <<>>
    BY <1>1, <2>1 DEF Proper
  <2>3. SameIds(<<>>, <<>>)
    BY DEF SameIds
  <2> QED BY <1>5, <1>6, <2>1, <2>2, <2>3
<1>8. CASE ReadTool(m)
  <2> DEFINE r == Result(m)
             P == Len(pending)
  <2>1. out' = out /\ pending' = Append(pending, r) /\ m.role = "tool"
    BY <1>8 DEF ReadTool, Takes
  <2>2. r \in TextResults /\ r.id = m.id
    BY <1>1, <2>1, OpenaiSays DEF Result
  <2> HIDE DEF r
  <2>3. /\ Len(pending') = P + 1 /\ pending'[P + 1] = r
        /\ \A i \in 1..P : pending'[i] = pending[i]
    BY <1>1, <2>1, <2>2
  <2>4. Len(read') - Len(pending') = n
    BY <1>2, <1>3, <2>3
  <2> HIDE DEF n, L, P
  <2>5. n \in 0..Len(read') /\ P \in Nat /\ n + P = L
    BY <1>2, <1>3 DEF P
  <2>6. ASSUME NEW i \in 1..Len(pending')
        PROVE  read'[n + i].role = "tool" /\ read'[n + i].id = pending'[i].id
    <3>1. CASE i \in 1..P
      <4>1. n + i \in 1..L
        BY <1>2, <1>3, <2>5, <3>1
      <4>2. read'[n + i] = read[n + i] /\ pending'[i] = pending[i]
        BY <1>2, <2>3, <3>1, <4>1
      <4> QED BY <1>3, <3>1, <4>2 DEF P
    <3>2. CASE i = P + 1
      <4>1. n + i = L + 1
        BY <1>2, <1>3, <2>5, <3>2
      <4> QED BY <1>2, <2>1, <2>2, <2>3, <3>2, <4>1
    <3> QED BY <2>3, <2>5, <3>1, <3>2
  <2>7. n # 0 => read'[n] = read[n]
    BY <1>2, <1>3
  <2>8. Due' = Due
    <3>1. Due' = IF Len(read') - Len(pending') = 0 THEN <<>> ELSE read'[Len(read') - Len(pending')].calls
      BY DEF Due
    <3>2. Due = IF n = 0 THEN <<>> ELSE read[n].calls
      BY DEF Due, n
    <3> QED BY <2>4, <2>7, <3>1, <3>2
  <2>9. Extendable(read') => Begun(out') /\ SameIds(LastUsed(out'), Due')
    BY <1>1, <1>3, <2>1, <2>8, ExtendableFacts
  <2>10. n # 0 => read'[n].role # "tool"
    BY <1>3, <2>7
  <2> QED BY <2>4, <2>5, <2>6, <2>9, <2>10, Zenon DEF Waits
<1>9. CASE ReadCalls(m)
  <2> DEFINE x == CallMessage(m)
  <2>1. out' = Append(Flushed, x) /\ pending' = <<>> /\ m.role = "assistant"
    BY <1>9 DEF ReadCalls, Takes, CallMessage
  <2>2. x \in AnthropicForms /\ Fits(x) /\ ResultsIn(x) = <<>> /\ SameIds(UsedIn(x), m.calls)
    BY <1>1, <2>1, TranslatedTyped, TranslatedHold
  <2> HIDE DEF x
  <2>3. Extendable(read') => Begun(out') /\ SameIds(LastUsed(out'), m.calls)
    BY <1>4, <1>6, <2>1, <2>2, BegunGrows, AnswerFacts
  <2> QED BY <1>5, <2>1, <2>3
<1>10. CASE ReadPlain(m)
  <2> DEFINE x == PlainMessage(m)
  <2>1. out' = Append(Flushed, x) /\ pending' = <<>> /\ m.role # "tool" /\ m.calls = <<>>
    BY <1>10 DEF ReadPlain, Takes, PlainMessage
  <2>2. x \in AnthropicForms /\ Fits(x) /\ ResultsIn(x) = <<>> /\ UsedIn(x) = <<>>
    BY <1>1, TranslatedTyped, TranslatedHold
  <2>3. SameIds(<<>>, <<>>)
    BY DEF SameIds
  <2> HIDE DEF x
  <2>4. Extendable(read') => Begun(out') /\ SameIds(LastUsed(out'), m.calls)
    BY <1>4, <1>6, <2>1, <2>2, <2>3, BegunGrows, AnswerFacts
  <2> QED BY <1>5, <2>1, <2>4
<1> QED BY <1>7, <1>8, <1>9, <1>10

Answered ==
  /\ at = "messages" => IF direction = "to_anthropic" THEN Waits ELSE Tended
  /\ AnsweredAtOnce

\* Whatever tools a conversation calls, alone or several at once, if they are
\* answered the way the client's protocol wants it then in the translated
\* request they are answered the way the provider's does.
THEOREM AnswersStayAtOnce == Spec => []AnsweredAtOnce
<1>1. Init /\ Typed => Answered
  <2> SUFFICES ASSUME Init, Typed PROVE Answered
    OBVIOUS
  <2>1. at = "messages" /\ read = <<>> /\ pending = <<>>
    BY DEF Init
  <2>2. Begun(<<>>) /\ LastUsed(<<>>) = <<>> /\ SameIds(<<>>, <<>>)
    BY DEF Begun, LastUsed, SameIds
  <2>3. AnsweredInOpenai(<<>>)
    <3>1. ASSUME NEW ms \in Seq(Proper), Len(ms) = 0 PROVE AnsweredInOpenai(ms)
      <4>1. \A i \in 1..Len(ms) : FALSE
        BY <3>1
      <4> QED BY <3>1, <4>1, AnsweredUnfolds
    <3>2. <<>> \in Seq(Proper) /\ Len(<<>>) = 0
      OBVIOUS
    <3> QED BY <3>1, <3>2
  <2>4. CASE direction = "to_anthropic"
    <3>1. out = <<>>
      BY <2>4 DEF Init
    <3>2. Due = <<>>
      BY <2>1 DEF Due
    <3>3. Waits
      BY <2>1, <2>2, <3>1, <3>2 DEF Waits
    <3> QED BY <2>1, <2>4, <3>3 DEF Answered, AnsweredAtOnce
  <2>5. CASE direction = "to_openai"
    <3>1. out = SystemMessage(system) /\ system \in Seq(TextBlocks)
      BY <2>5 DEF Init, Typed
    <3>2. AnsweredInOpenai(out)
      <4>1. CASE system = <<>>
        BY <2>3, <3>1, <4>1 DEF SystemMessage
      <4>2. CASE system # <<>>
        <5> DEFINE a == Plain("system", system)
        <5>1. out = <<a>> /\ a.role = "system" /\ a.calls = <<>>
          BY <3>1, <4>2 DEF SystemMessage, Plain
        <5>2. a \in Proper
          BY <3>1, Wider, PlainProper DEF Roles
        <5> HIDE DEF a
        <5>3. Append(<<>>, a) = <<a>> /\ <<>> \in Seq(Proper)
          OBVIOUS
        <5> QED BY <2>3, <5>1, <5>2, <5>3, AppendOther
      <4> QED BY <4>1, <4>2
    <3> QED BY <2>1, <2>2, <2>5, <3>2 DEF Answered, AnsweredAtOnce, Tended
  <2> QED BY <2>4, <2>5 DEF Typed
<1>2. Answered /\ Typed /\ [Next]_vars => Answered'
  <2> SUFFICES ASSUME Answered, Typed, [Next]_vars PROVE Answered'
    OBVIOUS
  <2>1. CASE UNCHANGED vars
    BY <2>1 DEF vars, Answered, AnsweredAtOnce, Waits, Tended, Due
  <2>2. ASSUME direction = "to_anthropic", NEW m \in OpenaiMessages,
               ReadSystem(m) \/ ReadTool(m) \/ ReadCalls(m) \/ ReadPlain(m)
        PROVE  Answered'
    <3>1. at = "messages" /\ at' = at /\ direction' = direction
      BY <2>2 DEF ReadSystem, ReadTool, ReadCalls, ReadPlain, Takes
    <3>2. Waits'
      BY <2>2, <3>1, WaitsStep DEF Answered
    <3> QED BY <2>2, <3>1, <3>2 DEF Answered, AnsweredAtOnce
  <2>3. ASSUME direction = "to_openai", NEW m \in AnthropicMessages, ReadAnthropic(m)
        PROVE  Answered'
    <3>1. at = "messages" /\ at' = at /\ direction' = direction
      BY <2>3 DEF ReadAnthropic, Takes
    <3>2. Tended'
      BY <2>3, <3>1, TendedStep DEF Answered
    <3> QED BY <2>3, <3>1, <3>2 DEF Answered, AnsweredAtOnce
  <2>4. CASE Finish
    <3>1. at = "messages" /\ at' = "done" /\ out' = Flushed /\ UNCHANGED <<direction, read>>
      BY <2>4 DEF Finish
    <3>2. CASE direction = "to_anthropic"
      <4>1. AnsweredInOpenai(read) => AnsweredInAnthropic(Flushed)
        BY <3>1, <3>2, FlushedTyped, AllAnswered, BegunEnds DEF Answered
      <4> QED BY <3>1, <3>2, <4>1 DEF Answered, AnsweredAtOnce
    <3>3. CASE direction = "to_openai"
      <4>1. Flushed = out /\ read \in Seq(AnthropicForms)
        BY <3>3, FlushedTyped DEF Typed
      <4>2. AnsweredInAnthropic(read) => AnsweredInOpenai(out)
        BY <3>1, <3>3, <4>1, BegunEnds DEF Answered, Tended
      <4> QED BY <3>1, <3>3, <4>1, <4>2 DEF Answered, AnsweredAtOnce
    <3> QED BY <3>2, <3>3 DEF Typed
  <2> QED BY <2>1, <2>2, <2>3, <2>4 DEF Next
<1> QED BY <1>1, <1>2, TypedAlways, PTL DEF Spec, Answered

=============================================================================
