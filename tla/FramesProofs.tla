----------------------------- MODULE FramesProofs ----------------------------
(* Theorems about Frames, for streams of every length.                     *)
EXTENDS Frames, SequenceTheorems, WellFoundedInduction, TLAPS

-----------------------------------------------------------------------------
(* Induction and recursion over sequences                                  *)

Text == Seq(Chars)

\* Induction over the naturals, with a set in the place of the predicate.
LEMMA SetInduction ==
  ASSUME NEW S, 0 \in S, \A n \in Nat : n \in S => n + 1 \in S
  PROVE  \A n \in Nat : n \in S
<1> DEFINE T == {n \in Nat : n \notin S}
<1>1. SUFFICES ASSUME T # {} PROVE FALSE
  OBVIOUS
<1>2. PICK x \in T : \A y \in T : ~ (<<y, x>> \in OpToRel(<, Nat))
  BY <1>1, NatLessThanWellFounded, WFMin, Zenon
<1>3. x \in Nat /\ x # 0
  OBVIOUS
<1>4. x - 1 \in Nat /\ x - 1 < x /\ (x - 1) + 1 = x
  BY <1>3
<1>5. <<x - 1, x>> \in OpToRel(<, Nat)
  BY <1>3, <1>4 DEF OpToRel
<1>6. x - 1 \notin T
  BY <1>2, <1>5
<1> QED BY <1>3, <1>4, <1>6

\* A set of naturals that is not empty has a minimum.
LEMMA MinFacts ==
  ASSUME NEW T \in SUBSET Nat, T # {}
  PROVE  Min(T) \in T /\ \A y \in T : Min(T) <= y
<1>1. PICK x \in T : \A y \in T : ~ (<<y, x>> \in OpToRel(<, Nat))
  BY NatLessThanWellFounded, WFMin, Zenon
<1>2. \A y \in T : x <= y
  <2> SUFFICES ASSUME NEW y \in T, ~(x <= y) PROVE FALSE
    OBVIOUS
  <2>1. <<y, x>> \in OpToRel(<, Nat)
    BY DEF OpToRel
  <2> QED BY <1>1, <2>1
<1> QED BY <1>2 DEF Min

\* Sequences with the same elements are the same.
LEMMA SameSequence ==
  ASSUME NEW P, NEW s \in Seq(P), NEW t \in Seq(P), Len(t) = Len(s),
         \A i \in 1..Len(s) : t[i] = s[i]
  PROVE  t = s
OBVIOUS

\* What a recursive definition on texts is made of: base for those in stop, and
\* for the others op, with what it gives for a text that is shorter, rest.
Descends(V, stop, base, rest, op) ==
  /\ \A s \in Text : s \in stop => base[s] \in V
  /\ \A s \in Text : s \notin stop => /\ rest[s] \in Text /\ Len(rest[s]) < Len(s)
                                      /\ \A v \in V : op[s][v] \in V

Solves(f, stop, base, rest, op) ==
  \A s \in Text : f[s] = IF s \in stop THEN base[s] ELSE op[s][f[rest[s]]]

\* It defines a function.
LEMMA RecursionOnLength ==
  ASSUME NEW V, NEW stop, NEW base, NEW rest, NEW op, Descends(V, stop, base, rest, op)
  PROVE  \E f \in [Text -> V] : Solves(f, stop, base, rest, op)
<1> DEFINE D == Text
           Step(f, s) == IF s \in stop THEN base[s] ELSE op[s][f[rest[s]]]
           Fix(f, n) == \A s \in D : Len(s) <= n => f[s] \in V /\ f[s] = Step(f, s)
<1>0. /\ \A s \in D : Len(s) \in Nat
      /\ \A s \in D : s \in stop => base[s] \in V
      /\ \A s \in D : s \notin stop => /\ rest[s] \in D /\ Len(rest[s]) < Len(s)
                                       /\ \A v \in V : op[s][v] \in V
  BY DEF Text, Descends
<1> HIDE DEF D
<1> DEFINE S == {n \in Nat : \E f : Fix(f, n)}
<1>1. 0 \in S
  <2> DEFINE f == [s \in D |-> base[s]]
  <2>1. \A s \in D : Len(s) <= 0 => s \in stop
    BY <1>0
  <2>2. Fix(f, 0)
    BY <1>0, <2>1
  <2> HIDE DEF f, Fix
  <2> QED BY <2>2
<1>2. ASSUME NEW n \in Nat, n \in S PROVE n + 1 \in S
  <2>1. PICK f : Fix(f, n)
    BY <1>2
  <2> DEFINE g == [s \in D |-> Step(f, s)]
  <2>2. \A s \in D : g[s] = Step(f, s)
    OBVIOUS
  <2> HIDE DEF g
  <2>3. ASSUME NEW s \in D, Len(s) <= n + 1 PROVE g[s] \in V /\ g[s] = Step(g, s)
    <3>1. CASE s \in stop
      BY <1>0, <2>2, <3>1
    <3>2. CASE s \notin stop
      <4> DEFINE r == rest[s]
      <4>1. r \in D /\ Len(r) <= n
        BY <1>0, <2>3, <3>2
      <4>2. f[r] \in V /\ g[r] = f[r]
        BY <2>1, <2>2, <4>1
      <4>3. g[s] = op[s][f[r]] /\ Step(g, s) = op[s][g[r]]
        BY <2>2, <3>2
      <4>4. op[s][f[r]] \in V
        BY <1>0, <3>2, <4>2
      <4> QED BY <4>2, <4>3, <4>4
    <3> QED BY <3>1, <3>2
  <2>4. Fix(g, n + 1)
    BY <2>3
  <2> HIDE DEF Fix
  <2> QED BY <2>4
<1>3. \A n \in Nat : \E f : Fix(f, n)
  <2> HIDE DEF Fix
  <2>1. \A n \in Nat : n \in S
    <3> HIDE DEF S
    <3> QED BY <1>1, <1>2, SetInduction
  <2> QED BY <2>1
<1>4. ASSUME NEW f, NEW g, NEW n \in Nat, NEW m \in Nat, Fix(f, n), Fix(g, m)
      PROVE  \A s \in D : Len(s) <= n /\ Len(s) <= m => f[s] = g[s]
  <2> DEFINE R == {k \in Nat : \A s \in D : Len(s) <= k /\ Len(s) <= n /\ Len(s) <= m => f[s] = g[s]}
  <2>1. 0 \in R
    <3>1. \A s \in D : Len(s) <= 0 => s \in stop
      BY <1>0
    <3> QED BY <1>0, <1>4, <3>1
  <2>2. ASSUME NEW k \in Nat, k \in R PROVE k + 1 \in R
    <3> SUFFICES ASSUME NEW s \in D, Len(s) <= k + 1, Len(s) <= n, Len(s) <= m
                 PROVE  f[s] = g[s]
      OBVIOUS
    <3>1. CASE s \in stop
      BY <1>4, <3>1
    <3>2. CASE s \notin stop
      <4>1. rest[s] \in D /\ Len(rest[s]) <= k /\ Len(rest[s]) <= n /\ Len(rest[s]) <= m
        BY <1>0, <3>2
      <4>2. f[rest[s]] = g[rest[s]]
        BY <2>2, <4>1
      <4>3. f[s] = op[s][f[rest[s]]] /\ g[s] = op[s][g[rest[s]]]
        BY <1>4, <3>2
      <4> QED BY <4>2, <4>3
    <3> QED BY <3>1, <3>2
  <2>3. \A k \in Nat : k \in R
    <3> HIDE DEF R
    <3> QED BY <2>1, <2>2, SetInduction
  <2> QED BY <1>0, <2>3
<1> DEFINE F == [s \in D |-> (CHOOSE f : Fix(f, Len(s)))[s]]
<1>5. ASSUME NEW s \in D PROVE F[s] \in V /\ F[s] = Step(F, s)
  <2> DEFINE f == CHOOSE f : Fix(f, Len(s))
  <2>1. Fix(f, Len(s))
    <3> HIDE DEF Fix
    <3> QED BY <1>0, <1>3
  <2>2. F[s] = f[s]
    <3> HIDE DEF Fix
    <3> QED OBVIOUS
  <2>3. ASSUME s \notin stop PROVE F[rest[s]] = f[rest[s]]
    <3> DEFINE r == rest[s]
               g == CHOOSE g : Fix(g, Len(r))
    <3>1. r \in D /\ Len(r) < Len(s) /\ Len(r) \in Nat /\ Len(s) \in Nat
      BY <1>0, <2>3
    <3>2. Fix(g, Len(r))
      <4> HIDE DEF Fix
      <4> QED BY <1>3, <3>1
    <3>3. F[r] = g[r]
      <4> HIDE DEF Fix
      <4> QED BY <3>1
    <3>4. f[r] = g[r]
      <4> HIDE DEF Fix, f, g, F, r
      <4> QED BY <1>4, <2>1, <3>1, <3>2
    <3> QED BY <3>3, <3>4
  <2> HIDE DEF f, F
  <2> QED BY <1>0, <2>1, <2>2, <2>3
<1>6. F \in [D -> V]
  <2>1. F = [s \in D |-> F[s]]
    OBVIOUS
  <2> HIDE DEF F
  <2> QED BY <1>5, <2>1
<1> HIDE DEF F
<1> QED BY <1>5, <1>6 DEF D, Solves

\* FlattenSeq has a value, and it is the one that its recursion says.
LEMMA FlattenRecursion ==
  ASSUME NEW P, NEW s \in Seq(Seq(P))
  PROVE  \E f :
           /\ f[0] = <<>>
           /\ \A n \in 1..Len(s) : f[n] = f[n - 1] \o s[n]
           /\ \A n \in 0..Len(s) : f[n] \in Seq(P)
           /\ FlattenSeq(s) = f[Len(s)]
<1> DEFINE Body(f, n) == [i \in 1..n |-> IF i = 1 THEN s[i] ELSE f[i - 1] \o s[i]]
           S == {n \in Nat : \E f : f = Body(f, n)}
<1>1. 0 \in S
  <2> DEFINE f == [i \in 1..0 |-> <<>>]
  <2>1. f = Body(f, 0)
    OBVIOUS
  <2> HIDE DEF f
  <2> QED BY <2>1
<1>2. ASSUME NEW n \in Nat, n \in S PROVE n + 1 \in S
  <2>1. PICK f : f = Body(f, n)
    BY <1>2
  <2> DEFINE g == [i \in 1..(n + 1) |->
                     IF i # n + 1 THEN f[i] ELSE IF i = 1 THEN s[i] ELSE f[n] \o s[i]]
  <2>2. ASSUME NEW i \in 1..(n + 1)
        PROVE  g[i] = IF i = 1 THEN s[i] ELSE g[i - 1] \o s[i]
    <3>1. CASE i = n + 1
      BY <3>1
    <3>2. CASE i # n + 1
      <4>1. i \in 1..n /\ g[i] = f[i]
        BY <3>2
      <4>2. f[i] = IF i = 1 THEN s[i] ELSE f[i - 1] \o s[i]
        BY <2>1, <4>1
      <4>3. i # 1 => g[i - 1] = f[i - 1]
        BY <4>1
      <4> HIDE DEF g
      <4> QED BY <4>1, <4>2, <4>3
    <3> QED BY <3>1, <3>2
  <2>3. g = [i \in 1..(n + 1) |-> g[i]]
    OBVIOUS
  <2> HIDE DEF g
  <2>4. g = Body(g, n + 1)
    BY <2>2, <2>3
  <2> HIDE DEF Body
  <2> QED BY <2>4
<1>3. Len(s) \in Nat
  OBVIOUS
<1>4. \E f : f = Body(f, Len(s))
  <2> HIDE DEF Body
  <2>1. \A n \in Nat : n \in S
    <3> HIDE DEF S
    <3> QED BY <1>1, <1>2, SetInduction
  <2> QED BY <1>3, <2>1
<1> DEFINE b == CHOOSE f : f = Body(f, Len(s))
<1>5. b = Body(b, Len(s))
  BY <1>4
<1>6. Len(s) # 0 => FlattenSeq(s) = b[Len(s)]
  BY DEF FlattenSeq
<1> HIDE DEF b
<1> DEFINE f == [n \in 0..Len(s) |-> IF n = 0 THEN <<>> ELSE b[n]]
<1>7. \A n \in 1..Len(s) : f[n] = f[n - 1] \o s[n]
  <2> SUFFICES ASSUME NEW n \in 1..Len(s) PROVE f[n] = f[n - 1] \o s[n]
    OBVIOUS
  <2>1. b[n] = IF n = 1 THEN s[n] ELSE b[n - 1] \o s[n]
    BY <1>5
  <2>2. f[n] = b[n] /\ f[n - 1] = IF n = 1 THEN <<>> ELSE b[n - 1]
    BY <1>3
  <2>3. s[n] \in Seq(P)
    OBVIOUS
  <2> HIDE DEF f
  <2>4. n = 1 => <<>> \o s[n] = s[n]
    BY <2>3, ConcatEmptySeq
  <2> QED BY <2>1, <2>2, <2>4
<1>8. f[0] = <<>> /\ FlattenSeq(s) = f[Len(s)]
  <2>1. CASE Len(s) = 0
    <3>1. FlattenSeq(s) = s /\ s = <<>>
      BY <2>1 DEF FlattenSeq
    <3> QED BY <2>1, <3>1
  <2>2. CASE Len(s) # 0
    BY <1>3, <1>6, <2>2
  <2> QED BY <2>1, <2>2
<1> HIDE DEF f
<1>9. \A n \in 0..Len(s) : f[n] \in Seq(P)
  <2> DEFINE R == {n \in Nat : n <= Len(s) => f[n] \in Seq(P)}
  <2>1. 0 \in R
    <3>1. <<>> \in Seq(P)
      OBVIOUS
    <3> QED BY <1>8, <3>1
  <2>2. ASSUME NEW n \in Nat, n \in R PROVE n + 1 \in R
    <3>1. CASE n + 1 <= Len(s)
      <4>1. f[n] \in Seq(P) /\ n + 1 \in 1..Len(s) /\ (n + 1) - 1 = n
        BY <1>3, <2>2, <3>1
      <4>2. s[n + 1] \in Seq(P)
        BY <4>1
      <4>3. f[n + 1] = f[n] \o s[n + 1]
        BY <1>7, <4>1
      <4>4. f[n + 1] \in Seq(P)
        BY <4>1, <4>2, <4>3
      <4> QED BY <4>4
    <3>2. CASE ~(n + 1 <= Len(s))
      BY <3>2
    <3> QED BY <3>1, <3>2
  <2>3. \A n \in Nat : n \in R
    <3> HIDE DEF R
    <3> QED BY <2>1, <2>2, SetInduction
  <2> QED BY <1>3, <2>3
<1> QED BY <1>7, <1>8, <1>9

\* What is flattened in two parts is flattened.
LEMMA FlattenConcat ==
  ASSUME NEW P
  PROVE  \A a, b \in Seq(Seq(P)) : /\ FlattenSeq(a \o b) = FlattenSeq(a) \o FlattenSeq(b)
                                   /\ FlattenSeq(a) \in Seq(P)
<1>a. \A x, y, z \in Seq(P) : (x \o y) \o z = x \o (y \o z)
  BY ConcatAssociative
<1>b. \A x \in Seq(P) : x \o <<>> = x
  BY ConcatEmptySeq
<1> SUFFICES ASSUME NEW a \in Seq(Seq(P)), NEW b \in Seq(Seq(P))
             PROVE  /\ FlattenSeq(a \o b) = FlattenSeq(a) \o FlattenSeq(b)
                    /\ FlattenSeq(a) \in Seq(P)
  OBVIOUS
<1> DEFINE c == a \o b
           A == Len(a)
           B == Len(b)
<1>1. /\ A \in Nat /\ B \in Nat /\ c \in Seq(Seq(P)) /\ Len(c) = A + B
      /\ \A n \in 1..A : c[n] = a[n]
      /\ \A n \in 1..B : c[A + n] = b[n] /\ b[n] \in Seq(P)
  OBVIOUS
<1>2. PICK f : /\ f[0] = <<>>
               /\ \A n \in 1..A : f[n] = f[n - 1] \o a[n]
               /\ \A n \in 0..A : f[n] \in Seq(P)
               /\ FlattenSeq(a) = f[A]
  BY FlattenRecursion, Zenon
<1>3. PICK g : /\ g[0] = <<>>
               /\ \A n \in 1..B : g[n] = g[n - 1] \o b[n]
               /\ \A n \in 0..B : g[n] \in Seq(P)
               /\ FlattenSeq(b) = g[B]
  BY FlattenRecursion, Zenon
<1> HIDE DEF c, A, B
<1>4. PICK h : /\ h[0] = <<>>
               /\ \A n \in 1..Len(c) : h[n] = h[n - 1] \o c[n]
               /\ FlattenSeq(c) = h[Len(c)]
  BY <1>1, FlattenRecursion, Zenon
<1> DEFINE S == {n \in Nat : n <= A => h[n] = f[n]}
<1>5. 0 \in S
  BY <1>2, <1>4
<1>6. ASSUME NEW n \in Nat, n \in S PROVE n + 1 \in S
  <2>1. CASE n + 1 <= A
    <3>1. h[n] = f[n] /\ n + 1 \in 1..A /\ n + 1 \in 1..Len(c) /\ (n + 1) - 1 = n
      BY <1>1, <1>6, <2>1
    <3>2. f[n + 1] = f[n] \o a[n + 1] /\ h[n + 1] = h[n] \o c[n + 1] /\ c[n + 1] = a[n + 1]
      BY <1>1, <1>2, <1>4, <3>1
    <3>3. h[n + 1] = f[n + 1]
      BY <3>1, <3>2, Zenon
    <3> QED BY <3>3
  <2>2. CASE ~(n + 1 <= A)
    BY <2>2
  <2> QED BY <2>1, <2>2
<1>7. h[A] = f[A]
  <2>1. \A n \in Nat : n \in S
    <3> HIDE DEF S
    <3> QED BY <1>5, <1>6, SetInduction
  <2> QED BY <1>1, <2>1
<1>c. \E k : \A n \in 0..B : k[n] = f[A] \o g[n]
  <2> DEFINE k == [n \in 0..B |-> f[A] \o g[n]]
  <2>1. \A n \in 0..B : k[n] = f[A] \o g[n]
    OBVIOUS
  <2> HIDE DEF k
  <2> QED BY <2>1, Zenon
<1>d. PICK k : \A n \in 0..B : k[n] = f[A] \o g[n]
  BY <1>c, Zenon
<1> DEFINE R == {n \in Nat : n <= B => h[A + n] = k[n]}
<1>8. 0 \in R
  <2>1. 0 \in 0..B /\ A + 0 = A /\ f[A] \in Seq(P)
    BY <1>1, <1>2
  <2>2. k[0] = f[A] \o <<>>
    BY <1>3, <1>d, <2>1, Zenon
  <2>3. h[A + 0] = k[0]
    BY <1>7, <1>b, <2>1, <2>2, Zenon
  <2> QED BY <2>3
<1>9. ASSUME NEW n \in Nat, n \in R PROVE n + 1 \in R
  <2>1. CASE n + 1 <= B
    <3>1. /\ h[A + n] = k[n] /\ n + 1 \in 1..B /\ (n + 1) - 1 = n /\ n \in 0..B /\ n + 1 \in 0..B
          /\ A + (n + 1) \in 1..Len(c) /\ (A + (n + 1)) - 1 = A + n
      BY <1>1, <1>9, <2>1
    <3>2. /\ g[n + 1] = g[n] \o b[n + 1] /\ h[A + (n + 1)] = h[A + n] \o b[n + 1]
          /\ k[n] = f[A] \o g[n] /\ k[n + 1] = f[A] \o g[n + 1]
      BY <1>1, <1>3, <1>4, <1>d, <3>1, Zenon
    <3>3. f[A] \in Seq(P) /\ g[n] \in Seq(P) /\ b[n + 1] \in Seq(P)
      <4>1. A \in 0..A
        BY <1>1
      <4> QED BY <1>1, <1>2, <1>3, <3>1, <4>1, Zenon
    <3>4. h[A + (n + 1)] = (f[A] \o g[n]) \o b[n + 1]
      BY <3>1, <3>2, Zenon
    <3>5. h[A + (n + 1)] = k[n + 1]
      <4>1. (f[A] \o g[n]) \o b[n + 1] = f[A] \o (g[n] \o b[n + 1])
        BY <1>a, <3>3, Zenon
      <4>2. k[n + 1] = f[A] \o (g[n] \o b[n + 1])
        BY <3>2, Zenon
      <4> QED BY <3>4, <4>1, <4>2, Zenon
    <3> QED BY <3>5
  <2>2. CASE ~(n + 1 <= B)
    BY <2>2
  <2> QED BY <2>1, <2>2
<1>10. h[A + B] = k[B] /\ B \in 0..B /\ A \in 0..A
  <2>1. \A n \in Nat : n \in R
    <3> HIDE DEF R
    <3> QED BY <1>8, <1>9, SetInduction
  <2> QED BY <1>1, <2>1
<1>11. FlattenSeq(c) = FlattenSeq(a) \o FlattenSeq(b) /\ FlattenSeq(a) \in Seq(P)
  BY <1>1, <1>2, <1>3, <1>4, <1>10, <1>d, Zenon
<1> QED BY <1>11 DEF c

-----------------------------------------------------------------------------
(* Lines                                                                   *)

\* What comes after position i of a sequence.
LEMMA AfterFacts ==
  ASSUME NEW P, NEW s \in Seq(P), NEW i \in 0..Len(s)
  PROVE  /\ After(s, i) \in Seq(P) /\ Len(After(s, i)) = Len(s) - i
         /\ \A k \in 1..(Len(s) - i) : After(s, i)[k] = s[i + k]
BY DEF After

\* What comes up to position i of it.
LEMMA UpToFacts ==
  ASSUME NEW P, NEW s \in Seq(P), NEW i \in 0..Len(s)
  PROVE  /\ SubSeq(s, 1, i) \in Seq(P) /\ Len(SubSeq(s, 1, i)) = i
         /\ \A k \in 1..i : SubSeq(s, 1, i)[k] = s[k]
OBVIOUS

\* Where the first line of s ends.
LineEnd(s) == Min({j \in DOMAIN s : s[j] = "\n"})

\* The first line feed of a text that has one.
LEMMA LineEndFacts ==
  ASSUME NEW s \in Text, Contains(s, "\n")
  PROVE  /\ LineEnd(s) \in 1..Len(s) /\ s[LineEnd(s)] = "\n"
         /\ \A k \in 1..Len(s) : s[k] = "\n" => LineEnd(s) <= k
<1> DEFINE T == {j \in DOMAIN s : s[j] = "\n"}
<1>1. DOMAIN s = 1..Len(s) /\ Len(s) \in Nat
  BY DEF Text
<1>2. T \in SUBSET Nat /\ T # {}
  BY <1>1 DEF Contains
<1>3. Min(T) \in T /\ \A y \in T : Min(T) <= y
  <2> HIDE DEF T
  <2> QED BY <1>2, MinFacts
<1> QED BY <1>1, <1>3 DEF LineEnd

\* The recursion of Lines.
LEMMA LinesRecursion ==
  \A s \in Text :
    /\ Lines[s] \in Seq(Text)
    /\ ~Contains(s, "\n") => Lines[s] = <<s>>
    /\ Contains(s, "\n") =>
         Lines[s] = <<SubSeq(s, 1, LineEnd(s) - 1)>> \o Lines[After(s, LineEnd(s))]
<1> DEFINE V == Seq(Text)
           stop == {s \in Text : ~Contains(s, "\n")}
           base == [s \in Text |-> <<s>>]
           rest == [s \in Text |-> After(s, LineEnd(s))]
           op == [s \in Text |-> [v \in V |-> <<SubSeq(s, 1, LineEnd(s) - 1)>> \o v]]
           Body(f) == [s \in Text |-> IF ~Contains(s, "\n") THEN <<s>>
                                      ELSE <<SubSeq(s, 1, LineEnd(s) - 1)>> \o f[After(s, LineEnd(s))]]
<1>1. \A s \in Text : s \in stop => base[s] \in V
  OBVIOUS
<1>2. ASSUME NEW s \in Text, s \notin stop
      PROVE  /\ rest[s] \in Text /\ Len(rest[s]) < Len(s)
             /\ SubSeq(s, 1, LineEnd(s) - 1) \in Text
             /\ \A v \in V : op[s][v] \in V
  <2> DEFINE i == LineEnd(s)
             p == SubSeq(s, 1, i - 1)
  <2>1. i \in 1..Len(s) /\ i \in 0..Len(s) /\ i - 1 \in 0..Len(s) /\ Len(s) \in Nat
    BY <1>2, LineEndFacts DEF Text
  <2>2. p \in Text
    BY <2>1, UpToFacts, Zenon DEF Text
  <2>3. After(s, i) \in Text /\ Len(After(s, i)) = Len(s) - i
    BY <2>1, AfterFacts, Zenon DEF Text
  <2>4. \A v \in V : <<p>> \o v \in V
    <3> HIDE DEF p
    <3> QED BY <2>2
  <2>5. rest[s] = After(s, i) /\ \A v \in V : op[s][v] = <<p>> \o v
    OBVIOUS
  <2>6. Len(After(s, i)) < Len(s)
    <3> HIDE DEF i
    <3> QED BY <2>1, <2>3
  <2> HIDE DEF op, V, rest
  <2>7. rest[s] \in Text /\ Len(rest[s]) < Len(s)
    BY <2>3, <2>5, <2>6, Zenon
  <2>8. \A v \in V : op[s][v] \in V
    BY <2>4, <2>5, Zenon
  <2> QED BY <2>2, <2>7, <2>8
<1>3. \E f : f = Body(f) /\ f \in [Text -> V]
  <2>1. Descends(V, stop, base, rest, op)
    <3> HIDE DEF stop, base, rest, op, V
    <3> QED BY <1>1, <1>2, Zenon DEF Descends
  <2>2. PICK f \in [Text -> V] : Solves(f, stop, base, rest, op)
    <3> HIDE DEF stop, base, rest, op, V
    <3> QED BY <2>1, RecursionOnLength, Zenon
  <2>a. \A s \in Text : f[s] = IF s \in stop THEN base[s] ELSE op[s][f[rest[s]]]
    <3> HIDE DEF stop, base, rest, op, V
    <3> QED BY <2>2, Zenon DEF Solves
  <2>3. ASSUME NEW s \in Text PROVE f[s] = Body(f)[s]
    <3>1. CASE s \in stop
      BY <2>a, <3>1
    <3>2. CASE s \notin stop
      <4>1. rest[s] \in Text
        BY <1>2, <3>2
      <4>2. f[rest[s]] \in V
        <5> HIDE DEF V, rest
        <5> QED BY <4>1
      <4>3. op[s][f[rest[s]]] = <<SubSeq(s, 1, LineEnd(s) - 1)>> \o f[rest[s]]
        <5> HIDE DEF V, rest
        <5> QED BY <4>2
      <4>4. rest[s] = After(s, LineEnd(s))
        OBVIOUS
      <4>5. f[s] = op[s][f[rest[s]]]
        <5> HIDE DEF V, rest, op, stop
        <5> QED BY <2>a, <3>2
      <4> HIDE DEF op, V, rest
      <4> QED BY <3>2, <4>3, <4>4, <4>5
    <3> QED BY <3>1, <3>2
  <2>4. f = Body(f)
    <3>1. f = [s \in Text |-> f[s]] /\ Body(f) = [s \in Text |-> Body(f)[s]]
      OBVIOUS
    <3> HIDE DEF Body
    <3> QED BY <2>3, <3>1
  <2> HIDE DEF Body
  <2> QED BY <2>2, <2>4
<1>4. Lines = CHOOSE f : f = Body(f)
  BY DEF Lines, LineEnd, Text
<1>5. Lines = Body(Lines)
  <2> HIDE DEF Body
  <2> QED BY <1>3, <1>4
<1>6. \A s \in Text : Lines[s] = IF ~Contains(s, "\n") THEN <<s>>
                                ELSE <<SubSeq(s, 1, LineEnd(s) - 1)>> \o Lines[After(s, LineEnd(s))]
  BY <1>5
<1> DEFINE S == {n \in Nat : \A s \in Text : Len(s) <= n => Lines[s] \in V}
<1>10. \A s \in Text : s \in stop => Lines[s] \in V
  <2>1. \A s \in Text : <<s>> \in V
    OBVIOUS
  <2> HIDE DEF V
  <2> QED BY <1>6, <2>1, Zenon
<1>7. 0 \in S
  <2>1. \A s \in Text : Len(s) <= 0 => s \in stop
    BY DEF Text, Contains
  <2> HIDE DEF stop, V
  <2> QED BY <1>10, <2>1
<1>8. ASSUME NEW n \in Nat, n \in S PROVE n + 1 \in S
  <2> SUFFICES ASSUME NEW s \in Text, Len(s) <= n + 1 PROVE Lines[s] \in V
    OBVIOUS
  <2>1. CASE s \in stop
    BY <1>10, <2>1, Zenon
  <2>2. CASE s \notin stop
    <3> DEFINE p == SubSeq(s, 1, LineEnd(s) - 1)
               r == After(s, LineEnd(s))
    <3>1. p \in Text /\ r \in Text /\ Len(r) < Len(s)
      BY <1>2, <2>2
    <3>2. Lines[r] \in V
      <4>1. Len(r) <= n
        <5> HIDE DEF r
        <5> QED BY <3>1 DEF Text
      <4> QED BY <1>8, <3>1, <4>1
    <3>3. Lines[s] = <<p>> \o Lines[r]
      BY <1>6, <2>2
    <3> HIDE DEF p, r
    <3> QED BY <3>1, <3>2, <3>3
  <2> QED BY <2>1, <2>2
<1>9. \A s \in Text : Lines[s] \in V
  <2>1. \A n \in Nat : n \in S
    <3> HIDE DEF S
    <3> QED BY <1>7, <1>8, SetInduction
  <2>2. \A s \in Text : Len(s) \in Nat
    BY DEF Text
  <2> QED BY <2>1, <2>2
<1> QED BY <1>6, <1>9

\* Text s, a line feed, and text t.
Line(s, t) == s \o (<<"\n">> \o t)

\* A concatenation cut within its first part, or at the end of it.
LEMMA CutConcat ==
  ASSUME NEW P, NEW x \in Seq(P), NEW y \in Seq(P), NEW i \in 0..Len(x)
  PROVE  /\ SubSeq(x \o y, 1, i) = SubSeq(x, 1, i)
         /\ After(x \o y, i) = After(x, i) \o y
<1>1. /\ x \o y \in Seq(P) /\ Len(x) \in Nat /\ Len(y) \in Nat
      /\ Len(x \o y) = Len(x) + Len(y)
      /\ \A k \in 1..Len(x) : (x \o y)[k] = x[k]
      /\ \A k \in 1..Len(y) : (x \o y)[Len(x) + k] = y[k]
  OBVIOUS
<1> DEFINE z == x \o y
<1>2. /\ z \in Seq(P) /\ Len(z) = Len(x) + Len(y)
      /\ \A k \in 1..Len(x) : z[k] = x[k]
      /\ \A k \in 1..Len(y) : z[Len(x) + k] = y[k]
  BY <1>1
<1> HIDE DEF z
<1>3. i \in 0..Len(z)
  BY <1>1, <1>2
<1>4. SubSeq(z, 1, i) = SubSeq(x, 1, i)
  <2>1. /\ SubSeq(z, 1, i) \in Seq(P) /\ Len(SubSeq(z, 1, i)) = i
        /\ \A k \in 1..i : SubSeq(z, 1, i)[k] = z[k]
    BY <1>2, <1>3, UpToFacts
  <2>2. /\ SubSeq(x, 1, i) \in Seq(P) /\ Len(SubSeq(x, 1, i)) = i
        /\ \A k \in 1..i : SubSeq(x, 1, i)[k] = x[k]
    BY UpToFacts
  <2> DEFINE a == SubSeq(z, 1, i)
             b == SubSeq(x, 1, i)
  <2>3. a \in Seq(P) /\ b \in Seq(P) /\ Len(a) = i /\ Len(b) = i
    BY <2>1, <2>2
  <2>4. \A k \in 1..i : a[k] = z[k] /\ b[k] = x[k]
    BY <2>1, <2>2
  <2> HIDE DEF a, b
  <2>5. \A k \in 1..i : a[k] = b[k]
    BY <1>1, <1>2, <2>4
  <2>6. a = b
    BY <2>3, <2>5, SameSequence
  <2> QED BY <2>6 DEF a, b
<1>5. After(z, i) = After(x, i) \o y
  <2> DEFINE r == After(x, i)
             a == After(z, i)
             b == r \o y
  <2>1. a \in Seq(P) /\ Len(a) = Len(z) - i /\ \A k \in 1..(Len(z) - i) : a[k] = z[i + k]
    BY <1>2, <1>3, AfterFacts
  <2>2. r \in Seq(P) /\ Len(r) = Len(x) - i /\ \A k \in 1..(Len(x) - i) : r[k] = x[i + k]
    BY AfterFacts
  <2> HIDE DEF a, r
  <2>3. /\ b \in Seq(P) /\ Len(b) = Len(r) + Len(y)
        /\ \A k \in 1..Len(r) : b[k] = r[k]
        /\ \A k \in 1..Len(y) : b[Len(r) + k] = y[k]
    <3>1. r \in Seq(P)
      BY <2>2
    <3> QED BY <3>1
  <2> HIDE DEF b
  <2>4. Len(a) = Len(b)
    BY <1>1, <1>2, <2>1, <2>2, <2>3
  <2>5. ASSUME NEW k \in 1..Len(b) PROVE a[k] = b[k]
    <3>1. a[k] = z[i + k]
      BY <2>1, <2>4
    <3>2. CASE k \in 1..Len(r)
      <4>1. i + k \in 1..Len(x) /\ b[k] = x[i + k]
        BY <1>1, <2>2, <2>3, <3>2
      <4> QED BY <1>2, <3>1, <4>1
    <3>3. CASE k \notin 1..Len(r)
      <4> DEFINE j == k - Len(r)
      <4>1. j \in 1..Len(y) /\ Len(r) + j = k /\ i + k = Len(x) + j
        BY <1>1, <2>2, <2>3, <3>3
      <4> HIDE DEF j
      <4> QED BY <1>2, <2>3, <3>1, <4>1
    <3> QED BY <3>2, <3>3
  <2>6. a = b
    BY <2>1, <2>3, <2>4, <2>5, SameSequence
  <2> QED BY <2>6 DEF a, b, r
<1> QED BY <1>4, <1>5 DEF z

\* What two lines put together hold, and where.
LEMMA LineFacts ==
  ASSUME NEW s \in Text, NEW t \in Text
  PROVE  /\ Line(s, t) \in Text /\ Len(s) \in Nat /\ Len(t) \in Nat
         /\ Len(Line(s, t)) = Len(s) + 1 + Len(t)
         /\ \A k \in 1..Len(s) : Line(s, t)[k] = s[k]
         /\ Line(s, t)[Len(s) + 1] = "\n"
         /\ \A k \in 1..Len(t) : Line(s, t)[Len(s) + 1 + k] = t[k]
<1>1. "\n" \in Chars
  BY DEF Chars, Plain
<1>2. <<"\n">> \in Seq(Chars)
  BY <1>1
<1> DEFINE u == <<"\n">> \o t
<1>3. u \in Seq(Chars) /\ Len(u) = 1 + Len(t) /\ u[1] = "\n" /\ \A k \in 1..Len(t) : u[1 + k] = t[k]
  BY <1>2 DEF Text
<1>4. Line(s, t) = s \o u
  BY DEF Line
<1> HIDE DEF u
<1>5. /\ s \o u \in Seq(Chars) /\ Len(s) \in Nat /\ Len(u) \in Nat
      /\ Len(s \o u) = Len(s) + Len(u)
      /\ \A k \in 1..Len(s) : (s \o u)[k] = s[k]
      /\ \A k \in 1..Len(u) : (s \o u)[Len(s) + k] = u[k]
  <2>1. s \in Seq(Chars)
    BY DEF Text
  <2> QED BY <1>3, <2>1
<1> DEFINE z == Line(s, t)
<1>6. /\ z \in Seq(Chars) /\ Len(z) = Len(s) + Len(u)
      /\ \A k \in 1..Len(s) : z[k] = s[k]
      /\ \A k \in 1..Len(u) : z[Len(s) + k] = u[k]
  BY <1>4, <1>5, Zenon
<1> HIDE DEF z
<1>7. Len(t) \in Nat
  BY DEF Text
<1>8. z[Len(s) + 1] = "\n"
  BY <1>3, <1>6, <1>7
<1>9. ASSUME NEW k \in 1..Len(t) PROVE z[Len(s) + 1 + k] = t[k]
  <2>1. 1 + k \in 1..Len(u) /\ Len(s) + (1 + k) = Len(s) + 1 + k
    BY <1>3, <1>5, <1>7
  <2> QED BY <1>3, <1>6, <2>1
<1>10. Len(z) = Len(s) + 1 + Len(t)
  BY <1>3, <1>5, <1>6, <1>7
<1> QED BY <1>5, <1>6, <1>7, <1>8, <1>9, <1>10 DEF z, Text

\* The first line feed is where the first line ends.
LEMMA FirstLineEnd ==
  ASSUME NEW z \in Text, NEW i \in 1..Len(z), z[i] = "\n", \A k \in 1..(i - 1) : z[k] # "\n"
  PROVE  Contains(z, "\n") /\ LineEnd(z) = i
<1>1. Contains(z, "\n") /\ Len(z) \in Nat
  BY DEF Contains, Text
<1>2. /\ LineEnd(z) \in 1..Len(z) /\ z[LineEnd(z)] = "\n"
      /\ \A k \in 1..Len(z) : z[k] = "\n" => LineEnd(z) <= k
  BY <1>1, LineEndFacts
<1>3. LineEnd(z) <= i /\ ~(LineEnd(z) \in 1..(i - 1))
  BY <1>2
<1> QED BY <1>1, <1>2, <1>3

\* The lines of s, then those of t.
LEMMA LinesConcat ==
  ASSUME NEW t \in Text
  PROVE  \A s \in Text : Lines[Line(s, t)] = Lines[s] \o Lines[t]
<1>a. \A x, y, z \in Seq(Text) : (x \o y) \o z = x \o (y \o z)
  <2> DEFINE T == Text
  <2> HIDE DEF T
  <2>1. \A x, y, z \in Seq(T) : (x \o y) \o z = x \o (y \o z)
    BY ConcatAssociative
  <2> QED BY <2>1 DEF T
<1>b. \A s \in Text : Len(s) \in Nat
  BY DEF Text
<1> DEFINE u == <<"\n">> \o t
           Good(s) == Lines[Line(s, t)] = Lines[s] \o Lines[t]
           S == {n \in Nat : \A s \in Text : Len(s) <= n => Good(s)}
<1>c. u \in Text /\ \A s \in Text : Line(s, t) = s \o u
  <2>1. "\n" \in Chars
    BY DEF Chars, Plain
  <2>2. u \in Text
    BY <2>1 DEF Text
  <2> QED BY <2>2 DEF Line
<1> HIDE DEF u
<1>d. \A s \in Text : \A k \in 0..Len(s) :
        /\ SubSeq(Line(s, t), 1, k) = SubSeq(s, 1, k)
        /\ After(Line(s, t), k) = Line(After(s, k), t)
  <2> SUFFICES ASSUME NEW s \in Text, NEW k \in 0..Len(s)
               PROVE  /\ SubSeq(Line(s, t), 1, k) = SubSeq(s, 1, k)
                      /\ After(Line(s, t), k) = Line(After(s, k), t)
    OBVIOUS
  <2>1. s \in Seq(Chars) /\ u \in Seq(Chars)
    BY <1>c DEF Text
  <2>2. SubSeq(s \o u, 1, k) = SubSeq(s, 1, k) /\ After(s \o u, k) = After(s, k) \o u
    BY <2>1, CutConcat
  <2>3. After(s, k) \in Text
    BY <2>1, AfterFacts DEF Text
  <2> QED BY <1>c, <2>2, <2>3, Zenon
<1>1. ASSUME NEW s \in Text, ~Contains(s, "\n") PROVE Good(s)
  <2> DEFINE z == Line(s, t)
             e == Len(s) + 1
  <2>0. /\ z \in Text /\ Len(s) \in Nat /\ Len(t) \in Nat /\ Len(z) = Len(s) + 1 + Len(t)
        /\ \A k \in 1..Len(s) : z[k] = s[k]
        /\ z[Len(s) + 1] = "\n"
        /\ \A k \in 1..Len(t) : z[Len(s) + 1 + k] = t[k]
    BY LineFacts, Zenon
  <2>1. \A k \in 1..Len(s) : s[k] # "\n"
    BY <1>1 DEF Contains
  <2>2. Contains(z, "\n") /\ LineEnd(z) = e
    <3> HIDE DEF z
    <3>1. e \in 1..Len(z) /\ z[e] = "\n" /\ \A k \in 1..(e - 1) : z[k] # "\n"
      BY <2>0, <2>1
    <3> HIDE DEF e
    <3> QED BY <2>0, <3>1, FirstLineEnd
  <2>3. SubSeq(z, 1, e - 1) = s
    <3>1. SubSeq(s, 1, Len(s)) = s
      BY DEF Text
    <3>2. Len(s) \in 0..Len(s) /\ e - 1 = Len(s)
      BY <2>0
    <3> HIDE DEF e, z
    <3> QED BY <1>d, <3>1, <3>2 DEF z
  <2>4. After(z, e) = t
    <3>1. e \in 0..Len(z) /\ Len(z) - e = Len(t)
      BY <2>0
    <3> HIDE DEF z
    <3>2. After(z, e) \in Seq(Chars) /\ Len(After(z, e)) = Len(t) /\ \A k \in 1..Len(t) : After(z, e)[k] = z[e + k]
      <4>1. z \in Seq(Chars)
        BY <2>0 DEF Text
      <4>2. /\ After(z, e) \in Seq(Chars) /\ Len(After(z, e)) = Len(z) - e
            /\ \A k \in 1..(Len(z) - e) : After(z, e)[k] = z[e + k]
        BY <3>1, <4>1, AfterFacts, Zenon
      <4> QED BY <3>1, <4>2, Zenon
    <3> DEFINE q == After(z, e)
    <3>3. q \in Seq(Chars) /\ Len(q) = Len(t) /\ \A k \in 1..Len(t) : q[k] = t[k]
      BY <2>0, <3>2
    <3> HIDE DEF q
    <3>4. q = t
      BY <3>3, SameSequence DEF Text
    <3> QED BY <3>4 DEF q
  <2>5. Lines[z] = <<SubSeq(z, 1, e - 1)>> \o Lines[After(z, e)]
    <3> HIDE DEF z, e
    <3> QED BY <2>0, <2>2, LinesRecursion, Zenon
  <2>6. Lines[s] = <<s>>
    BY <1>1, LinesRecursion, Zenon
  <2> HIDE DEF z, e
  <2>7. Lines[z] = Lines[s] \o Lines[t]
    BY <2>3, <2>4, <2>5, <2>6, Zenon
  <2> QED BY <2>7 DEF z
<1>2. 0 \in S
  <2>1. \A s \in Text : Len(s) <= 0 => ~Contains(s, "\n")
    BY DEF Text, Contains
  <2> HIDE DEF Good
  <2> QED BY <1>1, <2>1
<1>3. ASSUME NEW n \in Nat, n \in S PROVE n + 1 \in S
  <2>0. \A s \in Text : Len(s) <= n => Good(s)
    BY <1>3
  <2>1. ASSUME NEW s \in Text, Len(s) <= n + 1, Contains(s, "\n") PROVE Good(s)
    <3> DEFINE z == Line(s, t)
               i == LineEnd(s)
               r == After(s, i)
               p == SubSeq(s, 1, i - 1)
    <3>0. /\ z \in Text /\ Len(s) \in Nat /\ Len(t) \in Nat /\ Len(z) = Len(s) + 1 + Len(t)
          /\ \A k \in 1..Len(s) : z[k] = s[k]
          /\ z[Len(s) + 1] = "\n"
          /\ \A k \in 1..Len(t) : z[Len(s) + 1 + k] = t[k]
      BY LineFacts, Zenon
    <3>1. /\ i \in 1..Len(s) /\ s[i] = "\n"
          /\ \A k \in 1..Len(s) : s[k] = "\n" => i <= k
      BY <2>1, LineEndFacts
    <3>2. Contains(z, "\n") /\ LineEnd(z) = i
      <4> HIDE DEF z, i
      <4>1. i \in 1..Len(z) /\ z[i] = "\n" /\ \A k \in 1..(i - 1) : z[k] # "\n"
        BY <3>0, <3>1
      <4> QED BY <3>0, <4>1, FirstLineEnd
    <3>3. i \in 0..Len(s) /\ i - 1 \in 0..Len(s)
      <4> HIDE DEF i
      <4> QED BY <3>0, <3>1
    <3>4. SubSeq(z, 1, i - 1) = p /\ After(z, i) = Line(r, t)
      BY <1>d, <3>3, Zenon
    <3>5. r \in Text /\ Len(r) = Len(s) - i /\ p \in Text
      <4>1. s \in Seq(Chars)
        BY DEF Text
      <4> QED BY <3>3, <4>1, AfterFacts, UpToFacts DEF Text
    <3>6. Len(r) <= n
      <4> HIDE DEF i, r
      <4> QED BY <2>1, <3>0, <3>1, <3>5
    <3>7. Lines[Line(r, t)] = Lines[r] \o Lines[t]
      BY <2>0, <3>5, <3>6, Zenon
    <3>8. Lines[z] = <<p>> \o Lines[Line(r, t)]
      <4>1. Lines[z] = <<SubSeq(z, 1, LineEnd(z) - 1)>> \o Lines[After(z, LineEnd(z))]
        BY <3>0, <3>2, LinesRecursion, Zenon
      <4> HIDE DEF z, i, p, r
      <4> QED BY <3>2, <3>4, <4>1, Zenon
    <3>9. Lines[s] = <<p>> \o Lines[r]
      BY <2>1, LinesRecursion, Zenon
    <3>10. <<p>> \in Seq(Text) /\ Lines[r] \in Seq(Text) /\ Lines[t] \in Seq(Text)
      <4>1. \A x \in Text : <<x>> \in Seq(Text)
        OBVIOUS
      <4> HIDE DEF p, r
      <4> QED BY <3>5, <4>1, LinesRecursion, Zenon
    <3> HIDE DEF z, i, r, p
    <3>11. (<<p>> \o Lines[r]) \o Lines[t] = <<p>> \o (Lines[r] \o Lines[t])
      BY <1>a, <3>10, Zenon
    <3>12. Lines[z] = Lines[s] \o Lines[t]
      BY <3>7, <3>8, <3>9, <3>11, Zenon
    <3> QED BY <3>12 DEF z
  <2> HIDE DEF Good
  <2>2. ASSUME NEW s \in Text, Len(s) <= n + 1 PROVE Good(s)
    BY <1>1, <2>1, <2>2
  <2> QED BY <2>2
<1>4. \A n \in Nat : n \in S
  <2> HIDE DEF S
  <2> QED BY <1>2, <1>3, SetInduction
<1>5. \A s \in Text : Good(s)
  <2> HIDE DEF Good
  <2> QED BY <1>b, <1>4
<1> QED BY <1>5

\* Line feeds alone make empty lines.
LEMMA BlankLines ==
  \A s \in Text : (\A i \in 1..Len(s) : s[i] = "\n")
                    => \A k \in 1..Len(Lines[s]) : Lines[s][k] = <<>>
<1> DEFINE Blank(s) == \A i \in 1..Len(s) : s[i] = "\n"
           Empty(s) == \A k \in 1..Len(Lines[s]) : Lines[s][k] = <<>>
           S == {n \in Nat : \A s \in Text : Len(s) <= n /\ Blank(s) => Empty(s)}
<1>1. \A s \in Text : Len(s) \in Nat /\ (Len(s) = 0 => s = <<>>)
  BY DEF Text
<1>2. ASSUME NEW s \in Text, Len(s) = 0 PROVE Empty(s)
  <2>1. ~Contains(s, "\n")
    BY <1>2 DEF Contains
  <2>2. Lines[s] = << <<>> >>
    BY <1>1, <1>2, <2>1, LinesRecursion, Zenon
  <2> QED BY <2>2
<1>3. 0 \in S
  <2> HIDE DEF Empty, Blank
  <2> QED BY <1>1, <1>2
<1>4. ASSUME NEW n \in Nat, n \in S PROVE n + 1 \in S
  <2>0. \A s \in Text : Len(s) <= n /\ Blank(s) => Empty(s)
    BY <1>4
  <2>2. ASSUME NEW s \in Text, Len(s) <= n + 1, Blank(s), Len(s) # 0 PROVE Empty(s)
    <3> DEFINE r == After(s, 1)
               p == SubSeq(s, 1, 0)
    <3>1. Contains(s, "\n") /\ 1 \in 1..Len(s) /\ s[1] = "\n" /\ 1 - 1 = 0 /\ Len(s) \in Nat
      BY <1>1, <2>2 DEF Contains
    <3>2. LineEnd(s) = 1
      <4>1. \A k \in 1..(1 - 1) : s[k] # "\n"
        OBVIOUS
      <4> QED BY <3>1, <4>1, FirstLineEnd
    <3>3. r \in Text /\ Len(r) = Len(s) - 1 /\ \A k \in 1..(Len(s) - 1) : r[k] = s[1 + k]
      <4>1. 1 \in 0..Len(s)
        BY <1>1, <3>1
      <4> QED BY <4>1, AfterFacts DEF Text
    <3>4. p = <<>>
      BY DEF Text
    <3>5. Lines[s] = <<p>> \o Lines[r]
      BY <3>1, <3>2, LinesRecursion, Zenon
    <3> HIDE DEF r, p
    <3>6. Len(r) <= n /\ Blank(r)
      BY <2>2, <3>1, <3>3
    <3>7. Empty(r)
      <4> HIDE DEF Empty, Blank
      <4> QED BY <2>0, <3>3, <3>6
    <3>8. Lines[r] \in Seq(Text)
      BY <3>3, LinesRecursion
    <3> DEFINE l == Lines[r]
               m == << <<>> >> \o l
    <3>9. Lines[s] = m
      BY <3>4, <3>5, Zenon
    <3>10. Len(l) \in Nat /\ Len(m) = 1 + Len(l) /\ m[1] = <<>> /\ \A k \in 1..Len(l) : m[1 + k] = l[k]
      <4> HIDE DEF l
      <4>1. l \in Seq(Text)
        BY <3>8 DEF l
      <4>2. << <<>> >> \in Seq(Text)
        BY DEF Text
      <4> QED BY <4>1, <4>2
    <3>11. \A k \in 1..Len(l) : l[k] = <<>>
      BY <3>7
    <3> HIDE DEF m, l
    <3>12. ASSUME NEW k \in 1..Len(m) PROVE m[k] = <<>>
      <4>1. CASE k = 1
        BY <3>10, <4>1
      <4>2. CASE k # 1
        <5>1. k - 1 \in 1..Len(l) /\ 1 + (k - 1) = k
          BY <3>10, <4>2
        <5> QED BY <3>10, <3>11, <5>1
      <4> QED BY <4>1, <4>2
    <3> QED BY <3>9, <3>12
  <2> HIDE DEF Empty, Blank
  <2>3. ASSUME NEW s \in Text, Len(s) <= n + 1, Blank(s) PROVE Empty(s)
    BY <1>2, <2>2, <2>3
  <2> QED BY <2>3
<1>5. \A n \in Nat : n \in S
  <2> HIDE DEF S
  <2> QED BY <1>3, <1>4, SetInduction
<1>6. \A s \in Text : Blank(s) => Empty(s)
  <2> HIDE DEF Empty, Blank
  <2> QED BY <1>1, <1>5
<1> QED BY <1>6

-----------------------------------------------------------------------------
(* Data                                                                    *)

\* What m makes of each element of a, put together.
Flat(m, a) == FlattenSeq([i \in DOMAIN a |-> m[a[i]]])

\* Flat goes through a sequence from left to right.
LEMMA FlatFacts ==
  ASSUME NEW P, NEW Q, NEW m \in [P -> Seq(Q)]
  PROVE  /\ \A a, b \in Seq(P) : Flat(m, a \o b) = Flat(m, a) \o Flat(m, b)
         /\ \A a \in Seq(P) : Flat(m, a) \in Seq(Q)
         /\ \A x \in P : Flat(m, <<x>>) = m[x]
         /\ Flat(m, <<>>) = <<>>
<1> DEFINE M(a) == [i \in DOMAIN a |-> m[a[i]]]
<1>0. \A x \in P : m[x] \in Seq(Q)
  OBVIOUS
<1>1. \A a \in Seq(P) : M(a) \in Seq(Seq(Q)) /\ Len(M(a)) = Len(a) /\ \A i \in 1..Len(a) : M(a)[i] = m[a[i]]
  <2> SUFFICES ASSUME NEW a \in Seq(P)
               PROVE  M(a) \in Seq(Seq(Q)) /\ Len(M(a)) = Len(a) /\ \A i \in 1..Len(a) : M(a)[i] = m[a[i]]
    OBVIOUS
  <2> DEFINE R == Seq(Q)
  <2>1. \A i \in 1..Len(a) : m[a[i]] \in R
    BY <1>0
  <2>2. DOMAIN a = 1..Len(a) /\ Len(a) \in Nat
    OBVIOUS
  <2> HIDE DEF R
  <2>3. M(a) \in Seq(R)
    BY <2>1, <2>2
  <2> QED BY <2>2, <2>3 DEF R
<1>2. ASSUME NEW a \in Seq(P), NEW b \in Seq(P) PROVE M(a \o b) = M(a) \o M(b)
  <2> DEFINE c == a \o b
             x == M(c)
             y == M(a)
             z == M(b)
             R == Seq(Q)
  <2>1. /\ c \in Seq(P) /\ Len(c) = Len(a) + Len(b) /\ Len(a) \in Nat /\ Len(b) \in Nat
        /\ \A i \in 1..Len(a) : c[i] = a[i]
        /\ \A i \in 1..Len(b) : c[Len(a) + i] = b[i]
    OBVIOUS
  <2> HIDE DEF c
  <2>2. /\ x \in Seq(R) /\ Len(x) = Len(c) /\ \A i \in 1..Len(c) : x[i] = m[c[i]]
        /\ y \in Seq(R) /\ Len(y) = Len(a) /\ \A i \in 1..Len(a) : y[i] = m[a[i]]
        /\ z \in Seq(R) /\ Len(z) = Len(b) /\ \A i \in 1..Len(b) : z[i] = m[b[i]]
    <3> HIDE DEF M
    <3> QED BY <1>1, <2>1
  <2> HIDE DEF x, y, z, R
  <2> DEFINE w == y \o z
  <2>3. y \in Seq(R) /\ z \in Seq(R)
    BY <2>2
  <2>4. /\ w \in Seq(R) /\ Len(w) = Len(y) + Len(z)
        /\ \A i \in 1..Len(y) : w[i] = y[i]
        /\ \A i \in 1..Len(z) : w[Len(y) + i] = z[i]
    BY <2>3
  <2> HIDE DEF w
  <2>5. ASSUME NEW i \in 1..Len(x) PROVE w[i] = x[i]
    <3>1. CASE i \in 1..Len(a)
      BY <2>1, <2>2, <2>4, <3>1
    <3>2. CASE i \notin 1..Len(a)
      <4> DEFINE j == i - Len(a)
      <4>1. j \in 1..Len(b) /\ Len(a) + j = i
        BY <2>1, <2>2, <3>2
      <4> HIDE DEF j
      <4> QED BY <2>1, <2>2, <2>4, <4>1
    <3> QED BY <3>1, <3>2
  <2>6. w = x
    <3>1. Len(w) = Len(x) /\ w \in Seq(R) /\ x \in Seq(R)
      BY <2>1, <2>2, <2>4
    <3> QED BY <2>5, <3>1, SameSequence
  <2> QED BY <2>6 DEF w, x, y, z, c
<1>3. \A a, b \in Seq(P) : Flat(m, a \o b) = Flat(m, a) \o Flat(m, b)
  <2> SUFFICES ASSUME NEW a \in Seq(P), NEW b \in Seq(P) PROVE Flat(m, a \o b) = Flat(m, a) \o Flat(m, b)
    OBVIOUS
  <2>1. M(a) \in Seq(Seq(Q)) /\ M(b) \in Seq(Seq(Q))
    BY <1>1
  <2>2. FlattenSeq(M(a) \o M(b)) = FlattenSeq(M(a)) \o FlattenSeq(M(b))
    BY <2>1, FlattenConcat, Zenon
  <2> QED BY <1>2, <2>2, Zenon DEF Flat
<1>4. \A a \in Seq(P) : Flat(m, a) \in Seq(Q)
  <2> SUFFICES ASSUME NEW a \in Seq(P) PROVE Flat(m, a) \in Seq(Q)
    OBVIOUS
  <2>1. M(a) \in Seq(Seq(Q))
    BY <1>1
  <2> QED BY <2>1, FlattenConcat, Zenon DEF Flat
<1>5. \A x \in P : Flat(m, <<x>>) = m[x]
  <2> SUFFICES ASSUME NEW x \in P PROVE Flat(m, <<x>>) = m[x]
    OBVIOUS
  <2> DEFINE a == <<x>>
             v == M(a)
  <2>1. a \in Seq(P) /\ Len(a) = 1 /\ a[1] = x /\ 1 \in 1..Len(a)
    OBVIOUS
  <2>2. v \in Seq(Seq(Q)) /\ Len(v) = 1 /\ v[1] = m[x]
    <3> HIDE DEF M, a
    <3> QED BY <1>1, <2>1, Zenon
  <2> HIDE DEF v
  <2>3. PICK f : /\ f[0] = <<>>
                 /\ \A n \in 1..Len(v) : f[n] = f[n - 1] \o v[n]
                 /\ FlattenSeq(v) = f[Len(v)]
    BY <2>2, FlattenRecursion, Zenon
  <2>4. f[1] = <<>> \o m[x]
    <3>1. 1 \in 1..1 /\ 1 - 1 = 0
      OBVIOUS
    <3> QED BY <2>2, <2>3, <3>1, Zenon
  <2>5. m[x] \in Seq(Q)
    BY <1>0
  <2>6. <<>> \o m[x] = m[x]
    BY <2>5, ConcatEmptySeq, Zenon
  <2>7. FlattenSeq(v) = m[x]
    BY <2>2, <2>3, <2>4, <2>6, Zenon
  <2> QED BY <2>7 DEF v, Flat
<1>6. Flat(m, <<>>) = <<>>
  BY DEF Flat, FlattenSeq
<1> QED BY <1>3, <1>4, <1>5, <1>6

\* The values of a field: those of the lines.
LEMMA ValuesFacts ==
  ASSUME NEW field
  PROVE  /\ \A s \in Text : Values(s, field) \in Seq(Text)
         /\ \A s, t \in Text : Values(Line(s, t), field) = Values(s, field) \o Values(t, field)
         /\ \A s \in Text : (\A k \in 1..Len(Lines[s]) : Lines[s][k] = <<>>) => Values(s, field) = <<>>
<1> DEFINE T == Text
           m == [l \in Text |-> ValueOf(l, field)]
<1>1. m \in [Text -> Seq(Text)]
  <2>1. ASSUME NEW l \in Text PROVE ValueOf(l, field) \in Seq(Text)
    <3>1. CASE l # <<>>
      <4>1. Tail(l) \in Text
        BY <3>1 DEF Text
      <4>2. <<Tail(l)>> \in Seq(Text) /\ <<>> \in Seq(Text)
        BY <4>1
      <4> QED BY <4>2 DEF ValueOf
    <3>2. CASE l = <<>>
      BY <3>2 DEF ValueOf
    <3> QED BY <3>1, <3>2
  <2> QED BY <2>1
<1>2. ASSUME NEW s \in Text PROVE Lines[s] \in Seq(Text) /\ Values(s, field) = Flat(m, Lines[s])
  <2> DEFINE a == Lines[s]
  <2>1. a \in Seq(Text)
    BY LinesRecursion, Zenon
  <2> HIDE DEF a
  <2>2. \A i \in DOMAIN a : m[a[i]] = ValueOf(a[i], field)
    <3>1. \A i \in DOMAIN a : a[i] \in T
      <4> HIDE DEF T
      <4>1. a \in Seq(T)
        BY <2>1 DEF T
      <4> QED BY <4>1
    <3> QED BY <3>1
  <2>3. [i \in DOMAIN a |-> m[a[i]]] = [i \in DOMAIN a |-> ValueOf(a[i], field)]
    <3> HIDE DEF m
    <3> QED BY <2>2, Zenon
  <2>4. Flat(m, a) = FlattenSeq([i \in DOMAIN a |-> ValueOf(a[i], field)])
    <3> HIDE DEF m
    <3> QED BY <2>3, Zenon DEF Flat
  <2> HIDE DEF m
  <2> QED BY <2>1, <2>4, Zenon DEF Values, a
<1> HIDE DEF m, T
<1>3. /\ \A a, b \in Seq(Text) : Flat(m, a \o b) = Flat(m, a) \o Flat(m, b)
      /\ \A a \in Seq(Text) : Flat(m, a) \in Seq(Text)
      /\ \A x \in Text : Flat(m, <<x>>) = m[x]
      /\ Flat(m, <<>>) = <<>>
  <2>1. m \in [T -> Seq(T)]
    BY <1>1 DEF T
  <2> QED BY <2>1, FlatFacts, Zenon DEF T
<1>4. \A s \in Text : Values(s, field) \in Seq(Text)
  BY <1>2, <1>3, Zenon
<1>5. ASSUME NEW s \in Text, NEW t \in Text
      PROVE  Values(Line(s, t), field) = Values(s, field) \o Values(t, field)
  <2>1. Line(s, t) \in Text
    BY LineFacts, Zenon
  <2>2. Lines[Line(s, t)] = Lines[s] \o Lines[t]
    BY LinesConcat, Zenon
  <2> QED BY <1>2, <1>3, <2>1, <2>2, Zenon
<1>6. ASSUME NEW s \in Text, \A k \in 1..Len(Lines[s]) : Lines[s][k] = <<>>
      PROVE  Values(s, field) = <<>>
  <2> DEFINE a == Lines[s]
  <2>1. a \in Seq(T) /\ Values(s, field) = Flat(m, a) /\ Len(a) \in Nat /\ \A k \in 1..Len(a) : a[k] = <<>>
    <3>1. a \in Seq(T)
      BY <1>2, Zenon DEF T
    <3>2. Len(a) \in Nat
      <4> HIDE DEF a
      <4> QED BY <3>1
    <3> QED BY <1>2, <1>6, <3>1, <3>2, Zenon
  <2> HIDE DEF a
  <2>2. \A i \in DOMAIN a : a[i] = <<>>
    BY <2>1
  <2>3. ValueOf(<<>>, field) = <<>> /\ <<>> \in Text
    BY DEF ValueOf, Text
  <2>4. m[<<>>] = <<>>
    BY <2>3 DEF m
  <2>5. [i \in DOMAIN a |-> m[a[i]]] = [i \in DOMAIN a |-> <<>>]
    BY <2>2, <2>4, Zenon
  <2> DEFINE e == [i \in DOMAIN a |-> <<>>]
  <2>6. e \in Seq(Seq(T)) /\ Len(e) = Len(a) /\ \A k \in 1..Len(e) : e[k] = <<>>
    <3>1. DOMAIN a = 1..Len(a)
      BY <2>1
    <3>2. Len(e) = Len(a) /\ \A k \in 1..Len(e) : e[k] = <<>>
      BY <2>1, <3>1
    <3> DEFINE R == Seq(T)
    <3>3. <<>> \in R
      OBVIOUS
    <3> HIDE DEF R
    <3>4. e \in Seq(R)
      BY <2>1, <3>1, <3>3
    <3> QED BY <3>2, <3>4 DEF R
  <2>7. FlattenSeq(e) = <<>>
    <3> HIDE DEF e
    <3>1. PICK f : /\ f[0] = <<>>
                   /\ \A n \in 1..Len(e) : f[n] = f[n - 1] \o e[n]
                   /\ FlattenSeq(e) = f[Len(e)]
      BY <2>6, FlattenRecursion, Zenon
    <3>2. <<>> \o <<>> = <<>>
      OBVIOUS
    <3> DEFINE K == {n \in Nat : n <= Len(e) => f[n] = <<>>}
    <3>3. 0 \in K
      BY <3>1
    <3>4. ASSUME NEW n \in Nat, n \in K PROVE n + 1 \in K
      <4>1. ASSUME n + 1 <= Len(e) PROVE f[n + 1] = <<>>
        <5>1. n + 1 \in 1..Len(e) /\ (n + 1) - 1 = n /\ f[n] = <<>>
          BY <2>1, <2>6, <3>4, <4>1
        <5>2. f[n + 1] = f[(n + 1) - 1] \o e[n + 1]
          BY <3>1, <5>1, Zenon
        <5> QED BY <2>6, <3>2, <5>1, <5>2, Zenon
      <4> QED BY <4>1
    <3>5. \A n \in Nat : n \in K
      <4> HIDE DEF K
      <4> QED BY <3>3, <3>4, SetInduction
    <3> QED BY <2>1, <2>6, <3>1, <3>5
  <2> QED BY <2>1, <2>5, <2>7, Zenon DEF Flat
<1> QED BY <1>4, <1>5, <1>6, Zenon

\* Joining goes from left to right.
LEMMA JoinedFacts ==
  /\ \A a \in Seq(Text) : Joined(a) \in Text
  /\ \A a, b \in Seq(Text) : Joined(a \o b) = Joined(a) \o Joined(b)
  /\ \A x \in Text : Joined(<<x>>) = <<"\n">> \o x
  /\ Joined(<<>>) = <<>>
<1> DEFINE m == [l \in Text |-> <<"\n">> \o l]
           T == Text
<1>1. m \in [T -> Seq(Chars)] /\ \A x \in T : m[x] = <<"\n">> \o x
  <2>1. <<"\n">> \in Seq(Chars)
    BY DEF Chars, Plain
  <2>2. \A l \in Text : <<"\n">> \o l \in Seq(Chars)
    BY <2>1 DEF Text
  <2> QED BY <2>2
<1>2. \A a \in Seq(T) : Joined(a) = Flat(m, a)
  <2> SUFFICES ASSUME NEW a \in Seq(T) PROVE Joined(a) = Flat(m, a)
    OBVIOUS
  <2>1. \A i \in DOMAIN a : m[a[i]] = <<"\n">> \o a[i]
    <3>1. \A i \in DOMAIN a : a[i] \in T
      <4> HIDE DEF T
      <4> QED OBVIOUS
    <3> HIDE DEF T, m
    <3> QED BY <1>1, <3>1, Zenon
  <2>2. [i \in DOMAIN a |-> m[a[i]]] = [i \in DOMAIN a |-> <<"\n">> \o a[i]]
    <3> HIDE DEF m
    <3> QED BY <2>1, Zenon
  <2> HIDE DEF m
  <2> QED BY <2>2, Zenon DEF Joined, Flat
<1> HIDE DEF m
<1>3. /\ \A a, b \in Seq(T) : Flat(m, a \o b) = Flat(m, a) \o Flat(m, b)
      /\ \A a \in Seq(T) : Flat(m, a) \in Seq(Chars)
      /\ \A x \in T : Flat(m, <<x>>) = m[x]
      /\ Flat(m, <<>>) = <<>>
  <2> HIDE DEF T
  <2> QED BY <1>1, FlatFacts, Zenon
<1>4. /\ \A a, b \in Seq(T) : a \o b \in Seq(T)
      /\ \A x \in T : <<x>> \in Seq(T)
      /\ <<>> \in Seq(T)
  <2> HIDE DEF T
  <2> QED OBVIOUS
<1>5. /\ \A a \in Seq(T) : Joined(a) \in Seq(Chars)
      /\ \A a, b \in Seq(T) : Joined(a \o b) = Joined(a) \o Joined(b)
      /\ \A x \in T : Joined(<<x>>) = <<"\n">> \o x
      /\ Joined(<<>>) = <<>>
  <2> HIDE DEF T
  <2>1. \A a \in Seq(T) : Joined(a) \in Seq(Chars)
    BY <1>2, <1>3
  <2>2. \A a, b \in Seq(T) : Joined(a \o b) = Joined(a) \o Joined(b)
    BY <1>2, <1>3, <1>4, Zenon
  <2>3. \A x \in T : Joined(<<x>>) = <<"\n">> \o x
    BY <1>1, <1>2, <1>3, <1>4, Zenon
  <2>4. Joined(<<>>) = <<>>
    BY <1>2, <1>3, <1>4, Zenon
  <2> QED BY <2>1, <2>2, <2>3, <2>4
<1> QED BY <1>5 DEF Text

\* All data of text s, each line of it after a "\n".
Data(s) == Joined(Values(s, "data:"))

\* The data of lines that follow one another; line feeds have none.
LEMMA DataFacts ==
  /\ \A s \in Text : Data(s) \in Text
  /\ \A s, t \in Text : Data(Line(s, t)) = Data(s) \o Data(t)
  /\ \A s \in Text : (\A i \in 1..Len(s) : s[i] = "\n") => Data(s) = <<>>
<1> HIDE DEF Text
<1>1. \A s \in Text : Data(s) \in Text
  BY ValuesFacts, JoinedFacts, Zenon DEF Data
<1>2. \A s, t \in Text : Data(Line(s, t)) = Data(s) \o Data(t)
  <2> SUFFICES ASSUME NEW s \in Text, NEW t \in Text PROVE Data(Line(s, t)) = Data(s) \o Data(t)
    OBVIOUS
  <2>1. /\ Values(s, "data:") \in Seq(Text) /\ Values(t, "data:") \in Seq(Text)
        /\ Values(Line(s, t), "data:") = Values(s, "data:") \o Values(t, "data:")
    BY ValuesFacts, Zenon
  <2> QED BY <2>1, JoinedFacts, Zenon DEF Data
<1>3. ASSUME NEW s \in Text, \A i \in 1..Len(s) : s[i] = "\n" PROVE Data(s) = <<>>
  <2>1. \A k \in 1..Len(Lines[s]) : Lines[s][k] = <<>>
    BY <1>3, BlankLines, Zenon
  <2>2. Values(s, "data:") = <<>>
    BY <2>1, ValuesFacts, Zenon
  <2> QED BY <2>2, JoinedFacts, Zenon DEF Data
<1> QED BY <1>1, <1>2, <1>3, Zenon

Event == [event : Text \cup {None}, data : Text]

\* The data of events, each after a "\n".
Given(s) == Joined([i \in DOMAIN s |-> s[i].data])

\* The data of events that follow one another.
LEMMA GivenFacts ==
  /\ \A s \in Seq(Event) : Given(s) \in Text
  /\ \A s, t \in Seq(Event) : Given(s \o t) = Given(s) \o Given(t)
  /\ \A e \in Event : Given(<<e>>) = <<"\n">> \o e.data
  /\ Given(<<>>) = <<>>
<1> DEFINE m == [e \in Event |-> <<"\n">> \o e.data]
           T == Event
           X == Text
<1>0. \A e \in T : e.data \in X
  <2> HIDE DEF X
  <2>1. T = [event : X \cup {None}, data : X]
    BY DEF Event, X
  <2> QED BY <2>1
<1>1. m \in [T -> Seq(Chars)] /\ \A e \in T : m[e] = <<"\n">> \o e.data
  <2>1. <<"\n">> \in Seq(Chars)
    BY DEF Chars, Plain
  <2>2. \A l \in Text : <<"\n">> \o l \in Seq(Chars)
    BY <2>1 DEF Text
  <2>3. \A e \in T : <<"\n">> \o e.data \in Seq(Chars)
    <3> HIDE DEF T
    <3> QED BY <1>0, <2>2, Zenon
  <2> HIDE DEF X
  <2> DEFINE R == Seq(Chars)
  <2>4. \A e \in T : <<"\n">> \o e.data \in R
    BY <2>3
  <2> HIDE DEF R
  <2>5. m \in [T -> R] /\ \A e \in T : m[e] = <<"\n">> \o e.data
    BY <2>4, Zenon
  <2> QED BY <2>5 DEF R
<1>2. ASSUME NEW s \in Seq(T) PROVE Given(s) = Flat(m, s)
  <2> DEFINE d == [i \in DOMAIN s |-> s[i].data]
  <2>1. \A i \in DOMAIN s : s[i] \in T
    <3> HIDE DEF T
    <3> QED BY <1>2
  <2>2. DOMAIN d = DOMAIN s /\ \A i \in DOMAIN s : d[i] = s[i].data
    BY Zenon
  <2>3. \A i \in DOMAIN s : <<"\n">> \o d[i] = m[s[i]]
    <3> HIDE DEF T, m, d
    <3> QED BY <1>1, <2>1, <2>2, Zenon
  <2>4. [i \in DOMAIN d |-> <<"\n">> \o d[i]] = [i \in DOMAIN s |-> m[s[i]]]
    <3> HIDE DEF m, d
    <3> QED BY <2>2, <2>3, Zenon
  <2>5. Joined(d) = Flat(m, s)
    <3> HIDE DEF m, d
    <3> QED BY <2>4, Zenon DEF Joined, Flat
  <2> QED BY <2>5 DEF Given
<1> HIDE DEF m, X
<1>3. /\ \A a, b \in Seq(T) : Flat(m, a \o b) = Flat(m, a) \o Flat(m, b)
      /\ \A a \in Seq(T) : Flat(m, a) \in Seq(Chars)
      /\ \A x \in T : Flat(m, <<x>>) = m[x]
      /\ Flat(m, <<>>) = <<>>
  <2> HIDE DEF T
  <2> QED BY <1>1, FlatFacts, Zenon
<1>4. /\ \A a, b \in Seq(T) : a \o b \in Seq(T)
      /\ \A x \in T : <<x>> \in Seq(T)
      /\ <<>> \in Seq(T)
  <2> HIDE DEF T
  <2> QED OBVIOUS
<1>5. /\ \A a \in Seq(T) : Given(a) \in Seq(Chars)
      /\ \A a, b \in Seq(T) : Given(a \o b) = Given(a) \o Given(b)
      /\ \A x \in T : Given(<<x>>) = <<"\n">> \o x.data
      /\ Given(<<>>) = <<>>
  <2> HIDE DEF T
  <2> QED BY <1>1, <1>2, <1>3, <1>4, Zenon
<1> QED BY <1>5 DEF Text

\* The event of a block, when there is one, holds the data of the block.
LEMMA EventFacts ==
  ASSUME NEW raw \in Text
  PROVE  EventOf(raw) \in Seq(Event) /\ Given(EventOf(raw)) = Data(raw)
<1> DEFINE names == Values(raw, "event:")
           data == Values(raw, "data:")
           j == Joined(data)
           X == Text
<1>1. names \in Seq(X) /\ data \in Seq(X)
  BY ValuesFacts, Zenon
<1>2. j \in Seq(Chars)
  BY <1>1, JoinedFacts DEF Text
<1>3. data # <<>> => j # <<>> /\ Head(j) = "\n"
  <2> SUFFICES ASSUME data # <<>> PROVE j # <<>> /\ Head(j) = "\n"
    OBVIOUS
  <2> HIDE DEF data, X
  <2>1. data = <<Head(data)>> \o Tail(data) /\ Head(data) \in X /\ Tail(data) \in Seq(X) /\ <<Head(data)>> \in Seq(X)
    BY <1>1
  <2> DEFINE h == Head(data)
             u == Joined(Tail(data))
  <2>2. j = Joined(<<h>>) \o u /\ Joined(<<h>>) = <<"\n">> \o h /\ u \in X
    BY <2>1, JoinedFacts, Zenon DEF X
  <2> HIDE DEF h, u
  <2>3. h \in Seq(Chars) /\ u \in Seq(Chars) /\ "\n" \in Chars
    BY <2>1, <2>2 DEF h, X, Text, Chars, Plain
  <2>4. j = (<<"\n">> \o h) \o u
    BY <2>2, Zenon
  <2> HIDE DEF j
  <2>5. (<<"\n">> \o h) \o u # <<>> /\ Head((<<"\n">> \o h) \o u) = "\n"
    BY <2>3
  <2> QED BY <2>4, <2>5, Zenon
<1>4. data = <<>> => j = <<>>
  BY JoinedFacts, Zenon
<1>5. names # <<>> => Last(names) \in X
  <2> HIDE DEF names, X
  <2> QED BY <1>1 DEF Last
<1> DEFINE p == ParseBlock(raw)
<1>6. /\ p.event = IF names = <<>> THEN None ELSE Last(names)
      /\ p.data = IF data = <<>> THEN None ELSE Tail(j)
      /\ p = [event |-> p.event, data |-> p.data]
  BY DEF ParseBlock
<1>7. Data(raw) = j
  BY DEF Data
<1>8. EventOf(raw) = IF p.data = None THEN <<>> ELSE <<p>>
  BY DEF EventOf
<1> HIDE DEF names, data, j, p, X
<1>9. CASE data = <<>>
  <2>1. EventOf(raw) = <<>>
    BY <1>6, <1>8, <1>9
  <2>2. <<>> \in Seq(Event)
    OBVIOUS
  <2> QED BY <1>4, <1>7, <1>9, <2>1, <2>2, GivenFacts, Zenon
<1>10. CASE data # <<>>
  <2>1. Tail(j) \in Seq(Chars) /\ j = <<"\n">> \o Tail(j)
    BY <1>2, <1>3, <1>10
  <2>2. p.data = Tail(j) /\ p.data # None
    BY <1>6, <1>10, <2>1, ConstantsOK
  <2>3. p.event \in X \cup {None} /\ p.data \in X
    BY <1>5, <1>6, <2>1, <2>2 DEF X, Text
  <2>4. p \in Event
    <3>1. p \in [event : X \cup {None}, data : X]
      BY <1>6, <2>3
    <3> QED BY <3>1 DEF Event, X
  <2>5. EventOf(raw) = <<p>>
    BY <1>8, <2>2
  <2>6. <<p>> \in Seq(Event)
    BY <2>4
  <2>7. Given(<<p>>) = <<"\n">> \o p.data
    BY <2>4, GivenFacts, Zenon
  <2> QED BY <1>7, <2>1, <2>2, <2>5, <2>6, <2>7, Zenon
<1> QED BY <1>9, <1>10

-----------------------------------------------------------------------------
(* Blocks                                                                  *)

FirstBlank(s) == Min(Blanks(s))

\* The first blank line of a text that has one.
LEMMA BlankFacts ==
  ASSUME NEW s \in Text
  PROVE  /\ Len(s) \in Nat
         /\ \A i \in 1..(Len(s) - 1) : s[i] = "\n" /\ s[i + 1] = "\n" => Blanks(s) # {}
         /\ Blanks(s) # {} =>
              /\ FirstBlank(s) \in 1..(Len(s) - 1)
              /\ s[FirstBlank(s)] = "\n" /\ s[FirstBlank(s) + 1] = "\n"
              /\ \A k \in 1..(Len(s) - 1) : s[k] = "\n" /\ s[k + 1] = "\n" => FirstBlank(s) <= k
<1> DEFINE T == Blanks(s)
<1>1. Len(s) \in Nat
  BY DEF Text
<1>2. \A i : i \in T <=> i \in 1..(Len(s) - 1) /\ s[i] = "\n" /\ s[i + 1] = "\n"
  BY DEF Blanks
<1>3. T \in SUBSET Nat
  BY DEF Blanks
<1> HIDE DEF T
<1>4. T # {} => Min(T) \in T /\ \A y \in T : Min(T) <= y
  BY <1>3, MinFacts
<1>5. FirstBlank(s) = Min(T)
  BY DEF FirstBlank, T
<1>6. \A i \in 1..(Len(s) - 1) : s[i] = "\n" /\ s[i + 1] = "\n" => T # {}
  BY <1>2
<1> DEFINE f == FirstBlank(s)
<1>7. T # {} => f \in T /\ \A y \in T : f <= y
  BY <1>4, <1>5
<1> HIDE DEF f
<1>8. T # {} => /\ f \in 1..(Len(s) - 1)
                /\ s[f] = "\n" /\ s[f + 1] = "\n"
                /\ \A k \in 1..(Len(s) - 1) : s[k] = "\n" /\ s[k + 1] = "\n" => f <= k
  BY <1>2, <1>7, Zenon
<1> QED BY <1>1, <1>6, <1>8 DEF T, f

\* The first blank line of z.
LEMMA FirstBlankIs ==
  ASSUME NEW z \in Text, NEW i \in 1..(Len(z) - 1), z[i] = "\n", z[i + 1] = "\n",
         \A k \in 1..(i - 1) : ~(z[k] = "\n" /\ z[k + 1] = "\n")
  PROVE  Blanks(z) # {} /\ FirstBlank(z) = i
<1>1. Blanks(z) # {} /\ Len(z) \in Nat
  BY BlankFacts
<1> DEFINE f == FirstBlank(z)
<1>2. /\ f \in 1..(Len(z) - 1) /\ z[f] = "\n" /\ z[f + 1] = "\n"
      /\ \A k \in 1..(Len(z) - 1) : z[k] = "\n" /\ z[k + 1] = "\n" => f <= k
  BY <1>1, BlankFacts, Zenon
<1> HIDE DEF f
<1>3. f <= i /\ ~(f \in 1..(i - 1))
  BY <1>2
<1>4. f = i
  BY <1>1, <1>2, <1>3
<1> QED BY <1>1, <1>4 DEF f

Parts == [events : Seq(Event), rest : Text]

\* The recursion of Split.
LEMMA SplitRecursion ==
  \A s \in Text :
    /\ Split(s).events \in Seq(Event) /\ Split(s).rest \in Text
    /\ Split(s) = [events |-> Split(s).events, rest |-> Split(s).rest]
    /\ Blanks(s) = {} => Split(s) = [events |-> <<>>, rest |-> s]
    /\ Blanks(s) # {} =>
         Split(s) = [events |-> EventOf(SubSeq(s, 1, FirstBlank(s) - 1)) \o Split(After(s, FirstBlank(s) + 1)).events,
                     rest   |-> Split(After(s, FirstBlank(s) + 1)).rest]
<1> DEFINE V == Parts
           stop == {s \in Text : Blanks(s) = {}}
           base == [s \in Text |-> [events |-> <<>>, rest |-> s]]
           rest == [s \in Text |-> After(s, FirstBlank(s) + 1)]
           With(s, v) == [events |-> EventOf(SubSeq(s, 1, FirstBlank(s) - 1)) \o v.events, rest |-> v.rest]
           op == [s \in Text |-> [v \in V |-> With(s, v)]]
           Body(f) == [s \in Text |->
                         IF Blanks(s) = {} THEN [events |-> <<>>, rest |-> s]
                         ELSE [events |-> EventOf(SubSeq(s, 1, FirstBlank(s) - 1)) \o f[After(s, FirstBlank(s) + 1)].events,
                               rest   |-> f[After(s, FirstBlank(s) + 1)].rest]]
<1>1. \A s \in Text : base[s] \in V
  <2>1. \A s \in Text : [events |-> <<>>, rest |-> s] \in V
    <3>1. <<>> \in Seq(Event)
      OBVIOUS
    <3> HIDE DEF V
    <3> QED BY <3>1 DEF V, Parts
  <2> HIDE DEF V
  <2> QED BY <2>1
<1>2. ASSUME NEW s \in Text, s \notin stop
      PROVE  /\ rest[s] \in Text /\ Len(rest[s]) < Len(s)
             /\ \A v \in V : With(s, v) \in V
  <2> DEFINE i == FirstBlank(s)
             p == SubSeq(s, 1, i - 1)
  <2>1. i \in 1..(Len(s) - 1) /\ i + 1 \in 0..Len(s) /\ i - 1 \in 0..Len(s) /\ Len(s) \in Nat
    <3>1. Blanks(s) # {} /\ Len(s) \in Nat
      BY <1>2, BlankFacts
    <3>2. i \in 1..(Len(s) - 1)
      BY <3>1, BlankFacts, Zenon
    <3> HIDE DEF i
    <3> QED BY <3>1, <3>2
  <2> HIDE DEF i
  <2>2. p \in Text
    BY <2>1, UpToFacts, Zenon DEF Text
  <2>3. After(s, i + 1) \in Text /\ Len(After(s, i + 1)) = Len(s) - (i + 1)
    BY <2>1, AfterFacts, Zenon DEF Text
  <2>4. ASSUME NEW v \in V PROVE With(s, v) \in V
    <3> DEFINE e == EventOf(p)
               y == Seq(Event)
               X == Text
    <3>1. e \in Seq(Event)
      BY <2>2, EventFacts
    <3>2. v.events \in Seq(Event) /\ v.rest \in X
      <4> HIDE DEF X
      <4>1. v \in [events : y, rest : X]
        BY <2>4 DEF Parts, X
      <4> HIDE DEF y
      <4>2. v.events \in y /\ v.rest \in X
        BY <4>1
      <4> QED BY <4>2 DEF y
    <3>3. e \o v.events \in y
      <4> HIDE DEF e
      <4> QED BY <3>1, <3>2
    <3> HIDE DEF e, y, X
    <3>4. [events |-> e \o v.events, rest |-> v.rest] \in [events : y, rest : X]
      BY <3>2, <3>3
    <3> QED BY <3>4 DEF e, y, X, Parts, i
  <2>5. rest[s] = After(s, i + 1)
    BY DEF i
  <2>6. Len(After(s, i + 1)) < Len(s)
    BY <2>1, <2>3
  <2> HIDE DEF V, rest
  <2> QED BY <2>3, <2>4, <2>5, <2>6, Zenon
<1>3. \E f : f = Body(f) /\ f \in [Text -> V]
  <2>0. \A s \in Text : s \notin stop => \A v \in V : op[s][v] \in V
    <3> SUFFICES ASSUME NEW s \in Text, s \notin stop, NEW v \in V PROVE op[s][v] \in V
      OBVIOUS
    <3>1. op[s][v] = With(s, v)
      <4> HIDE DEF V, With
      <4> QED OBVIOUS
    <3>2. With(s, v) \in V
      <4> HIDE DEF V, With, stop
      <4> QED BY <1>2
    <3> HIDE DEF V, With, op
    <3> QED BY <3>1, <3>2
  <2>1. Descends(V, stop, base, rest, op)
    <3> HIDE DEF stop, base, rest, op, V
    <3> QED BY <1>1, <1>2, <2>0, Zenon DEF Descends
  <2>2. PICK f \in [Text -> V] : Solves(f, stop, base, rest, op)
    <3> HIDE DEF stop, base, rest, op, V
    <3> QED BY <2>1, RecursionOnLength, Zenon
  <2>a. \A s \in Text : f[s] = IF s \in stop THEN base[s] ELSE op[s][f[rest[s]]]
    <3> HIDE DEF stop, base, rest, op, V
    <3> QED BY <2>2, Zenon DEF Solves
  <2>3. ASSUME NEW s \in Text PROVE f[s] = Body(f)[s]
    <3>1. CASE s \in stop
      <4>1. f[s] = base[s]
        <5> HIDE DEF stop, base, op, rest, V
        <5> QED BY <2>a, <3>1, Zenon
      <4>2. base[s] = [events |-> <<>>, rest |-> s] /\ Blanks(s) = {}
        BY <3>1
      <4> HIDE DEF base, op, rest, V, stop
      <4> QED BY <4>1, <4>2
    <3>2. CASE s \notin stop
      <4>1. rest[s] \in Text
        <5> HIDE DEF stop, rest, V, With
        <5> QED BY <1>2, <3>2
      <4>2. f[rest[s]] \in V
        <5> HIDE DEF V, rest
        <5> QED BY <4>1
      <4>3. op[s][f[rest[s]]] = With(s, f[rest[s]])
        <5> HIDE DEF V, rest, With
        <5> QED BY <4>2
      <4>4. rest[s] = After(s, FirstBlank(s) + 1)
        OBVIOUS
      <4>5. f[s] = op[s][f[rest[s]]]
        <5> HIDE DEF V, rest, op, stop, base
        <5> QED BY <2>a, <3>2, Zenon
      <4>6. f[s] = With(s, f[After(s, FirstBlank(s) + 1)])
        <5> HIDE DEF op, V, rest, With
        <5> QED BY <4>3, <4>4, <4>5, Zenon
      <4>7. Blanks(s) # {}
        BY <3>2
      <4>8. Body(f)[s] = With(s, f[After(s, FirstBlank(s) + 1)])
        BY <4>7, Zenon
      <4> HIDE DEF op, V, rest, With, Body
      <4> QED BY <4>6, <4>8, Zenon
    <3> QED BY <3>1, <3>2
  <2>4. f = Body(f)
    <3>1. f = [s \in Text |-> f[s]] /\ Body(f) = [s \in Text |-> Body(f)[s]]
      BY Zenon
    <3> HIDE DEF Body
    <3> QED BY <2>3, <3>1
  <2> HIDE DEF Body, V
  <2> QED BY <2>2, <2>4
<1>4. SplitAll = CHOOSE f : f = Body(f)
  BY DEF SplitAll, FirstBlank, Text
<1>5. SplitAll = Body(SplitAll)
  <2> HIDE DEF Body, V
  <2> QED BY <1>3, <1>4
<1>6. \A s \in Text : Split(s) = IF Blanks(s) = {} THEN [events |-> <<>>, rest |-> s]
                                ELSE With(s, Split(After(s, FirstBlank(s) + 1)))
  BY <1>5, Zenon DEF Split
<1> DEFINE S == {n \in Nat : \A s \in Text : Len(s) <= n => Split(s) \in V}
<1>10. \A s \in Text : s \in stop => Split(s) \in V
  <2>1. \A s \in Text : s \in stop => Split(s) = base[s]
    <3> SUFFICES ASSUME NEW s \in Text, s \in stop PROVE Split(s) = base[s]
      OBVIOUS
    <3>1. Blanks(s) = {} /\ base[s] = [events |-> <<>>, rest |-> s]
      OBVIOUS
    <3> HIDE DEF V, base, With
    <3> QED BY <1>6, <3>1, Zenon
  <2> HIDE DEF V, base, stop
  <2> QED BY <1>1, <2>1, Zenon
<1>7. 0 \in S
  <2>1. \A s \in Text : Len(s) <= 0 => s \in stop
    BY DEF Text, Blanks
  <2> HIDE DEF stop, V
  <2> QED BY <1>10, <2>1
<1>8. ASSUME NEW n \in Nat, n \in S PROVE n + 1 \in S
  <2>0. \A s \in Text : Len(s) <= n => Split(s) \in V
    BY <1>8
  <2> SUFFICES ASSUME NEW s \in Text, Len(s) <= n + 1 PROVE Split(s) \in V
    OBVIOUS
  <2>1. CASE s \in stop
    <3> HIDE DEF V, stop
    <3> QED BY <1>10, <2>1, Zenon
  <2>2. CASE s \notin stop
    <3> DEFINE r == After(s, FirstBlank(s) + 1)
    <3>1. r \in Text /\ Len(r) < Len(s) /\ Len(s) \in Nat
      <4>1. rest[s] = r
        OBVIOUS
      <4>2. rest[s] \in Text /\ Len(rest[s]) < Len(s)
        <5> HIDE DEF stop, rest, V, With
        <5> QED BY <1>2, <2>2
      <4> HIDE DEF r, rest
      <4> QED BY <4>1, <4>2 DEF Text
    <3>2. Split(r) \in V
      <4> HIDE DEF r, V
      <4>1. Len(r) <= n
        BY <3>1 DEF Text
      <4> QED BY <2>0, <3>1, <4>1
    <3>3. Split(s) = With(s, Split(r))
      <4>1. Blanks(s) # {}
        BY <2>2
      <4> HIDE DEF With
      <4> QED BY <1>6, <4>1, Zenon
    <3>4. \A v \in V : With(s, v) \in V
      <4> HIDE DEF stop, rest, V, With
      <4> QED BY <1>2, <2>2
    <3> HIDE DEF r, V, With
    <3> QED BY <3>2, <3>3, <3>4
  <2> QED BY <2>1, <2>2
<1>9. \A s \in Text : Split(s) \in V
  <2>1. \A n \in Nat : n \in S
    <3> HIDE DEF S
    <3> QED BY <1>7, <1>8, SetInduction
  <2>2. \A s \in Text : Len(s) \in Nat
    BY DEF Text
  <2> HIDE DEF V
  <2> QED BY <2>1, <2>2
<1>11. ASSUME NEW s \in Text
       PROVE  /\ Split(s).events \in Seq(Event) /\ Split(s).rest \in Text
              /\ Split(s) = [events |-> Split(s).events, rest |-> Split(s).rest]
  <2> DEFINE x == Split(s)
             y == Seq(Event)
             X == Text
  <2>1. x \in [events : y, rest : X]
    BY <1>9 DEF Parts
  <2> HIDE DEF x, y, X
  <2>2. x.events \in y /\ x.rest \in X /\ x = [events |-> x.events, rest |-> x.rest]
    BY <2>1
  <2> QED BY <2>2 DEF x, y, X
<1> QED BY <1>6, <1>11, Zenon

\* A text cut at a line feed.
LEMMA CutAtLineFeed ==
  ASSUME NEW s \in Text, NEW i \in 1..Len(s), s[i] = "\n"
  PROVE  s = Line(SubSeq(s, 1, i - 1), After(s, i))
<1> DEFINE p == SubSeq(s, 1, i - 1)
           r == After(s, i)
           z == Line(p, r)
<1>0. s \in Seq(Chars) /\ Len(s) \in Nat
  BY DEF Text
<1>1. i - 1 \in 0..Len(s) /\ i \in 0..Len(s)
  BY <1>0
<1>2. p \in Seq(Chars) /\ Len(p) = i - 1 /\ \A k \in 1..(i - 1) : p[k] = s[k]
  BY <1>0, <1>1, UpToFacts
<1>3. r \in Seq(Chars) /\ Len(r) = Len(s) - i /\ \A k \in 1..(Len(s) - i) : r[k] = s[i + k]
  BY <1>0, <1>1, AfterFacts
<1> HIDE DEF p, r
<1>4. p \in Text /\ r \in Text
  BY <1>2, <1>3 DEF Text
<1>5. /\ z \in Text /\ Len(z) = Len(p) + 1 + Len(r)
      /\ \A k \in 1..Len(p) : z[k] = p[k]
      /\ z[Len(p) + 1] = "\n"
      /\ \A k \in 1..Len(r) : z[Len(p) + 1 + k] = r[k]
  BY <1>4, LineFacts, Zenon
<1> HIDE DEF z
<1>6. Len(z) = Len(s)
  BY <1>0, <1>2, <1>3, <1>5
<1>7. ASSUME NEW k \in 1..Len(s) PROVE z[k] = s[k]
  <2>1. CASE k < i
    <3>1. k \in 1..(i - 1)
      BY <1>0, <2>1
    <3> QED BY <1>2, <1>5, <3>1
  <2>2. CASE k = i
    BY <1>2, <1>5, <2>2
  <2>3. CASE k > i
    <3> DEFINE j == k - i
    <3>1. j \in 1..Len(r) /\ Len(p) + 1 + j = k /\ i + j = k
      BY <1>0, <1>2, <1>3, <2>3
    <3> HIDE DEF j
    <3> QED BY <1>3, <1>5, <3>1
  <2> QED BY <1>0, <2>1, <2>2, <2>3
<1>8. z = s
  BY <1>0, <1>5, <1>6, <1>7, SameSequence DEF Text
<1> QED BY <1>8 DEF z, p, r

\* A text cut at a blank line.
LEMMA CutAtBlank ==
  ASSUME NEW s \in Text, NEW i \in 1..(Len(s) - 1), s[i] = "\n", s[i + 1] = "\n"
  PROVE  s = Line(SubSeq(s, 1, i - 1), Line(<<>>, After(s, i + 1)))
<1> DEFINE u == After(s, i)
           q == SubSeq(u, 1, 0)
<1>0. s \in Seq(Chars) /\ Len(s) \in Nat
  BY DEF Text
<1>1. i \in 1..Len(s) /\ i \in 0..Len(s) /\ i + 1 \in 0..Len(s)
  BY <1>0
<1>2. s = Line(SubSeq(s, 1, i - 1), u)
  BY <1>1, CutAtLineFeed, Zenon
<1>3. u \in Seq(Chars) /\ Len(u) = Len(s) - i /\ \A k \in 1..(Len(s) - i) : u[k] = s[i + k]
  BY <1>0, <1>1, AfterFacts
<1> HIDE DEF u
<1>4. 1 \in 1..Len(u) /\ 1 \in 0..Len(u) /\ u[1] = "\n" /\ u \in Text /\ 1 - 1 = 0
  BY <1>0, <1>3 DEF Text
<1>5. u = Line(q, After(u, 1))
  BY <1>4, CutAtLineFeed, Zenon
<1>6. q = <<>>
  BY <1>3
<1>7. After(u, 1) = After(s, i + 1)
  <2> DEFINE a == After(u, 1)
             b == After(s, i + 1)
  <2>1. a \in Seq(Chars) /\ Len(a) = Len(u) - 1 /\ \A k \in 1..(Len(u) - 1) : a[k] = u[1 + k]
    <3>1. u \in Seq(Chars) /\ 1 \in 0..Len(u)
      BY <1>3, <1>4
    <3> HIDE DEF a
    <3> QED BY <3>1, AfterFacts DEF a
  <2>2. b \in Seq(Chars) /\ Len(b) = Len(s) - (i + 1) /\ \A k \in 1..(Len(s) - (i + 1)) : b[k] = s[(i + 1) + k]
    BY <1>0, <1>1, AfterFacts
  <2> HIDE DEF a, b
  <2>3. Len(a) = Len(b)
    BY <1>0, <1>3, <2>1, <2>2
  <2>4. ASSUME NEW k \in 1..Len(b) PROVE a[k] = b[k]
    <3>1. /\ 1 + k \in 1..(Len(s) - i) /\ i + (1 + k) = (i + 1) + k
          /\ k \in 1..(Len(u) - 1) /\ k \in 1..(Len(s) - (i + 1))
      BY <1>0, <1>3, <2>2
    <3>2. a[k] = u[1 + k] /\ u[1 + k] = s[i + (1 + k)] /\ b[k] = s[(i + 1) + k]
      BY <1>3, <2>1, <2>2, <3>1
    <3> QED BY <3>1, <3>2
  <2>5. a = b
    BY <2>1, <2>2, <2>3, <2>4, SameSequence
  <2> QED BY <2>5 DEF a, b
<1> QED BY <1>2, <1>5, <1>6, <1>7, Zenon

\* Where a text is cut does not matter: split what is left with what follows.
LEMMA SplitConcat ==
  ASSUME NEW y \in Text
  PROVE  \A x \in Text :
           /\ Split(x \o y).events = Split(x).events \o Split(Split(x).rest \o y).events
           /\ Split(x \o y).rest = Split(Split(x).rest \o y).rest
<1>a. \A a, b, c \in Seq(Event) : (a \o b) \o c = a \o (b \o c)
  BY ConcatAssociative
<1>b. \A a \in Seq(Event) : <<>> \o a = a
  OBVIOUS
<1>c. \A s \in Text : Len(s) \in Nat /\ s \o y \in Text
  BY DEF Text
<1> DEFINE Good(x) == /\ Split(x \o y).events = Split(x).events \o Split(Split(x).rest \o y).events
                      /\ Split(x \o y).rest = Split(Split(x).rest \o y).rest
           S == {n \in Nat : \A x \in Text : Len(x) <= n => Good(x)}
<1>1. ASSUME NEW x \in Text, Blanks(x) = {} PROVE Good(x)
  <2> DEFINE v == Split(x)
  <2>1. v = [events |-> <<>>, rest |-> x]
    BY <1>1, SplitRecursion, Zenon
  <2> HIDE DEF v
  <2>2. v.events = <<>> /\ v.rest = x
    BY <2>1
  <2>3. Split(x \o y).events \in Seq(Event)
    BY <1>c, SplitRecursion, Zenon
  <2>4. Split(x).events = <<>> /\ Split(x).rest = x
    BY <2>2 DEF v
  <2> QED BY <1>b, <2>3, <2>4, Zenon
<1>2. ASSUME NEW n \in Nat, n \in S PROVE n + 1 \in S
  <2>0. \A x \in Text : Len(x) <= n => Good(x)
    BY <1>2
  <2>1. ASSUME NEW x \in Text, Len(x) <= n + 1, Blanks(x) # {} PROVE Good(x)
    <3> DEFINE z == x \o y
               i == FirstBlank(x)
               p == SubSeq(x, 1, i - 1)
               r == After(x, i + 1)
    <3>1. /\ Len(x) \in Nat /\ i \in 1..(Len(x) - 1) /\ x[i] = "\n" /\ x[i + 1] = "\n"
          /\ \A k \in 1..(Len(x) - 1) : x[k] = "\n" /\ x[k + 1] = "\n" => i <= k
      BY <2>1, BlankFacts, Zenon
    <3>2. z \in Text /\ Len(z) = Len(x) + Len(y) /\ Len(y) \in Nat /\ \A k \in 1..Len(x) : z[k] = x[k]
      BY DEF Text
    <3>3. Blanks(z) # {} /\ FirstBlank(z) = i
      <4> HIDE DEF z, i
      <4>1. i \in 1..(Len(z) - 1) /\ z[i] = "\n" /\ z[i + 1] = "\n"
        BY <3>1, <3>2
      <4>2. \A k \in 1..(i - 1) : ~(z[k] = "\n" /\ z[k + 1] = "\n")
        BY <3>1, <3>2
      <4> QED BY <3>2, <4>1, <4>2, FirstBlankIs
    <3>4. i - 1 \in 0..Len(x) /\ i + 1 \in 0..Len(x)
      <4> HIDE DEF i
      <4> QED BY <3>1
    <3>5. SubSeq(z, 1, i - 1) = p /\ After(z, i + 1) = r \o y
      <4>1. x \in Seq(Chars) /\ y \in Seq(Chars)
        BY DEF Text
      <4> HIDE DEF i
      <4> QED BY <3>4, <4>1, CutConcat, Zenon
    <3>6. p \in Text /\ r \in Text /\ Len(r) = Len(x) - (i + 1)
      <4>1. x \in Seq(Chars)
        BY DEF Text
      <4> HIDE DEF i
      <4> QED BY <3>4, <4>1, AfterFacts, UpToFacts DEF Text
    <3> DEFINE e == EventOf(p)
               v == Split(r)
               w == Split(r \o y)
    <3>7. e \in Seq(Event) /\ v.events \in Seq(Event) /\ v.rest \in Text
      <4> HIDE DEF p, r
      <4> QED BY <3>6, EventFacts, SplitRecursion, Zenon
    <3>8. Split(x) = [events |-> e \o v.events, rest |-> v.rest]
      BY <2>1, SplitRecursion, Zenon
    <3>9. Split(z) = [events |-> e \o w.events, rest |-> w.rest]
      <4>1. Split(z) = [events |-> EventOf(SubSeq(z, 1, FirstBlank(z) - 1)) \o Split(After(z, FirstBlank(z) + 1)).events,
                        rest   |-> Split(After(z, FirstBlank(z) + 1)).rest]
        <5> HIDE DEF z
        <5> QED BY <3>2, <3>3, SplitRecursion, Zenon
      <4> HIDE DEF z, i, p, r
      <4> QED BY <3>3, <3>5, <4>1, Zenon
    <3>10. /\ w.events = v.events \o Split(v.rest \o y).events
           /\ w.rest = Split(v.rest \o y).rest
      <4>1. Len(r) <= n
        <5> HIDE DEF i, r
        <5> QED BY <2>1, <3>1, <3>6
      <4> HIDE DEF r
      <4> QED BY <2>0, <3>6, <4>1, Zenon
    <3>11. Split(v.rest \o y).events \in Seq(Event)
      <4> HIDE DEF v
      <4> QED BY <1>c, <3>7, SplitRecursion, Zenon
    <3> DEFINE a == Split(x)
               b == Split(z)
               t == Split(v.rest \o y)
    <3>12. a.events = e \o v.events /\ a.rest = v.rest /\ b.events = e \o w.events /\ b.rest = w.rest
      <4>1. a = [events |-> e \o v.events, rest |-> v.rest] /\ b = [events |-> e \o w.events, rest |-> w.rest]
        BY <3>8, <3>9
      <4> HIDE DEF a, b, e, v, w
      <4> QED BY <4>1
    <3>13. b.events = a.events \o t.events /\ b.rest = t.rest
      <4>1. b.events = e \o (v.events \o t.events)
        BY <3>10, <3>12, Zenon
      <4>2. (e \o v.events) \o t.events = e \o (v.events \o t.events)
        <5> HIDE DEF e, v, t
        <5> QED BY <1>a, <3>7, <3>11, Zenon DEF t
      <4> HIDE DEF e, v, t, a, b, w
      <4> QED BY <3>10, <3>12, <4>1, <4>2, Zenon DEF t
    <3> QED BY <3>12, <3>13, Zenon
  <2> HIDE DEF Good
  <2>2. ASSUME NEW x \in Text, Len(x) <= n + 1 PROVE Good(x)
    BY <1>1, <2>1, <2>2
  <2> QED BY <2>2
<1>3. 0 \in S
  <2>1. \A x \in Text : Len(x) <= 0 => Blanks(x) = {}
    BY DEF Text, Blanks
  <2> HIDE DEF Good
  <2> QED BY <1>1, <2>1
<1>4. \A n \in Nat : n \in S
  <2> HIDE DEF S
  <2> QED BY <1>2, <1>3, SetInduction
<1>5. \A x \in Text : Good(x)
  <2> HIDE DEF Good
  <2> QED BY <1>c, <1>4
<1> QED BY <1>5

\* No data is lost between the blocks and what is left.
LEMMA SplitData ==
  ASSUME NEW y \in Text
  PROVE  \A x \in Text : Data(x \o y) = Given(Split(x).events) \o Data(Split(x).rest \o y)
<1>a. \A a, b, c \in Text : (a \o b) \o c = a \o (b \o c)
  BY ConcatAssociative DEF Text
<1>b. \A a \in Text : <<>> \o a = a
  BY DEF Text
<1>c. /\ \A s \in Text : Len(s) \in Nat /\ s \o y \in Text
      /\ <<>> \in Text /\ <<"\n">> \in Text
      /\ \A s \in Text : <<"\n">> \o s \in Text
  <2>1. "\n" \in Chars
    BY DEF Chars, Plain
  <2> QED BY <2>1 DEF Text
<1> DEFINE nl == <<"\n">>
<1>d. nl \in Text
  BY <1>c
<1>e. \A s \in Text : nl \o s \in Text
  BY <1>c
<1>f. \A s, t : Line(s, t) = s \o (nl \o t)
  BY DEF Line
<1> HIDE DEF nl
<1> DEFINE Good(x) == Data(x \o y) = Given(Split(x).events) \o Data(Split(x).rest \o y)
           S == {n \in Nat : \A x \in Text : Len(x) <= n => Good(x)}
<1>1. ASSUME NEW x \in Text, Blanks(x) = {} PROVE Good(x)
  <2> DEFINE v == Split(x)
  <2>1. v = [events |-> <<>>, rest |-> x]
    BY <1>1, SplitRecursion, Zenon
  <2> HIDE DEF v
  <2>2. v.events = <<>> /\ v.rest = x
    BY <2>1
  <2>3. Data(x \o y) \in Text
    BY <1>c, DataFacts, Zenon
  <2>4. Split(x).events = <<>> /\ Split(x).rest = x
    BY <2>2 DEF v
  <2> QED BY <1>b, <2>3, <2>4, GivenFacts, Zenon
<1>2. ASSUME NEW n \in Nat, n \in S PROVE n + 1 \in S
  <2>0. \A x \in Text : Len(x) <= n => Good(x)
    BY <1>2
  <2>1. ASSUME NEW x \in Text, Len(x) <= n + 1, Blanks(x) # {} PROVE Good(x)
    <3> DEFINE i == FirstBlank(x)
               p == SubSeq(x, 1, i - 1)
               r == After(x, i + 1)
               l == Line(<<>>, r)
               m == Line(<<>>, r \o y)
    <3>1. Len(x) \in Nat /\ i \in 1..(Len(x) - 1) /\ x[i] = "\n" /\ x[i + 1] = "\n"
      BY <2>1, BlankFacts, Zenon
    <3>2. x = Line(p, l)
      BY <3>1, CutAtBlank, Zenon
    <3>3. i - 1 \in 0..Len(x) /\ i + 1 \in 0..Len(x)
      <4> HIDE DEF i
      <4> QED BY <3>1
    <3>4. p \in Text /\ r \in Text /\ Len(r) = Len(x) - (i + 1)
      <4>1. x \in Seq(Chars)
        BY DEF Text
      <4> HIDE DEF i
      <4> QED BY <3>3, <4>1, AfterFacts, UpToFacts DEF Text
    <3>5. l \in Text /\ r \o y \in Text /\ m \in Text
      <4> HIDE DEF r
      <4> QED BY <1>c, <3>4, LineFacts, Zenon
    <3>6. l \o y = m
      <4> HIDE DEF r
      <4>1. l = <<>> \o (nl \o r) /\ m = <<>> \o (nl \o (r \o y))
        BY <1>f, Zenon
      <4>2. (nl \o r) \o y = nl \o (r \o y)
        BY <1>a, <1>d, <3>4, Zenon
      <4>3. nl \o r \in Text /\ nl \o (r \o y) \in Text
        BY <1>e, <3>4, <3>5, Zenon
      <4> QED BY <1>b, <4>1, <4>2, <4>3, Zenon
    <3>7. x \o y = Line(p, m)
      <4> HIDE DEF l, m, p, r
      <4>0. nl \o l \in Text
        BY <1>e, <3>5, Zenon
      <4>1. (p \o (nl \o l)) \o y = p \o ((nl \o l) \o y)
        BY <1>a, <3>4, <4>0, Zenon
      <4>2. (nl \o l) \o y = nl \o (l \o y)
        BY <1>a, <1>d, <3>5, Zenon
      <4> QED BY <1>f, <3>2, <3>6, <4>1, <4>2, Zenon
    <3>8. Data(x \o y) = Data(p) \o Data(r \o y)
      <4>1. Data(Line(p, m)) = Data(p) \o Data(m)
        <5> HIDE DEF p, m
        <5> QED BY <3>4, <3>5, DataFacts, Zenon
      <4>2. Data(m) = Data(<<>>) \o Data(r \o y)
        <5> HIDE DEF r
        <5> QED BY <1>c, <3>5, DataFacts, Zenon
      <4>3. Data(<<>>) = <<>>
        <5>1. \A k \in 1..Len(<<>>) : <<>>[k] = "\n"
          OBVIOUS
        <5> QED BY <1>c, <5>1, DataFacts, Zenon
      <4>4. Data(r \o y) \in Text
        <5> HIDE DEF r
        <5> QED BY <3>5, DataFacts, Zenon
      <4> HIDE DEF m, p, r
      <4> QED BY <1>b, <3>7, <4>1, <4>2, <4>3, <4>4, Zenon
    <3> DEFINE e == EventOf(p)
               v == Split(r)
    <3>9. /\ e \in Seq(Event) /\ Given(e) = Data(p)
          /\ v.events \in Seq(Event) /\ v.rest \in Text
      <4> HIDE DEF p, r
      <4> QED BY <3>4, EventFacts, SplitRecursion, Zenon
    <3>10. Split(x) = [events |-> e \o v.events, rest |-> v.rest]
      BY <2>1, SplitRecursion, Zenon
    <3>11. Data(r \o y) = Given(v.events) \o Data(v.rest \o y)
      <4>1. Len(r) <= n
        <5> HIDE DEF i, r
        <5> QED BY <2>1, <3>1, <3>4
      <4> HIDE DEF r
      <4> QED BY <2>0, <3>4, <4>1, Zenon
    <3> DEFINE a == Split(x)
    <3>12. a.events = e \o v.events /\ a.rest = v.rest
      <4>1. a = [events |-> e \o v.events, rest |-> v.rest]
        BY <3>10
      <4> HIDE DEF a, e, v
      <4> QED BY <4>1
    <3>13. Given(a.events) = Data(p) \o Given(v.events)
      <4> HIDE DEF e, v, a, p
      <4> QED BY <3>9, <3>12, GivenFacts, Zenon
    <3>14. Data(p) \in Text /\ Given(v.events) \in Text /\ Data(v.rest \o y) \in Text
      <4> HIDE DEF v, p
      <4> QED BY <1>c, <3>4, <3>9, DataFacts, GivenFacts, Zenon
    <3>15. (Data(p) \o Given(v.events)) \o Data(v.rest \o y) = Data(p) \o (Given(v.events) \o Data(v.rest \o y))
      <4> HIDE DEF v, p
      <4> QED BY <1>a, <3>14, Zenon
    <3>16. Data(x \o y) = Given(a.events) \o Data(a.rest \o y)
      <4> HIDE DEF v, p, a, r
      <4> QED BY <3>8, <3>11, <3>12, <3>13, <3>15, Zenon
    <3> QED BY <3>16, Zenon
  <2> HIDE DEF Good
  <2>2. ASSUME NEW x \in Text, Len(x) <= n + 1 PROVE Good(x)
    BY <1>1, <2>1, <2>2
  <2> QED BY <2>2
<1>3. 0 \in S
  <2>1. \A x \in Text : Len(x) <= 0 => Blanks(x) = {}
    BY DEF Text, Blanks
  <2> HIDE DEF Good
  <2> QED BY <1>1, <2>1
<1>4. \A n \in Nat : n \in S
  <2> HIDE DEF S
  <2> QED BY <1>2, <1>3, SetInduction
<1>5. \A x \in Text : Good(x)
  <2> HIDE DEF Good
  <2> QED BY <1>c, <1>4
<1> QED BY <1>5

-----------------------------------------------------------------------------
(* Decoding                                                                *)

Held == {<<>>, <<"lead">>}

Decoded == [held : Held, text : Text]

\* One byte decoded: what comes out depends on what is held and the byte.
LEMMA FedFacts ==
  ASSUME NEW d \in Decoded, NEW b \in Bytes
  PROVE  /\ Fed(d, b) \in Decoded
         /\ Fed(d, b).text = d.text \o Out(d.held, b) /\ Out(d.held, b) \in Text
         /\ \A e : e.held = d.held => Fed(e, b).held = Fed(d, b).held
<1> DEFINE X == Text
<1>1. d.held \in Held /\ d.text \in X
  BY DEF Decoded
<1>2. \A h : Final(h) \in Text
  <2>1. "?" \in Chars
    BY DEF Chars
  <2>2. <<>> \in Text /\ <<"?">> \in Text
    BY <2>1 DEF Text
  <2> QED BY <2>2 DEF Final
<1>3. Out(d.held, b) \in Text
  <2>1. CASE b = "lead"
    BY <1>2, <2>1 DEF Out
  <2>2. CASE b = "trail"
    <3>1. "?" \in Chars /\ "xx" \in Chars
      BY DEF Chars
    <3>2. <<"?">> \in Text /\ <<"xx">> \in Text
      BY <3>1 DEF Text
    <3>3. Out(d.held, b) = <<IF d.held = <<>> THEN "?" ELSE "xx">>
      BY <2>2 DEF Out
    <3> QED BY <3>2, <3>3
  <2>3. CASE b \notin {"lead", "trail"}
    <3>1. b \in Chars
      BY <2>3 DEF Bytes, Chars
    <3>2. Out(d.held, b) = Append(Final(d.held), b)
      BY <2>3 DEF Out
    <3>3. Final(d.held) \in Seq(Chars)
      BY <1>2 DEF Text
    <3> HIDE DEF X
    <3>4. Append(Final(d.held), b) \in Seq(Chars)
      BY <3>1, <3>3
    <3> QED BY <3>2, <3>4 DEF Text
  <2> QED BY <2>1, <2>2, <2>3
<1>4. /\ Fed(d, b).text = d.text \o Out(d.held, b)
      /\ Fed(d, b).held = IF b = "lead" THEN <<b>> ELSE <<>>
      /\ Fed(d, b) = [held |-> Fed(d, b).held, text |-> Fed(d, b).text]
  BY DEF Fed
<1>5. d.text \o Out(d.held, b) \in X
  BY <1>1, <1>3 DEF Text
<1>6. Fed(d, b).held \in Held
  BY <1>4 DEF Held
<1>7. Fed(d, b) \in Decoded
  <2> HIDE DEF X
  <2> DEFINE x == Fed(d, b)
  <2>1. x.held \in Held /\ x.text \in X /\ x = [held |-> x.held, text |-> x.text]
    BY <1>4, <1>5, <1>6, Zenon
  <2> HIDE DEF x
  <2>2. x \in [held : Held, text : X]
    BY <2>1
  <2> QED BY <2>2 DEF x, Decoded, X
<1>8. \A e : e.held = d.held => Fed(e, b).held = Fed(d, b).held
  BY DEF Fed
<1> QED BY <1>3, <1>4, <1>7, <1>8

\* Decode has a value, and it is the one that its recursion says.
LEMMA DecodeRecursion ==
  ASSUME NEW h \in Held, NEW s \in Seq(Bytes)
  PROVE  \E f :
           /\ f[0] = [held |-> h, text |-> <<>>]
           /\ \A n \in 1..Len(s) : f[n] = Fed(f[n - 1], s[n])
           /\ \A n \in 0..Len(s) : f[n] \in Decoded
           /\ Decode(h, s) = f[Len(s)]
<1> DEFINE start == [held |-> h, text |-> <<>>]
           Body(f, n) == [i \in 0..n |-> IF i = 0 THEN start ELSE Fed(f[i - 1], s[i])]
           S == {n \in Nat : \E f : f = Body(f, n)}
<1>1. 0 \in S
  <2> DEFINE f == [i \in 0..0 |-> start]
  <2>1. f = Body(f, 0)
    <3> HIDE DEF start
    <3> QED OBVIOUS
  <2> HIDE DEF f, Body
  <2> QED BY <2>1
<1>2. ASSUME NEW n \in Nat, n \in S PROVE n + 1 \in S
  <2>1. PICK f : f = Body(f, n)
    BY <1>2
  <2> DEFINE g == [i \in 0..(n + 1) |-> IF i # n + 1 THEN f[i] ELSE Fed(f[n], s[i])]
  <2> HIDE DEF start
  <2>2. ASSUME NEW i \in 0..(n + 1)
        PROVE  g[i] = IF i = 0 THEN start ELSE Fed(g[i - 1], s[i])
    <3>1. CASE i = n + 1
      BY <3>1
    <3>2. CASE i # n + 1
      <4>1. i \in 0..n /\ g[i] = f[i]
        BY <3>2
      <4>2. f[i] = IF i = 0 THEN start ELSE Fed(f[i - 1], s[i])
        BY <2>1, <4>1
      <4>3. i # 0 => g[i - 1] = f[i - 1]
        BY <4>1
      <4> HIDE DEF g
      <4> QED BY <4>1, <4>2, <4>3
    <3> QED BY <3>1, <3>2
  <2>3. g = [i \in 0..(n + 1) |-> g[i]]
    OBVIOUS
  <2> HIDE DEF g
  <2>4. g = Body(g, n + 1)
    BY <2>2, <2>3
  <2> HIDE DEF Body
  <2> QED BY <2>4
<1>3. Len(s) \in Nat
  OBVIOUS
<1>4. \E f : f = Body(f, Len(s))
  <2> HIDE DEF Body
  <2>1. \A n \in Nat : n \in S
    <3> HIDE DEF S
    <3> QED BY <1>1, <1>2, SetInduction
  <2> QED BY <1>3, <2>1
<1> DEFINE b == CHOOSE f : f = Body(f, Len(s))
<1>5. b = Body(b, Len(s))
  <2> HIDE DEF Body
  <2> QED BY <1>4
<1>6. Decode(h, s) = b[Len(s)]
  BY Zenon DEF Decode
<1> HIDE DEF b, start
<1>7. b[0] = start /\ \A n \in 1..Len(s) : b[n] = Fed(b[n - 1], s[n])
  <2>1. 0 \in 0..Len(s) /\ \A n \in 1..Len(s) : n \in 0..Len(s) /\ n # 0
    BY <1>3
  <2> QED BY <1>5, <2>1
<1>8. \A n \in 0..Len(s) : b[n] \in Decoded
  <2> DEFINE R == {n \in Nat : n <= Len(s) => b[n] \in Decoded}
  <2>1. 0 \in R
    <3>1. start \in Decoded
      BY DEF start, Decoded, Text
    <3> QED BY <1>7, <3>1
  <2>2. ASSUME NEW n \in Nat, n \in R PROVE n + 1 \in R
    <3>1. ASSUME n + 1 <= Len(s) PROVE b[n + 1] \in Decoded
      <4>1. b[n] \in Decoded /\ n + 1 \in 1..Len(s) /\ (n + 1) - 1 = n
        BY <1>3, <2>2, <3>1
      <4>2. s[n + 1] \in Bytes
        BY <4>1
      <4>3. Fed(b[n], s[n + 1]) \in Decoded
        BY <4>1, <4>2, FedFacts, Zenon
      <4>4. b[n + 1] = Fed(b[n], s[n + 1])
        BY <1>7, <4>1, Zenon
      <4> QED BY <4>3, <4>4
    <3> QED BY <3>1
  <2>3. \A n \in Nat : n \in R
    <3> HIDE DEF R
    <3> QED BY <2>1, <2>2, SetInduction
  <2> QED BY <1>3, <2>3
<1> QED BY <1>6, <1>7, <1>8 DEF start

\* What the decoder holds and has put out.
LEMMA DecodeFacts ==
  ASSUME NEW h \in Held, NEW s \in Seq(Bytes)
  PROVE  /\ Decode(h, s) \in Decoded
         /\ Decode(h, s).held \in Held /\ Decode(h, s).text \in Text
         /\ Decode(h, <<>>).held = h /\ Decode(h, <<>>).text = <<>>
<1> DEFINE X == Text
           d == Decode(h, s)
           e == Decode(h, <<>>)
           start == [held |-> h, text |-> <<>>]
<1>1. d \in Decoded
  <2>1. PICK f : (\A n \in 0..Len(s) : f[n] \in Decoded) /\ d = f[Len(s)]
    BY DecodeRecursion, Zenon
  <2> HIDE DEF d
  <2>2. Len(s) \in 0..Len(s)
    OBVIOUS
  <2> QED BY <2>1, <2>2
<1>2. e = start
  <2>1. PICK f : f[0] = start /\ e = f[Len(<<>>)]
    <3>1. <<>> \in Seq(Bytes)
      OBVIOUS
    <3> QED BY <3>1, DecodeRecursion, Zenon
  <2> HIDE DEF e, start
  <2>2. Len(<<>>) = 0
    OBVIOUS
  <2> QED BY <2>1, <2>2
<1> HIDE DEF d, e, X
<1>3. d.held \in Held /\ d.text \in X
  <2>1. d \in [held : Held, text : X]
    BY <1>1 DEF Decoded, X
  <2> QED BY <2>1
<1>4. e.held = h /\ e.text = <<>>
  BY <1>2
<1> QED BY <1>1, <1>3, <1>4 DEF d, e, X

\* Decoding in two parts.
LEMMA DecodeConcat ==
  ASSUME NEW h \in Held, NEW a \in Seq(Bytes), NEW b \in Seq(Bytes)
  PROVE  /\ Decode(h, a \o b).held = Decode(Decode(h, a).held, b).held
         /\ Decode(h, a \o b).text = Decode(h, a).text \o Decode(Decode(h, a).held, b).text
<1>a. \A x, y, z \in Text : (x \o y) \o z = x \o (y \o z)
  BY ConcatAssociative DEF Text
<1>b. \A x \in Text : x \o <<>> = x
  BY DEF Text
<1>t. \A d \in Decoded : d.held \in Held /\ d.text \in Text
  <2> DEFINE X == Text
  <2> HIDE DEF X
  <2>1. \A d \in [held : Held, text : X] : d.held \in Held /\ d.text \in X
    OBVIOUS
  <2> QED BY <2>1 DEF Decoded, X
<1> DEFINE c == a \o b
           A == Len(a)
           B == Len(b)
           k == Decode(h, a).held
<1>1. /\ A \in Nat /\ B \in Nat /\ c \in Seq(Bytes) /\ Len(c) = A + B
      /\ \A n \in 1..A : c[n] = a[n]
      /\ \A n \in 1..B : c[A + n] = b[n] /\ b[n] \in Bytes
  OBVIOUS
<1>0. k \in Held
  BY DecodeFacts, Zenon
<1>2. PICK f : /\ f[0] = [held |-> h, text |-> <<>>]
               /\ \A n \in 1..A : f[n] = Fed(f[n - 1], a[n])
               /\ \A n \in 0..A : f[n] \in Decoded
               /\ Decode(h, a) = f[A]
  BY DecodeRecursion, Zenon
<1> HIDE DEF k
<1>3. PICK g : /\ g[0] = [held |-> k, text |-> <<>>]
               /\ \A n \in 1..B : g[n] = Fed(g[n - 1], b[n])
               /\ \A n \in 0..B : g[n] \in Decoded
               /\ Decode(k, b) = g[B]
  BY <1>0, DecodeRecursion, Zenon
<1> HIDE DEF c, A, B
<1>4. PICK q : /\ q[0] = [held |-> h, text |-> <<>>]
               /\ \A n \in 1..Len(c) : q[n] = Fed(q[n - 1], c[n])
               /\ \A n \in 0..Len(c) : q[n] \in Decoded
               /\ Decode(h, c) = q[Len(c)]
  BY <1>1, DecodeRecursion, Zenon
<1> DEFINE S == {n \in Nat : n <= A => q[n] = f[n]}
<1>5. 0 \in S
  BY <1>2, <1>4, Zenon
<1>6. ASSUME NEW n \in Nat, n \in S PROVE n + 1 \in S
  <2>1. ASSUME n + 1 <= A PROVE q[n + 1] = f[n + 1]
    <3>1. q[n] = f[n] /\ n + 1 \in 1..A /\ n + 1 \in 1..Len(c) /\ (n + 1) - 1 = n
      BY <1>1, <1>6, <2>1
    <3>2. f[n + 1] = Fed(f[n], a[n + 1]) /\ q[n + 1] = Fed(q[n], c[n + 1]) /\ c[n + 1] = a[n + 1]
      BY <1>1, <1>2, <1>4, <3>1, Zenon
    <3> QED BY <3>1, <3>2, Zenon
  <2> QED BY <2>1
<1>7. q[A] = f[A]
  <2>1. \A n \in Nat : n \in S
    <3> HIDE DEF S
    <3> QED BY <1>5, <1>6, SetInduction
  <2> QED BY <1>1, <2>1
<1>8. f[A] \in Decoded /\ f[A].held = k /\ f[A].text \in Text
  <2>1. A \in 0..A
    BY <1>1
  <2> QED BY <1>2, <1>t, <2>1, Zenon DEF k
<1> DEFINE Same(n) == q[A + n].held = g[n].held /\ q[A + n].text = f[A].text \o g[n].text
           R == {n \in Nat : n <= B => Same(n)}
<1>9. 0 \in R
  <2>1. A + 0 = A
    BY <1>1
  <2> DEFINE y == g[0]
  <2>2. y.held = k /\ y.text = <<>>
    <3>1. y = [held |-> k, text |-> <<>>]
      BY <1>3
    <3> HIDE DEF y
    <3> QED BY <3>1
  <2>3. Same(0)
    BY <1>b, <1>7, <1>8, <2>1, <2>2, Zenon
  <2> HIDE DEF Same
  <2> QED BY <2>3
<1>10. ASSUME NEW n \in Nat, n \in R PROVE n + 1 \in R
  <2>1. ASSUME n + 1 <= B PROVE Same(n + 1)
    <3>0. Same(n)
      <4> HIDE DEF Same
      <4> QED BY <1>1, <1>10, <2>1
    <3>1. /\ n + 1 \in 1..B /\ (n + 1) - 1 = n /\ n \in 0..B
          /\ A + (n + 1) \in 1..Len(c) /\ (A + (n + 1)) - 1 = A + n /\ A + n \in 0..Len(c)
      BY <1>1, <2>1
    <3> DEFINE x == q[A + n]
               y == g[n]
               o == b[n + 1]
    <3>2. /\ g[n + 1] = Fed(y, o) /\ q[A + (n + 1)] = Fed(x, o)
          /\ o \in Bytes /\ x \in Decoded /\ y \in Decoded
      BY <1>1, <1>3, <1>4, <3>1, Zenon
    <3>3. x.held = y.held /\ x.text = f[A].text \o y.text
      BY <3>0
    <3> HIDE DEF x, y, o
    <3>4. /\ Fed(y, o).text = y.text \o Out(y.held, o) /\ Out(y.held, o) \in Text
          /\ Fed(x, o).text = x.text \o Out(x.held, o)
          /\ Fed(x, o).held = Fed(y, o).held
      BY <3>2, <3>3, FedFacts, Zenon
    <3>5. (f[A].text \o y.text) \o Out(y.held, o) = f[A].text \o (y.text \o Out(y.held, o))
      BY <1>a, <1>8, <1>t, <3>2, <3>4, Zenon
    <3>6. Fed(x, o).text = f[A].text \o Fed(y, o).text
      BY <3>3, <3>4, <3>5, Zenon
    <3> QED BY <3>2, <3>4, <3>6, Zenon
  <2> HIDE DEF Same
  <2> QED BY <2>1
<1>11. Same(B)
  <2>1. \A n \in Nat : n \in R
    <3> HIDE DEF R
    <3> QED BY <1>9, <1>10, SetInduction
  <2> HIDE DEF Same
  <2> QED BY <1>1, <2>1
<1>12. /\ Decode(h, c).held = Decode(k, b).held
       /\ Decode(h, c).text = Decode(h, a).text \o Decode(k, b).text
  BY <1>1, <1>2, <1>3, <1>4, <1>11, Zenon
<1> QED BY <1>12 DEF c, k

-----------------------------------------------------------------------------
(* The stream                                                              *)

\* While the stream is open, what is kept is what a whole stream would have left.
IInv ==
  /\ sent \in Seq(Bytes)
  /\ ~ended => held = Whole.held
  /\ CutsDoNotMatter
  /\ AllDataArrives

\* The stream as a whole has been decoded to a text.
LEMMA WholeFacts ==
  ASSUME sent \in Seq(Bytes)
  PROVE  Whole.held \in Held /\ Whole.text \in Text /\ Final(Whole.held) \in Text
<1>1. <<>> \in Held
  BY DEF Held
<1>2. Whole.held \in Held /\ Whole.text \in Text
  BY <1>1, DecodeFacts, Zenon DEF Whole
<1>3. \A h : Final(h) \in Text
  <2>1. "?" \in Chars
    BY DEF Chars
  <2>2. <<>> \in Text /\ <<"?">> \in Text
    BY <2>1 DEF Text
  <2> QED BY <2>2 DEF Final
<1> QED BY <1>2, <1>3

\* The invariant at the start.
LEMMA InitIInv == Init => IInv
<1> SUFFICES ASSUME Init PROVE IInv
  OBVIOUS
<1>1. sent = <<>> /\ held = <<>> /\ buffer = <<>> /\ events = <<>> /\ ~ended
  BY DEF Init
<1>2. sent \in Seq(Bytes) /\ <<>> \in Seq(Bytes) /\ <<>> \in Held /\ <<>> \in Text
  BY <1>1 DEF Held, Text
<1>3. Whole.held = <<>> /\ Whole.text = <<>>
  BY <1>1, <1>2, DecodeFacts, Zenon DEF Whole
<1> DEFINE s == Split(<<>>)
<1>4. s = [events |-> <<>>, rest |-> <<>>]
  <2>1. Blanks(<<>>) = {}
    BY DEF Blanks
  <2> QED BY <1>2, <2>1, SplitRecursion, Zenon
<1>5. s.events = <<>> /\ s.rest = <<>>
  <2> HIDE DEF s
  <2> QED BY <1>4
<1>6. Split(Whole.text).events = <<>> /\ Split(Whole.text).rest = <<>>
  BY <1>3, <1>5, Zenon
<1> HIDE DEF s
<1> QED BY <1>1, <1>2, <1>3, <1>6 DEF IInv, CutsDoNotMatter, AllDataArrives

\* A chunk keeps the invariant: decoded and split in two parts is decoded and split.
LEMMA ReceiveIInv ==
  ASSUME IInv, NEW chunk \in Seq(Bytes), Receive(chunk)
  PROVE  IInv'
<1> DEFINE d == Decode(held, chunk)
           w == Whole.text
           u == buffer \o d.text
           s == Split(w)
<1>1. /\ sent \in Seq(Bytes) /\ held = Whole.held
      /\ events = s.events /\ buffer = s.rest
      /\ ~ended /\ ended' = ended
      /\ sent' = sent \o chunk /\ held' = d.held
      /\ buffer' = Split(u).rest /\ events' = events \o Split(u).events
  BY DEF IInv, Receive, CutsDoNotMatter
<1>2. held \in Held /\ w \in Text
  BY <1>1, WholeFacts
<1>3. d.text \in Text
  BY <1>2, DecodeFacts, Zenon
<1>4. <<>> \in Held
  BY DEF Held
<1>5. Whole' = Decode(<<>>, sent \o chunk)
  BY <1>1 DEF Whole
<1>6. Whole'.held = d.held /\ Whole'.text = w \o d.text
  <2> DEFINE x == Decode(<<>>, sent)
  <2>1. /\ Decode(<<>>, sent \o chunk).held = Decode(x.held, chunk).held
        /\ Decode(<<>>, sent \o chunk).text = x.text \o Decode(x.held, chunk).text
    BY <1>1, <1>4, DecodeConcat, Zenon
  <2>2. x.held = held /\ x.text = w
    BY <1>1 DEF Whole
  <2> HIDE DEF x
  <2> QED BY <1>5, <2>1, <2>2, Zenon
<1> DEFINE t == d.text
<1> HIDE DEF d, w
<1>7. /\ Split(w \o t).events = Split(w).events \o Split(Split(w).rest \o t).events
      /\ Split(w \o t).rest = Split(Split(w).rest \o t).rest
  BY <1>2, <1>3, SplitConcat, Zenon
<1>8. events' = Split(w \o t).events /\ buffer' = Split(w \o t).rest
  BY <1>1, <1>7, Zenon
<1>9. sent' \in Seq(Bytes)
  BY <1>1
<1>10. ~ended'
  BY <1>1
<1> HIDE DEF u, s, t
<1>11. CutsDoNotMatter' /\ (held = Whole.held)' /\ AllDataArrives'
  BY <1>1, <1>6, <1>8, <1>10, Zenon DEF CutsDoNotMatter, AllDataArrives, t
<1> QED BY <1>9, <1>11 DEF IInv

\* At the end, the last block holds the data that the others do not.
LEMMA EndIInv ==
  ASSUME IInv, End
  PROVE  IInv'
<1> DEFINE f == Final(held)
           w == Whole.text
           s == Split(w)
           last == buffer \o f
           e == IF \E i \in DOMAIN last : last[i] # "\n" THEN EventOf(last) ELSE <<>>
<1>1. /\ sent \in Seq(Bytes) /\ held = Whole.held
      /\ events = s.events /\ buffer = s.rest
      /\ ended' /\ sent' = sent /\ events' = events \o e
  BY DEF IInv, End, CutsDoNotMatter
<1>2. w \in Text /\ f \in Text
  BY <1>1, WholeFacts
<1>3. s.events \in Seq(Event) /\ s.rest \in Text
  BY <1>2, SplitRecursion, Zenon
<1>4. last \in Text
  <2> HIDE DEF f, s
  <2> QED BY <1>1, <1>2, <1>3 DEF Text
<1> HIDE DEF last
<1>5. e \in Seq(Event) /\ Given(e) = Data(last)
  <2>1. CASE \E i \in DOMAIN last : last[i] # "\n"
    BY <1>4, <2>1, EventFacts, Zenon
  <2>2. CASE ~\E i \in DOMAIN last : last[i] # "\n"
    <3>1. e = <<>>
      BY <2>2, Zenon
    <3>2. \A i \in 1..Len(last) : last[i] = "\n"
      BY <1>4, <2>2 DEF Text
    <3>3. Data(last) = <<>>
      BY <1>4, <3>2, DataFacts, Zenon
    <3>4. <<>> \in Seq(Event)
      OBVIOUS
    <3> QED BY <3>1, <3>3, <3>4, GivenFacts, Zenon
  <2> QED BY <2>1, <2>2
<1> HIDE DEF e
<1>6. Data(w \o f) = Given(s.events) \o Data(s.rest \o f)
  BY <1>2, SplitData, Zenon
<1>7. Given(events') = Given(s.events) \o Given(e)
  <2> HIDE DEF s
  <2> QED BY <1>1, <1>3, <1>5, GivenFacts, Zenon
<1>8. Given(events') = Data(w \o f)
  BY <1>1, <1>5, <1>6, <1>7, Zenon DEF last
<1>9. Whole' = Whole
  BY <1>1 DEF Whole
<1>10. AllDataArrives'
  <2>1. Given(events') = Data(Whole'.text \o Final(Whole'.held))
    BY <1>1, <1>8, <1>9, Zenon
  <2> QED BY <2>1, Zenon DEF AllDataArrives, Given, Data
<1> QED BY <1>1, <1>10 DEF IInv, CutsDoNotMatter

\* Every step keeps the invariant.
LEMMA StepIInv == IInv /\ [Next]_vars => IInv'
<1> SUFFICES ASSUME IInv, [Next]_vars PROVE IInv'
  OBVIOUS
<1>1. ASSUME NEW n \in 1..(MaxBytes - Len(sent)), NEW chunk \in [1..n -> Bytes], Receive(chunk)
      PROVE  IInv'
  <2>1. chunk \in Seq(Bytes)
    <3>1. n \in Nat
      BY ConstantsOK DEF IInv
    <3> QED BY <3>1
  <2> QED BY <1>1, <2>1, ReceiveIInv
<1>2. CASE End
  BY <1>2, EndIInv
<1>3. CASE UNCHANGED vars
  BY <1>3 DEF IInv, CutsDoNotMatter, AllDataArrives, Whole, vars
<1> QED BY <1>1, <1>2, <1>3 DEF Next

\* Wherever the network cuts the stream of _iter_sse_events, what has been
\* yielded and what is in the buffer are those of the bytes so far in one piece.
THEOREM CutsAreInvisible == Spec => []CutsDoNotMatter
<1>1. IInv => CutsDoNotMatter
  BY DEF IInv
<1> QED BY <1>1, InitIInv, StepIInv, PTL DEF Spec

\* When _iter_sse_events ends, wherever in a block, a line or a character, all
\* data lines have been yielded, once and in order.
THEOREM DataArrives == Spec => []AllDataArrives
<1>1. IInv => AllDataArrives
  BY DEF IInv
<1> QED BY <1>1, InitIInv, StepIInv, PTL DEF Spec

=============================================================================
