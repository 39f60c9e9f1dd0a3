---------------------------- MODULE RoutesProofs ----------------------------
(***************************************************************************)
(* Theorems about Routes, for any number of entries, providers and models. *)
(* The gateway knows of a provider what the last entry of its name says;   *)
(* commands choose the entries of the other names, and choosing twice is   *)
(* choosing once from what both choices have in common.                    *)
(***************************************************************************)
EXTENDS Routes, SequenceTheorems, WellFoundedInduction, TLAPS

-----------------------------------------------------------------------------
(* Sequences                                                               *)

\* Induction over the natural numbers, with a set in place of a predicate.
LEMMA SetInduction ==
  ASSUME NEW S, 0 \in S, \A n \in Nat : n \in S => n + 1 \in S
  PROVE  \A n \in Nat : n \in S
<1> DEFINE T == {n \in Nat : n \notin S}
<1>1. SUFFICES ASSUME T # {} PROVE FALSE
  OBVIOUS
<1>2. PICK x \in T : \A y \in T : ~ (<<y, x>> \in OpToRel(<, Nat))
  BY <1>1, NatLessThanWellFounded, WFMin, Zenon
<1>3. x \in Nat /\ x # 0
  OBVIOUS
<1>4. x - 1 \in Nat /\ x - 1 < x /\ (x - 1) + 1 = x
  BY <1>3
<1>5. <<x - 1, x>> \in OpToRel(<, Nat)
  BY <1>3, <1>4 DEF OpToRel
<1>6. x - 1 \notin T
  BY <1>2, <1>5
<1> QED BY <1>3, <1>4, <1>6

\* FlattenSeq has a value, and it is the one that its recursion says.
LEMMA FlattenRecursion ==
  ASSUME NEW P, NEW s \in Seq(Seq(P))
  PROVE  \E f :
           /\ f[0] = <<>>
           /\ \A n \in 1..Len(s) : f[n] = f[n - 1] \o s[n]
           /\ \A n \in 0..Len(s) : f[n] \in Seq(P)
           /\ FlattenSeq(s) = f[Len(s)]
<1> DEFINE Body(f, n) == [i \in 1..n |-> IF i = 1 THEN s[i] ELSE f[i - 1] \o s[i]]
           S == {n \in Nat : \E f : f = Body(f, n)}
<1>1. 0 \in S
  <2> DEFINE f == [i \in 1..0 |-> <<>>]
  <2>1. f = Body(f, 0)
    OBVIOUS
  <2> HIDE DEF f
  <2> QED BY <2>1
<1>2. ASSUME NEW n \in Nat, n \in S PROVE n + 1 \in S
  <2>1. PICK f : f = Body(f, n)
    BY <1>2
  <2> DEFINE g == [i \in 1..(n + 1) |->
                     IF i # n + 1 THEN f[i] ELSE IF i = 1 THEN s[i] ELSE f[n] \o s[i]]
  <2>2. ASSUME NEW i \in 1..(n + 1)
        PROVE  g[i] = IF i = 1 THEN s[i] ELSE g[i - 1] \o s[i]
    <3>1. CASE i = n + 1
      BY <3>1
    <3>2. CASE i # n + 1
      <4>1. i \in 1..n /\ g[i] = f[i]
        BY <3>2
      <4>2. f[i] = IF i = 1 THEN s[i] ELSE f[i - 1] \o s[i]
        BY <2>1, <4>1
      <4>3. i # 1 => g[i - 1] = f[i - 1]
        BY <4>1
      <4> HIDE DEF g
      <4> QED BY <4>1, <4>2, <4>3
    <3> QED BY <3>1, <3>2
  <2>3. g = [i \in 1..(n + 1) |-> g[i]]
    OBVIOUS
  <2> HIDE DEF g
  <2>4. g = Body(g, n + 1)
    BY <2>2, <2>3
  <2> HIDE DEF Body
  <2> QED BY <2>4
<1>3. Len(s) \in Nat
  OBVIOUS
<1>4. \E f : f = Body(f, Len(s))
  <2> HIDE DEF Body
  <2>1. \A n \in Nat : n \in S
    <3> HIDE DEF S
    <3> QED BY <1>1, <1>2, SetInduction
  <2> QED BY <1>3, <2>1
<1> DEFINE b == CHOOSE f : f = Body(f, Len(s))
<1>5. b = Body(b, Len(s))
  BY <1>4
<1>6. Len(s) # 0 => FlattenSeq(s) = b[Len(s)]
  BY DEF FlattenSeq
<1> HIDE DEF b
<1> DEFINE f == [n \in 0..Len(s) |-> IF n = 0 THEN <<>> ELSE b[n]]
<1>7. \A n \in 1..Len(s) : f[n] = f[n - 1] \o s[n]
  <2> SUFFICES ASSUME NEW n \in 1..Len(s) PROVE f[n] = f[n - 1] \o s[n]
    OBVIOUS
  <2>1. b[n] = IF n = 1 THEN s[n] ELSE b[n - 1] \o s[n]
    BY <1>5
  <2>2. f[n] = b[n] /\ f[n - 1] = IF n = 1 THEN <<>> ELSE b[n - 1]
    BY <1>3
  <2>3. s[n] \in Seq(P)
    OBVIOUS
  <2> HIDE DEF f
  <2>4. n = 1 => <<>> \o s[n] = s[n]
    BY <2>3, ConcatEmptySeq
  <2> QED BY <2>1, <2>2, <2>4
<1>8. f[0] = <<>> /\ FlattenSeq(s) = f[Len(s)]
  <2>1. CASE Len(s) = 0
    <3>1. FlattenSeq(s) = s /\ s = <<>>
      BY <2>1 DEF FlattenSeq
    <3> QED BY <2>1, <3>1
  <2>2. CASE Len(s) # 0
    BY <1>3, <1>6, <2>2
  <2> QED BY <2>1, <2>2
<1> HIDE DEF f
<1>9. \A n \in 0..Len(s) : f[n] \in Seq(P)
  <2> DEFINE R == {n \in Nat : n <= Len(s) => f[n] \in Seq(P)}
  <2>1. 0 \in R
    <3>1. <<>> \in Seq(P)
      OBVIOUS
    <3> QED BY <1>8, <3>1
  <2>2. ASSUME NEW n \in Nat, n \in R PROVE n + 1 \in R
    <3>1. CASE n + 1 <= Len(s)
      <4>1. f[n] \in Seq(P) /\ n + 1 \in 1..Len(s) /\ (n + 1) - 1 = n
        BY <1>3, <2>2, <3>1
      <4>2. s[n + 1] \in Seq(P)
        BY <4>1
      <4>3. f[n + 1] = f[n] \o s[n + 1]
        BY <1>7, <4>1
      <4>4. f[n + 1] \in Seq(P)
        BY <4>1, <4>2, <4>3
      <4> QED BY <4>4
    <3>2. CASE ~(n + 1 <= Len(s))
      BY <3>2
    <3> QED BY <3>1, <3>2
  <2>3. \A n \in Nat : n \in R
    <3> HIDE DEF R
    <3> QED BY <2>1, <2>2, SetInduction
  <2> QED BY <1>3, <2>3
<1> QED BY <1>7, <1>8, <1>9

\* One sequence more comes last.
LEMMA FlattenAppend ==
  ASSUME NEW P, NEW s \in Seq(Seq(P)), NEW x \in Seq(P)
  PROVE  FlattenSeq(Append(s, x)) = FlattenSeq(s) \o x
<1> DEFINE t == Append(s, x)
<1>1. /\ t \in Seq(Seq(P)) /\ Len(s) \in Nat /\ Len(t) = Len(s) + 1
      /\ t[Len(s) + 1] = x
      /\ \A n \in 1..Len(s) : t[n] = s[n]
  OBVIOUS
<1> HIDE DEF t
<1>2. PICK f : /\ f[0] = <<>>
               /\ \A n \in 1..Len(s) : f[n] = f[n - 1] \o s[n]
               /\ FlattenSeq(s) = f[Len(s)]
  BY FlattenRecursion
<1>3. PICK g : /\ g[0] = <<>>
               /\ \A n \in 1..Len(t) : g[n] = g[n - 1] \o t[n]
               /\ FlattenSeq(t) = g[Len(t)]
  BY <1>1, FlattenRecursion
<1> DEFINE S == {n \in Nat : n <= Len(s) => g[n] = f[n]}
<1>4. 0 \in S
  BY <1>2, <1>3
<1>5. ASSUME NEW n \in Nat, n \in S PROVE n + 1 \in S
  <2>1. CASE n + 1 <= Len(s)
    <3>1. g[n] = f[n] /\ n + 1 \in 1..Len(s) /\ n + 1 \in 1..Len(t) /\ (n + 1) - 1 = n
      BY <1>1, <1>5, <2>1
    <3>2. f[n + 1] = f[n] \o s[n + 1] /\ g[n + 1] = g[n] \o t[n + 1] /\ t[n + 1] = s[n + 1]
      BY <1>1, <1>2, <1>3, <3>1
    <3>3. g[n + 1] = f[n + 1]
      <4>1. g[n + 1] = f[n] \o s[n + 1]
        BY <3>1, <3>2, Zenon
      <4> QED BY <3>2, <4>1, Zenon
    <3> QED BY <3>3
  <2>2. CASE ~(n + 1 <= Len(s))
    BY <2>2
  <2> QED BY <2>1, <2>2
<1>6. \A n \in Nat : n \in S
  <2> HIDE DEF S
  <2> QED BY <1>4, <1>5, SetInduction
<1>7. g[Len(s)] = f[Len(s)]
  BY <1>1, <1>6
<1>8. Len(s) + 1 \in 1..Len(t) /\ (Len(s) + 1) - 1 = Len(s)
  BY <1>1
<1>9. FlattenSeq(t) = FlattenSeq(s) \o x
  BY <1>1, <1>2, <1>3, <1>7, <1>8
<1> QED BY <1>9 DEF t

\* Induction over the length of sequences.
LEMMA SeqInduction ==
  ASSUME NEW P, NEW Q, <<>> \in Q,
         \A s \in Seq(P), x \in P : s \in Q => Append(s, x) \in Q
  PROVE  \A s \in Seq(P) : s \in Q
<1> DEFINE S == {n \in Nat : \A s \in Seq(P) : Len(s) = n => s \in Q}
<1>1. 0 \in S
  <2>1. \A s \in Seq(P) : Len(s) = 0 => s = <<>>
    OBVIOUS
  <2> QED BY <2>1
<1>2. ASSUME NEW n \in Nat, n \in S PROVE n + 1 \in S
  <2> SUFFICES ASSUME NEW s \in Seq(P), Len(s) = n + 1 PROVE s \in Q
    OBVIOUS
  <2>1. PICK t \in Seq(P), x \in P : Len(t) = n /\ s = Append(t, x)
    <3> DEFINE t == SubSeq(s, 1, n)
    <3>1. t \in Seq(P) /\ Len(t) = n /\ s[n + 1] \in P /\ s = Append(t, s[n + 1])
      OBVIOUS
    <3> HIDE DEF t
    <3> QED BY <3>1
  <2> QED BY <1>2, <2>1
<1>3. \A n \in Nat : n \in S
  <2> HIDE DEF S
  <2> QED BY <1>1, <1>2, SetInduction
<1>4. \A s \in Seq(P) : Len(s) \in Nat
  OBVIOUS
<1> QED BY <1>3, <1>4

\* Sequences with the same elements are the same.
LEMMA SameSequence ==
  ASSUME NEW P, NEW s \in Seq(P), NEW t \in Seq(P), Len(t) = Len(s),
         \A i \in 1..Len(s) : t[i] = s[i]
  PROVE  t = s
OBVIOUS

\* What Those gives, an element at a time.
LEMMA ThoseFacts ==
  ASSUME NEW P, NEW S
  PROVE  /\ Those(<<>>, S) = <<>>
         /\ \A s \in Seq(P) : Those(s, S) \in Seq(P \cap S)
         /\ \A s \in Seq(P), x \in P :
              /\ x \in S => Those(Append(s, x), S) = Append(Those(s, S), x)
              /\ x \notin S => Those(Append(s, x), S) = Those(s, S)
<1> DEFINE R == P \cap S
           One(x) == IF x \in S THEN <<x>> ELSE <<>>
           M(s) == [i \in DOMAIN s |-> One(s[i])]
<1>1. Those(<<>>, S) = <<>>
  BY DEF Those, FlattenSeq
<1>2. \A s : Those(s, S) = FlattenSeq(M(s))
  BY DEF Those
<1>3. \A x \in P : One(x) \in Seq(R)
  <2> SUFFICES ASSUME NEW x \in P PROVE One(x) \in Seq(R)
    OBVIOUS
  <2>1. CASE x \in S
    <3>1. x \in R
      BY <2>1
    <3> HIDE DEF R
    <3> QED BY <2>1, <3>1
  <2>2. CASE x \notin S
    BY <2>2
  <2> QED BY <2>1, <2>2
<1>4. ASSUME NEW s \in Seq(P) PROVE M(s) \in Seq(Seq(R))
  <2>1. DOMAIN s = 1..Len(s) /\ Len(s) \in Nat /\ \A i \in 1..Len(s) : s[i] \in P
    OBVIOUS
  <2>2. \A i \in 1..Len(s) : One(s[i]) \in Seq(R)
    BY <1>3, <2>1
  <2> DEFINE T == Seq(R)
  <2> HIDE DEF One, T
  <2>3. M(s) \in Seq(T)
    BY <2>1, <2>2 DEF T
  <2> QED BY <2>3 DEF T
<1>5. ASSUME NEW s \in Seq(P), NEW x \in P
      PROVE  M(Append(s, x)) = Append(M(s), One(x))
  <2>1. DOMAIN s = 1..Len(s) /\ Len(s) \in Nat
    OBVIOUS
  <2>2. /\ DOMAIN Append(s, x) = 1..(Len(s) + 1)
        /\ \A i \in 1..Len(s) : Append(s, x)[i] = s[i]
        /\ Append(s, x)[Len(s) + 1] = x
    OBVIOUS
  <2> HIDE DEF One
  <2> DEFINE a == M(s)
             b == M(Append(s, x))
             T == Seq(R)
             y == One(x)
  <2>3. a \in Seq(T) /\ Len(a) = Len(s) /\ \A i \in 1..Len(s) : a[i] = One(s[i])
    <3>1. M(s) \in Seq(Seq(R))
      BY <1>4
    <3> QED BY <2>1, <3>1
  <2>4. /\ b = [i \in 1..(Len(s) + 1) |-> b[i]]
        /\ \A i \in 1..Len(s) : b[i] = One(s[i])
        /\ b[Len(s) + 1] = y
    BY <2>1, <2>2
  <2>5. y \in T
    BY <1>3
  <2> HIDE DEF a, b, y, T
  <2> DEFINE c == Append(a, y)
  <2>6. /\ c \in Seq(T) /\ Len(c) = Len(s) + 1
        /\ \A i \in 1..Len(s) : c[i] = a[i]
        /\ c[Len(s) + 1] = y
    BY <2>3, <2>5
  <2> HIDE DEF c
  <2>7. \A i \in 1..(Len(s) + 1) : b[i] = c[i]
    <3>1. \A i \in 1..(Len(s) + 1) : i \in 1..Len(s) \/ i = Len(s) + 1
      BY <2>1
    <3> QED BY <2>3, <2>4, <2>6, <3>1
  <2>8. \A i \in 1..(Len(s) + 1) : c[i] \in T
    BY <2>6
  <2>9. b \in Seq(T) /\ Len(b) = Len(s) + 1
    BY <2>1, <2>4, <2>7, <2>8
  <2>10. b = c
    BY <2>6, <2>7, <2>9, SameSequence
  <2> QED BY <2>10 DEF a, b, c, y
<1>6. ASSUME NEW s \in Seq(P) PROVE Those(s, S) \in Seq(R)
  <2>1. M(s) \in Seq(Seq(R))
    BY <1>4
  <2> HIDE DEF M, R
  <2>2. PICK f : (\A n \in 0..Len(M(s)) : f[n] \in Seq(R)) /\ FlattenSeq(M(s)) = f[Len(M(s))]
    BY <2>1, FlattenRecursion
  <2>3. Len(M(s)) \in 0..Len(M(s))
    BY <2>1
  <2> QED BY <1>2, <2>2, <2>3
<1>7. ASSUME NEW s \in Seq(P), NEW x \in P
      PROVE  /\ x \in S => Those(Append(s, x), S) = Append(Those(s, S), x)
             /\ x \notin S => Those(Append(s, x), S) = Those(s, S)
  <2>1. M(s) \in Seq(Seq(R)) /\ One(x) \in Seq(R)
    BY <1>3, <1>4
  <2>2. FlattenSeq(Append(M(s), One(x))) = FlattenSeq(M(s)) \o One(x)
    <3> HIDE DEF M, One, R
    <3> QED BY <2>1, FlattenAppend
  <2>3. Those(Append(s, x), S) = Those(s, S) \o One(x)
    <3> HIDE DEF M, One
    <3> QED BY <1>2, <1>5, <2>2
  <2>4. Those(s, S) \in Seq(P)
    BY <1>6
  <2>5. \A t \in Seq(P) : t \o <<x>> = Append(t, x) /\ t \o <<>> = t
    BY ConcatEmptySeq
  <2> QED BY <2>3, <2>4, <2>5
<1> QED BY <1>1, <1>6, <1>7

LEMMA ThoseAppend ==
  ASSUME NEW P, NEW S, NEW s \in Seq(P), NEW x \in P
  PROVE  /\ x \in S => Those(Append(s, x), S) = Append(Those(s, S), x)
         /\ x \notin S => Those(Append(s, x), S) = Those(s, S)
<1>1. \A t \in Seq(P), y \in P :
        /\ y \in S => Those(Append(t, y), S) = Append(Those(t, S), y)
        /\ y \notin S => Those(Append(t, y), S) = Those(t, S)
  BY ThoseFacts
<1> QED BY <1>1, Zenon

LEMMA ThoseTyped ==
  ASSUME NEW P, NEW S, NEW s \in Seq(P)
  PROVE  Those(s, S) \in Seq(P \cap S) /\ Those(s, S) \in Seq(P)
<1>1. Those(s, S) \in Seq(P \cap S)
  BY ThoseFacts, Zenon
<1> QED BY <1>1

LEMMA ThoseEmpty == \A S : Those(<<>>, S) = <<>>
BY DEF Those, FlattenSeq

\* Of the same elements two sets make the same.
LEMMA ThoseAgree ==
  ASSUME NEW P, NEW A, NEW B, NEW s \in Seq(P), \A x \in P : x \in A <=> x \in B
  PROVE  Those(s, A) = Those(s, B)
<1>1. \A i \in DOMAIN s : s[i] \in A <=> s[i] \in B
  OBVIOUS
<1>2. [i \in DOMAIN s |-> IF s[i] \in A THEN <<s[i]>> ELSE <<>>]
        = [i \in DOMAIN s |-> IF s[i] \in B THEN <<s[i]>> ELSE <<>>]
  BY <1>1, Zenon
<1> QED BY <1>2, Zenon DEF Those

\* To choose twice is to choose those in both sets.
LEMMA ThoseTwice ==
  ASSUME NEW P, NEW A, NEW B
  PROVE  \A s \in Seq(P) : Those(Those(s, A), B) = Those(s, A \cap B)
<1> DEFINE C == A \cap B
           Q == {s \in Seq(P) : Those(Those(s, A), B) = Those(s, C)}
<1>1. <<>> \in Q
  BY ThoseEmpty
<1>2. ASSUME NEW s \in Seq(P), NEW x \in P, s \in Q PROVE Append(s, x) \in Q
  <2> DEFINE t == Those(s, A)
  <2>1. /\ x \in A => Those(Append(s, x), A) = Append(t, x)
        /\ x \notin A => Those(Append(s, x), A) = t
    BY ThoseAppend, Zenon
  <2>6. /\ x \in C => Those(Append(s, x), C) = Append(Those(s, C), x)
        /\ x \notin C => Those(Append(s, x), C) = Those(s, C)
    <3> HIDE DEF C
    <3> QED BY ThoseAppend, Zenon
  <2>2. t \in Seq(P)
    BY ThoseTyped, Zenon
  <2>3. /\ x \in B => Those(Append(t, x), B) = Append(Those(t, B), x)
        /\ x \notin B => Those(Append(t, x), B) = Those(t, B)
    <3> HIDE DEF t
    <3> QED BY <2>2, ThoseAppend, Zenon
  <2>4. Those(Those(s, A), B) = Those(s, C) /\ Append(s, x) \in Seq(P)
    BY <1>2
  <2>5. x \in C <=> x \in A /\ x \in B
    OBVIOUS
  <2> HIDE DEF C
  <2>7. Those(Those(Append(s, x), A), B) = Those(Append(s, x), C)
    BY <2>1, <2>3, <2>4, <2>5, <2>6, Zenon
  <2> QED BY <2>4, <2>7
<1>3. \A s \in Seq(P) : s \in Q
  <2> HIDE DEF Q
  <2> QED BY <1>1, <1>2, SeqInduction, Zenon
<1> QED BY <1>3

-----------------------------------------------------------------------------
(* Types                                                                   *)

Typed ==
  /\ entries \in Seq(Entries)
  /\ models \in [Models -> Values \cup {None}]

LEMMA OthersTyped ==
  ASSUME Typed, NEW p
  PROVE  Others(p) \in Seq(Entries)
BY ThoseTyped, Zenon DEF Typed, Others

LEMMA NewEntryTyped ==
  ASSUME NEW p \in Providers, NEW url \in {"good", "bad"}
  PROVE  NewEntry(p, url) \in Entries
BY DEF NewEntry, Entries

LEMMA ValueTyped ==
  ASSUME NEW m, NEW p \in Providers, NEW u \in Upstreams \cup {None}
  PROVE  Value(m, p, u) \in Values
<1> DEFINE w == IF u = m THEN None ELSE u
           U == Models \cup Upstreams \cup {"", None}
           item == [provider |-> p, isList |-> FALSE, upstreams |-> <<w>>]
<1>1. w \in U
  OBVIOUS
<1> HIDE DEF w, U
<1>2. <<w>> \in Seq(U)
  BY <1>1
<1>3. item \in Items
  BY <1>2 DEF Items, U
<1> HIDE DEF item
<1>4. <<item>> \in Seq(Items)
  BY <1>3
<1> QED BY <1>4 DEF Value, Values, item, w

LEMMA TypedAlways == Spec => []Typed
<1>1. Init => Typed
  BY DEF Init, Typed
<1>2. Typed /\ [Next]_vars => Typed'
  <2> SUFFICES ASSUME Typed, [Next]_vars PROVE Typed'
    OBVIOUS
  <2>1. ASSUME NEW p \in Providers, NEW url \in {"good", "bad"}, ProviderAdd(p, url)
        PROVE  Typed'
    <3>1. entries' = Append(Others(p), NewEntry(p, url)) /\ models' = models
      BY <2>1 DEF ProviderAdd, SaveProviders
    <3>2. Others(p) \in Seq(Entries) /\ NewEntry(p, url) \in Entries
      BY OthersTyped, NewEntryTyped, Zenon
    <3>3. Append(Others(p), NewEntry(p, url)) \in Seq(Entries)
      BY <3>2
    <3> QED BY <3>1, <3>3 DEF Typed
  <2>2. ASSUME NEW p \in Providers, ProviderRemove(p)
        PROVE  Typed'
    <3>1. entries' = Others(p) /\ models' = models
      BY <2>2 DEF ProviderRemove, SaveProviders
    <3> QED BY <3>1, OthersTyped DEF Typed
  <2>3. ASSUME NEW m \in Models, NEW v \in Values \cup {None},
               models' = [models EXCEPT ![m] = v], entries' = entries
        PROVE  Typed'
    BY <2>3 DEF Typed
  <2>4. ASSUME NEW m \in Models, NEW p \in Providers, NEW u \in Upstreams \cup {None}, ModelAdd(m, p, u)
        PROVE  Typed'
    <3>1. Value(m, p, u) \in Values
      BY ValueTyped
    <3> QED BY <2>3, <2>4, <3>1 DEF ModelAdd
  <2>5. ASSUME NEW e \in EntryForms, WriteEntry(e)
        PROVE  Typed'
    <3>1. e \in Entries
      BY ConstantsOK
    <3>2. Append(entries, e) \in Seq(Entries)
      BY <3>1 DEF Typed
    <3> QED BY <2>5, <3>2 DEF WriteEntry, Typed
  <2>6. ASSUME NEW m \in Models, ModelRemove(m)
        PROVE  Typed'
    BY <2>3, <2>6 DEF ModelRemove
  <2>7. ASSUME NEW m \in Models, NEW v \in ValueForms, WriteModel(m, v)
        PROVE  Typed'
    BY <2>3, <2>7, ConstantsOK DEF WriteModel
  <2>8. CASE UNCHANGED vars
    BY <2>8 DEF vars, Typed
  <2> QED BY <2>1, <2>2, <2>4, <2>5, <2>6, <2>7, <2>8 DEF Next
<1> QED BY <1>1, <1>2, PTL DEF Spec

\* Every binding has a provider and a model to ask it for.
LEMMA BindingsFromTyped ==
  ASSUME NEW m \in Models,
         NEW item \in Items
  PROVE  BindingsFrom(item, m) \in Seq(BindingSet)
<1> DEFINE U == Models \cup Upstreams \cup {"", None}
           written == IF item.isList THEN Those(item.upstreams, Models \cup Upstreams \cup {""})
                                     ELSE item.upstreams
           B(i) == [provider |-> item.provider,
                    upstream |-> IF written[i] \in {"", None} THEN m ELSE written[i]]
<1>1. item.upstreams \in Seq(U) /\ item.provider \in Providers \cup {""}
  BY DEF Items
<1> HIDE DEF B
<1>2. written \in Seq(U)
  <2>1. Those(item.upstreams, Models \cup Upstreams \cup {""}) \in Seq(U)
    <3> HIDE DEF U
    <3> QED BY <1>1, ThoseTyped, Zenon
  <2> HIDE DEF U
  <2> QED BY <1>1, <2>1
<1> HIDE DEF written
<1>3. DOMAIN written = 1..Len(written) /\ Len(written) \in Nat /\ \A i \in 1..Len(written) : written[i] \in U
  <2> HIDE DEF U
  <2> QED BY <1>2
<1>4. CASE item.provider # ""
  <2>1. \A i \in 1..Len(written) : B(i) \in BindingSet
    BY <1>1, <1>3, <1>4 DEF BindingSet, B
  <2>2. BindingsFrom(item, m) = [i \in 1..Len(written) |-> B(i)]
    BY <1>3, <1>4 DEF BindingsFrom, written, B
  <2> DEFINE n == Len(written)
  <2>3. n \in Nat /\ \A i \in 1..n : B(i) \in BindingSet
    BY <1>3, <2>1
  <2> HIDE DEF n
  <2>4. [i \in 1..n |-> B(i)] \in Seq(BindingSet)
    BY <2>3
  <2> QED BY <2>2, <2>4 DEF n
<1>5. CASE item.provider = ""
  <2>1. BindingsFrom(item, m) = <<>>
    BY <1>5 DEF BindingsFrom
  <2> QED BY <2>1
<1> QED BY <1>4, <1>5

LEMMA BindingsTyped ==
  ASSUME Typed, NEW m \in Models
  PROVE  Bindings(m) \in Seq(BindingSet)
<1>1. CASE models[m] = None
  BY <1>1 DEF Bindings
<1>2. CASE models[m] # None
  <2> DEFINE v == models[m]
             I == Items
             t == [i \in DOMAIN v |-> BindingsFrom(v[i], m)]
             T == Seq(BindingSet)
  <2>1. v \in Seq(I)
    BY <1>2 DEF Typed, Values
  <2>2. \A x \in I : BindingsFrom(x, m) \in T
    BY BindingsFromTyped
  <2>3. Bindings(m) = FlattenSeq(t)
    BY <1>2 DEF Bindings
  <2> HIDE DEF v, I, T
  <2>4. DOMAIN v = 1..Len(v) /\ Len(v) \in Nat /\ \A i \in 1..Len(v) : v[i] \in I
    BY <2>1
  <2>5. t \in Seq(T)
    BY <2>2, <2>4
  <2> HIDE DEF t
  <2>6. t \in Seq(Seq(BindingSet)) /\ Len(t) \in Nat
    BY <2>5 DEF T
  <2>7. PICK f : /\ \A n \in 0..Len(t) : f[n] \in Seq(BindingSet)
                 /\ FlattenSeq(t) = f[Len(t)]
    BY <2>6, FlattenRecursion
  <2> QED BY <2>3, <2>6, <2>7
<1> QED BY <1>1, <1>2

-----------------------------------------------------------------------------
(* Warnings                                                                *)

\* start warns of an entry exactly when the daemon will not use it for what is
\* written in it, whatever has been edited and added before.
THEOREM WarningsAgree == Spec => []WarningsAreRight
<1>1. Typed => WarningsAreRight
  <2> SUFFICES ASSUME Typed, NEW i \in DOMAIN entries,
                      entries[i].id = None, entries[i].health = None
               PROVE  Warned(entries[i]) <=> Name(entries[i]) = None \/ IsDown(entries[i])
    BY DEF WarningsAreRight
  <2>1. entries[i] \in Entries
    BY DEF Typed
  <2>2. entries[i].url \in {"good", "bad", None}
    BY <2>1 DEF Entries
  <2> QED BY <2>2, ConstantsOK DEF Warned, Name, IsDown
<1> QED BY <1>1, TypedAlways, PTL

-----------------------------------------------------------------------------
(* Edits                                                                   *)

\* The entries of a provider after provider add.
LEMMA NamedAfterAdd ==
  ASSUME Typed, NEW p \in Providers, NEW url \in {"good", "bad"}, ProviderAdd(p, url), NEW q \in Providers
  PROVE  /\ q = p => Named(p)' # <<>> /\ Entry(p)' = NewEntry(p, url)
         /\ q # p => Named(q)' = Named(q)
<1> DEFINE N == {e \in Entries : Name(e) = q}
           O == {e \in Entries : e.name # p}
           e1 == NewEntry(p, url)
<1>1. entries \in Seq(Entries) /\ Others(p) = Those(entries, O) /\ Others(p) \in Seq(Entries)
  BY OthersTyped, Zenon DEF Typed, Others
<1>2. e1 \in Entries /\ Name(e1) = p
  BY NewEntryTyped, ConstantsOK DEF NewEntry, Name
<1>3. entries' = Append(Others(p), e1) /\ Named(q)' = Those(entries', N) /\ Named(q) = Those(entries, N)
  BY DEF ProviderAdd, SaveProviders, Named
<1> HIDE DEF e1
<1>4. CASE q = p
  <2>1. e1 \in N
    BY <1>2, <1>4
  <2> DEFINE s == Those(Others(p), N)
  <2>2. Those(Append(Others(p), e1), N) = Append(s, e1)
    <3> DEFINE o == Others(p)
    <3>1. o \in Seq(Entries) /\ e1 \in Entries
      BY <1>1, <1>2
    <3> HIDE DEF N, o
    <3>2. e1 \in N => Those(Append(o, e1), N) = Append(Those(o, N), e1)
      BY <3>1, ThoseAppend
    <3> QED BY <2>1, <3>2 DEF o
  <2>3. s \in Seq(Entries)
    <3> HIDE DEF N
    <3> QED BY <1>1, ThoseTyped, Zenon
  <2> HIDE DEF s, N
  <2> DEFINE E == Entries
  <2>5. e1 \in E /\ s \in Seq(E)
    BY <1>2, <2>3
  <2> HIDE DEF E
  <2>6. Len(s) \in Nat /\ Len(Append(s, e1)) = Len(s) + 1 /\ Append(s, e1)[Len(s) + 1] = e1
    BY <2>5
  <2>4. Append(s, e1) # <<>> /\ Last(Append(s, e1)) = e1
    BY <2>6 DEF Last
  <2> QED BY <1>3, <1>4, <2>2, <2>4 DEF Entry, e1
<1>5. CASE q # p
  <2>1. e1 \notin N
    BY <1>2, <1>5
  <2>2. \A e \in Entries : e \in O \cap N <=> e \in N
    BY <1>5, ConstantsOK DEF Name
  <2> HIDE DEF N, O
  <2>3. Those(Append(Others(p), e1), N) = Those(Others(p), N)
    BY <1>1, <1>2, <2>1, ThoseAppend, Zenon
  <2>4. Those(Others(p), N) = Those(entries, O \cap N)
    BY <1>1, ThoseTwice
  <2>5. Those(entries, O \cap N) = Those(entries, N)
    <3> DEFINE C == O \cap N
    <3>1. \A e \in Entries : e \in C <=> e \in N
      BY <2>2
    <3> HIDE DEF C
    <3>2. Those(entries, C) = Those(entries, N)
      BY <1>1, <3>1, ThoseAgree
    <3> QED BY <3>2 DEF C
  <2> QED BY <1>3, <1>5, <2>3, <2>4, <2>5
<1> QED BY <1>4, <1>5

\* And after provider remove.
LEMMA NamedAfterRemove ==
  ASSUME Typed, NEW p \in Providers, ProviderRemove(p), NEW q \in Providers
  PROVE  /\ q = p => \A i \in DOMAIN Named(p)' : Named(p)'[i].name = None
         /\ q # p => Named(q)' = Named(q)
<1> DEFINE N == {e \in Entries : Name(e) = q}
           O == {e \in Entries : e.name # p}
           C == O \cap N
<1>1. entries \in Seq(Entries) /\ Others(p) = Those(entries, O)
  BY DEF Typed, Others
<1>2. entries' = Others(p) /\ Named(q)' = Those(entries', N) /\ Named(q) = Those(entries, N)
  BY DEF ProviderRemove, SaveProviders, Named
<1>3. Those(Others(p), N) = Those(entries, C)
  <2> HIDE DEF N, O
  <2> QED BY <1>1, ThoseTwice
<1>4. CASE q = p
  <2>1. \A e \in Entries \cap C : e.name = None
    BY <1>4 DEF Name
  <2>2. Those(entries, C) \in Seq(Entries \cap C)
    <3> HIDE DEF C
    <3> QED BY <1>1, ThoseTyped, Zenon
  <2> DEFINE D == Entries \cap C
             s == Those(entries, C)
  <2> HIDE DEF D, s
  <2>3. \A i \in DOMAIN s : s[i] \in D
    BY <2>2 DEF D, s
  <2> QED BY <1>2, <1>3, <1>4, <2>1, <2>3 DEF D, s
<1>5. CASE q # p
  <2>1. \A e \in Entries : e \in C <=> e \in N
    BY <1>5, ConstantsOK DEF Name
  <2> HIDE DEF N, C
  <2>2. Those(entries, C) = Those(entries, N)
    BY <1>1, <2>1, ThoseAgree
  <2> QED BY <1>2, <1>3, <1>5, <2>2
<1> QED BY <1>4, <1>5

\* The routes of a model with a value as model add writes it.
LEMMA RoutesAfterAdd ==
  ASSUME Typed', NEW m \in Models, NEW p \in Providers, NEW u \in Upstreams \cup {None},
         models'[m] = Value(m, p, u)
  PROVE  Routes(m)' = IF Usable(p)' THEN <<[provider |-> p, upstream |-> IF u = None THEN m ELSE u]>>
                                    ELSE <<>>
<1> DEFINE w == IF u = m THEN None ELSE u
           item == [provider |-> p, isList |-> FALSE, upstreams |-> <<w>>]
           b == [provider |-> p, upstream |-> IF u = None THEN m ELSE u]
           good == {x \in BindingSet : Usable(x.provider)'}
<1>1. b \in BindingSet
  BY DEF BindingSet
<1>2. BindingsFrom(item, m) = <<b>>
  <2>1. item.upstreams = <<w>> /\ item.provider = p /\ ~item.isList /\ p # ""
    BY ConstantsOK
  <2>2. BindingsFrom(item, m)
          = [i \in DOMAIN <<w>> |-> [provider |-> p, upstream |-> IF <<w>>[i] \in {"", None} THEN m ELSE <<w>>[i]]]
    <3> HIDE DEF item, w
    <3> QED BY <2>1 DEF BindingsFrom
  <2>3. (IF w \in {"", None} THEN m ELSE w) = IF u = None THEN m ELSE u
    BY ConstantsOK
  <2> HIDE DEF w
  <2>4. [i \in DOMAIN <<w>> |-> [provider |-> p, upstream |-> IF <<w>>[i] \in {"", None} THEN m ELSE <<w>>[i]]]
          = <<[provider |-> p, upstream |-> IF w \in {"", None} THEN m ELSE w]>>
    <3>1. DOMAIN <<w>> = 1..1 /\ \A i \in 1..1 : <<w>>[i] = w
      OBVIOUS
    <3> DEFINE y == [provider |-> p, upstream |-> IF w \in {"", None} THEN m ELSE w]
    <3>2. [i \in DOMAIN <<w>> |-> [provider |-> p, upstream |-> IF <<w>>[i] \in {"", None} THEN m ELSE <<w>>[i]]]
            = [i \in 1..1 |-> y]
      BY <3>1
    <3> HIDE DEF y
    <3>3. [i \in 1..1 |-> y] = <<y>>
      OBVIOUS
    <3> QED BY <3>2, <3>3 DEF y
  <2> QED BY <2>2, <2>3, <2>4
<1>3. Bindings(m)' = <<b>>
  <2>1. models'[m] = <<item>> /\ models'[m] # None
    <3>1. Value(m, p, u) \in Values
      BY ValueTyped
    <3> QED BY <3>1, ConstantsOK DEF Value
  <2> HIDE DEF item, b
  <2> DEFINE v == <<item>>
             t == [i \in DOMAIN v |-> BindingsFrom(v[i], m)]
  <2>2. Bindings(m)' = FlattenSeq(t)
    BY <2>1 DEF Bindings
  <2>3. t = <<<<b>>>>
    BY <1>2
  <2> HIDE DEF t
  <2>4. FlattenSeq(<<<<b>>>>) = <<b>>
    <3> DEFINE B == BindingSet
    <3>1. <<>> \in Seq(Seq(B)) /\ <<b>> \in Seq(B)
      BY <1>1
    <3>2. FlattenSeq(Append(<<>>, <<b>>)) = FlattenSeq(<<>>) \o <<b>>
      BY <3>1, FlattenAppend
    <3>3. FlattenSeq(<<>>) = <<>>
      BY DEF FlattenSeq
    <3>4. Append(<<>>, <<b>>) = <<<<b>>>> /\ <<>> \o <<b>> = <<b>>
      BY <3>1
    <3> QED BY <3>2, <3>3, <3>4
  <2> QED BY <2>2, <2>3, <2>4
<1>4. b \in good <=> Usable(p)'
  BY <1>1
<1>5. /\ b \in good => Those(<<b>>, good) = <<b>>
      /\ b \notin good => Those(<<b>>, good) = <<>>
  <2> HIDE DEF good, b
  <2> DEFINE B == BindingSet
  <2> HIDE DEF B
  <2>1. b \in B /\ <<>> \in Seq(B)
    BY <1>1 DEF B
  <2>2. /\ b \in good => Those(Append(<<>>, b), good) = Append(Those(<<>>, good), b)
        /\ b \notin good => Those(Append(<<>>, b), good) = Those(<<>>, good)
    BY <2>1, ThoseAppend
  <2>3. Append(<<>>, b) = <<b>>
    BY <2>1
  <2> QED BY <2>2, <2>3, ThoseEmpty
<1>6. Routes(m)' = Those(Bindings(m)', good)
  BY DEF Routes
<1> HIDE DEF good
<1> QED BY <1>3, <1>4, <1>5, <1>6

\* Edits take effect: what was added is used as it was added, what was removed
\* is not, whatever entries and values, of users and of older versions, there
\* were before.
THEOREM EditsAreObeyed == Spec => EditsTakeEffect
<1> DEFINE Effect ==
      /\ \A p \in Providers :
           /\ ProviderAdd(p, "good") => Usable(p)' /\ Entry(p)' = NewEntry(p, "good")
           /\ ProviderRemove(p) => \A i \in DOMAIN Named(p)' : Named(p)'[i].name = None
      /\ \A m \in Models :
           /\ ModelRemove(m) => Routes(m)' = <<>>
           /\ \A p \in Providers, u \in Upstreams \cup {None} :
                ModelAdd(m, p, u) =>
                  Routes(m)' =
                    IF Usable(p) THEN <<[provider |-> p, upstream |-> IF u = None THEN m ELSE u]>>
                                 ELSE <<>>
<1>1. ASSUME Typed, Typed' PROVE Effect
  <2>1. ASSUME NEW p \in Providers, ProviderAdd(p, "good")
        PROVE  Usable(p)' /\ Entry(p)' = NewEntry(p, "good")
    <3>1. Named(p)' # <<>> /\ Entry(p)' = NewEntry(p, "good")
      BY <1>1, <2>1, NamedAfterAdd
    <3>2. ~IsDown(NewEntry(p, "good"))
      BY ConstantsOK DEF IsDown, NewEntry
    <3> QED BY <3>1, <3>2 DEF Usable
  <2>2. ASSUME NEW p \in Providers, ProviderRemove(p)
        PROVE  \A i \in DOMAIN Named(p)' : Named(p)'[i].name = None
    BY <1>1, <2>2, NamedAfterRemove
  <2>3. ASSUME NEW m \in Models, ModelRemove(m)
        PROVE  Routes(m)' = <<>>
    <3>1. models'[m] = None
      BY <1>1, <2>3 DEF ModelRemove, Typed
    <3>2. Bindings(m)' = <<>>
      BY <3>1 DEF Bindings
    <3> QED BY <3>2, ThoseEmpty DEF Routes
  <2>4. ASSUME NEW m \in Models, NEW p \in Providers, NEW u \in Upstreams \cup {None}, ModelAdd(m, p, u)
        PROVE  Routes(m)' =
                 IF Usable(p) THEN <<[provider |-> p, upstream |-> IF u = None THEN m ELSE u]>>
                              ELSE <<>>
    <3>1. models'[m] = Value(m, p, u) /\ entries' = entries
      BY <1>1, <2>4 DEF ModelAdd, Typed
    <3>2. Usable(p)' = Usable(p)
      BY <3>1 DEF Usable, Named, Entry
    <3> QED BY <1>1, <3>1, <3>2, RoutesAfterAdd
  <2> QED BY <2>1, <2>2, <2>3, <2>4
<1>2. Typed /\ Typed' => [Effect]_vars
  BY <1>1
<1>3. Spec => [][Effect]_vars
  BY <1>2, TypedAlways, PTL
<1> QED BY <1>3 DEF EditsTakeEffect

-----------------------------------------------------------------------------
(* Routes of the others                                                    *)

\* The routes but those to p are the bindings but those to p whose provider is
\* usable.
LEMMA RoutesButFacts ==
  ASSUME Typed, NEW m \in Models, NEW p
  PROVE  RoutesBut(m, p)
           = Those(Bindings(m), {b \in BindingSet : Usable(b.provider)}
                                \cap {b \in BindingSet : b.provider # p})
<1> DEFINE A == {b \in BindingSet : Usable(b.provider)}
           B == {b \in BindingSet : b.provider # p}
           s == Bindings(m)
<1>1. s \in Seq(BindingSet)
  BY BindingsTyped
<1>2. RoutesBut(m, p) = Those(Those(s, A), B)
  BY DEF RoutesBut, Routes
<1> HIDE DEF A, B, s
<1>3. Those(Those(s, A), B) = Those(s, A \cap B)
  BY <1>1, ThoseTwice
<1>4. RoutesBut(m, p) = Those(s, A \cap B)
  BY <1>2, <1>3
<1> QED BY <1>4 DEF A, B, s

\* A command that names one provider or model leaves the routes of the others,
\* and their order, as they are.
THEOREM OthersAreLeftAlone == Spec => OtherRoutesStay
<1> DEFINE Stay ==
      /\ \A p \in Providers :
           (entries' # entries /\ \E url \in {"good", "bad"} : ProviderAdd(p, url) \/ ProviderRemove(p))
             => \A m \in Models : RoutesBut(m, p)' = RoutesBut(m, p)
      /\ \A m \in Models :
           (ModelRemove(m) \/ \E p \in Providers, u \in Upstreams \cup {None} : ModelAdd(m, p, u))
             => \A n \in Models \ {m} : Routes(n)' = Routes(n)
<1>1. ASSUME Typed, Typed' PROVE Stay
  <2>1. ASSUME NEW p \in Providers, NEW url \in {"good", "bad"}, ProviderAdd(p, url) \/ ProviderRemove(p),
               NEW m \in Models
        PROVE  RoutesBut(m, p)' = RoutesBut(m, p)
    <3>1. \A q \in Providers : q # p => Named(q)' = Named(q)
      BY <1>1, <2>1, NamedAfterAdd, NamedAfterRemove
    <3>2. \A q \in Providers : q # p => (Usable(q)' <=> Usable(q))
      BY <3>1 DEF Usable, Entry
    <3> DEFINE A == {b \in BindingSet : Usable(b.provider)} \cap {b \in BindingSet : b.provider # p}
               B == {b \in BindingSet : Usable(b.provider)'} \cap {b \in BindingSet : b.provider # p}
               s == Bindings(m)
    <3>3. \A b \in BindingSet : b \in B <=> b \in A
      BY <3>2 DEF BindingSet
    <3>4. Bindings(m)' = s /\ s \in Seq(BindingSet)
      <4>1. models' = models
        BY <2>1 DEF ProviderAdd, ProviderRemove, SaveProviders
      <4> QED BY <1>1, <4>1, BindingsTyped DEF Bindings
    <3>5. RoutesBut(m, p) = Those(s, A)
      BY <1>1, RoutesButFacts
    <3>6. RoutesBut(m, p)' = Those(Bindings(m)', B)
      <4>1. (Typed => RoutesBut(m, p) = Those(Bindings(m), A))'
        BY RoutesButFacts, PTL
      <4> QED BY <1>1, <4>1
    <3> HIDE DEF A, B, s
    <3>7. Those(s, B) = Those(s, A)
      BY <3>3, <3>4, ThoseAgree
    <3> QED BY <3>4, <3>5, <3>6, <3>7
  <2>2. ASSUME NEW m \in Models, NEW n \in Models \ {m},
               ModelRemove(m) \/ \E p \in Providers, u \in Upstreams \cup {None} : ModelAdd(m, p, u)
        PROVE  Routes(n)' = Routes(n)
    <3>1. models'[n] = models[n] /\ entries' = entries
      BY <1>1, <2>2 DEF ModelRemove, ModelAdd, Typed
    <3> QED BY <3>1 DEF Routes, Bindings, Usable, Named, Entry
  <2> QED BY <2>1, <2>2
<1>2. Typed /\ Typed' => [Stay]_vars
  BY <1>1
<1>3. Spec => [][Stay]_vars
  BY <1>2, TypedAlways, PTL
<1> QED BY <1>3 DEF OtherRoutesStay

=============================================================================
