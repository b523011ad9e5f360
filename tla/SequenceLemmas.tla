---------------------------- MODULE SequenceLemmas ----------------------------
(* Facts about sequences and recursive functions that the proofs about the    *)
(* event streams rest on.  The library states induction with an operator as a *)
(* parameter; here it is stated for sets of numbers, so that the set of the n *)
(* for which a claim holds takes the place of the operator.                   *)
EXTENDS SequencesExt, SequenceTheorems, WellFoundedInduction, TLAPS

\* A non-empty set of natural numbers has a least element.
LEMMA LeastNumber ==
  ASSUME NEW T \in SUBSET Nat, T # {}
  PROVE  \E x \in T : \A y \in T : x <= y
<1>1. PICK x \in T : \A y \in T : ~(<<y, x>> \in OpToRel(<, Nat))
  BY NatLessThanWellFounded, WFMin
<1>2. \A y \in T : ~(y < x)
  BY <1>1 DEF OpToRel
<1>3. \A y \in T : x <= y
  <2>. TAKE y \in T
  <2>1. x \in Nat /\ y \in Nat /\ ~(y < x)
    BY <1>2
  <2>. QED  BY <2>1
<1>. QED  BY <1>3

\* A set of numbers with 0 and with the successor of each of its elements
\* contains every number.
LEMMA NumbersByInduction ==
  ASSUME NEW T \in SUBSET Nat, 0 \in T, \A n \in T : n + 1 \in T
  PROVE  T = Nat
<1>. SUFFICES ASSUME Nat \ T # {} PROVE FALSE
  OBVIOUS
<1>1. PICK x \in Nat \ T : \A y \in Nat \ T : x <= y
  BY LeastNumber
<1>2. x > 0 /\ x - 1 \in Nat
  BY <1>1
<1>3. x - 1 \in T
  BY <1>1, <1>2
<1>. QED  BY <1>1, <1>3

-------------------------------------------------------------------------------
(* Recursion over 0 .. n.  The values of a recursive function stay in a set    *)
(* that its step does not leave; F is the step, as a function.                 *)

Steps(S, N) == [1 .. N -> [S -> S]]
Iterates(g, S, a, N, F) ==
  g \in [0 .. N -> S] /\ g[0] = a /\ \A i \in 1 .. N : g[i] = F[i][g[i - 1]]

\* Such a function exists.
LEMMA RecursionDefined ==
  ASSUME NEW S, NEW a \in S, NEW N \in Nat, NEW F \in Steps(S, N)
  PROVE  \E g : Iterates(g, S, a, N, F)
<1>. DEFINE Sol(n) == {g \in [0 .. n -> S] : g[0] = a /\ \A i \in 1 .. n : g[i] = F[i][g[i - 1]]}
            T == {n \in Nat : n <= N => Sol(n) # {}}
<1>0. F \in [1 .. N -> [S -> S]]
  BY DEF Steps
<1>1. 0 \in T
  <2>1. [i \in 0 .. 0 |-> a] \in Sol(0)
    OBVIOUS
  <2>. QED  BY <2>1
<1>2. ASSUME NEW n \in T PROVE n + 1 \in T
  <2>0. n \in Nat /\ n + 1 \in Nat
    OBVIOUS
  <2>1. ASSUME n + 1 <= N PROVE Sol(n + 1) # {}
    <3>1. n \in Nat /\ n <= N /\ n + 1 \in 1 .. N /\ Sol(n) # {}
      BY <2>0, <2>1
    <3>2. PICK g \in [0 .. n -> S] : g[0] = a /\ \A i \in 1 .. n : g[i] = F[i][g[i - 1]]
      BY <3>1
    <3>. DEFINE v == F[n + 1][g[n]]  h == [i \in 0 .. n + 1 |-> IF i = n + 1 THEN v ELSE g[i]]
    <3>3. v \in S
      <4>1. g[n] \in S
        BY <3>1, <3>2
      <4>2. F[n + 1] \in [S -> S]
        BY <1>0, <3>1
      <4>. QED  BY <4>1, <4>2
    <3>4. /\ \A i \in 0 .. n + 1 : i # n + 1 => i \in 0 .. n
          /\ 0 \in 0 .. n + 1 /\ 0 # n + 1 /\ n + 1 \in 0 .. n + 1
          /\ \A i \in 1 .. n + 1 : i \in 0 .. n + 1 /\ i - 1 \in 0 .. n + 1 /\ i - 1 # n + 1
                                   /\ (i # n + 1 => i \in 1 .. n)
          /\ (n + 1) - 1 = n
      BY <3>1
    <3>. HIDE DEF v
    <3>5. h \in [0 .. n + 1 -> S]
      BY <3>2, <3>3, <3>4
    <3>6. h[0] = a
      BY <3>2, <3>4
    <3>7. \A i \in 1 .. n + 1 : h[i] = F[i][h[i - 1]]
      <4>. TAKE i \in 1 .. n + 1
      <4>1. h[i - 1] = g[i - 1] /\ h[i] = IF i = n + 1 THEN v ELSE g[i]
        BY <3>4
      <4>. HIDE DEF h
      <4>2. CASE i = n + 1
        BY <3>4, <4>1, <4>2 DEF v
      <4>3. CASE i # n + 1
        BY <3>2, <3>4, <4>1, <4>3
      <4>. QED  BY <4>2, <4>3
    <3>. HIDE DEF h
    <3>8. h \in Sol(n + 1)
      BY <3>5, <3>6, <3>7
    <3>. QED  BY <3>8
  <2>. HIDE DEF Sol
  <2>. QED  BY <2>0, <2>1
<1>3. T = Nat
  <2>1. T \in SUBSET Nat
    OBVIOUS
  <2>. HIDE DEF T
  <2>. QED  BY <1>1, <1>2, <2>1, NumbersByInduction
<1>4. Sol(N) # {}
  <2>1. N \in T
    <3>. HIDE DEF T
    <3>. QED  BY <1>3
  <2>. HIDE DEF Sol
  <2>. QED  BY <2>1
<1>. QED  BY <1>4 DEF Iterates

-------------------------------------------------------------------------------
(* FlattenSeq.  Its recursive function is the unique one that satisfies its   *)
(* equation; hence the cases the proofs use: nothing, one more, two parts.    *)

\* The body of FlattenSeq's recursive function.
Unrolled(q, g) == [i \in 1 .. Len(q) |-> IF i = 1 THEN q[i] ELSE g[i - 1] \o q[i]]
Flattening(q) == CHOOSE g : g = Unrolled(q, g)

LEMMA FlattenIsFlattening ==
  ASSUME NEW q, Len(q) # 0
  PROVE  FlattenSeq(q) = Flattening(q)[Len(q)]
BY DEF FlattenSeq, Flattening, Unrolled

\* The recursive equation has a solution.
LEMMA FlatteningDefined ==
  ASSUME NEW S, NEW q \in Seq(Seq(S))
  PROVE  Flattening(q) = Unrolled(q, Flattening(q))
<1>. DEFINE Sol(n) == {g \in [1 .. n -> Seq(S)] :
                        \A i \in 1 .. n : g[i] = IF i = 1 THEN q[i] ELSE g[i - 1] \o q[i]}
            T == {n \in Nat : n <= Len(q) => Sol(n) # {}}
<1>0. Len(q) \in Nat /\ \A i \in 1 .. Len(q) : q[i] \in Seq(S)
  OBVIOUS
<1>1. 0 \in T
  <2>1. [i \in 1 .. 0 |-> <<>>] \in Sol(0)
    OBVIOUS
  <2>. QED  BY <2>1
<1>2. ASSUME NEW n \in Nat, n <= Len(q) => Sol(n) # {}
      PROVE  n + 1 <= Len(q) => Sol(n + 1) # {}
  <2>. SUFFICES ASSUME n + 1 <= Len(q) PROVE Sol(n + 1) # {}
    OBVIOUS
  <2>0. n <= Len(q)
    BY <1>0
  <2>1. n \in Nat /\ Sol(n) # {}
    BY <1>2, <2>0
  <2>2. PICK g \in [1 .. n -> Seq(S)] :
               \A i \in 1 .. n : g[i] = IF i = 1 THEN q[i] ELSE g[i - 1] \o q[i]
    BY <2>1
  <2>. DEFINE last == IF n = 0 THEN q[1] ELSE g[n] \o q[n + 1]
              h == [i \in 1 .. n + 1 |-> IF i = n + 1 THEN last ELSE g[i]]
  <2>3. n + 1 \in 1 .. Len(q) /\ q[n + 1] \in Seq(S)
    BY <1>0, <2>1
  <2>4. last \in Seq(S)
    <3>1. CASE n = 0
      BY <2>3, <3>1
    <3>2. CASE n # 0
      <4>1. n \in 1 .. n
        BY <2>1, <3>2
      <4>2. g[n] \in Seq(S)
        BY <2>2, <4>1
      <4>. QED  BY <2>3, <3>2, <4>2, ConcatProperties
    <3>. QED  BY <3>1, <3>2
  <2>5. h \in [1 .. n + 1 -> Seq(S)]
    <3>1. \A i \in 1 .. n + 1 : i # n + 1 => i \in 1 .. n
      BY <2>1
    <3>. HIDE DEF last
    <3>. QED  BY <2>2, <2>4, <3>1
  <2>6. \A i \in 1 .. n + 1 : h[i] = IF i = 1 THEN q[i] ELSE h[i - 1] \o q[i]
    <3>. TAKE i \in 1 .. n + 1
    <3>1. CASE i = n + 1
      <4>1. h[i] = last
        BY <3>1
      <4>2. CASE n = 0
        BY <3>1, <4>1, <4>2
      <4>3. CASE n # 0
        <5>1. i # 1 /\ i - 1 = n /\ n \in 1 .. n + 1 /\ n # n + 1
          BY <2>1, <3>1, <4>3
        <5>2. h[i - 1] = g[n]
          BY <5>1
        <5>. QED  BY <3>1, <4>1, <4>3, <5>1, <5>2
      <4>. QED  BY <4>2, <4>3
    <3>2. CASE i # n + 1
      <4>1. i \in 1 .. n /\ (i # 1 => i - 1 \in 1 .. n + 1 /\ i - 1 # n + 1)
        BY <2>1, <3>2
      <4>2. h[i] = g[i] /\ (i # 1 => h[i - 1] = g[i - 1])
        BY <3>2, <4>1
      <4>. HIDE DEF h
      <4>. QED  BY <2>2, <4>1, <4>2
    <3>. QED  BY <3>1, <3>2
  <2>7. h \in Sol(n + 1)
    <3>. HIDE DEF h
    <3>. QED  BY <2>5, <2>6
  <2>. QED  BY <2>7
<1>3. T = Nat
  <2>1. T \in SUBSET Nat /\ 0 \in T /\ \A n \in T : n + 1 \in T
    <3>. HIDE DEF Sol
    <3>. QED  BY <1>1, <1>2
  <2>. HIDE DEF T
  <2>. QED  BY <2>1, NumbersByInduction
<1>4. Sol(Len(q)) # {}
  <2>. HIDE DEF Sol
  <2>. QED  BY <1>0, <1>3
<1>5. PICK g \in [1 .. Len(q) -> Seq(S)] :
             \A i \in 1 .. Len(q) : g[i] = IF i = 1 THEN q[i] ELSE g[i - 1] \o q[i]
  BY <1>4
<1>6. g = Unrolled(q, g)
  BY <1>5 DEF Unrolled
<1>. QED  BY <1>6 DEF Flattening

\* Its values are the flattenings of the prefixes.
LEMMA FlatteningStep ==
  ASSUME NEW S, NEW q \in Seq(Seq(S))
  PROVE  \A i \in 1 .. Len(q) :
           /\ Flattening(q)[i] = IF i = 1 THEN q[i] ELSE Flattening(q)[i - 1] \o q[i]
           /\ Flattening(q)[i] \in Seq(S)
<1>. DEFINE F == Flattening(q)
            T == {n \in Nat : n + 1 <= Len(q) => F[n + 1] \in Seq(S)}
<1>0. Len(q) \in Nat /\ \A i \in 1 .. Len(q) : q[i] \in Seq(S)
  OBVIOUS
<1>1. \A i \in 1 .. Len(q) : F[i] = IF i = 1 THEN q[i] ELSE F[i - 1] \o q[i]
  <2>1. F = Unrolled(q, F)
    BY FlatteningDefined
  <2>. HIDE DEF F
  <2>2. \A i \in 1 .. Len(q) : Unrolled(q, F)[i] = IF i = 1 THEN q[i] ELSE F[i - 1] \o q[i]
    BY DEF Unrolled
  <2>. QED  BY <2>1, <2>2
<1>. HIDE DEF F
<1>2. 0 \in T
  <2>. SUFFICES ASSUME 1 <= Len(q) PROVE F[1] \in Seq(S)
    OBVIOUS
  <2>1. 1 \in 1 .. Len(q)
    BY <1>0
  <2>. QED  BY <1>0, <1>1, <2>1
<1>3. ASSUME NEW n \in T PROVE n + 1 \in T
  <2>1. n \in Nat /\ n + 1 \in Nat /\ (n + 1 <= Len(q) => F[n + 1] \in Seq(S))
    OBVIOUS
  <2>2. ASSUME (n + 1) + 1 <= Len(q) PROVE F[(n + 1) + 1] \in Seq(S)
    <3>1. /\ n + 1 <= Len(q) /\ (n + 1) + 1 \in 1 .. Len(q) /\ (n + 1) + 1 # 1
          /\ ((n + 1) + 1) - 1 = n + 1
      BY <1>0, <2>1, <2>2
    <3>2. F[(n + 1) + 1] = F[n + 1] \o q[(n + 1) + 1]
      BY <1>1, <3>1
    <3>. QED  BY <1>0, <2>1, <3>1, <3>2, ConcatProperties
  <2>. QED  BY <2>1, <2>2
<1>4. T = Nat
  <2>1. T \in SUBSET Nat
    OBVIOUS
  <2>. HIDE DEF T
  <2>. QED  BY <1>2, <1>3, <2>1, NumbersByInduction
<1>5. \A i \in 1 .. Len(q) : F[i] \in Seq(S)
  <2>. TAKE i \in 1 .. Len(q)
  <2>1. i - 1 \in Nat /\ (i - 1) + 1 = i /\ i <= Len(q)
    BY <1>0
  <2>2. i - 1 \in T
    BY <1>4, <2>1
  <2>. QED  BY <2>1, <2>2
<1>. QED  BY <1>1, <1>5 DEF F

\* A flattening is a sequence over the same elements.
LEMMA FlattenType ==
  ASSUME NEW S, NEW q \in Seq(Seq(S))
  PROVE  FlattenSeq(q) \in Seq(S)
<1>0. Len(q) \in Nat
  OBVIOUS
<1>1. CASE Len(q) = 0
  <2>1. q = <<>> /\ FlattenSeq(q) = q
    BY <1>1 DEF FlattenSeq
  <2>2. <<>> \in Seq(S)
    OBVIOUS
  <2>. QED  BY <2>1, <2>2
<1>2. CASE Len(q) # 0
  <2>1. Len(q) \in 1 .. Len(q)
    BY <1>0, <1>2
  <2>2. FlattenSeq(q) = Flattening(q)[Len(q)]
    BY <1>2, FlattenIsFlattening
  <2>3. \A i \in 1 .. Len(q) : Flattening(q)[i] \in Seq(S)
    BY FlatteningStep
  <2>. QED  BY <2>1, <2>2, <2>3
<1>. QED  BY <1>1, <1>2

\* Nothing to flatten.
LEMMA FlattenEmpty == FlattenSeq(<<>>) = <<>>
BY DEF FlattenSeq

\* Sequences that agree on their first n parts agree on their flattening.
LEMMA FlatteningPrefix ==
  ASSUME NEW S, NEW p \in Seq(Seq(S)), NEW q \in Seq(Seq(S)), Len(p) <= Len(q),
         \A i \in 1 .. Len(p) : p[i] = q[i]
  PROVE  \A i \in 1 .. Len(p) : Flattening(p)[i] = Flattening(q)[i]
<1>. DEFINE F == Flattening(p)  G == Flattening(q)
            T == {n \in Nat : n + 1 <= Len(p) => F[n + 1] = G[n + 1]}
<1>0. Len(p) \in Nat /\ Len(q) \in Nat
  OBVIOUS
<1>1. \A i \in 1 .. Len(p) : /\ F[i] = IF i = 1 THEN p[i] ELSE F[i - 1] \o p[i]
                            /\ G[i] = IF i = 1 THEN p[i] ELSE G[i - 1] \o p[i]
  <2>1. \A i \in 1 .. Len(p) : i \in 1 .. Len(q)
    BY <1>0
  <2>. QED  BY <2>1, FlatteningStep
<1>. HIDE DEF F, G
<1>2. 0 \in T
  <2>. SUFFICES ASSUME 1 <= Len(p) PROVE F[1] = G[1]
    OBVIOUS
  <2>1. 1 \in 1 .. Len(p)
    BY <1>0
  <2>. QED  BY <1>1, <2>1
<1>3. ASSUME NEW n \in T PROVE n + 1 \in T
  <2>1. n \in Nat /\ n + 1 \in Nat /\ (n + 1 <= Len(p) => F[n + 1] = G[n + 1])
    OBVIOUS
  <2>2. ASSUME (n + 1) + 1 <= Len(p) PROVE F[(n + 1) + 1] = G[(n + 1) + 1]
    <3>1. /\ n + 1 <= Len(p) /\ (n + 1) + 1 \in 1 .. Len(p) /\ (n + 1) + 1 # 1
          /\ ((n + 1) + 1) - 1 = n + 1
      BY <1>0, <2>1, <2>2
    <3>. QED  BY <1>1, <2>1, <3>1
  <2>. QED  BY <2>1, <2>2
<1>4. T = Nat
  <2>1. T \in SUBSET Nat
    OBVIOUS
  <2>. HIDE DEF T
  <2>. QED  BY <1>2, <1>3, <2>1, NumbersByInduction
<1>5. \A i \in 1 .. Len(p) : F[i] = G[i]
  <2>. TAKE i \in 1 .. Len(p)
  <2>1. i - 1 \in Nat /\ (i - 1) + 1 = i /\ i <= Len(p)
    BY <1>0
  <2>2. i - 1 \in T
    BY <1>4, <2>1
  <2>. QED  BY <2>1, <2>2
<1>. QED  BY <1>5 DEF F, G

\* One more part.
LEMMA FlattenAppend ==
  ASSUME NEW S, NEW q \in Seq(Seq(S)), NEW x \in Seq(S)
  PROVE  FlattenSeq(Append(q, x)) = FlattenSeq(q) \o x
<1>. DEFINE a == Append(q, x)  n == Len(q)
<1>1. /\ a \in Seq(Seq(S)) /\ n \in Nat /\ Len(a) = n + 1 /\ a[n + 1] = x
      /\ \A i \in 1 .. n : a[i] = q[i]
  BY AppendProperties
<1>. HIDE DEF a
<1>2. n + 1 \in 1 .. Len(a) /\ n + 1 # 0 /\ (n + 1) - 1 = n
  BY <1>1
<1>3. FlattenSeq(a) = IF n + 1 = 1 THEN x ELSE Flattening(a)[n] \o x
  <2>1. FlattenSeq(a) = Flattening(a)[n + 1]
    BY <1>1, <1>2, FlattenIsFlattening
  <2>2. \A i \in 1 .. Len(a) : Flattening(a)[i] = IF i = 1 THEN a[i] ELSE Flattening(a)[i - 1] \o a[i]
    BY <1>1, FlatteningStep
  <2>. QED  BY <1>1, <1>2, <2>1, <2>2
<1>4. CASE n = 0
  <2>1. q = <<>> /\ FlattenSeq(q) = q
    BY <1>4 DEF FlattenSeq
  <2>. QED  BY <1>1, <1>3, <1>4, <2>1 DEF a
<1>5. CASE n # 0
  <2>1. n \in 1 .. n /\ n + 1 # 1 /\ n <= Len(a)
    BY <1>1, <1>5
  <2>2. Flattening(q)[n] = Flattening(a)[n]
    BY <1>1, <2>1, FlatteningPrefix
  <2>3. FlattenSeq(q) = Flattening(q)[n]
    BY <1>5, FlattenIsFlattening
  <2>. QED  BY <1>3, <2>1, <2>2, <2>3 DEF a
<1>. QED  BY <1>4, <1>5

\* Two parts.
LEMMA FlattenConcat ==
  ASSUME NEW S, NEW p \in Seq(Seq(S)), NEW q \in Seq(Seq(S))
  PROVE  FlattenSeq(p \o q) = FlattenSeq(p) \o FlattenSeq(q)
<1>. DEFINE T == {n \in Nat : \A t \in Seq(Seq(S)) :
                    Len(t) = n => FlattenSeq(p \o t) = FlattenSeq(p) \o FlattenSeq(t)}
<1>0. FlattenSeq(p) \in Seq(S)
  BY FlattenType
<1>1. 0 \in T
  <2>. SUFFICES ASSUME NEW t \in Seq(Seq(S)), Len(t) = 0
                PROVE  FlattenSeq(p \o t) = FlattenSeq(p) \o FlattenSeq(t)
    OBVIOUS
  <2>1. t = <<>> /\ p \o t = p
    OBVIOUS
  <2>. QED  BY <1>0, <2>1, FlattenEmpty, ConcatEmptySeq
<1>2. ASSUME NEW n \in T PROVE n + 1 \in T
  <2>1. n \in Nat /\ n + 1 \in Nat
    OBVIOUS
  <2>2. ASSUME NEW t \in Seq(Seq(S)), Len(t) = n + 1
        PROVE  FlattenSeq(p \o t) = FlattenSeq(p) \o FlattenSeq(t)
    <3>1. t # <<>>
      BY <2>1, <2>2
    <3>2. PICK u \in Seq(Seq(S)), x \in Seq(S) : t = Append(u, x)
      BY <3>1, SequenceEmptyOrAppend
    <3>3. Len(u) = n
      <4>1. Len(t) = Len(u) + 1 /\ Len(u) \in Nat
        BY <3>2
      <4>. QED  BY <2>1, <2>2, <4>1
    <3>4. FlattenSeq(p \o u) = FlattenSeq(p) \o FlattenSeq(u)
      BY <3>3
    <3>5. p \o t = Append(p \o u, x) /\ p \o u \in Seq(Seq(S))
      BY <3>2
    <3>6. FlattenSeq(u) \in Seq(S)
      BY FlattenType
    <3>7. FlattenSeq(p \o t) = (FlattenSeq(p) \o FlattenSeq(u)) \o x
      BY <3>4, <3>5, FlattenAppend, ZenonT(60)
    <3>8. FlattenSeq(t) = FlattenSeq(u) \o x
      BY <3>2, FlattenAppend
    <3>. QED  BY <1>0, <3>6, <3>7, <3>8, ConcatAssociative, SMTT(60)
  <2>. QED  BY <2>1, <2>2
<1>3. T = Nat
  <2>1. T \in SUBSET Nat
    OBVIOUS
  <2>. HIDE DEF T
  <2>. QED  BY <1>1, <1>2, <2>1, NumbersByInduction
<1>4. Len(q) \in T
  BY <1>3
<1>. QED  BY <1>4

\* One part.
LEMMA FlattenOne ==
  ASSUME NEW S, NEW x \in Seq(S)
  PROVE  FlattenSeq(<<x>>) = x
<1>1. <<x>> = Append(<<>>, x) /\ <<>> \in Seq(Seq(S))
  OBVIOUS
<1>2. FlattenSeq(Append(<<>>, x)) = FlattenSeq(<<>>) \o x
  BY <1>1, FlattenAppend
<1>. QED  BY <1>1, <1>2, FlattenEmpty, ConcatEmptySeq

\* All parts but perhaps the k-th are empty.
LEMMA FlattenSingle ==
  ASSUME NEW S, NEW q \in Seq(Seq(S)), NEW k \in 1 .. Len(q),
         \A i \in 1 .. Len(q) : i # k => q[i] = <<>>
  PROVE  FlattenSeq(q) = q[k]
<1>. DEFINE F == Flattening(q)
            T == {n \in Nat : n + 1 <= Len(q) => F[n + 1] = IF n + 1 < k THEN <<>> ELSE q[k]}
<1>0. Len(q) \in Nat /\ q[k] \in Seq(S) /\ k \in Nat /\ 1 <= k /\ k <= Len(q)
  OBVIOUS
<1>1. \A i \in 1 .. Len(q) : F[i] = IF i = 1 THEN q[i] ELSE F[i - 1] \o q[i]
  BY FlatteningStep
<1>2. FlattenSeq(q) = F[Len(q)]
  BY <1>0, FlattenIsFlattening
<1>. HIDE DEF F
<1>3. 0 \in T
  <2>. SUFFICES ASSUME 1 <= Len(q) PROVE F[1] = IF 1 < k THEN <<>> ELSE q[k]
    OBVIOUS
  <2>1. 1 \in 1 .. Len(q) /\ (~(1 < k) => k = 1)
    BY <1>0
  <2>2. F[1] = q[1]
    BY <1>1, <2>1
  <2>3. 1 < k => q[1] = <<>>
    BY <1>0, <2>1
  <2>. QED  BY <2>1, <2>2, <2>3
<1>4. ASSUME NEW n \in T PROVE n + 1 \in T
  <2>1. n \in Nat /\ n + 1 \in Nat
        /\ (n + 1 <= Len(q) => F[n + 1] = IF n + 1 < k THEN <<>> ELSE q[k])
    OBVIOUS
  <2>2. ASSUME (n + 1) + 1 <= Len(q)
        PROVE  F[(n + 1) + 1] = IF (n + 1) + 1 < k THEN <<>> ELSE q[k]
    <3>1. /\ n + 1 <= Len(q) /\ (n + 1) + 1 \in 1 .. Len(q) /\ (n + 1) + 1 # 1
          /\ ((n + 1) + 1) - 1 = n + 1
      BY <1>0, <2>1, <2>2
    <3>2. F[(n + 1) + 1] = (IF n + 1 < k THEN <<>> ELSE q[k]) \o q[(n + 1) + 1]
      BY <1>1, <2>1, <3>1
    <3>3. <<>> \o <<>> = <<>> /\ <<>> \o q[k] = q[k] /\ q[k] \o <<>> = q[k]
      BY <1>0, ConcatEmptySeq
    <3>4. CASE (n + 1) + 1 < k
      <4>1. n + 1 < k /\ (n + 1) + 1 # k
        BY <1>0, <2>1, <3>4
      <4>. QED  BY <3>1, <3>2, <3>3, <3>4, <4>1
    <3>5. CASE (n + 1) + 1 = k
      <4>1. n + 1 < k /\ ~((n + 1) + 1 < k)
        BY <1>0, <2>1, <3>5
      <4>. QED  BY <3>2, <3>3, <3>5, <4>1
    <3>6. CASE (n + 1) + 1 > k
      <4>1. ~(n + 1 < k) /\ (n + 1) + 1 # k /\ ~((n + 1) + 1 < k)
        BY <1>0, <2>1, <3>6
      <4>. QED  BY <3>1, <3>2, <3>3, <4>1
    <3>7. (n + 1) + 1 < k \/ (n + 1) + 1 = k \/ (n + 1) + 1 > k
      BY <1>0, <2>1
    <3>. QED  BY <3>4, <3>5, <3>6, <3>7
  <2>. QED  BY <2>1, <2>2
<1>5. T = Nat
  <2>1. T \in SUBSET Nat
    OBVIOUS
  <2>. HIDE DEF T
  <2>. QED  BY <1>3, <1>4, <2>1, NumbersByInduction
<1>6. Len(q) - 1 \in Nat /\ (Len(q) - 1) + 1 = Len(q) /\ ~(Len(q) < k)
  BY <1>0
<1>7. Len(q) - 1 \in T
  BY <1>5, <1>6
<1>8. F[(Len(q) - 1) + 1] = IF (Len(q) - 1) + 1 < k THEN <<>> ELSE q[k]
  BY <1>6, <1>7
<1>. QED  BY <1>2, <1>6, <1>8

\* The first n elements of p, and the others.
FirstPart(p, n) == SubSeq(p, 1, n)
OtherPart(p, n) == SubSeq(p, n + 1, Len(p))

\* A sequence is what it begins with, and the rest.
LEMMA CutInTwo ==
  ASSUME NEW S, NEW p \in Seq(S), NEW n \in 0 .. Len(p)
  PROVE  /\ FirstPart(p, n) \in Seq(S) /\ Len(FirstPart(p, n)) = n
         /\ \A i \in 1 .. n : FirstPart(p, n)[i] = p[i]
         /\ OtherPart(p, n) \in Seq(S) /\ Len(OtherPart(p, n)) = Len(p) - n
         /\ \A i \in 1 .. Len(p) - n : OtherPart(p, n)[i] = p[n + i]
         /\ p = FirstPart(p, n) \o OtherPart(p, n)
<1>. DEFINE a == FirstPart(p, n)  b == OtherPart(p, n)  m == Len(p)
<1>0. m \in Nat /\ n \in Nat /\ n <= m /\ m - n \in Nat
  OBVIOUS
<1>1. a \in Seq(S) /\ Len(a) = n /\ \A i \in 1 .. n : a[i] = p[i]
  BY <1>0 DEF FirstPart
<1>2. b \in Seq(S) /\ Len(b) = m - n /\ \A i \in 1 .. m - n : b[i] = p[n + i]
  <2>1. b \in Seq(S) /\ Len(b) = m - n
    BY <1>0 DEF OtherPart
  <2>2. \A i \in 1 .. m - n : b[i] = p[(n + 1) + i - 1] /\ (n + 1) + i - 1 = n + i
    BY <1>0 DEF OtherPart
  <2>. QED  BY <2>1, <2>2
<1>. HIDE DEF a, b
<1>3. /\ a \o b \in Seq(S) /\ Len(a \o b) = m
      /\ \A i \in 1 .. m : (a \o b)[i] = IF i <= n THEN a[i] ELSE b[i - n]
  <2>1. /\ a \o b \in Seq(S) /\ Len(a \o b) = Len(a) + Len(b)
        /\ \A i \in 1 .. Len(a) + Len(b) : (a \o b)[i] = IF i <= Len(a) THEN a[i] ELSE b[i - Len(a)]
    <3>1. \A x, y \in Seq(S) :
            /\ x \o y \in Seq(S) /\ Len(x \o y) = Len(x) + Len(y)
            /\ \A i \in 1 .. Len(x) + Len(y) : (x \o y)[i] = IF i <= Len(x) THEN x[i] ELSE y[i - Len(x)]
      BY ConcatProperties
    <3>. QED  BY <1>1, <1>2, <3>1, Zenon
  <2>2. Len(a) = n /\ Len(a) + Len(b) = m
    BY <1>0, <1>1, <1>2
  <2>. QED  BY <2>1, <2>2
<1>4. \A i \in 1 .. m : (a \o b)[i] = p[i]
  <2>. TAKE i \in 1 .. m
  <2>1. CASE i <= n
    <3>1. i \in 1 .. n
      BY <1>0, <2>1
    <3>. QED  BY <1>1, <1>3, <2>1, <3>1
  <2>2. CASE ~(i <= n)
    <3>1. i - n \in 1 .. m - n /\ n + (i - n) = i
      BY <1>0, <2>2
    <3>. QED  BY <1>2, <1>3, <2>2, <3>1
  <2>. QED  BY <2>1, <2>2
<1>5. p = a \o b
  BY <1>3, <1>4, SeqEqual
<1>. QED  BY <1>1, <1>2, <1>5 DEF a, b
===============================================================================
