---------------------------- MODULE QkEngine_proofs ----------------------------
(* Proofs about the engine behind the slot ABI, for any model, prompts, slots, *)
(* cache entries and batch and draft sizes: its slots hold what they should,   *)
(* its snapshots are exact, its output is greedy decoding, and it implements   *)
(* the ABI.                                                                    *)
EXTENDS QkEngine, SequenceLemmas

-------------------------------------------------------------------------------
(* The state of a stripe.                                                      *)

\* What a history may hold: ids, or the mark of a state fed out of step.
Mark == Tok \cup {Junk[1]}
Stripe == [dn : Seq(Mark), kv : [1 .. NCtx -> Seq(Mark)]]

\* The stripe has been fed the first n tokens of h.
HoldsTo(st, h, n) == st.dn = SubSeq(h, 1, n) /\ \A i \in 1 .. n : st.kv[i] = SubSeq(h, 1, i)

\* The start of a sequence.
LEMMA StartOf ==
  ASSUME NEW S, NEW h \in Seq(S), NEW n \in 0 .. Len(h)
  PROVE  /\ SubSeq(h, 1, n) \in Seq(S) /\ Len(SubSeq(h, 1, n)) = n /\ n \in Nat
         /\ \A i \in 1 .. n : SubSeq(h, 1, n)[i] = h[i] /\ i \in 1 .. Len(h)
OBVIOUS

\* Sequences that agree on their first n elements start alike.
LEMMA StartSame ==
  ASSUME NEW S, NEW h \in Seq(S), NEW n \in 0 .. Len(h), NEW k \in Seq(S), n <= Len(k),
         \A i \in 1 .. n : h[i] = k[i]
  PROVE  SubSeq(h, 1, n) = SubSeq(k, 1, n)
<1>1. n \in 0 .. Len(k)
  OBVIOUS
<1>2. /\ SubSeq(h, 1, n) \in Seq(S) /\ Len(SubSeq(h, 1, n)) = n
      /\ SubSeq(k, 1, n) \in Seq(S) /\ Len(SubSeq(k, 1, n)) = n
      /\ \A i \in 1 .. n : SubSeq(h, 1, n)[i] = h[i] /\ SubSeq(k, 1, n)[i] = k[i]
  BY <1>1, StartOf
<1>. QED  BY <1>2, SeqEqual

\* The start of a start.
LEMMA StartAgain ==
  ASSUME NEW S, NEW h \in Seq(S), NEW n \in 0 .. Len(h), NEW i \in 0 .. n
  PROVE  SubSeq(SubSeq(h, 1, n), 1, i) = SubSeq(h, 1, i)
<1>. DEFINE k == SubSeq(h, 1, n)
<1>1. k \in Seq(S) /\ Len(k) = n /\ \A j \in 1 .. n : k[j] = h[j]
  BY StartOf
<1>2. i \in 0 .. Len(h) /\ \A j \in 1 .. i : j \in 1 .. n
  OBVIOUS
<1>. HIDE DEF k
<1>3. i <= Len(k) /\ \A j \in 1 .. i : h[j] = k[j]
  BY <1>1, <1>2
<1>4. SubSeq(h, 1, i) = SubSeq(k, 1, i)
  BY <1>1, <1>2, <1>3, StartSame
<1>. QED  BY <1>4 DEF k

\* Holds, of the start of a sequence.
LEMMA HoldsIs ==
  ASSUME NEW S, NEW h \in Seq(S), NEW n \in 0 .. Len(h), NEW st
  PROVE  Holds(st, SubSeq(h, 1, n)) <=> HoldsTo(st, h, n)
<1>. DEFINE k == SubSeq(h, 1, n)
<1>1. Len(k) = n /\ \A i \in 1 .. n : SubSeq(k, 1, i) = SubSeq(h, 1, i)
  <2>1. \A i \in 1 .. n : i \in 0 .. n
    OBVIOUS
  <2>. QED  BY <2>1, StartOf, StartAgain
<1>. HIDE DEF k
<1>2. Holds(st, k) <=> st.dn = k /\ \A i \in 1 .. n : st.kv[i] = SubSeq(h, 1, i)
  BY <1>1 DEF Holds
<1>. QED  BY <1>2 DEF HoldsTo, k

\* Holding one history is holding another that starts alike.
LEMMA HoldsSame ==
  ASSUME NEW S, NEW h \in Seq(S), NEW n \in 0 .. Len(h), NEW k \in Seq(S), n <= Len(k),
         \A i \in 1 .. n : h[i] = k[i], NEW st
  PROVE  HoldsTo(st, h, n) <=> HoldsTo(st, k, n)
<1>1. \A j \in 0 .. n : SubSeq(h, 1, j) = SubSeq(k, 1, j)
  <2>. TAKE j \in 0 .. n
  <2>1. j \in 0 .. Len(h) /\ j <= Len(k) /\ \A i \in 1 .. j : i \in 1 .. n
    OBVIOUS
  <2>. QED  BY <2>1, StartSame
<1>2. n \in 0 .. n /\ \A i \in 1 .. n : i \in 0 .. n
  OBVIOUS
<1>. QED  BY <1>1, <1>2 DEF HoldsTo

\* Nothing fed.
LEMMA ZeroStripe ==
  /\ Zero \in Stripe
  /\ \A h : HoldsTo(Zero, h, 0)
<1>1. Zero \in Stripe
  BY DEF Zero, NoRows, Stripe
<1>2. \A h : SubSeq(h, 1, 0) = <<>>
  BY SubSeqEmpty
<1>. QED  BY <1>1, <1>2 DEF HoldsTo, Zero

\* A forward pass leaves a stripe.
LEMMA FeedType ==
  ASSUME NEW st \in Stripe, NEW t \in Tok, NEW p \in Nat
  PROVE  Feed(st, t, p) \in Stripe
<1>. DEFINE true == Len(st.dn) = p /\ \A i \in 1 .. p : st.kv[i] = SubSeq(st.dn, 1, i)
            h == IF true THEN Append(st.dn, t) ELSE Junk
<1>1. Junk \in Seq(Mark) /\ t \in Mark /\ st.dn \in Seq(Mark) /\ st.kv \in [1 .. NCtx -> Seq(Mark)]
  BY DEF Mark, Junk, Stripe
<1>2. h \in Seq(Mark)
  BY <1>1
<1>3. Feed(st, t, p) = [dn |-> h, kv |-> [st.kv EXCEPT ![p + 1] = h]]
  BY DEF Feed
<1>. HIDE DEF h
<1>4. [st.kv EXCEPT ![p + 1] = h] \in [1 .. NCtx -> Seq(Mark)]
  BY <1>1, <1>2
<1>. QED  BY <1>2, <1>3, <1>4 DEF Stripe

\* A state fed in step.
LEMMA FeedHolds ==
  ASSUME NEW st \in Stripe, NEW h \in Seq(Tok), NEW p \in Nat, p < Len(h), p < NCtx,
         HoldsTo(st, h, p), NEW t, t = h[p + 1]
  PROVE  HoldsTo(Feed(st, t, p), h, p + 1)
<1>. DEFINE g == Append(SubSeq(h, 1, p), t)
<1>1. /\ p \in 0 .. Len(h) /\ p + 1 \in 0 .. Len(h) /\ p + 1 \in 1 .. NCtx /\ p + 1 \in 1 .. Len(h)
      /\ \A i \in 1 .. p + 1 : i = p + 1 \/ i \in 1 .. p
      /\ \A i \in 1 .. p : i \in 0 .. p /\ i # p + 1 /\ i \in 1 .. NCtx
  BY QkEngineAssumption, SMTT(60)
<1>2. SubSeq(h, 1, p + 1) = g
  <2>1. /\ SubSeq(h, 1, p) \in Seq(Tok) /\ Len(SubSeq(h, 1, p)) = p /\ t \in Tok
        /\ \A i \in 1 .. p : SubSeq(h, 1, p)[i] = h[i]
    BY <1>1, StartOf, ElementOfSeq
  <2>2. /\ g \in Seq(Tok) /\ Len(g) = p + 1 /\ g[p + 1] = t
        /\ \A i \in 1 .. p : g[i] = h[i]
    BY <2>1, AppendProperties
  <2>3. /\ SubSeq(h, 1, p + 1) \in Seq(Tok) /\ Len(SubSeq(h, 1, p + 1)) = p + 1
        /\ \A i \in 1 .. p + 1 : SubSeq(h, 1, p + 1)[i] = h[i]
    BY <1>1, StartOf
  <2>. HIDE DEF g
  <2>. QED  BY <1>1, <2>2, <2>3, SeqEqual
<1>3. st.dn = SubSeq(h, 1, p) /\ Len(st.dn) = p /\ \A i \in 1 .. p : st.kv[i] = SubSeq(h, 1, i)
  BY <1>1, StartOf DEF HoldsTo
<1>4. \A i \in 1 .. p : SubSeq(st.dn, 1, i) = SubSeq(h, 1, i)
  BY <1>1, <1>3, StartAgain
<1>5. Feed(st, t, p) = [dn |-> g, kv |-> [st.kv EXCEPT ![p + 1] = g]]
  BY <1>3, <1>4 DEF Feed
<1>. HIDE DEF g
<1>6. DOMAIN st.kv = 1 .. NCtx
  BY DEF Stripe
<1>. DEFINE kv == [st.kv EXCEPT ![p + 1] = g]
<1>7. kv[p + 1] = g /\ \A i \in 1 .. p : kv[i] = st.kv[i]
  BY <1>1, <1>6
<1>. HIDE DEF kv
<1>8. \A i \in 1 .. p + 1 : kv[i] = SubSeq(h, 1, i)
  BY <1>1, <1>2, <1>3, <1>7
<1>. QED  BY <1>2, <1>5, <1>8 DEF HoldsTo, kv

-------------------------------------------------------------------------------
(* Batches.                                                                    *)

\* The body of the recursive function of Fed, and its equation.
FedBody(st, toks, base, g) ==
  [i \in 0 .. Len(toks) |-> IF i = 0 THEN IF base = 0 THEN Zero ELSE st
                            ELSE Feed(g[i - 1], toks[i], base + i - 1)]

\* Fed is the function its recursion determines.
LEMMA FedChosen ==
  ASSUME NEW st, NEW toks, NEW base
  PROVE  Fed(st, toks, base) = CHOOSE g : g = FedBody(st, toks, base, g)
BY DEF Fed, FedBody

\* It satisfies that recursion: each state is the one before it fed a token.
LEMMA FedStep ==
  ASSUME NEW st \in Stripe, NEW toks \in Seq(Tok), NEW base \in Nat
  PROVE  LET f == Fed(st, toks, base) IN
         /\ f[0] = IF base = 0 THEN Zero ELSE st
         /\ \A i \in 1 .. Len(toks) : f[i] = Feed(f[i - 1], toks[i], base + i - 1)
         /\ \A i \in 0 .. Len(toks) : f[i] \in Stripe
<1>. DEFINE a == IF base = 0 THEN Zero ELSE st  N == Len(toks)  f == Fed(st, toks, base)
            F == [i \in 1 .. N |-> [x \in Stripe |-> Feed(x, toks[i], base + i - 1)]]
<1>1. a \in Stripe /\ N \in Nat
  BY ZeroStripe
<1>2. F \in Steps(Stripe, N)
  <2>1. ASSUME NEW i \in 1 .. N, NEW x \in Stripe PROVE Feed(x, toks[i], base + i - 1) \in Stripe
    <3>1. toks[i] \in Tok /\ base + i - 1 \in Nat
      OBVIOUS
    <3>. QED  BY <3>1, FeedType
  <2>. QED  BY <2>1 DEF Steps
<1>. HIDE DEF a
<1>3. PICK g : g \in [0 .. N -> Stripe] /\ g[0] = a /\ \A i \in 1 .. N : g[i] = F[i][g[i - 1]]
  <2>. HIDE DEF F, N
  <2>1. \E g : Iterates(g, Stripe, a, N, F)
    BY <1>1, <1>2, RecursionDefined
  <2>. QED  BY <2>1 DEF Iterates
<1>4. \A i \in 1 .. N : g[i] = Feed(g[i - 1], toks[i], base + i - 1)
  <2>. TAKE i \in 1 .. N
  <2>1. i - 1 \in 0 .. N
    OBVIOUS
  <2>2. g[i - 1] \in Stripe
    BY <1>3, <2>1
  <2>. QED  BY <1>3, <2>2
<1>5. g = FedBody(st, toks, base, g)
  <2>1. \A i \in 0 .. N : i # 0 => i \in 1 .. N
    OBVIOUS
  <2>. QED  BY <1>3, <1>4, <2>1 DEF FedBody, a
<1>6. f = FedBody(st, toks, base, f)
  BY <1>5, FedChosen
<1>. HIDE DEF f
<1>7. f[0] = a /\ \A i \in 1 .. N : f[i] = Feed(f[i - 1], toks[i], base + i - 1)
  <2>1. 0 \in 0 .. N /\ \A i \in 1 .. N : i \in 0 .. N /\ i # 0
    OBVIOUS
  <2>2. /\ FedBody(st, toks, base, f)[0] = a
        /\ \A i \in 1 .. N : FedBody(st, toks, base, f)[i] = Feed(f[i - 1], toks[i], base + i - 1)
    BY <2>1 DEF FedBody, a
  <2>. QED  BY <1>6, <2>2
<1>8. \A i \in 0 .. N : f[i] \in Stripe
  <2>. DEFINE T == {n \in Nat : n <= N => f[n] \in Stripe}
  <2>1. 0 \in T
    BY <1>1, <1>7
  <2>2. ASSUME NEW n \in T PROVE n + 1 \in T
    <3>1. n \in Nat /\ n + 1 \in Nat /\ (n <= N => f[n] \in Stripe)
      OBVIOUS
    <3>2. ASSUME n + 1 <= N PROVE f[n + 1] \in Stripe
      <4>1. n + 1 \in 1 .. N /\ n <= N /\ (n + 1) - 1 = n /\ base + (n + 1) - 1 \in Nat /\ toks[n + 1] \in Tok
        BY <3>1, <3>2
      <4>. QED  BY <1>7, <3>1, <4>1, FeedType
    <3>. QED  BY <3>1, <3>2
  <2>3. T \in SUBSET Nat
    OBVIOUS
  <2>4. T = Nat
    <3>. HIDE DEF T
    <3>. QED  BY <2>1, <2>2, <2>3, NumbersByInduction
  <2>. QED  BY <2>4
<1>. QED  BY <1>7, <1>8 DEF f, a

\* A batch fed in step, or from the start, which resets the stripe.
LEMMA FedHolds ==
  ASSUME NEW st \in Stripe, NEW toks \in Seq(Tok), NEW base \in Nat, NEW h \in Seq(Tok),
         base + Len(toks) <= Len(h), base + Len(toks) <= NCtx,
         \A i \in 1 .. Len(toks) : toks[i] = h[base + i],
         base = 0 \/ HoldsTo(st, h, base)
  PROVE  \A i \in 0 .. Len(toks) : HoldsTo(Fed(st, toks, base)[i], h, base + i)
<1>. DEFINE N == Len(toks)  f == Fed(st, toks, base)
            T == {n \in Nat : n <= N => HoldsTo(f[n], h, base + n)}
<1>1. N \in Nat /\ base + 0 = base
  OBVIOUS
<1>2. /\ f[0] = IF base = 0 THEN Zero ELSE st
      /\ \A i \in 1 .. N : f[i] = Feed(f[i - 1], toks[i], base + i - 1)
      /\ \A i \in 0 .. N : f[i] \in Stripe
  BY FedStep
<1>. HIDE DEF f
<1>3. 0 \in T
  BY <1>1, <1>2, ZeroStripe
<1>4. ASSUME NEW n \in T PROVE n + 1 \in T
  <2>1. n \in Nat /\ n + 1 \in Nat /\ (n <= N => HoldsTo(f[n], h, base + n))
    OBVIOUS
  <2>2. ASSUME n + 1 <= N PROVE HoldsTo(f[n + 1], h, base + (n + 1))
    <3>0. NCtx \in Nat /\ Len(h) \in Nat /\ base + N <= Len(h) /\ base + N <= NCtx
      BY QkEngineAssumption
    <3>. HIDE DEF N
    <3>1. /\ n + 1 \in 1 .. N /\ n <= N /\ n \in 0 .. N /\ (n + 1) - 1 = n
          /\ base + (n + 1) - 1 = base + n /\ base + n \in Nat /\ base + (n + 1) = (base + n) + 1
          /\ base + n < Len(h) /\ base + n < NCtx
      BY <1>1, <2>1, <2>2, <3>0
    <3>. USE DEF N
    <3>2. f[n + 1] = Feed(f[n], toks[n + 1], base + n) /\ f[n] \in Stripe
      BY <1>2, <3>1
    <3>3. toks[n + 1] = h[(base + n) + 1]
      BY <3>1
    <3>. QED  BY <2>1, <3>1, <3>2, <3>3, FeedHolds
  <2>. QED  BY <2>1, <2>2
<1>5. T = Nat
  <2>1. T \in SUBSET Nat
    OBVIOUS
  <2>. HIDE DEF T
  <2>. QED  BY <1>3, <1>4, <2>1, NumbersByInduction
<1>. QED  BY <1>5 DEF f

-------------------------------------------------------------------------------
(* Greedy decoding.                                                            *)

ModelOK == lm \in [Tok -> Tok \cup {Eos}]

\* The token before the i-th generated one.
Before(r, q, i) == IF i = 1 THEN Last(Prompt[r]) ELSE q[i - 1]

\* By model f, q is greedy decoding of r's prompt, as far as it goes; and as far
\* as it may.
RunOf(f, r, q) == /\ q \in Seq(Tok) /\ Len(q) <= MaxGen[r]
                  /\ \A i \in 1 .. Len(q) : q[i] = f[Before(r, q, i)]
EndsRun(f, r, q) == Len(q) = MaxGen[r] \/ f[Before(r, q, Len(q) + 1)] = Eos
GreedyRun(r, q) == RunOf(lm, r, q)
Complete(r, q) == EndsRun(lm, r, q)

\* The types of a request's constants.
LEMMA RequestTypes ==
  ASSUME NEW r \in Request
  PROVE  /\ Prompt[r] \in Seq(Tok) /\ Len(Prompt[r]) \in Nat \ {0} /\ MaxGen[r] \in Nat \ {0}
         /\ Last(Prompt[r]) \in Tok /\ Last(Prompt[r]) = Prompt[r][Len(Prompt[r])]
         /\ Len(Prompt[r]) + MaxGen[r] <= NCtx /\ NCtx \in Nat /\ Tok \subseteq Nat /\ Eos \notin Tok
         /\ SnapPrefix[r] \in Nat
<1>1. /\ Prompt[r] \in Seq(Tok) /\ Prompt[r] # <<>> /\ Len(Prompt[r]) + MaxGen[r] <= NCtx
      /\ NCtx \in Nat /\ Tok \subseteq Nat /\ Eos \notin Tok /\ SnapPrefix[r] \in Nat
  BY QkEngineAssumption
<1>2. Len(Prompt[r]) \in Nat \ {0} /\ MaxGen[r] \in Nat \ {0}
  BY <1>1, EmptySeq, RequestsAssumption
<1>3. Last(Prompt[r]) = Prompt[r][Len(Prompt[r])]
  BY DEF Last
<1>4. Prompt[r][Len(Prompt[r])] \in Tok
  BY <1>1, <1>2, ElementOfSeq
<1>. QED  BY <1>1, <1>2, <1>3, <1>4

\* A prompt and what follows it.
LEMMA Decoded ==
  ASSUME NEW r \in Request, NEW q \in Seq(Tok)
  PROVE  LET h == Prompt[r] \o q  m == Len(Prompt[r]) IN
         /\ h \in Seq(Tok) /\ Len(h) = m + Len(q) /\ h # <<>> /\ Len(q) \in Nat
         /\ \A i \in 1 .. m : h[i] = Prompt[r][i]
         /\ \A i \in 1 .. Len(q) : h[m + i] = q[i]
         /\ Last(h) = Before(r, q, Len(q) + 1) /\ Last(h) \in Tok
<1>. DEFINE p == Prompt[r]  m == Len(p)  n == Len(q)  h == p \o q
<1>1. p \in Seq(Tok) /\ m \in Nat \ {0} /\ n \in Nat /\ Last(p) = p[m]
  BY RequestTypes
<1>. HIDE DEF p
<1>2. /\ h \in Seq(Tok) /\ Len(h) = m + n
      /\ \A i \in 1 .. m + n : h[i] = IF i <= m THEN p[i] ELSE q[i - m]
  BY <1>1, ConcatProperties
<1>3. h # <<>>
  BY <1>1, <1>2, EmptySeq
<1>4. \A i \in 1 .. m : h[i] = p[i]
  BY <1>1, <1>2
<1>5. \A i \in 1 .. n : h[m + i] = q[i]
  <2>. TAKE i \in 1 .. n
  <2>1. m + i \in 1 .. m + n /\ ~(m + i <= m) /\ (m + i) - m = i
    BY <1>1
  <2>. QED  BY <1>2, <2>1
<1>. HIDE DEF h
<1>6. h[m + n] = Before(r, q, n + 1)
  <2>1. CASE n = 0
    <3>1. m + n = m /\ m \in 1 .. m /\ n + 1 = 1
      BY <1>1, <2>1
    <3>. QED  BY <1>1, <1>4, <3>1 DEF Before, p
  <2>2. CASE n # 0
    <3>1. n \in 1 .. n /\ n + 1 # 1 /\ (n + 1) - 1 = n
      BY <1>1, <2>2
    <3>. QED  BY <1>5, <3>1 DEF Before
  <2>. QED  BY <2>1, <2>2
<1>7. Last(h) = h[m + n] /\ m + n \in 1 .. Len(h)
  BY <1>1, <1>2 DEF Last
<1>8. Last(h) \in Tok
  BY <1>2, <1>7, ElementOfSeq
<1>. QED  BY <1>1, <1>2, <1>3, <1>4, <1>5, <1>6, <1>7, <1>8 DEF h, p

\* The recursive function of Reference.
Grow(r, h, n) ==
  IF Len(h) < Len(Prompt[r]) + n - 1 \/ lm[Last(h)] = Eos THEN h ELSE Append(h, lm[Last(h)])
GrowBody(r, g) == [n \in 0 .. MaxGen[r] |-> IF n = 0 THEN Prompt[r] ELSE Grow(r, g[n - 1], n)]
Growth(r) == CHOOSE g : g = GrowBody(r, g)

\* The reference is what this growth adds to the prompt.
LEMMA ReferenceGrows ==
  ASSUME NEW r
  PROVE  Reference(r) = LET h == Growth(r)[MaxGen[r]] IN SubSeq(h, Len(Prompt[r]) + 1, Len(h))
BY DEF Reference, Growth, GrowBody, Grow

\* The growth satisfies its recursion.
LEMMA GrowthStep ==
  ASSUME ModelOK, NEW r \in Request
  PROVE  /\ Growth(r)[0] = Prompt[r]
         /\ \A n \in 1 .. MaxGen[r] : Growth(r)[n] = Grow(r, Growth(r)[n - 1], n)
<1>. DEFINE S == {h \in Seq(Tok) : h # <<>>}  M == MaxGen[r]  a == Prompt[r]  G == Growth(r)
            F == [n \in 1 .. M |-> [h \in S |-> Grow(r, h, n)]]
<1>1. a \in S /\ M \in Nat
  <2>1. Len(<<>>) = 0
    OBVIOUS
  <2>. QED  BY <2>1, RequestTypes
<1>2. F \in Steps(S, M)
  <2>1. ASSUME NEW n \in 1 .. M, NEW h \in S PROVE Grow(r, h, n) \in S
    <3>1. h \in Seq(Tok) /\ h # <<>>
      OBVIOUS
    <3>2. Len(h) \in 1 .. Len(h)
      BY <3>1, EmptySeq
    <3>3. Last(h) \in Tok
      BY <3>1, <3>2, ElementOfSeq DEF Last
    <3>4. lm[Last(h)] # Eos => Append(h, lm[Last(h)]) \in S
      BY <3>1, <3>3, AppendProperties DEF ModelOK
    <3>. HIDE DEF S
    <3>. QED  BY <3>4 DEF Grow
  <2>. HIDE DEF S
  <2>. QED  BY <2>1 DEF Steps
<1>. HIDE DEF S
<1>3. PICK g : g \in [0 .. M -> S] /\ g[0] = a /\ \A n \in 1 .. M : g[n] = F[n][g[n - 1]]
  <2>. HIDE DEF F, M, a
  <2>1. \E g : Iterates(g, S, a, M, F)
    BY <1>1, <1>2, RecursionDefined
  <2>. QED  BY <2>1 DEF Iterates
<1>4. \A n \in 1 .. M : g[n] = Grow(r, g[n - 1], n)
  <2>. TAKE n \in 1 .. M
  <2>1. n - 1 \in 0 .. M
    BY <1>1
  <2>2. g[n - 1] \in S
    BY <1>3, <2>1
  <2>. QED  BY <1>3, <2>2
<1>5. g = GrowBody(r, g)
  <2>1. \A n \in 0 .. M : n # 0 => n \in 1 .. M
    BY <1>1
  <2>. QED  BY <1>3, <1>4, <2>1 DEF GrowBody
<1>6. G = GrowBody(r, G)
  BY <1>5 DEF Growth
<1>. HIDE DEF G
<1>7. 0 \in 0 .. M /\ \A n \in 1 .. M : n \in 0 .. M /\ n # 0
  BY <1>1
<1>8. GrowBody(r, G)[0] = a /\ \A n \in 1 .. M : GrowBody(r, G)[n] = Grow(r, G[n - 1], n)
  BY <1>7 DEF GrowBody
<1>. QED  BY <1>6, <1>8 DEF G

\* A greedy run is what the reference grows to, for as long as it goes.
LEMMA GrowsAlong ==
  ASSUME ModelOK, NEW r \in Request, NEW q, GreedyRun(r, q)
  PROVE  \A n \in 0 .. Len(q) : Growth(r)[n] = Prompt[r] \o SubSeq(q, 1, n)
<1>. DEFINE p == Prompt[r]  G == Growth(r)  M == MaxGen[r]  P(n) == G[n] = p \o SubSeq(q, 1, n)
            T == {n \in Nat : n <= Len(q) => P(n)}
<1>1. /\ G[0] = p /\ \A n \in 1 .. M : G[n] = Grow(r, G[n - 1], n)
      /\ q \in Seq(Tok) /\ Len(q) \in Nat /\ Len(q) <= M /\ M \in Nat
  BY GrowthStep, RequestTypes DEF GreedyRun, RunOf
<1>. HIDE DEF G
<1>2. 0 \in T
  <2>1. SubSeq(q, 1, 0) = <<>>
    BY SubSeqEmpty
  <2>2. p \o <<>> = p
    BY RequestTypes, ConcatEmptySeq
  <2>. QED  BY <1>1, <2>1, <2>2
<1>3. ASSUME NEW n \in T PROVE n + 1 \in T
  <2>1. n \in Nat /\ n + 1 \in Nat /\ (n <= Len(q) => P(n))
    <3>. HIDE DEF P
    <3>. QED  OBVIOUS
  <2>2. ASSUME n + 1 <= Len(q) PROVE P(n + 1)
    <3>. DEFINE s == SubSeq(q, 1, n)  h == p \o s
    <3>1. /\ n <= Len(q) /\ n + 1 \in 1 .. M /\ (n + 1) - 1 = n /\ n \in 0 .. Len(q)
          /\ n + 1 \in 1 .. Len(q) /\ n + 1 \in 0 .. Len(q)
      BY <1>1, <2>1, <2>2
    <3>2. s \in Seq(Tok) /\ Len(s) = n /\ \A i \in 1 .. n : s[i] = q[i]
      BY <1>1, <3>1, StartOf
    <3>3. Before(r, s, n + 1) = Before(r, q, n + 1)
      <4>1. n + 1 # 1 => n \in 1 .. n
        BY <2>1
      <4>. HIDE DEF s
      <4>. QED  BY <3>1, <3>2, <4>1 DEF Before
    <3>4. q[n + 1] = lm[Before(r, q, n + 1)] /\ q[n + 1] \in Tok
      BY <1>1, <3>1, ElementOfSeq DEF GreedyRun, RunOf
    <3>5. SubSeq(q, 1, n + 1) = s \o <<q[n + 1]>>
      <4>1. 1 \in 1 .. Len(q) /\ n + 1 \in 1 .. Len(q)
        BY <1>1, <3>1
      <4>2. \A k \in 1 .. Len(q) : SubSeq(q, 1, k) = SubSeq(q, 1, k - 1) \o <<q[k]>>
        BY <1>1, <4>1, SubSeqRecursiveSecond
      <4>. QED  BY <3>1, <4>1, <4>2
    <3>. HIDE DEF s
    <3>6. h \in Seq(Tok) /\ Len(h) = Len(p) + n /\ Last(h) = Before(r, s, n + 1)
      BY <3>2, Decoded
    <3>7. ~(Len(h) < Len(p) + (n + 1) - 1)
      BY <2>1, <3>6, RequestTypes
    <3>8. G[n + 1] = Append(h, q[n + 1])
      <4>1. G[n] = h /\ lm[Last(h)] = q[n + 1] /\ q[n + 1] # Eos
        BY <2>1, <3>1, <3>3, <3>4, <3>6, RequestTypes DEF s
      <4>. HIDE DEF h
      <4>. QED  BY <1>1, <3>1, <3>7, <4>1 DEF Grow
    <3>9. Append(h, q[n + 1]) = p \o (s \o <<q[n + 1]>>)
      <4>1. Append(h, q[n + 1]) = h \o <<q[n + 1]>>
        BY <3>4, <3>6, AppendIsConcat
      <4>2. <<q[n + 1]>> \in Seq(Tok) /\ p \in Seq(Tok)
        BY <3>4, RequestTypes
      <4>. DEFINE c == <<q[n + 1]>>
      <4>. HIDE DEF p, c
      <4>3. (p \o s) \o c = p \o (s \o c)
        BY <3>2, <4>2, ConcatAssociative
      <4>. QED  BY <4>1, <4>3 DEF c
    <3>. QED  BY <3>5, <3>8, <3>9
  <2>. HIDE DEF P
  <2>. QED  BY <2>1, <2>2
<1>4. T = Nat
  <2>1. T \in SUBSET Nat
    OBVIOUS
  <2>. HIDE DEF T
  <2>. QED  BY <1>2, <1>3, <2>1, NumbersByInduction
<1>5. \A n \in 0 .. Len(q) : P(n)
  <2>. HIDE DEF P
  <2>. QED  BY <1>1, <1>4
<1>. QED  BY <1>5 DEF G

\* h starts with k.
StartsWith(h, k) == h \in Seq(Tok) /\ Len(k) <= Len(h) /\ \A i \in 1 .. Len(k) : h[i] = k[i]

\* It keeps what it has, and grows no more when the run is complete.
LEMMA GrowsBeyond ==
  ASSUME ModelOK, NEW r \in Request, NEW q, GreedyRun(r, q)
  PROVE  LET g == Growth(r)[MaxGen[r]]  h == Prompt[r] \o q IN
         StartsWith(g, h) /\ (Complete(r, q) => g = h)
<1>. DEFINE h == Prompt[r] \o q  G == Growth(r)  M == MaxGen[r]  m == Len(q)
            P(n) == StartsWith(G[m + n], h) /\ (Complete(r, q) => G[m + n] = h)
            T == {n \in Nat : m + n <= M => P(n)}
<1>1. /\ \A n \in 1 .. M : G[n] = Grow(r, G[n - 1], n)
      /\ q \in Seq(Tok) /\ m \in Nat /\ m <= M /\ M \in Nat
  BY GrowthStep, RequestTypes DEF GreedyRun, RunOf
<1>2. h \in Seq(Tok) /\ Len(h) \in Nat /\ Len(h) > 0 /\ Last(h) = Before(r, q, m + 1)
  BY <1>1, Decoded, RequestTypes
<1>3. G[m] = h
  <2>1. m \in 0 .. m /\ SubSeq(q, 1, m) = q
    BY <1>1, SubSeqFull
  <2>. QED  BY <2>1, GrowsAlong
<1>. HIDE DEF G, h
<1>4. 0 \in T
  <2>1. m + 0 = m
    BY <1>1
  <2>. QED  BY <1>2, <1>3, <2>1 DEF StartsWith
<1>5. ASSUME NEW n \in T PROVE n + 1 \in T
  <2>1. n \in Nat /\ n + 1 \in Nat /\ (m + n <= M => P(n))
    OBVIOUS
  <2>2. ASSUME m + (n + 1) <= M PROVE P(n + 1)
    <3>. DEFINE g == G[m + n]
    <3>1. m + n <= M /\ m + (n + 1) \in 1 .. M /\ (m + (n + 1)) - 1 = m + n
      BY <1>1, <2>1, <2>2
    <3>2. G[m + (n + 1)] = Grow(r, g, m + (n + 1)) /\ StartsWith(g, h) /\ (Complete(r, q) => g = h)
      BY <1>1, <2>1, <3>1
    <3>. HIDE DEF g
    <3>3. Complete(r, q) => lm[Last(h)] = Eos
      <4>1. m # M
        BY <1>1, <2>1, <2>2
      <4>. QED  BY <1>2, <4>1 DEF Complete, EndsRun
    <3>4. Complete(r, q) => G[m + (n + 1)] = h
      BY <3>2, <3>3 DEF Grow
    <3>5. StartsWith(G[m + (n + 1)], h)
      <4>1. CASE G[m + (n + 1)] = g
        BY <3>2, <4>1
      <4>2. CASE G[m + (n + 1)] = Append(g, lm[Last(g)]) /\ lm[Last(g)] # Eos
        <5>1. g \in Seq(Tok) /\ Len(g) \in Nat /\ Len(h) <= Len(g)
          BY <3>2 DEF StartsWith
        <5>2. Len(g) \in 1 .. Len(g)
          BY <1>2, <5>1
        <5>3. Last(g) \in Tok
          BY <5>1, <5>2, ElementOfSeq DEF Last
        <5>4. lm[Last(g)] \in Tok
          BY <4>2, <5>3 DEF ModelOK
        <5>5. /\ Append(g, lm[Last(g)]) \in Seq(Tok) /\ Len(Append(g, lm[Last(g)])) = Len(g) + 1
              /\ \A i \in 1 .. Len(g) : Append(g, lm[Last(g)])[i] = g[i]
          BY <5>1, <5>4, AppendProperties
        <5>6. \A i \in 1 .. Len(h) : i \in 1 .. Len(g)
          BY <1>2, <5>1
        <5>. DEFINE x == Append(g, lm[Last(g)])
        <5>7. Len(h) <= Len(g) + 1
          BY <1>2, <5>1
        <5>. HIDE DEF x
        <5>8. \A i \in 1 .. Len(h) : x[i] = h[i]
          BY <3>2, <5>5, <5>6 DEF StartsWith, x
        <5>9. StartsWith(x, h)
          BY <5>5, <5>7, <5>8 DEF StartsWith, x
        <5>. QED  BY <4>2, <5>9 DEF x
      <4>. QED  BY <3>2, <4>1, <4>2 DEF Grow
    <3>. QED  BY <3>4, <3>5
  <2>. HIDE DEF P
  <2>. QED  BY <2>1, <2>2
<1>6. T = Nat
  <2>1. T \in SUBSET Nat
    OBVIOUS
  <2>. HIDE DEF T
  <2>. QED  BY <1>4, <1>5, <2>1, NumbersByInduction
<1>7. P(M - m)
  <2>1. M - m \in Nat /\ m + (M - m) <= M
    BY <1>1
  <2>2. M - m \in T
    BY <1>6, <2>1
  <2>. HIDE DEF P
  <2>. QED  BY <2>1, <2>2
<1>8. m + (M - m) = M
  BY <1>1
<1>. QED  BY <1>7, <1>8 DEF G, h

\* A greedy run is a prefix of the reference; a complete one is all of it.
LEMMA RunsAreGreedy ==
  ASSUME ModelOK, NEW r \in Request, NEW q, GreedyRun(r, q)
  PROVE  IsPrefix(q, Reference(r)) /\ (Complete(r, q) => q = Reference(r))
<1>. DEFINE g == Growth(r)[MaxGen[r]]  h == Prompt[r] \o q  m == Len(Prompt[r])  n == Len(q)
            e == SubSeq(g, m + 1, Len(g))
<1>1. Reference(r) = e
  BY ReferenceGrows
<1>2. StartsWith(g, h) /\ (Complete(r, q) => g = h) /\ q \in Seq(Tok) /\ n \in Nat /\ m \in Nat
  BY GrowsBeyond, RequestTypes DEF GreedyRun, RunOf
<1>3. h \in Seq(Tok) /\ Len(h) = m + n /\ \A i \in 1 .. n : h[m + i] = q[i]
  BY <1>2, Decoded
<1>. HIDE DEF g, h
<1>4. g \in Seq(Tok) /\ Len(g) \in Nat /\ m + n <= Len(g) /\ \A i \in 1 .. m + n : g[i] = h[i]
  BY <1>2, <1>3 DEF StartsWith
<1>. DEFINE b == Len(g)
<1>5. m + 1 \in Int /\ b \in Int /\ b - m \in Nat /\ n <= b - m /\ n \in 0 .. b - m /\ b - (m + 1) + 1 = b - m
      /\ (IF m + 1 <= b THEN b - (m + 1) + 1 ELSE 0) = b - m
  <2>1. m \in Nat /\ n \in Nat /\ b \in Nat /\ m + n <= b
    BY <1>2, <1>4
  <2>. HIDE DEF m, n, b
  <2>. QED  BY <2>1
<1>6. \A i \in m + 1 .. b : g[i] \in Tok
  <2>1. \A i \in m + 1 .. b : i \in 1 .. b
    BY <1>2, <1>4
  <2>. QED  BY <1>4, <2>1, ElementOfSeq
<1>7. /\ e \in Seq(Tok) /\ Len(e) = b - m
      /\ \A i \in 1 .. b - m : e[i] = g[(m + 1) + i - 1]
  <2>. HIDE DEF b
  <2>1. /\ SubSeq(g, m + 1, b) \in Seq(Tok)
        /\ Len(SubSeq(g, m + 1, b)) = IF m + 1 <= b THEN b - (m + 1) + 1 ELSE 0
        /\ \A i \in 1 .. b - (m + 1) + 1 : SubSeq(g, m + 1, b)[i] = g[(m + 1) + i - 1]
    <3>. HIDE DEF m
    <3>. QED  BY <1>5, <1>6, SubSeqProperties
  <2>. QED  BY <1>5, <2>1 DEF b
<1>. HIDE DEF e
<1>8. \A i \in 1 .. n : e[i] = q[i]
  <2>. TAKE i \in 1 .. n
  <2>1. i \in 1 .. b - m /\ (m + 1) + i - 1 = m + i /\ m + i \in 1 .. m + n
    BY <1>2, <1>5
  <2>. QED  BY <1>3, <1>4, <1>7, <2>1
<1>9. n \in 0 .. n /\ n <= Len(e)
  <2>. HIDE DEF n, m, b
  <2>. QED  BY <1>2, <1>5, <1>7
<1>10. SubSeq(q, 1, n) = SubSeq(e, 1, n)
  BY <1>2, <1>7, <1>8, <1>9, StartSame
<1>11. Complete(r, q) => q = e
  <2>. SUFFICES ASSUME Complete(r, q) PROVE q = e
    OBVIOUS
  <2>1. b = m + n
    BY <1>2, <1>3
  <2>2. Len(e) = n
    BY <1>2, <1>7, <2>1
  <2>. QED  BY <1>2, <1>7, <1>8, <2>2, SeqEqual
<1>. QED  BY <1>1, <1>9, <1>10, <1>11 DEF IsPrefix

-------------------------------------------------------------------------------
(* The invariant.                                                              *)

CacheEntry == [valid : BOOLEAN, tokens : Seq(Tok), lru : Nat, snap : Stripe]
EntryShown == [req : Request \cup {None}, pre : Nat, gen : Nat]

\* A cache of this shape, each entry's key what its snapshot has been fed.
CacheOK(c) ==
  /\ c \in [clock : Nat, entries : [1 .. PCacheN -> CacheEntry]]
  /\ \A i \in 1 .. PCacheN : c.entries[i].valid => Holds(c.entries[i].snap, c.entries[i].tokens)

\* The types the properties leave out.
TypesToo ==
  /\ ModelOK /\ mem \in [Slot -> Stripe] /\ CacheOK(cache)
  /\ outTok \in [Slot -> Seq(Tok)] /\ sent \in [Request -> Seq(Tok)]
  /\ entry \in [Slot -> EntryShown] /\ (pc = "sampled" => step >= 1)

\* A sequence that is in the slot, or was when the call in progress began.
Live(s) == slots[s].active \/ (pc # "idle" /\ entry[s].req # None)

(* What a slot has generated: greedy decoding by model f, of which the caller  *)
(* got a part, the call in progress holds the next and the slot queues the     *)
(* rest; o is what the call holds and a what the caller has.                   *)
RunOK(f, sl, o, a) ==
  LET r == sl.req IN
  /\ r \in Request /\ sl.cursor <= Len(Prompt[r])
  /\ RunOf(f, r, sl.gen) /\ a \o (o \o sl.outQ) = sl.gen
  /\ sl.active /\ sl.finPending => sl.outQ # <<>> /\ EndsRun(f, r, sl.gen) /\ ~Prefilling(sl)
  /\ ~sl.active => sl.outQ = <<>> /\ EndsRun(f, r, sl.gen)
  /\ Running(sl) /\ Prefilling(sl) => sl.gen = <<>>
  /\ Running(sl) /\ ~Prefilling(sl) =>
       /\ Len(sl.gen) >= 1 /\ Len(sl.gen) < MaxGen[r]
       /\ sl.pos + 1 = Len(Prompt[r]) + Len(sl.gen)
SlotOK(s) ==
  /\ ~slots[s].active => slots[s].outQ = <<>>
  /\ Live(s) => RunOK(lm, slots[s], outTok[s], sent[slots[s].req])

\* How the call in progress has moved a slot on from its entry e, after the
\* samples of n steps.
MoveOK(sl, o, e, fin, n, a) ==
  /\ e.req # None <=> sl.active \/ fin
  /\ fin => ~sl.active
  /\ e.req # None => sl.req = e.req /\ e.gen = Len(a)
  /\ e.req = None => o = <<>>
  /\ sl.active /\ sl.outQ # <<>> => Len(o) = Chunk
  /\ sl.active /\ Prefilling(sl) => e.pre = (Len(PromptOf(sl)) - sl.cursor) + n
  /\ Running(sl) /\ ~Prefilling(sl) /\ n >= 1 => o # <<>>

\* Is slot s fed a token whose sample it has not been given?
Waiting(s) == IF pc = "sampled" /\ s >= cur THEN 1 ELSE 0
CallOK(s) ==
  /\ pc = "idle" => outTok[s] = <<>> /\ s \notin outFin
  /\ pc # "idle" => MoveOK(slots[s], outTok[s], entry[s], s \in outFin, step - Waiting(s),
                           sent[slots[s].req])

\* The tokens of its history a running slot's stripes have been fed.
FedCount(sl) == IF Prefilling(sl) THEN sl.cursor ELSE sl.pos
MemOK(s) == Running(slots[s]) =>
              HoldsTo(mem[s], History(slots[s]), FedCount(slots[s]) + Waiting(s))

\* Each request is in at most one slot; what its caller has got is greedy.
RequestsOK ==
  /\ \A s \in Slot : Live(s) => slots[s].req \notin jobs /\ slots[s].req \notin over
  /\ \A s, t \in Slot : Live(s) /\ Live(t) /\ slots[s].req = slots[t].req => s = t
  /\ \A r \in Request : /\ RunOf(lm, r, sent[r])
                        /\ r \in jobs => sent[r] = <<>> /\ r \notin over
                        /\ r \in over => EndsRun(lm, r, sent[r])

EngineInv ==
  /\ TypeOK /\ TypesToo /\ RequestsOK
  /\ \A s \in Slot : SlotOK(s) /\ CallOK(s) /\ MemOK(s)

-------------------------------------------------------------------------------
(* Helpers.                                                                    *)

\* The sample of a state that has been fed the first n tokens of h.
LEMMA GreedyOf ==
  ASSUME NEW h \in Seq(Tok), NEW n \in 1 .. Len(h)
  PROVE  Greedy(SubSeq(h, 1, n)) = lm[h[n]]
<1>. DEFINE k == SubSeq(h, 1, n)
<1>1. k \in Seq(Tok) /\ Len(k) = n /\ \A i \in 1 .. n : k[i] = h[i]
  BY StartOf
<1>2. n \in 1 .. n /\ n \in Nat
  OBVIOUS
<1>. HIDE DEF k
<1>3. Junk[1] = -1 /\ Tok \subseteq Nat
  BY QkEngineAssumption DEF Junk
<1>4. \A i \in 1 .. Len(k) : k[i] \in Nat
  BY <1>1, <1>3, ElementOfSeq
<1>5. DOMAIN k = 1 .. Len(k)
  BY <1>1
<1>6. ~(Junk[1] \in Range(k))
  BY <1>3, <1>4, <1>5 DEF Range
<1>7. Last(k) = h[n]
  BY <1>1, <1>2 DEF Last
<1>. QED  BY <1>6, <1>7 DEF Greedy, k

\* The lesser of two numbers.
LEMMA AtMostIs ==
  ASSUME NEW n \in Nat, NEW m \in Nat
  PROVE  /\ AtMost(n, m) \in Nat /\ AtMost(n, m) <= n /\ AtMost(n, m) <= m
         /\ AtMost(n, m) = n \/ AtMost(n, m) = m
         /\ n <= m => AtMost(n, m) = n
         /\ m <= n => AtMost(n, m) = m
BY DEF AtMost

\* A snapshot's key is the history up to the position, in the prompt or beyond.
LEMMA SnapshotKeyIs ==
  ASSUME NEW sl, sl.req \in Request, sl.gen \in Seq(Tok),
         sl.pos \in 0 .. Len(Prompt[sl.req]) + Len(sl.gen)
  PROVE  SnapshotKey(sl) = SubSeq(History(sl), 1, sl.pos)
<1>. DEFINE p == Prompt[sl.req]  q == sl.gen  n == sl.pos  h == p \o q  m == Len(p)
            x == AtMost(n, m)  y == AtMost(n - x, Len(q))
<1>1. p \in Seq(Tok) /\ q \in Seq(Tok) /\ m \in Nat /\ Len(q) \in Nat /\ n \in Nat /\ n <= m + Len(q)
  <2>1. p \in Seq(Tok) /\ m \in Nat
    BY RequestTypes
  <2>2. q \in Seq(Tok) /\ n \in 0 .. m + Len(q)
    BY Zenon
  <2>. HIDE DEF p, q, n, m
  <2>3. Len(q) \in Nat
    BY <2>2
  <2>. QED  BY <2>1, <2>2, <2>3
<1>2. /\ h \in Seq(Tok) /\ Len(h) = m + Len(q)
      /\ \A i \in 1 .. m : h[i] = p[i]
      /\ \A i \in 1 .. Len(q) : h[m + i] = q[i]
  BY Decoded
<1>3. SnapshotKey(sl) = SubSeq(p, 1, x) \o SubSeq(q, 1, y) /\ History(sl) = h
  BY DEF SnapshotKey, PromptOf, History
<1>. HIDE DEF p, q, n, h, m
<1>4. /\ x \in 0 .. m /\ n - x \in Nat /\ n - x <= Len(q) /\ y = n - x /\ y \in 0 .. Len(q)
      /\ x + y = n
  <2>1. x \in Nat /\ x <= n /\ x <= m /\ (n <= m => x = n) /\ (m <= n => x = m)
    BY <1>1, AtMostIs
  <2>. HIDE DEF x
  <2>2. n - x \in Nat /\ n - x <= Len(q)
    BY <1>1, <2>1
  <2>3. y = n - x
    BY <1>1, <2>2, AtMostIs
  <2>. HIDE DEF y
  <2>. QED  BY <1>1, <2>1, <2>2, <2>3
<1>5. y # 0 => x = m
  <2>1. (n <= m => x = n) /\ (m <= n => x = m)
    BY <1>1, AtMostIs
  <2>. HIDE DEF x, y
  <2>. QED  BY <1>1, <1>4, <2>1
<1>. HIDE DEF x, y
<1>. DEFINE a == SubSeq(p, 1, x)  b == SubSeq(q, 1, y)
<1>6. /\ a \in Seq(Tok) /\ Len(a) = x /\ \A i \in 1 .. x : a[i] = p[i]
      /\ b \in Seq(Tok) /\ Len(b) = y /\ \A i \in 1 .. y : b[i] = q[i]
  <2>1. m = Len(p)
    BY DEF m
  <2>. QED  BY <1>1, <1>4, <2>1, StartOf
<1>. HIDE DEF a, b
<1>7. /\ a \o b \in Seq(Tok) /\ Len(a \o b) = n
      /\ \A i \in 1 .. n : (a \o b)[i] = IF i <= x THEN a[i] ELSE b[i - x]
  <2>1. /\ a \o b \in Seq(Tok) /\ Len(a \o b) = Len(a) + Len(b)
        /\ \A i \in 1 .. Len(a) + Len(b) : (a \o b)[i] = IF i <= Len(a) THEN a[i] ELSE b[i - Len(a)]
    <3>1. a \in Seq(Tok) /\ b \in Seq(Tok)
      BY <1>6
    <3>. QED  BY <3>1, ConcatProperties
  <2>2. Len(a) + Len(b) = n
    BY <1>4, <1>6
  <2>. QED  BY <1>6, <2>1, <2>2
<1>8. \A i \in 1 .. n : (a \o b)[i] = h[i]
  <2>. TAKE i \in 1 .. n
  <2>0. (a \o b)[i] = IF i <= x THEN a[i] ELSE b[i - x]
    BY <1>7
  <2>1. CASE i <= x
    <3>1. i \in 1 .. x /\ i \in 1 .. m
      BY <1>1, <1>4, <2>1
    <3>. QED  BY <1>2, <1>6, <2>0, <2>1, <3>1
  <2>2. CASE ~(i <= x)
    <3>1. i - x \in 1 .. y /\ y # 0 /\ i - x \in 1 .. Len(q)
      BY <1>1, <1>4, <2>2
    <3>2. x = m /\ m + (i - x) = i
      BY <1>1, <1>5, <3>1
    <3>3. b[i - x] = q[i - x] /\ h[m + (i - x)] = q[i - x]
      BY <1>2, <1>6, <3>1
    <3>. QED  BY <2>0, <2>2, <3>2, <3>3
  <2>. QED  BY <2>1, <2>2
<1>. DEFINE c == SubSeq(h, 1, n)
<1>9. c \in Seq(Tok) /\ Len(c) = n /\ \A i \in 1 .. n : c[i] = h[i]
  <2>1. n \in 0 .. Len(h)
    BY <1>1, <1>2
  <2>. QED  BY <1>2, <2>1, StartOf
<1>. HIDE DEF c
<1>10. a \o b = c
  <2>. DEFINE ab == a \o b
  <2>. HIDE DEF ab
  <2>1. ab \in Seq(Tok) /\ Len(ab) = n /\ \A i \in 1 .. n : ab[i] = h[i]
    BY <1>7, <1>8 DEF ab
  <2>2. ab = c
    BY <1>9, <2>1, SeqEqual
  <2>. QED  BY <2>2 DEF ab
<1>. QED  BY <1>3, <1>10 DEF a, b, c, n

\* A snapshot leaves the cache exact when the stripe is.
LEMMA SnapshotOK ==
  ASSUME NEW c, CacheOK(c), NEW stripe \in Stripe, NEW sl,
         sl.req \in Request, sl.gen \in Seq(Tok),
         sl.pos \in 0 .. Len(Prompt[sl.req]) + Len(sl.gen),
         HoldsTo(stripe, History(sl), sl.pos)
  PROVE  CacheOK(SnapshotSlot(c, sl, stripe))
<1>. DEFINE h == History(sl)  n == sl.pos  key == SnapshotKey(sl)
            e == [valid |-> TRUE, tokens |-> key, lru |-> c.clock + 1, snap |-> stripe]
            es == [c.entries EXCEPT ![Victim(c.entries)] = e]
            d == [clock |-> c.clock + 1, entries |-> es]
<1>1. h \in Seq(Tok) /\ n \in 0 .. Len(h) /\ key = SubSeq(h, 1, n)
  <2>1. h = Prompt[sl.req] \o sl.gen
    BY DEF History, PromptOf
  <2>2. h \in Seq(Tok) /\ Len(h) = Len(Prompt[sl.req]) + Len(sl.gen)
    BY <2>1, Decoded
  <2>3. key = SubSeq(h, 1, n)
    BY SnapshotKeyIs
  <2>. QED  BY <2>2, <2>3
<1>2. key \in Seq(Tok) /\ Holds(stripe, key)
  <2>1. HoldsTo(stripe, h, n)
    OBVIOUS
  <2>. HIDE DEF h, n, key
  <2>. QED  BY <1>1, <2>1, StartOf, HoldsIs
<1>3. /\ c \in [clock : Nat, entries : [1 .. PCacheN -> CacheEntry]]
      /\ \A i \in 1 .. PCacheN : c.entries[i].valid => Holds(c.entries[i].snap, c.entries[i].tokens)
  BY DEF CacheOK
<1>. HIDE DEF h, n, key
<1>4. e \in CacheEntry /\ c.clock + 1 \in Nat /\ e.valid /\ e.snap = stripe /\ e.tokens = key
  BY <1>2, <1>3 DEF CacheEntry
<1>. HIDE DEF e
<1>. DEFINE v == Victim(c.entries)
<1>. HIDE DEF v
<1>5. c.entries \in [1 .. PCacheN -> CacheEntry]
  BY <1>3
<1>6. /\ es \in [1 .. PCacheN -> CacheEntry]
      /\ \A i \in 1 .. PCacheN : es[i] = IF i = v THEN e ELSE c.entries[i]
  BY <1>4, <1>5 DEF v
<1>. HIDE DEF es
<1>7. \A i \in 1 .. PCacheN : es[i].valid => Holds(es[i].snap, es[i].tokens)
  <2>. TAKE i \in 1 .. PCacheN
  <2>1. CASE i = v
    BY <1>2, <1>4, <1>6, <2>1
  <2>2. CASE i # v
    BY <1>3, <1>6, <2>2
  <2>. QED  BY <2>1, <2>2
<1>8. d \in [clock : Nat, entries : [1 .. PCacheN -> CacheEntry]] /\ d.entries = es
  BY <1>4, <1>6
<1>9. SnapshotSlot(c, sl, stripe) = c \/ SnapshotSlot(c, sl, stripe) = d
  BY DEF SnapshotSlot, e, es, key
<1>. HIDE DEF d
<1>10. CacheOK(d)
  BY <1>7, <1>8 DEF CacheOK
<1>. QED  BY <1>9, <1>10

\* Token sequences one after the other.
LEMMA TokConcat ==
  \A a, b \in Seq(Tok) :
    /\ a \o b \in Seq(Tok) /\ Len(a \o b) = Len(a) + Len(b) /\ Len(a) \in Nat /\ Len(b) \in Nat
    /\ \A i \in 1 .. Len(a) : (a \o b)[i] = a[i]
    /\ \A i \in 1 .. Len(b) : (a \o b)[Len(a) + i] = b[i]
<1>. TAKE a \in Seq(Tok), b \in Seq(Tok)
<1>1. /\ a \o b \in Seq(Tok) /\ Len(a \o b) = Len(a) + Len(b)
      /\ \A i \in 1 .. Len(a) + Len(b) : (a \o b)[i] = IF i <= Len(a) THEN a[i] ELSE b[i - Len(a)]
  BY ConcatProperties
<1>2. /\ Len(a) \in Nat /\ Len(b) \in Nat
      /\ \A i \in 1 .. Len(a) : i \in 1 .. Len(a) + Len(b) /\ i <= Len(a)
      /\ \A i \in 1 .. Len(b) : /\ Len(a) + i \in 1 .. Len(a) + Len(b)
                               /\ ~(Len(a) + i <= Len(a)) /\ (Len(a) + i) - Len(a) = i
  OBVIOUS
<1>3. \A i \in 1 .. Len(a) : (a \o b)[i] = a[i]
  BY <1>1, <1>2
<1>4. \A i \in 1 .. Len(b) : (a \o b)[Len(a) + i] = b[i]
  <2>. TAKE i \in 1 .. Len(b)
  <2>. DEFINE j == Len(a) + i
  <2>1. j \in 1 .. Len(a) + Len(b) /\ ~(j <= Len(a)) /\ j - Len(a) = i
    BY <1>2
  <2>. HIDE DEF j
  <2>2. (a \o b)[j] = b[i]
    BY <1>1, <2>1
  <2>. QED  BY <2>2 DEF j
<1>. QED  BY <1>1, <1>2, <1>3, <1>4

\* Concatenation is associative on tokens.
LEMMA TokAssoc ==
  \A a, b, d \in Seq(Tok) : (a \o b) \o d = a \o (b \o d)
BY ConcatAssociative

\* What a slot emits in order, some with the call and the rest queued.
LEMMA EmitKeeps ==
  ASSUME NEW s, NEW toks \in Seq(Tok), NEW q \in Seq(Tok),
         outTok[s] \in Seq(Tok), Len(outTok[s]) <= Chunk, q # <<>> => Len(outTok[s]) = Chunk
  PROVE  LET o == Emitted(s, toks)  z == q \o Overflow(s, toks) IN
         /\ o \in Seq(Tok) /\ Len(o) <= Chunk /\ z \in Seq(Tok)
         /\ z # <<>> => Len(o) = Chunk
         /\ q # <<>> => z # <<>>
         /\ toks # <<>> \/ outTok[s] # <<>> => o # <<>>
         /\ o \o z = (outTok[s] \o q) \o toks
<1>. DEFINE t == outTok[s]  n == Len(toks)  m == Len(t)  a == AtMost(Chunk - m, n)
            x == SubSeq(toks, 1, a)  y == SubSeq(toks, a + 1, n)
<1>1. /\ Chunk \in Nat \ {0} /\ t \in Seq(Tok) /\ m \in Nat /\ m <= Chunk /\ n \in Nat
      /\ Chunk - m \in Nat
  BY QkEngineAssumption, SMTT(60)
<1>2. Emitted(s, toks) = t \o x /\ Overflow(s, toks) = y
  BY DEF Emitted, Overflow, Room
<1>3. a \in Nat /\ a <= Chunk - m /\ a <= n /\ (a = Chunk - m \/ a = n) /\ a \in 0 .. n
  <2>. HIDE DEF t, n, m
  <2>1. a \in Nat /\ a <= Chunk - m /\ a <= n /\ (a = Chunk - m \/ a = n)
    BY <1>1, AtMostIs
  <2>. QED  BY <1>1, <2>1
<1>. HIDE DEF a
<1>4. /\ x \in Seq(Tok) /\ Len(x) = a /\ y \in Seq(Tok) /\ Len(y) = n - a /\ toks = x \o y
  BY <1>3, CutInTwo, ZenonT(60) DEF FirstPart, OtherPart
<1>. HIDE DEF t, n, m, x, y
<1>5. /\ t \o x \in Seq(Tok) /\ Len(t \o x) = m + a
      /\ q \o y \in Seq(Tok) /\ Len(q \o y) = Len(q) + (n - a) /\ Len(q) \in Nat
  <2>1. t \in Seq(Tok) /\ x \in Seq(Tok) /\ y \in Seq(Tok)
    BY <1>1, <1>4
  <2>2. /\ t \o x \in Seq(Tok) /\ Len(t \o x) = Len(t) + Len(x)
        /\ q \o y \in Seq(Tok) /\ Len(q \o y) = Len(q) + Len(y) /\ Len(q) \in Nat
    BY <2>1, TokConcat
  <2>. QED  BY <1>4, <2>2 DEF m
<1>6. \A u \in Seq(Tok) : u = <<>> <=> Len(u) = 0
  BY EmptySeq
<1>7. q # <<>> => m = Chunk
  BY DEF m, t
<1>8. n = Len(toks) /\ m = Len(t)
  BY DEF n, m
<1>9. Len(t \o x) <= Chunk
  BY <1>1, <1>3, <1>5
<1>10. q \o y # <<>> => Len(t \o x) = Chunk
  <2>1. CASE q # <<>>
    BY <1>1, <1>3, <1>5, <1>7, <2>1
  <2>2. CASE q = <<>>
    <3>1. Len(q) = 0
      BY <1>6, <2>2
    <3>2. a # n => m + a = Chunk
      BY <1>1, <1>3
    <3>3. a = n => Len(q \o y) = 0
      BY <1>1, <1>3, <1>5, <3>1
    <3>. QED  BY <1>5, <1>6, <3>2, <3>3
  <2>. QED  BY <2>1, <2>2
<1>11. q # <<>> => q \o y # <<>>
  <2>1. Len(q) # 0 => Len(q) + (n - a) # 0
    BY <1>1, <1>3, <1>5
  <2>. QED  BY <1>5, <1>6, <2>1
<1>12. toks # <<>> \/ t # <<>> => t \o x # <<>>
  <2>1. n # 0 \/ m # 0 => m + a # 0
    BY <1>1, <1>3
  <2>. QED  BY <1>1, <1>5, <1>6, <1>8, <2>1
<1>13. (t \o x) \o (q \o y) = (t \o q) \o toks
  <2>1. CASE q = <<>>
    <3>1. q \o y = y /\ t \o q = t
      BY <1>1, <1>4, <2>1, ConcatEmptySeq
    <3>2. (t \o x) \o y = t \o (x \o y)
      <4>1. t \in Seq(Tok) /\ x \in Seq(Tok) /\ y \in Seq(Tok)
        BY <1>1, <1>4
      <4>. QED  BY <4>1, TokAssoc, ZenonT(60)
    <3>. QED  BY <1>4, <3>1, <3>2
  <2>2. CASE q # <<>>
    <3>1. a = 0
      BY <1>1, <1>3, <1>7, <2>2
    <3>2. x = <<>>
      BY <1>4, <1>6, <3>1
    <3>3. y = toks /\ t \o x = t
      BY <1>1, <1>4, <3>2, ConcatEmptySeq
    <3>4. (t \o q) \o y = t \o (q \o y)
      <4>1. t \in Seq(Tok) /\ y \in Seq(Tok)
        BY <1>1, <1>4
      <4>. QED  BY <4>1, TokAssoc, ZenonT(60)
    <3>. QED  BY <3>3, <3>4
  <2>. QED  BY <2>1, <2>2
<1>. QED  BY <1>2, <1>5, <1>9, <1>10, <1>11, <1>12, <1>13 DEF t

-------------------------------------------------------------------------------
(* qk_slot_start.                                                              *)

\* batch_to goes some of the way to its limit.
LEMMA BatchToIs ==
  ASSUME NEW done \in Nat, NEW limit \in Nat, done <= limit
  PROVE  BatchTo(done, limit) \in done .. limit
<1>. DEFINE left == limit - done  tail == left % MaxB
<1>1. MaxB \in Nat \ {0}
  BY QkEngineAssumption
<1>2. left \in Nat
  OBVIOUS
<1>. HIDE DEF left
<1>3. tail \in Nat /\ tail <= left
  BY <1>1, <1>2
<1>. HIDE DEF tail
<1>4. done + left = limit
  BY DEF left
<1>5. BatchTo(done, limit) = done + left - (IF tail >= MinBatch THEN 0 ELSE tail)
  <2>1. (IF limit > done THEN limit - done ELSE 0) = left
    BY DEF left
  <2>. QED  BY <2>1 DEF BatchTo, tail
<1>. QED  BY <1>2, <1>3, <1>4, <1>5

\* A batched prefill feeds the prompt up to its limit.
LEMMA PrefillToHolds ==
  ASSUME NEW st \in Stripe, NEW p \in Seq(Tok), Len(p) <= NCtx,
         NEW limit \in 0 .. Len(p), NEW done \in 0 .. limit, HoldsTo(st, p, done)
  PROVE  PrefillTo(st, p, done, limit) \in Stripe /\ HoldsTo(PrefillTo(st, p, done, limit), p, limit)
<1>1. CASE limit = done
  BY <1>1 DEF PrefillTo
<1>2. CASE limit # done
  <2>. DEFINE x == SubSeq(p, done + 1, limit)  n == limit - done
  <2>1. /\ done \in Nat /\ limit \in Nat /\ n \in Nat /\ done + n = limit /\ done + 1 \in Int
        /\ limit - (done + 1) + 1 = n /\ done + 1 <= limit /\ Len(p) \in Nat /\ limit <= Len(p)
    BY <1>2
  <2>. HIDE DEF n
  <2>2. \A i \in done + 1 .. limit : p[i] \in Tok
    <3>1. \A i \in done + 1 .. limit : i \in 1 .. Len(p)
      OBVIOUS
    <3>. QED  BY <3>1, ElementOfSeq
  <2>3. /\ x \in Seq(Tok) /\ Len(x) = n
        /\ \A i \in 1 .. n : x[i] = p[(done + 1) + i - 1] /\ (done + 1) + i - 1 = done + i
    <3>1. /\ x \in Seq(Tok)
          /\ Len(x) = IF done + 1 <= limit THEN limit - (done + 1) + 1 ELSE 0
          /\ \A i \in 1 .. limit - (done + 1) + 1 : x[i] = p[(done + 1) + i - 1]
      BY <2>1, <2>2, SubSeqProperties
    <3>. HIDE DEF x
    <3>2. \A i \in 1 .. n : (done + 1) + i - 1 = done + i
      BY <2>1
    <3>. QED  BY <2>1, <3>1, <3>2
  <2>. HIDE DEF x
  <2>4. \A i \in 1 .. Len(x) : x[i] = p[done + i]
    BY <2>3
  <2>5. done + Len(x) <= Len(p) /\ done + Len(x) <= NCtx /\ done + Len(x) = limit /\ Len(x) \in 0 .. Len(x)
    BY <2>1, <2>3, QkEngineAssumption
  <2>6. \A i \in 0 .. Len(x) : HoldsTo(Fed(st, x, done)[i], p, done + i)
    BY <2>1, <2>3, <2>4, <2>5, FedHolds
  <2>7. \A i \in 0 .. Len(x) : Fed(st, x, done)[i] \in Stripe
    BY <2>1, <2>3, FedStep
  <2>8. PrefillTo(st, p, done, limit) = Fed(st, x, done)[Len(x)]
    BY <1>2 DEF PrefillTo, PrefillBatch, x
  <2>. QED  BY <2>5, <2>6, <2>7, <2>8
<1>. QED  BY <1>1, <1>2

\* A cached entry that matches a prompt is a start of it.
LEMMA MatchIs ==
  ASSUME CacheOK(cache), NEW p \in Seq(Tok), NEW i \in Matches(p)
  PROVE  LET e == cache.entries[i] IN
         /\ i \in 1 .. PCacheN /\ e \in CacheEntry /\ Len(e.tokens) \in Nat
         /\ Len(e.tokens) < Len(p) /\ HoldsTo(e.snap, p, Len(e.tokens))
<1>. DEFINE e == cache.entries[i]  k == e.tokens  n == Len(k)
<1>1. i \in 1 .. PCacheN /\ e.valid /\ IsStrictPrefix(k, p)
  BY DEF Matches
<1>2. e \in CacheEntry /\ Holds(e.snap, k)
  BY <1>1 DEF CacheOK
<1>. HIDE DEF e
<1>3. k \in Seq(Tok) /\ n \in Nat /\ e.snap \in Stripe
  BY <1>2 DEF CacheEntry
<1>4. n <= Len(p) /\ SubSeq(k, 1, n) = SubSeq(p, 1, n) /\ k # p
  BY <1>1 DEF IsStrictPrefix, IsPrefix
<1>. HIDE DEF k
<1>5. SubSeq(k, 1, n) = k
  BY <1>3, SubSeqFull
<1>6. n # Len(p)
  <2>. SUFFICES ASSUME n = Len(p) PROVE FALSE
    OBVIOUS
  <2>1. SubSeq(p, 1, n) = p
    BY SubSeqFull
  <2>. QED  BY <1>4, <1>5, <2>1
<1>7. n \in 0 .. Len(p) /\ n < Len(p)
  <2>1. Len(p) \in Nat
    OBVIOUS
  <2>. HIDE DEF n
  <2>. QED  BY <1>3, <1>4, <1>6, <2>1
<1>8. Holds(e.snap, SubSeq(p, 1, n))
  BY <1>2, <1>4, <1>5
<1>9. HoldsTo(e.snap, p, n)
  <2>. HIDE DEF n
  <2>. QED  BY <1>7, <1>8, HoldsIs
<1>. QED  BY <1>1, <1>2, <1>3, <1>7, <1>9 DEF e, k

\* The longest match exists.
LEMMA LongestMatches ==
  ASSUME CacheOK(cache), NEW p \in Seq(Tok), Matches(p) # {}
  PROVE  Longest(p) \in Matches(p)
<1>. DEFINE Lof(i) == Len(cache.entries[i].tokens)
            T == {Len(p) - Lof(i) : i \in Matches(p)}
<1>1. \A i \in Matches(p) : i \in Nat /\ Lof(i) \in Nat /\ Len(p) - Lof(i) \in Nat
  <2>. TAKE i \in Matches(p)
  <2>1. i \in 1 .. PCacheN /\ Lof(i) \in Nat /\ Lof(i) < Len(p)
    BY MatchIs
  <2>. HIDE DEF Lof
  <2>. QED  BY <2>1
<1>. HIDE DEF Lof
<1>2. T \in SUBSET Nat /\ T # {}
  BY <1>1
<1>3. PICK x \in T : \A y \in T : x <= y
  <2>. HIDE DEF T
  <2>. QED  BY <1>2, LeastNumber
<1>4. PICK k \in Matches(p) : x = Len(p) - Lof(k)
  BY <1>3
<1>5. \A j \in Matches(p) : Lof(k) >= Lof(j)
  <2>. TAKE j \in Matches(p)
  <2>1. Len(p) - Lof(j) \in T
    OBVIOUS
  <2>2. Len(p) - Lof(k) <= Len(p) - Lof(j)
    BY <1>3, <1>4, <2>1
  <2>. QED  BY <1>1, <2>2, SMTT(60)
<1>. DEFINE U == {i \in Matches(p) : Lof(i) = Lof(k)}
<1>6. U \in SUBSET Nat /\ U # {}
  BY <1>1
<1>7. PICK i \in U : \A j \in U : i <= j
  <2>. HIDE DEF U
  <2>. QED  BY <1>6, LeastNumber
<1>8. i \in Matches(p) /\ \A j \in Matches(p) : Lof(i) > Lof(j) \/ (Lof(i) = Lof(j) /\ i <= j)
  <2>1. i \in Matches(p) /\ Lof(i) = Lof(k)
    BY <1>7
  <2>2. \A j \in Matches(p) : Lof(i) > Lof(j) \/ (Lof(i) = Lof(j) /\ i <= j)
    <3>. TAKE j \in Matches(p)
    <3>1. CASE Lof(j) = Lof(k)
      <4>1. j \in U
        BY <3>1
      <4>. QED  BY <1>7, <2>1, <3>1, <4>1
    <3>2. CASE Lof(j) # Lof(k)
      BY <1>1, <1>5, <2>1, <3>2, SMTT(60)
    <3>. QED  BY <3>1, <3>2
  <2>. QED  BY <2>1, <2>2
<1>9. Longest(p) = CHOOSE a \in Matches(p) : \A j \in Matches(p) :
                     Lof(a) > Lof(j) \/ (Lof(a) = Lof(j) /\ a <= j)
  BY DEF Longest, Lof
<1>. QED  BY <1>8, <1>9

\* What a start restores into the slot's stripe.
LEMMA StartRestores ==
  ASSUME CacheOK(cache), NEW r \in Request
  PROVE  LET p == Prompt[r]
             e == cache.entries[Longest(p)]
             hit == Matches(p) # {}
             from == IF hit THEN Len(e.tokens) ELSE 0
             restored == IF hit THEN e.snap ELSE Zero IN
         from \in 0 .. Len(p) - 1 /\ restored \in Stripe /\ HoldsTo(restored, p, from)
<1>. DEFINE p == Prompt[r]  e == cache.entries[Longest(p)]
<1>1. p \in Seq(Tok) /\ Len(p) \in Nat \ {0}
  BY RequestTypes
<1>. HIDE DEF p
<1>2. CASE Matches(p) = {}
  <2>1. 0 \in 0 .. Len(p) - 1
    BY <1>1
  <2>. QED  BY <1>2, <2>1, ZeroStripe DEF p
<1>3. CASE Matches(p) # {}
  <2>1. Longest(p) \in Matches(p)
    BY <1>1, <1>3, LongestMatches
  <2>2. /\ e \in CacheEntry /\ Len(e.tokens) \in Nat
        /\ Len(e.tokens) < Len(p) /\ HoldsTo(e.snap, p, Len(e.tokens))
    BY <1>1, <2>1, MatchIs
  <2>. HIDE DEF e
  <2>3. Len(e.tokens) \in 0 .. Len(p) - 1 /\ e.snap \in Stripe
    BY <1>1, <2>2 DEF CacheEntry
  <2>. QED  BY <1>3, <2>2, <2>3 DEF p, e
<1>. QED  BY <1>2, <1>3

-------------------------------------------------------------------------------
(* Runs that go on.                                                            *)

\* The token before the i-th generated one, in the history.
LEMMA BeforeIs ==
  ASSUME NEW r \in Request, NEW q \in Seq(Tok)
  PROVE  \A i \in 1 .. Len(q) + 1 :
           Before(r, q, i) = (Prompt[r] \o q)[(Len(Prompt[r]) + i) - 1]
<1>. DEFINE p == Prompt[r]  m == Len(p)  h == p \o q
<1>1. m \in Nat \ {0} /\ Last(p) = p[m] /\ Len(q) \in Nat
  BY RequestTypes
<1>2. /\ \A i \in 1 .. m : h[i] = p[i]
      /\ \A i \in 1 .. Len(q) : h[m + i] = q[i]
  BY Decoded
<1>. HIDE DEF p, m, h
<1>3. SUFFICES ASSUME NEW i \in 1 .. Len(q) + 1 PROVE Before(r, q, i) = h[(m + i) - 1]
  BY DEF p, m, h
<1>4. CASE i = 1
  <2>1. (m + i) - 1 = m /\ m \in 1 .. m
    BY <1>1, <1>4
  <2>. QED  BY <1>1, <1>2, <1>4, <2>1 DEF Before, p
<1>5. CASE i # 1
  <2>1. i - 1 \in 1 .. Len(q) /\ (m + i) - 1 = m + (i - 1)
    BY <1>1, <1>5
  <2>. QED  BY <1>2, <1>5, <2>1 DEF Before
<1>. QED  BY <1>4, <1>5

\* Tokens that each follow from the one before them keep a run greedy.
LEMMA GreedyExtends ==
  ASSUME NEW r \in Request, NEW q, GreedyRun(r, q), NEW e \in Seq(Tok),
         Len(q) + Len(e) <= MaxGen[r],
         \A i \in 1 .. Len(e) : e[i] = lm[Before(r, q \o e, Len(q) + i)]
  PROVE  GreedyRun(r, q \o e)
<1>. DEFINE n == Len(q)  z == q \o e
<1>1. q \in Seq(Tok) /\ \A i \in 1 .. n : q[i] = lm[Before(r, q, i)]
  BY DEF GreedyRun, RunOf
<1>2. /\ z \in Seq(Tok) /\ Len(z) = n + Len(e) /\ n \in Nat /\ Len(e) \in Nat
      /\ \A i \in 1 .. n : z[i] = q[i]
      /\ \A i \in 1 .. Len(e) : z[n + i] = e[i]
  BY <1>1, TokConcat
<1>. HIDE DEF z, n
<1>3. \A i \in 1 .. n : Before(r, z, i) = Before(r, q, i)
  <2>1. \A i \in 1 .. n : i # 1 => i - 1 \in 1 .. n
    BY <1>2
  <2>. QED  BY <1>2, <2>1 DEF Before
<1>4. \A i \in 1 .. Len(z) : z[i] = lm[Before(r, z, i)]
  <2>. TAKE i \in 1 .. Len(z)
  <2>1. CASE i <= n
    <3>1. i \in 1 .. n
      BY <1>2, <2>1
    <3>. QED  BY <1>1, <1>2, <1>3, <3>1
  <2>2. CASE ~(i <= n)
    <3>. DEFINE j == i - n
    <3>1. j \in 1 .. Len(e) /\ n + j = i
      BY <1>2, <2>2
    <3>. HIDE DEF j
    <3>2. e[j] = lm[Before(r, z, n + j)]
      BY <3>1 DEF z, n
    <3>. QED  BY <1>2, <3>1, <3>2
  <2>. QED  BY <2>1, <2>2
<1>5. Len(z) <= MaxGen[r]
  BY <1>2 DEF n
<1>. QED  BY <1>2, <1>4, <1>5 DEF GreedyRun, RunOf, z

\* One token more.
LEMMA GreedyNext ==
  ASSUME NEW r \in Request, NEW q, GreedyRun(r, q), Len(q) < MaxGen[r], NEW t \in Tok,
         t = lm[Before(r, q, Len(q) + 1)]
  PROVE  GreedyRun(r, Append(q, t)) /\ Append(q, t) = q \o <<t>>
<1>. DEFINE e == <<t>>  n == Len(q)
<1>1. q \in Seq(Tok) /\ n \in Nat /\ MaxGen[r] \in Nat /\ n < MaxGen[r]
  BY RequestTypes DEF GreedyRun, RunOf
<1>2. e \in Seq(Tok) /\ Len(e) = 1 /\ e[1] = t
  OBVIOUS
<1>3. Append(q, t) = q \o e
  BY <1>1, AppendIsConcat
<1>. HIDE DEF e
<1>4. n + Len(e) <= MaxGen[r]
  <2>. HIDE DEF n
  <2>. QED  BY <1>1, <1>2
<1>5. \A i \in 1 .. n : (q \o e)[i] = q[i]
  BY <1>1, <1>2, TokConcat
<1>6. \A i \in 1 .. Len(e) : i = 1
  BY <1>2
<1>7. Before(r, q \o e, n + 1) = Before(r, q, n + 1)
  <2>1. n + 1 # 1 => (n + 1) - 1 \in 1 .. n
    BY <1>1
  <2>. HIDE DEF n
  <2>. QED  BY <1>5, <2>1 DEF Before
<1>8. GreedyRun(r, q \o e)
  BY <1>2, <1>4, <1>6, <1>7, GreedyExtends
<1>. QED  BY <1>3, <1>8 DEF e

\* What comes first of a greedy run is one.
LEMMA GreedyFirst ==
  ASSUME NEW r \in Request, NEW a \in Seq(Tok), NEW b \in Seq(Tok), GreedyRun(r, a \o b)
  PROVE  GreedyRun(r, a)
<1>. DEFINE n == Len(a)  z == a \o b
<1>1. /\ z \in Seq(Tok) /\ Len(z) = n + Len(b) /\ n \in Nat /\ Len(b) \in Nat
      /\ \A i \in 1 .. n : z[i] = a[i]
  BY TokConcat
<1>2. Len(z) <= MaxGen[r] /\ \A i \in 1 .. Len(z) : z[i] = lm[Before(r, z, i)]
  BY DEF GreedyRun, RunOf
<1>. HIDE DEF z, n
<1>3. \A i \in 1 .. n : i \in 1 .. Len(z) /\ (i # 1 => i - 1 \in 1 .. n)
  BY <1>1
<1>4. \A i \in 1 .. n : Before(r, z, i) = Before(r, a, i)
  BY <1>1, <1>3 DEF Before
<1>5. \A i \in 1 .. n : a[i] = lm[Before(r, a, i)]
  BY <1>1, <1>2, <1>3, <1>4
<1>6. n <= MaxGen[r]
  BY <1>1, <1>2, RequestTypes
<1>. QED  BY <1>5, <1>6 DEF GreedyRun, RunOf, n

-------------------------------------------------------------------------------
(* Verify rounds.                                                              *)

\* The samples of a round, and how many of its tokens agree with them.
Samples(st, toks, base) == [i \in 1 .. Len(toks) |-> Greedy(Fed(st, toks, base)[i].dn)]
Agree(toks, am) ==
  CHOOSE k \in 1 .. Len(toks) : /\ \A i \in 2 .. k : toks[i] = am[i - 1]
                                /\ k = Len(toks) \/ toks[k + 1] # am[k]
Least(T) == CHOOSE i \in T : \A j \in T : i <= j

\* A set of numbers that is not empty has a least one.
LEMMA LeastIs ==
  ASSUME NEW T \in SUBSET Nat, T # {}
  PROVE  Least(T) \in T /\ \A j \in T : Least(T) <= j
BY LeastNumber DEF Least

\* The longest agreement of a draft and its samples is within the draft.
LEMMA AgreeIs ==
  ASSUME NEW toks, NEW am, Len(toks) \in Nat \ {0}
  PROVE  LET k == Agree(toks, am) IN k \in 1 .. Len(toks) /\ \A i \in 2 .. k : toks[i] = am[i - 1]
<1>. DEFINE n == Len(toks)
            T == {k \in 1 .. n : k = n \/ toks[k + 1] # am[k]}
<1>1. n \in 1 .. n /\ n \in Nat
  OBVIOUS
<1>. HIDE DEF n
<1>2. T \in SUBSET Nat /\ T # {}
  BY <1>1
<1>3. PICK k \in T : \A j \in T : k <= j
  <2>. HIDE DEF T
  <2>. QED  BY <1>2, LeastNumber
<1>4. k \in 1 .. n /\ (k = n \/ toks[k + 1] # am[k])
  BY <1>3
<1>5. \A i \in 2 .. k : toks[i] = am[i - 1]
  <2>. TAKE i \in 2 .. k
  <2>. DEFINE j == i - 1
  <2>1. j \in 1 .. n /\ j # n /\ ~(k <= j) /\ j + 1 = i
    BY <1>1, <1>4
  <2>. HIDE DEF j
  <2>2. j \notin T
    BY <1>3, <2>1
  <2>3. toks[j + 1] = am[j]
    BY <2>1, <2>2
  <2>. QED  BY <2>1, <2>3 DEF j
<1>6. Agree(toks, am) = CHOOSE x \in 1 .. n : /\ \A i \in 2 .. x : toks[i] = am[i - 1]
                                              /\ x = n \/ toks[x + 1] # am[x]
  BY DEF Agree, n
<1>. QED  BY <1>4, <1>5, <1>6 DEF n

\* A sequence of m tokens followed by toks, from a stripe that holds the m.
LEMMA VerifyReads ==
  ASSUME NEW st \in Stripe, NEW h \in Seq(Tok), NEW m \in Nat \ {0}, m <= Len(h), HoldsTo(st, h, m),
         NEW toks \in Seq(Tok), m + Len(toks) <= NCtx
  PROVE  LET hv == SubSeq(h, 1, m) \o toks  f == Fed(st, toks, m) IN
         /\ hv \in Seq(Tok) /\ Len(hv) = m + Len(toks) /\ HoldsTo(st, hv, m)
         /\ \A i \in 1 .. m : hv[i] = h[i]
         /\ \A i \in 1 .. Len(toks) : hv[m + i] = toks[i]
         /\ \A i \in 0 .. Len(toks) : f[i] \in Stripe /\ HoldsTo(f[i], hv, m + i)
         /\ \A i \in 1 .. Len(toks) : Samples(st, toks, m)[i] = lm[toks[i]]
<1>. DEFINE b == SubSeq(h, 1, m)  hv == b \o toks  f == Fed(st, toks, m)  n == Len(toks)
<1>1. m \in 0 .. Len(h) /\ n \in Nat /\ m + n <= NCtx
  OBVIOUS
<1>2. b \in Seq(Tok) /\ Len(b) = m /\ \A i \in 1 .. m : b[i] = h[i]
  BY <1>1, StartOf
<1>. HIDE DEF b
<1>3. /\ hv \in Seq(Tok) /\ Len(hv) = m + n
      /\ \A i \in 1 .. m : hv[i] = h[i]
      /\ \A i \in 1 .. n : hv[m + i] = toks[i]
  BY <1>2, TokConcat, ZenonT(60)
<1>. HIDE DEF hv, n
<1>4. m <= Len(hv) /\ \A i \in 1 .. m : h[i] = hv[i]
  BY <1>1, <1>3
<1>5. HoldsTo(st, hv, m)
  BY <1>1, <1>3, <1>4, HoldsSame
<1>6. /\ m + Len(toks) <= Len(hv) /\ m \in Nat /\ n = Len(toks)
      /\ \A i \in 1 .. Len(toks) : toks[i] = hv[m + i]
  BY <1>1, <1>3 DEF n
<1>7. \A i \in 0 .. n : HoldsTo(f[i], hv, m + i)
  BY <1>3, <1>5, <1>6, FedHolds
<1>8. \A i \in 0 .. n : f[i] \in Stripe
  BY <1>6, FedStep
<1>9. \A i \in 1 .. n : Samples(st, toks, m)[i] = lm[toks[i]]
  <2>. TAKE i \in 1 .. n
  <2>1. i \in 0 .. n /\ m + i \in 1 .. Len(hv)
    BY <1>1, <1>3
  <2>2. f[i].dn = SubSeq(hv, 1, m + i)
    BY <1>7, <2>1 DEF HoldsTo
  <2>3. Greedy(SubSeq(hv, 1, m + i)) = lm[hv[m + i]]
    BY <1>3, <2>1, GreedyOf
  <2>4. hv[m + i] = toks[i]
    BY <1>3
  <2>5. Greedy(f[i].dn) = lm[toks[i]]
    BY <2>2, <2>3, <2>4, ZenonT(60)
  <2>. QED  BY <1>6, <2>5 DEF Samples
<1>. QED  BY <1>3, <1>5, <1>7, <1>8, <1>9 DEF hv, n, b

\* A commit holds what was accepted.
LEMMA CommitHolds ==
  ASSUME NEW st \in Stripe, NEW hv \in Seq(Tok), NEW m \in Nat \ {0}, HoldsTo(st, hv, m),
         NEW toks \in Seq(Tok), Len(hv) = m + Len(toks), m + Len(toks) <= NCtx,
         \A i \in 1 .. Len(toks) : hv[m + i] = toks[i],
         NEW done \in Stripe, HoldsTo(done, hv, m + Len(toks)), NEW k \in 1 .. Len(toks)
  PROVE  LET c == Commit([st EXCEPT !.kv = done.kv], done.dn, toks, k, m) IN
         c \in Stripe /\ HoldsTo(c, hv, m + k)
<1>. DEFINE live == [st EXCEPT !.kv = done.kv]  n == Len(toks)  c == Commit(live, done.dn, toks, k, m)
<1>1. live \in Stripe /\ live.dn = st.dn /\ live.kv = done.kv
  BY DEF Stripe
<1>2. [live EXCEPT !.dn = done.dn] = done
  BY DEF Stripe
<1>. HIDE DEF live
<1>3. n \in Nat /\ k \in Nat /\ 1 <= k /\ k <= n
  OBVIOUS
<1>4. CASE k = n
  <2>1. c = done
    BY <1>2, <1>4 DEF Commit
  <2>. QED  BY <1>4, <2>1 DEF live
<1>5. CASE k # n
  <2>. DEFINE x == SubSeq(toks, 1, k)
  <2>1. k \in 0 .. n
    BY <1>3
  <2>2. x \in Seq(Tok) /\ Len(x) = k /\ \A i \in 1 .. k : x[i] = toks[i]
    BY <2>1, StartOf
  <2>. HIDE DEF x
  <2>3. HoldsTo(live, hv, m)
    <3>1. \A i \in 1 .. m : i \in 1 .. m + n
      BY <1>3
    <3>. QED  BY <1>1, <3>1 DEF HoldsTo
  <2>4. /\ m + Len(x) <= Len(hv) /\ m + Len(x) <= NCtx /\ m \in Nat /\ Len(x) \in 0 .. Len(x)
        /\ \A i \in 1 .. Len(x) : i \in 1 .. n
    BY <1>3, <2>2, QkEngineAssumption
  <2>5. \A i \in 1 .. Len(x) : x[i] = hv[m + i]
    BY <2>2, <2>4
  <2>6. HoldsTo(Fed(live, x, m)[Len(x)], hv, m + Len(x))
    BY <1>1, <2>2, <2>3, <2>4, <2>5, FedHolds
  <2>7. Fed(live, x, m)[Len(x)] \in Stripe
    BY <1>1, <2>2, <2>4, FedStep
  <2>8. c = Fed(live, x, m)[Len(x)]
    BY <1>5 DEF Commit, PrefillBatch, x
  <2>. QED  BY <2>2, <2>6, <2>7, <2>8 DEF live
<1>. QED  BY <1>4, <1>5

\* The stripes behind a round that accepted k of toks.
Rolled(st, done, toks, k, m) == Commit([st EXCEPT !.kv = done.kv], done.dn, toks, k, m)

\* A round of a slot fed all but the last token of its history, that accepts k of
\* the tokens it ran and tells l of the samples behind them.
Round(r, q, m, st, toks, am, k, l) ==
  /\ r \in Request /\ GreedyRun(r, q)
  /\ m \in Nat \ {0} /\ m + 1 = Len(Prompt[r]) + Len(q)
  /\ st \in Stripe /\ HoldsTo(st, Prompt[r] \o q, m)
  /\ toks \in Seq(Tok) /\ Len(toks) # 0 /\ toks[1] = (Prompt[r] \o q)[m + 1]
  /\ Len(q) + Len(toks) <= MaxGen[r]
  /\ am = Samples(st, toks, m)
  /\ k \in 1 .. Len(toks) /\ \A i \in 2 .. k : toks[i] = am[i - 1]
  /\ l \in {k - 1, k} /\ \A i \in 1 .. l : am[i] # Eos

\* What such a round leaves.
LEMMA RoundKeeps ==
  ASSUME ModelOK, NEW r, NEW q, NEW m, NEW st, NEW toks, NEW am, NEW k, NEW l,
         Round(r, q, m, st, toks, am, k, l)
  PROVE  LET e == SubSeq(am, 1, l)
             z == q \o e
             done == Fed(st, toks, m)[Len(toks)]
             c == Rolled(st, done, toks, k, m) IN
         /\ e \in Seq(Tok) /\ Len(e) = l /\ GreedyRun(r, z)
         /\ c \in Stripe /\ HoldsTo(c, Prompt[r] \o z, m + k)
         /\ l = k - 1 /\ am[k] = Eos => Complete(r, z)
<1>. DEFINE p == Prompt[r]  h == p \o q  n == Len(toks)  hv == SubSeq(h, 1, m) \o toks
            f == Fed(st, toks, m)  e == SubSeq(am, 1, l)  z == q \o e  h2 == p \o z
<1>0. /\ r \in Request /\ GreedyRun(r, q)
      /\ m \in Nat \ {0} /\ m + 1 = Len(Prompt[r]) + Len(q)
      /\ st \in Stripe /\ HoldsTo(st, Prompt[r] \o q, m)
      /\ toks \in Seq(Tok) /\ Len(toks) # 0 /\ toks[1] = (Prompt[r] \o q)[m + 1]
      /\ Len(q) + Len(toks) <= MaxGen[r]
      /\ am = Samples(st, toks, m)
      /\ k \in 1 .. Len(toks) /\ \A i \in 2 .. k : toks[i] = am[i - 1]
      /\ l \in {k - 1, k} /\ \A i \in 1 .. l : am[i] # Eos
  BY DEF Round
<1>. USE <1>0
<1>1. /\ q \in Seq(Tok) /\ Len(q) \in Nat /\ p \in Seq(Tok) /\ Len(p) \in Nat /\ n \in Nat \ {0}
      /\ MaxGen[r] \in Nat /\ NCtx \in Nat
      /\ Len(p) + MaxGen[r] <= NCtx /\ Len(q) + n <= MaxGen[r] /\ m + 1 = Len(p) + Len(q)
  BY RequestTypes, SMTT(60) DEF GreedyRun, RunOf
<1>2. h \in Seq(Tok) /\ Len(h) = m + 1 /\ HoldsTo(st, h, m) /\ toks[1] = h[m + 1]
  BY <1>1, TokConcat
<1>. HIDE DEF p, h
<1>3. m <= Len(h) /\ m + Len(toks) <= NCtx
  <2>. HIDE DEF n
  <2>1. m <= Len(h) /\ m + n <= NCtx
    BY <1>1, <1>2
  <2>. QED  BY <2>1 DEF n
<1>4. /\ hv \in Seq(Tok) /\ Len(hv) = m + n /\ HoldsTo(st, hv, m)
      /\ \A i \in 1 .. m : hv[i] = h[i]
      /\ \A i \in 1 .. n : hv[m + i] = toks[i]
      /\ \A i \in 0 .. n : f[i] \in Stripe /\ HoldsTo(f[i], hv, m + i)
      /\ \A i \in 1 .. n : am[i] = lm[toks[i]]
  BY <1>2, <1>3, VerifyReads
<1>. HIDE DEF hv, f
<1>5. /\ l \in 0 .. n /\ l \in Nat /\ k \in Nat /\ k >= 1 /\ k <= n /\ k - 1 <= l /\ l <= k
      /\ \A i \in 1 .. l : i \in 1 .. n /\ i \in 1 .. k
  BY <1>1
<1>6. e \in Seq(Tok) /\ Len(e) = l /\ \A i \in 1 .. l : e[i] = am[i]
  <2>1. \A i \in 1 .. n : toks[i] \in Tok
    BY ElementOfSeq
  <2>2. \A i \in 1 .. l : am[i] \in Tok
    <3>. TAKE i \in 1 .. l
    <3>1. i \in 1 .. n /\ am[i] = lm[toks[i]] /\ toks[i] \in Tok
      BY <1>4, <1>5, <2>1
    <3>2. lm[toks[i]] \in Tok \cup {Eos}
      BY <3>1 DEF ModelOK
    <3>. QED  BY <3>1, <3>2
  <2>3. l = 0 => e = <<>> /\ Len(<<>>) = 0 /\ <<>> \in Seq(Tok)
    BY SubSeqEmpty
  <2>4. l # 0 => /\ e \in Seq(Tok) /\ Len(e) = l
                 /\ \A i \in 1 .. l : e[i] = am[i]
    <3>. SUFFICES ASSUME l # 0 PROVE e \in Seq(Tok) /\ Len(e) = l /\ \A i \in 1 .. l : e[i] = am[i]
      OBVIOUS
    <3>1. 1 \in Int /\ l \in Int /\ 1 <= l /\ l - 1 + 1 = l
      BY <1>5
    <3>2. /\ SubSeq(am, 1, l) \in Seq(Tok)
          /\ Len(SubSeq(am, 1, l)) = IF 1 <= l THEN l - 1 + 1 ELSE 0
          /\ \A i \in 1 .. l - 1 + 1 : SubSeq(am, 1, l)[i] = am[1 + i - 1]
      BY <2>2, <3>1, SubSeqProperties
    <3>3. \A i \in 1 .. l : 1 + i - 1 = i
      BY <1>5
    <3>. QED  BY <3>1, <3>2, <3>3
  <2>5. \A i \in 1 .. 0 : e[i] = am[i]
    OBVIOUS
  <2>. HIDE DEF e
  <2>. QED  BY <2>3, <2>4, <2>5
<1>. HIDE DEF e
<1>7. z \in Seq(Tok) /\ Len(z) = Len(q) + l /\ h2 = h \o e
  <2>1. z \in Seq(Tok) /\ Len(z) = Len(q) + l
    BY <1>1, <1>6, TokConcat
  <2>2. h2 = h \o e
    BY <1>1, <1>6, TokAssoc DEF h
  <2>. QED  BY <2>1, <2>2
<1>. HIDE DEF z, h2
<1>8. /\ h2 \in Seq(Tok) /\ Len(h2) = (m + 1) + l
      /\ \A i \in 1 .. m + 1 : h2[i] = h[i]
      /\ \A i \in 1 .. l : h2[(m + 1) + i] = am[i]
  <2>1. /\ h \o e \in Seq(Tok) /\ Len(h \o e) = Len(h) + Len(e)
        /\ \A i \in 1 .. Len(h) : (h \o e)[i] = h[i]
        /\ \A i \in 1 .. Len(e) : (h \o e)[Len(h) + i] = e[i]
    BY <1>2, <1>6, TokConcat
  <2>. QED  BY <1>2, <1>6, <1>7, <2>1
<1>9. \A i \in 1 .. k : toks[i] = h2[m + i]
  <2>. TAKE i \in 1 .. k
  <2>1. CASE i = 1
    <3>1. m + 1 \in 1 .. m + 1
      OBVIOUS
    <3>. QED  BY <1>2, <1>8, <2>1, <3>1
  <2>2. CASE i # 1
    <3>1. i \in 2 .. k /\ i - 1 \in 1 .. l /\ (m + 1) + (i - 1) = m + i
      BY <1>5, <2>2, SMTT(60)
    <3>. QED  BY <1>8, <3>1
  <2>. QED  BY <2>1, <2>2
<1>10. \A i \in 1 .. l + 1 : Before(r, z, Len(q) + i) = h2[m + i]
  <2>. TAKE i \in 1 .. l + 1
  <2>. DEFINE a == Len(q)  b == Len(p)  d == Len(z)
  <2>0. a \in Nat /\ b \in Nat /\ m + 1 = b + a /\ d = a + l /\ l \in Nat
    BY <1>1, <1>5, <1>7
  <2>. HIDE DEF a, b, d
  <2>1. a + i \in 1 .. d + 1 /\ (b + (a + i)) - 1 = m + i
    <3>1. m \in Nat /\ i \in 1 .. l + 1
      OBVIOUS
    <3>. HIDE <1>0
    <3>. QED  BY <2>0, <3>1
  <2>. USE DEF a, b, d
  <2>2. Before(r, z, Len(q) + i) = h2[(Len(p) + (Len(q) + i)) - 1]
    BY <1>7, <2>1, BeforeIs DEF h2, p
  <2>. QED  BY <2>1, <2>2
<1>11. GreedyRun(r, z)
  <2>1. Len(q) + Len(e) <= MaxGen[r]
    BY <1>1, <1>5, <1>6
  <2>2. \A i \in 1 .. Len(e) : e[i] = lm[Before(r, q \o e, Len(q) + i)]
    <3>. TAKE i \in 1 .. Len(e)
    <3>1. i \in 1 .. l /\ i \in 1 .. l + 1 /\ i \in 1 .. n /\ i \in 1 .. k
      BY <1>5, <1>6
    <3>2. Before(r, z, Len(q) + i) = toks[i]
      BY <1>9, <1>10, <3>1
    <3>. QED  BY <1>4, <1>6, <3>1, <3>2, ZenonT(60) DEF z
  <2>. QED  BY <1>6, <2>1, <2>2, GreedyExtends DEF z
<1>12. l = k - 1 /\ am[k] = Eos => Complete(r, z)
  <2>. SUFFICES ASSUME l = k - 1, am[k] = Eos PROVE Complete(r, z)
    OBVIOUS
  <2>. DEFINE a == Len(q)  d == Len(z)
  <2>0. a \in Nat /\ d = a + l /\ l = k - 1
    BY <1>1, <1>7
  <2>. HIDE DEF a, d, n
  <2>1. k \in 1 .. l + 1 /\ d + 1 = a + k /\ k \in 1 .. n /\ k \in 1 .. k
    BY <1>5, <2>0
  <2>. USE DEF a, d, n
  <2>2. Before(r, z, Len(z) + 1) = toks[k]
    BY <1>9, <1>10, <2>1
  <2>. QED  BY <1>4, <2>1, <2>2 DEF Complete, EndsRun
<1>13. /\ Commit([st EXCEPT !.kv = f[n].kv], f[n].dn, toks, k, m) \in Stripe
       /\ HoldsTo(Commit([st EXCEPT !.kv = f[n].kv], f[n].dn, toks, k, m), hv, m + k)
  <2>1. f[n] \in Stripe /\ HoldsTo(f[n], hv, m + n)
    <3>1. n \in 0 .. n
      BY <1>1
    <3>. QED  BY <1>4, <3>1
  <2>. HIDE DEF f
  <2>. QED  BY <1>3, <1>4, <2>1, CommitHolds
<1>. DEFINE c == Rolled(st, f[n], toks, k, m)
<1>15. c \in Stripe /\ HoldsTo(c, hv, m + k)
  BY <1>13 DEF Rolled
<1>. HIDE DEF c
<1>14. HoldsTo(c, h2, m + k)
  <2>1. \A i \in 1 .. m + k : hv[i] = h2[i]
    <3>. TAKE i \in 1 .. m + k
    <3>1. CASE i <= m
      <4>1. i \in 1 .. m /\ i \in 1 .. m + 1
        BY <3>1
      <4>. QED  BY <1>4, <1>8, <4>1
    <3>2. CASE ~(i <= m)
      <4>. DEFINE j == i - m
      <4>1. j \in 1 .. k /\ j \in 1 .. n /\ m + j = i
        BY <1>5, <3>2
      <4>. HIDE DEF j
      <4>2. hv[m + j] = toks[j] /\ toks[j] = h2[m + j]
        BY <1>4, <1>9, <4>1
      <4>. QED  BY <4>1, <4>2
    <3>. QED  BY <3>1, <3>2
  <2>2. m + k \in 0 .. Len(hv) /\ m + k <= Len(h2)
    BY <1>4, <1>5, <1>8
  <2>3. HoldsTo(c, hv, m + k)
    BY <1>15
  <2>. QED  BY <1>4, <1>8, <2>1, <2>2, <2>3, HoldsSame
<1>. QED  BY <1>6, <1>11, <1>12, <1>14, <1>15 DEF c, e, z, h2, p, f, n

-------------------------------------------------------------------------------
(* The invariant holds initially, and each action keeps it.                    *)

\* What the invariant says of one slot's values.
LEMMA SlotTypes ==
  ASSUME EngineInv, NEW s \in Slot
  PROVE  LET sl == slots[s] IN
         /\ sl \in SlotRec /\ sl.active \in BOOLEAN /\ sl.gen \in Seq(Tok) /\ sl.outQ \in Seq(Tok)
         /\ sl.cursor \in 0 .. NCtx /\ sl.pos \in 0 .. NCtx /\ sl.finPending \in BOOLEAN
         /\ mem[s] \in Stripe /\ outTok[s] \in Seq(Tok) /\ Len(outTok[s]) <= Chunk
         /\ entry[s] \in EntryShown /\ entry[s].pre \in Nat /\ entry[s].gen \in Nat
         /\ SlotOK(s) /\ CallOK(s) /\ MemOK(s)
<1>1. slots[s] \in SlotRec /\ mem[s] \in Stripe /\ outTok[s] \in Seq(Tok) /\ Len(outTok[s]) <= Chunk
  BY DEF EngineInv, TypeOK, TypesToo
<1>2. entry[s] \in EntryShown
  BY DEF EngineInv, TypesToo
<1>. DEFINE sl == slots[s]  e == entry[s]
<1>. HIDE DEF sl, e
<1>3. sl \in SlotRec => /\ sl.active \in BOOLEAN /\ sl.gen \in Seq(Tok) /\ sl.outQ \in Seq(Tok)
                        /\ sl.cursor \in 0 .. NCtx /\ sl.pos \in 0 .. NCtx /\ sl.finPending \in BOOLEAN
  BY DEF SlotRec
<1>4. e \in EntryShown => e.pre \in Nat /\ e.gen \in Nat
  BY DEF EntryShown
<1>5. SlotOK(s) /\ CallOK(s) /\ MemOK(s)
  BY DEF EngineInv
<1>. QED  BY <1>1, <1>2, <1>3, <1>4, <1>5 DEF sl, e

\* Nothing generated yet.
LEMMA EmptyRun ==
  ASSUME NEW r \in Request
  PROVE  /\ GreedyRun(r, <<>>)
         /\ <<>> \in Seq(Tok) /\ Len(<<>>) = 0 /\ <<>> \o (<<>> \o <<>>) = <<>>
<1>1. <<>> \in Seq(Tok) /\ Len(<<>>) = 0
  OBVIOUS
<1>2. Len(<<>>) <= MaxGen[r] /\ \A i \in 1 .. Len(<<>>) : FALSE
  BY <1>1, RequestTypes
<1>3. <<>> \o <<>> = <<>>
  BY <1>1, ConcatEmptySeq
<1>. QED  BY <1>1, <1>2, <1>3 DEF GreedyRun, RunOf

\* An engine just opened.
LEMMA InitInv ==
  ASSUME Init
  PROVE  EngineInv
<1>1. \A s \in Slot : ~Live(s) /\ ~slots[s].active
  BY DEF Init, Live, FreeSlot
<1>2. TypeOK
  <2>1. FreeSlot \in SlotRec
    BY QkEngineAssumption DEF FreeSlot, SlotRec
  <2>2. 0 \in Slot /\ Chunk \in Nat
    BY RequestsAssumption, QkEngineAssumption DEF Slot
  <2>3. <<>> \in Seq(Tok) /\ Len(<<>>) = 0
    OBVIOUS
  <2>. QED  BY <2>1, <2>2, <2>3 DEF Init, TypeOK
<1>3. TypesToo
  <2>1. ModelOK
    BY QkEngineAssumption DEF Init, ModelOK
  <2>2. CacheOK(cache)
    <3>1. Zero \in Stripe /\ <<>> \in Seq(Tok)
      BY ZeroStripe
    <3>2. [valid |-> FALSE, tokens |-> <<>>, lru |-> 0, snap |-> Zero] \in CacheEntry
      BY <3>1 DEF CacheEntry
    <3>. QED  BY <3>2 DEF Init, CacheOK
  <2>3. Shown(FreeSlot) \in EntryShown
    BY DEF Shown, FreeSlot, EntryShown
  <2>4. mem \in [Slot -> Stripe]
    BY ZeroStripe DEF Init
  <2>5. outTok \in [Slot -> Seq(Tok)] /\ sent \in [Request -> Seq(Tok)]
    BY DEF Init
  <2>. QED  BY <2>1, <2>2, <2>3, <2>4, <2>5 DEF Init, TypesToo
<1>4. RequestsOK
  BY <1>1, EmptyRun DEF Init, RequestsOK, GreedyRun
<1>5. \A s \in Slot : SlotOK(s) /\ CallOK(s) /\ MemOK(s)
  <2>1. \A s \in Slot : slots[s].outQ = <<>>
    BY DEF Init, FreeSlot
  <2>. QED  BY <1>1, <2>1 DEF Init, SlotOK, CallOK, MemOK, Running
<1>. QED  BY <1>2, <1>3, <1>4, <1>5 DEF EngineInv

\* The slot a start leaves.
LEMMA NewSlot ==
  ASSUME NEW r \in Request, NEW d \in 0 .. NCtx
  PROVE  LET new == [FreeSlot EXCEPT !.active = TRUE, !.req = r, !.cursor = d, !.pos = d] IN
         /\ new \in SlotRec /\ new.active /\ new.req = r /\ new.cursor = d /\ new.pos = d
         /\ new.gen = <<>> /\ new.outQ = <<>> /\ ~new.finPending
<1>. DEFINE f == FreeSlot
<1>1. f \in SlotRec /\ f.gen = <<>> /\ f.outQ = <<>> /\ ~f.finPending
  BY QkEngineAssumption DEF FreeSlot, SlotRec
<1>. HIDE DEF f
<1>. DEFINE new == [f EXCEPT !.active = TRUE, !.req = r, !.cursor = d, !.pos = d]
<1>2. new \in SlotRec
  BY <1>1 DEF SlotRec
<1>3. new.active /\ new.req = r /\ new.cursor = d /\ new.pos = d
  BY <1>1 DEF SlotRec
<1>4. new.gen = <<>> /\ new.outQ = <<>> /\ ~new.finPending
  BY <1>1 DEF SlotRec
<1>. QED  BY <1>2, <1>3, <1>4 DEF f

\* A slot no step touches.
LEMMA SlotFrame ==
  ASSUME NEW t \in Slot, SlotOK(t), lm' = lm, slots'[t] = slots[t], outTok'[t] = outTok[t],
         sent' = sent, Live(t)' => Live(t)
  PROVE  SlotOK(t)'
BY DEF SlotOK

\* A free slot takes its next request: the prompt's batches have been run.
LEMMA StartKeeps ==
  ASSUME EngineInv, NEW s \in Slot, NEW r \in Request, Start(s, r)
  PROVE  /\ EngineInv'
         /\ pc = "idle" /\ pc' = "idle" /\ ~slots[s].active /\ UNCHANGED entry
         /\ slots'[s].active /\ slots'[s].req = r /\ slots'[s].gen = <<>> /\ slots'[s].outQ = <<>>
         /\ slots'[s].cursor \in 0 .. Len(Prompt[r]) - 1
         /\ \A t \in Slot : t # s => slots'[t] = slots[t]
<1>. DEFINE p == Prompt[r]
            hit == Matches(p) # {}
            e == cache.entries[Longest(p)]
            from == IF hit THEN Len(e.tokens) ELSE 0
            restored == IF hit THEN e.snap ELSE Zero
            clock == IF hit THEN cache.clock + 1 ELSE cache.clock
            touched == IF hit THEN [clock |-> clock,
                                    entries |-> [cache.entries EXCEPT ![Longest(p)].lru = clock]]
                       ELSE cache
            target == Len(p) - 1
            snapAt == IF SnapPrefix[r] > from /\ SnapPrefix[r] < target THEN SnapPrefix[r] ELSE 0
            part == IF snapAt > 0 THEN BatchTo(from, snapAt) ELSE from
            done == BatchTo(part, target)
            atPart == PrefillTo(restored, p, from, part)
            atDone == PrefillTo(atPart, p, part, done)
            new == [FreeSlot EXCEPT !.active = TRUE, !.req = r, !.cursor = done, !.pos = done]
<1>1. /\ pc = "idle" /\ r \in jobs /\ ~slots[s].active
      /\ mem' = [mem EXCEPT ![s] = atDone]
      /\ slots' = [slots EXCEPT ![s] = new]
      /\ cache' = IF ~ShareFork \/ done = from THEN touched
                  ELSE IF part > from THEN SnapshotSlot(touched, [new EXCEPT !.pos = part], atPart)
                  ELSE SnapshotSlot(touched, new, atDone)
      /\ jobs' = jobs \ {r}
      /\ UNCHANGED <<lm, scratch, pc, outTok, outFin, step, cur, sent, over, entry>>
  BY DEF Start
<1>2. /\ p \in Seq(Tok) /\ Len(p) \in Nat \ {0} /\ Len(p) <= NCtx /\ NCtx \in Nat /\ SnapPrefix[r] \in Nat
      /\ MaxGen[r] \in Nat \ {0}
  <2>1. /\ p \in Seq(Tok) /\ Len(p) \in Nat \ {0} /\ Len(p) + MaxGen[r] <= NCtx /\ NCtx \in Nat
        /\ SnapPrefix[r] \in Nat /\ MaxGen[r] \in Nat \ {0}
    BY RequestTypes
  <2>. HIDE DEF p
  <2>. QED  BY <2>1
<1>3. CacheOK(cache) /\ TypeOK /\ TypesToo /\ RequestsOK
  BY DEF EngineInv, TypesToo
<1>4. from \in 0 .. target /\ restored \in Stripe /\ HoldsTo(restored, p, from)
  BY <1>3, StartRestores
<1>5. CacheOK(touched)
  <2>1. CASE ~hit
    BY <1>3, <2>1
  <2>2. CASE hit
    <3>. DEFINE v == Longest(p)  es == [cache.entries EXCEPT ![v].lru = clock]
    <3>1. /\ cache \in [clock : Nat, entries : [1 .. PCacheN -> CacheEntry]]
          /\ \A i \in 1 .. PCacheN : cache.entries[i].valid =>
               Holds(cache.entries[i].snap, cache.entries[i].tokens)
      BY <1>3 DEF CacheOK
    <3>2. clock \in Nat
      BY <2>2, <3>1
    <3>3. touched = [clock |-> clock, entries |-> es]
      BY <2>2
    <3>. HIDE DEF v, clock, touched
    <3>4. cache.entries \in [1 .. PCacheN -> CacheEntry]
      BY <3>1
    <3>5. \A i \in 1 .. PCacheN :
            /\ es[i] \in CacheEntry /\ es[i].valid = cache.entries[i].valid
            /\ es[i].tokens = cache.entries[i].tokens /\ es[i].snap = cache.entries[i].snap
      BY <3>2, <3>4 DEF CacheEntry
    <3>6. es \in [1 .. PCacheN -> CacheEntry]
      BY <3>4, <3>5
    <3>. HIDE DEF es
    <3>7. \A i \in 1 .. PCacheN : es[i].valid => Holds(es[i].snap, es[i].tokens)
      BY <3>1, <3>5
    <3>8. touched \in [clock : Nat, entries : [1 .. PCacheN -> CacheEntry]] /\ touched.entries = es
      BY <3>2, <3>3, <3>6
    <3>. QED  BY <3>7, <3>8 DEF CacheOK
  <2>. QED  BY <2>1, <2>2
<1>. HIDE DEF hit, touched, restored, from, target
<1>6. target \in Nat /\ target < Len(p) /\ from \in Nat /\ from <= target
  BY <1>2, <1>4 DEF target
<1>7. part \in from .. target
  <2>1. CASE SnapPrefix[r] > from /\ SnapPrefix[r] < target
    <3>1. snapAt = SnapPrefix[r] /\ part = BatchTo(from, SnapPrefix[r])
      BY <1>2, <1>6, <2>1
    <3>2. BatchTo(from, SnapPrefix[r]) \in from .. SnapPrefix[r]
      BY <1>2, <1>6, <2>1, BatchToIs
    <3>. HIDE DEF part, snapAt
    <3>. QED  BY <1>2, <1>6, <2>1, <3>1, <3>2
  <2>2. CASE ~(SnapPrefix[r] > from /\ SnapPrefix[r] < target)
    <3>1. snapAt = 0
      BY <2>2
    <3>2. part = from
      BY <3>1
    <3>. QED  BY <1>6, <3>2
  <2>. QED  BY <2>1, <2>2
<1>. HIDE DEF part
<1>8. done \in part .. target
  <2>1. part \in Nat /\ part <= target
    BY <1>6, <1>7
  <2>. QED  BY <1>6, <2>1, BatchToIs
<1>. HIDE DEF done
<1>9. atPart \in Stripe /\ HoldsTo(atPart, p, part)
  <2>1. part \in 0 .. Len(p) /\ from \in 0 .. part
    BY <1>6, <1>7
  <2>. HIDE DEF p
  <2>. QED  BY <1>2, <1>4, <2>1, PrefillToHolds
<1>. HIDE DEF atPart
<1>10. atDone \in Stripe /\ HoldsTo(atDone, p, done)
  <2>1. done \in 0 .. Len(p) /\ part \in 0 .. done
    BY <1>6, <1>7, <1>8
  <2>. HIDE DEF p
  <2>. QED  BY <1>2, <1>9, <2>1, PrefillToHolds
<1>. HIDE DEF atDone
<1>11. done \in Nat /\ done < Len(p) /\ done \in 0 .. NCtx /\ part \in 0 .. Len(p) /\ done \in 0 .. Len(p)
  BY <1>2, <1>6, <1>7, <1>8
<1>12. /\ new \in SlotRec /\ new.active /\ new.req = r /\ new.cursor = done /\ new.pos = done
       /\ new.gen = <<>> /\ new.outQ = <<>> /\ ~new.finPending
  BY <1>11, NewSlot DEF FreeSlot
<1>. DEFINE at == [new EXCEPT !.pos = part]
<1>13. at.req = r /\ at.gen = <<>> /\ at.pos = part
  BY <1>12 DEF FreeSlot
<1>. HIDE DEF new, at, p
<1>14. History(new) = p /\ History(at) = p
  <2>1. p \o <<>> = p
    BY <1>2, ConcatEmptySeq
  <2>. QED  BY <1>12, <1>13, <2>1 DEF History, PromptOf, p
<1>15. CacheOK(cache')
  <2>0. <<>> \in Seq(Tok) /\ Len(<<>>) = 0 /\ p = Prompt[r]
    BY DEF p
  <2>1. CacheOK(SnapshotSlot(touched, new, atDone))
    <3>1. /\ new.req \in Request /\ new.gen \in Seq(Tok)
          /\ new.pos \in 0 .. Len(Prompt[new.req]) + Len(new.gen)
          /\ HoldsTo(atDone, History(new), new.pos)
      BY <1>2, <1>10, <1>11, <1>12, <1>14, <2>0
    <3>. QED  BY <1>5, <1>10, <3>1, SnapshotOK
  <2>2. CacheOK(SnapshotSlot(touched, at, atPart))
    <3>1. /\ at.req \in Request /\ at.gen \in Seq(Tok)
          /\ at.pos \in 0 .. Len(Prompt[at.req]) + Len(at.gen)
          /\ HoldsTo(atPart, History(at), at.pos)
      BY <1>2, <1>9, <1>11, <1>13, <1>14, <2>0
    <3>. QED  BY <1>5, <1>9, <3>1, SnapshotOK
  <2>. QED  BY <1>1, <1>5, <2>1, <2>2 DEF at
<1>16. TypeOK'
  BY <1>1, <1>3, <1>12 DEF TypeOK
<1>17. TypesToo'
  <2>1. mem' \in [Slot -> Stripe]
    BY <1>1, <1>3, <1>10 DEF TypesToo
  <2>. QED  BY <1>1, <1>3, <1>15, <2>1 DEF TypesToo, ModelOK
<1>18. slots'[s] = new /\ mem'[s] = atDone /\ \A t \in Slot : t # s => slots'[t] = slots[t] /\ mem'[t] = mem[t]
  BY <1>1, <1>3 DEF TypeOK, TypesToo
<1>19. \A t \in Slot : Live(t) <=> slots[t].active
  BY <1>1 DEF Live
<1>20. \A t \in Slot : Live(t)' <=> slots'[t].active
  BY <1>1 DEF Live
<1>21. RequestsOK'
  <2>1. \A t \in Slot : Live(t) => slots[t].req # r
    BY <1>1, <1>3 DEF RequestsOK
  <2>2. \A t \in Slot : t # s /\ Live(t)' => Live(t) /\ slots'[t].req = slots[t].req
    BY <1>18, <1>19, <1>20
  <2>3. slots'[s].req = r /\ r \notin jobs' /\ r \notin over
    BY <1>1, <1>3, <1>12, <1>18 DEF RequestsOK
  <2>4. \A t \in Slot : Live(t)' => slots'[t].req \notin jobs' /\ slots'[t].req \notin over'
    BY <1>1, <1>3, <2>2, <2>3 DEF RequestsOK
  <2>5. \A t, u \in Slot : Live(t)' /\ Live(u)' /\ slots'[t].req = slots'[u].req => t = u
    <3>. TAKE t \in Slot, u \in Slot
    <3>1. CASE t # s /\ u # s
      BY <1>3, <2>2, <3>1 DEF RequestsOK
    <3>2. CASE t = s \/ u = s
      BY <2>1, <2>2, <2>3, <3>2
    <3>. QED  BY <3>1, <3>2
  <2>6. \A q \in Request : /\ RunOf(lm', q, sent'[q])
                           /\ q \in jobs' => sent'[q] = <<>> /\ q \notin over'
                           /\ q \in over' => EndsRun(lm', q, sent'[q])
    BY <1>1, <1>3 DEF RequestsOK
  <2>. QED  BY <2>4, <2>5, <2>6 DEF RequestsOK
<1>22. ASSUME NEW t \in Slot PROVE SlotOK(t)' /\ CallOK(t)' /\ MemOK(t)'
  <2>0. SlotOK(t) /\ CallOK(t) /\ MemOK(t) /\ outTok[t] = <<>> /\ t \notin outFin
    BY <1>1 DEF EngineInv, CallOK
  <2>1. CallOK(t)'
    BY <1>1, <2>0 DEF CallOK
  <2>2. Waiting(t)' = 0 /\ Waiting(t) = 0
    BY <1>1 DEF Waiting
  <2>3. CASE t # s
    <3>1. SlotOK(t)'
      BY <1>1, <1>18, <1>19, <1>20, <2>0, <2>3, SlotFrame
    <3>2. MemOK(t)'
      BY <1>18, <2>0, <2>2, <2>3 DEF MemOK
    <3>. QED  BY <2>1, <3>1, <3>2
  <2>4. CASE t = s
    <3>1. Prefilling(new) /\ PromptOf(new) = p
      BY <1>11, <1>12 DEF Prefilling, PromptOf, p
    <3>2. sent[r] = <<>>
      BY <1>1, <1>3 DEF RequestsOK
    <3>3. RunOK(lm, new, <<>>, <<>>)
      <4>1. RunOf(lm, r, <<>>) /\ <<>> \o (<<>> \o <<>>) = <<>>
        BY EmptyRun DEF GreedyRun
      <4>2. new.cursor <= Len(Prompt[r])
        BY <1>11, <1>12 DEF p
      <4>. QED  BY <1>12, <3>1, <4>1, <4>2 DEF RunOK
    <3>4. SlotOK(s)'
      BY <1>1, <1>12, <1>18, <2>0, <2>4, <3>2, <3>3 DEF SlotOK
    <3>5. MemOK(s)'
      <4>1. FedCount(new) + 0 = done
        BY <1>11, <1>12, <3>1 DEF FedCount
      <4>2. HoldsTo(mem'[s], History(slots'[s]), FedCount(slots'[s]) + 0)
        BY <1>10, <1>14, <1>18, <4>1
      <4>. QED  BY <2>2, <2>4, <4>2 DEF MemOK
    <3>. QED  BY <2>1, <2>4, <3>4, <3>5
  <2>. QED  BY <2>3, <2>4
<1>23. done \in 0 .. Len(Prompt[r]) - 1
  BY <1>2, <1>11 DEF p
<1>24. /\ pc = "idle" /\ pc' = "idle" /\ ~slots[s].active /\ UNCHANGED entry
       /\ slots'[s].active /\ slots'[s].req = r /\ slots'[s].gen = <<>> /\ slots'[s].outQ = <<>>
       /\ slots'[s].cursor \in 0 .. Len(Prompt[r]) - 1
       /\ \A t \in Slot : t # s => slots'[t] = slots[t]
  BY <1>1, <1>12, <1>18, <1>23
<1>25. EngineInv'
  BY <1>16, <1>17, <1>21, <1>22 DEF EngineInv
<1>. QED  BY <1>24, <1>25

\* A cancelled slot is free at once.
LEMMA CancelKeeps ==
  ASSUME EngineInv, NEW s \in Slot, Cancel(s)
  PROVE  EngineInv'
<1>. DEFINE new == [slots[s] EXCEPT !.active = FALSE, !.outQ = <<>>, !.finPending = FALSE]
<1>1. /\ pc = "idle" /\ slots' = [slots EXCEPT ![s] = new]
      /\ UNCHANGED <<lm, mem, scratch, cache, pc, outTok, outFin, step, cur, jobs, sent, over, entry>>
  BY DEF Cancel, ghostVars
<1>2. TypeOK /\ TypesToo /\ RequestsOK /\ slots[s] \in SlotRec
  BY SlotTypes DEF EngineInv
<1>3. new \in SlotRec /\ ~new.active /\ new.outQ = <<>>
  <2>. DEFINE sl == slots[s]
  <2>1. sl \in SlotRec /\ <<>> \in Seq(Tok)
    BY <1>2
  <2>. HIDE DEF sl
  <2>2. [sl EXCEPT !.active = FALSE, !.outQ = <<>>, !.finPending = FALSE] \in SlotRec
    BY <2>1 DEF SlotRec
  <2>3. ~[sl EXCEPT !.active = FALSE, !.outQ = <<>>, !.finPending = FALSE].active
    BY <2>1 DEF SlotRec
  <2>4. [sl EXCEPT !.active = FALSE, !.outQ = <<>>, !.finPending = FALSE].outQ = <<>>
    BY <2>1 DEF SlotRec
  <2>. QED  BY <2>2, <2>3, <2>4 DEF sl
<1>. HIDE DEF new
<1>4. slots'[s] = new /\ \A t \in Slot : t # s => slots'[t] = slots[t]
  BY <1>1, <1>2 DEF TypeOK
<1>5. TypeOK'
  BY <1>1, <1>2, <1>3 DEF TypeOK
<1>6. TypesToo'
  BY <1>1, <1>2 DEF TypesToo, ModelOK
<1>7. \A t \in Slot : /\ Live(t)' <=> slots'[t].active
                      /\ Live(t)' => Live(t) /\ t # s
  BY <1>1, <1>3, <1>4 DEF Live
<1>8. RequestsOK'
  <2>1. \A t \in Slot : Live(t)' => slots'[t].req \notin jobs' /\ slots'[t].req \notin over'
    BY <1>1, <1>2, <1>4, <1>7 DEF RequestsOK
  <2>2. \A t, u \in Slot : Live(t)' /\ Live(u)' /\ slots'[t].req = slots'[u].req => t = u
    BY <1>2, <1>4, <1>7 DEF RequestsOK
  <2>3. \A q \in Request : /\ RunOf(lm', q, sent'[q])
                           /\ q \in jobs' => sent'[q] = <<>> /\ q \notin over'
                           /\ q \in over' => EndsRun(lm', q, sent'[q])
    BY <1>1, <1>2 DEF RequestsOK
  <2>. QED  BY <2>1, <2>2, <2>3 DEF RequestsOK
<1>9. ASSUME NEW t \in Slot PROVE SlotOK(t)' /\ CallOK(t)' /\ MemOK(t)'
  <2>1. SlotOK(t) /\ CallOK(t) /\ MemOK(t)
    BY SlotTypes
  <2>2. CallOK(t)'
    BY <1>1, <2>1 DEF CallOK
  <2>3. CASE t = s
    BY <1>3, <1>4, <1>7, <2>2, <2>3 DEF SlotOK, MemOK, Running
  <2>4. CASE t # s
    <3>1. SlotOK(t)'
      BY <1>1, <1>4, <1>7, <2>1, <2>4, SlotFrame
    <3>2. MemOK(t)'
      BY <1>1, <1>4, <2>1, <2>4 DEF MemOK, Waiting
    <3>. QED  BY <2>2, <3>1, <3>2
  <2>. QED  BY <2>3, <2>4
<1>. QED  BY <1>5, <1>6, <1>8, <1>9 DEF EngineInv

\* Steps that change no sequence: what is said of requests stays.
LEMMA RequestsFrame ==
  ASSUME RequestsOK, UNCHANGED <<lm, jobs, over, sent>>,
         \A t \in Slot : Live(t)' => Live(t) /\ slots'[t].req = slots[t].req
  PROVE  RequestsOK'
<1>1. \A t \in Slot : Live(t)' => slots'[t].req \notin jobs' /\ slots'[t].req \notin over'
  BY DEF RequestsOK
<1>2. \A t, u \in Slot : Live(t)' /\ Live(u)' /\ slots'[t].req = slots'[u].req => t = u
  BY DEF RequestsOK
<1>3. \A q \in Request : /\ RunOf(lm', q, sent'[q])
                         /\ q \in jobs' => sent'[q] = <<>> /\ q \notin over'
                         /\ q \in over' => EndsRun(lm', q, sent'[q])
  BY DEF RequestsOK
<1>. QED  BY <1>1, <1>2, <1>3 DEF RequestsOK

\* No slot is ready for a round: the serial steps begin.
LEMMA SpecOverKeeps ==
  ASSUME EngineInv, SpecOver
  PROVE  EngineInv'
<1>1. /\ pc = "spec" /\ pc' = "serial"
      /\ UNCHANGED <<lm, mem, scratch, slots, cache, outTok, outFin, step, cur, jobs, sent, over, entry>>
  BY DEF SpecOver, ghostVars
<1>2. TypeOK /\ TypesToo /\ RequestsOK
  BY DEF EngineInv
<1>3. TypeOK'
  BY <1>1, <1>2 DEF TypeOK
<1>4. TypesToo'
  BY <1>1, <1>2 DEF TypesToo, ModelOK
<1>5. \A t \in Slot : (Live(t)' <=> Live(t)) /\ slots'[t].req = slots[t].req
  BY <1>1 DEF Live
<1>6. RequestsOK'
  BY <1>1, <1>2, <1>5, RequestsFrame
<1>7. ASSUME NEW t \in Slot PROVE SlotOK(t)' /\ CallOK(t)' /\ MemOK(t)'
  <2>1. SlotOK(t) /\ CallOK(t) /\ MemOK(t)
    BY SlotTypes
  <2>2. Waiting(t)' = 0 /\ Waiting(t) = 0
    BY <1>1 DEF Waiting
  <2>3. SlotOK(t)'
    BY <1>1, <1>5, <2>1, SlotFrame
  <2>4. CallOK(t)'
    BY <1>1, <2>1, <2>2 DEF CallOK
  <2>5. MemOK(t)'
    BY <1>1, <2>1, <2>2 DEF MemOK
  <2>. QED  BY <2>3, <2>4, <2>5
<1>. QED  BY <1>3, <1>4, <1>6, <1>7 DEF EngineInv

\* The highest running slot.
LEMMA DepthIs ==
  ASSUME NEW s \in Slot, Running(slots[s])
  PROVE  \A t \in Slot : Running(slots[t]) => t <= Depth
<1>. DEFINE N == NSlots  T == {N - t : t \in {u \in Slot : Running(slots[u])}}
<1>1. N \in Nat /\ \A t \in Slot : t \in Nat /\ N - t \in Nat
  BY RequestsAssumption DEF Slot
<1>2. T \in SUBSET Nat /\ T # {}
  BY <1>1
<1>3. PICK x \in T : \A y \in T : x <= y
  <2>. HIDE DEF T
  <2>. QED  BY <1>2, LeastNumber
<1>4. PICK z \in Slot : Running(slots[z]) /\ x = N - z
  BY <1>3
<1>5. \A t \in Slot : Running(slots[t]) => t <= z
  <2>. SUFFICES ASSUME NEW t \in Slot, Running(slots[t]) PROVE t <= z
    OBVIOUS
  <2>1. N - t \in T
    OBVIOUS
  <2>2. N - z <= N - t
    BY <1>3, <1>4, <2>1
  <2>. HIDE DEF N
  <2>. QED  BY <1>1, <2>2
<1>6. Running(slots[Depth]) /\ \A t \in Slot : Running(slots[t]) => t <= Depth
  BY <1>4, <1>5 DEF Depth
<1>. QED  BY <1>6

\* What a running slot is fed next, and where.
LEMMA NextInput ==
  ASSUME NEW sl \in SlotRec, NEW f, NEW o, NEW a, RunOK(f, sl, o, a), Running(sl)
  PROVE  LET n == FedCount(sl)
             h == History(sl)
             t == IF Prefilling(sl) THEN PromptOf(sl)[sl.cursor + 1] ELSE Last(sl.gen) IN
         /\ n \in Nat /\ h \in Seq(Tok) /\ n < Len(h) /\ n < NCtx /\ t \in Tok /\ t = h[n + 1]
         /\ sl.req \in Request /\ Len(h) = Len(Prompt[sl.req]) + Len(sl.gen)
<1>. DEFINE r == sl.req  p == Prompt[r]  q == sl.gen  h == p \o q  m == Len(p)  c == Len(q)
<1>1. /\ r \in Request /\ q \in Seq(Tok) /\ c <= MaxGen[r] /\ sl.cursor <= m
      /\ ~Prefilling(sl) => c >= 1 /\ sl.pos + 1 = m + c
  BY DEF RunOK, RunOf
<1>2. /\ p \in Seq(Tok) /\ m \in Nat \ {0} /\ c \in Nat /\ m + MaxGen[r] <= NCtx
      /\ MaxGen[r] \in Nat /\ NCtx \in Nat /\ sl.cursor \in Nat /\ sl.pos \in Nat
  BY <1>1, RequestTypes DEF SlotRec
<1>3. /\ h \in Seq(Tok) /\ Len(h) = m + c
      /\ \A i \in 1 .. m : h[i] = p[i]
      /\ \A i \in 1 .. c : h[m + i] = q[i]
  BY <1>1, Decoded
<1>4. History(sl) = h /\ PromptOf(sl) = p /\ (Prefilling(sl) <=> sl.cursor < m)
  BY DEF History, PromptOf, Prefilling
<1>. HIDE DEF p, q, h, m, c
<1>5. CASE Prefilling(sl)
  <2>1. sl.cursor + 1 \in 1 .. m /\ sl.cursor < m + c /\ sl.cursor < NCtx
    BY <1>1, <1>2, <1>4, <1>5, SMTT(60)
  <2>2. p[sl.cursor + 1] \in Tok
    BY <1>2, <2>1, ElementOfSeq DEF m
  <2>3. FedCount(sl) = sl.cursor
    BY <1>5 DEF FedCount
  <2>4. h[sl.cursor + 1] = p[sl.cursor + 1]
    BY <1>3, <2>1
  <2>. DEFINE x == IF Prefilling(sl) THEN PromptOf(sl)[sl.cursor + 1] ELSE Last(sl.gen)
  <2>5. x = p[sl.cursor + 1]
    BY <1>4, <1>5
  <2>6. /\ FedCount(sl) \in Nat /\ FedCount(sl) < m + c /\ FedCount(sl) < NCtx
        /\ x \in Tok /\ x = h[FedCount(sl) + 1]
    BY <1>2, <2>1, <2>2, <2>3, <2>4, <2>5
  <2>. HIDE DEF x
  <2>7. /\ History(sl) \in Seq(Tok) /\ Len(History(sl)) = m + c /\ sl.req \in Request
        /\ x = History(sl)[FedCount(sl) + 1]
    BY <1>1, <1>3, <1>4, <2>6 DEF r
  <2>. QED  BY <2>6, <2>7 DEF m, c, p, q, r, x
<1>6. CASE ~Prefilling(sl)
  <2>1. c \in 1 .. c /\ sl.pos + 1 = m + c /\ sl.pos < m + c /\ sl.pos < NCtx
    BY <1>1, <1>2, <1>6
  <2>2. q[c] \in Tok
    BY <1>1, <2>1, ElementOfSeq DEF c
  <2>3. FedCount(sl) = sl.pos /\ Last(sl.gen) = q[c]
    BY <1>6 DEF FedCount, Last, q, c
  <2>4. h[m + c] = q[c]
    BY <1>3, <2>1
  <2>. QED  BY <1>1, <1>2, <1>3, <1>4, <1>6, <2>1, <2>2, <2>3, <2>4 DEF m, c, p, q
<1>. QED  BY <1>5, <1>6

\* A submit feeds every running slot its next token, and its neighbours something.
LEMMA SubmitKeeps ==
  ASSUME EngineInv, Submit
  PROVE  EngineInv'
<1>. DEFINE input(s) == LET sl == slots[s] IN
              IF ~Running(sl) THEN [tok |-> 0, pos |-> 0]
              ELSE IF Prefilling(sl) THEN [tok |-> PromptOf(sl)[sl.cursor + 1], pos |-> sl.cursor]
              ELSE [tok |-> Last(sl.gen), pos |-> sl.pos]
<1>1. /\ pc = "serial" /\ MoreSteps
      /\ mem' = [s \in Slot |-> IF s <= Depth THEN Feed(mem[s], input(s).tok, input(s).pos) ELSE mem[s]]
      /\ step' = step + 1 /\ pc' = "sampled" /\ cur' = 0
      /\ UNCHANGED <<lm, scratch, slots, cache, outTok, outFin, jobs, sent, over, entry>>
  BY DEF Submit, ghostVars
<1>2. TypeOK /\ TypesToo /\ RequestsOK
  BY DEF EngineInv
<1>3. ASSUME NEW t \in Slot, Running(slots[t])
      PROVE  /\ LET n == FedCount(slots[t])  h == History(slots[t]) IN
                /\ n \in Nat /\ h \in Seq(Tok) /\ n < Len(h) /\ n < NCtx
                /\ input(t).tok \in Tok /\ input(t).tok = h[n + 1] /\ input(t).pos = n
             /\ t <= Depth
  <2>. DEFINE sl == slots[t]
  <2>1. sl \in SlotRec /\ SlotOK(t) /\ sl.active
    BY <1>3, SlotTypes DEF Running
  <2>2. RunOK(lm, sl, outTok[t], sent[sl.req])
    BY <2>1 DEF SlotOK, Live
  <2>. HIDE DEF sl
  <2>3. Running(sl)
    BY <1>3 DEF sl
  <2>4. LET n == FedCount(sl)
            h == History(sl)
            x == IF Prefilling(sl) THEN PromptOf(sl)[sl.cursor + 1] ELSE Last(sl.gen) IN
        n \in Nat /\ h \in Seq(Tok) /\ n < Len(h) /\ n < NCtx /\ x \in Tok /\ x = h[n + 1]
    BY <2>1, <2>2, <2>3, NextInput
  <2>5. /\ input(t).tok = IF Prefilling(sl) THEN PromptOf(sl)[sl.cursor + 1] ELSE Last(sl.gen)
        /\ input(t).pos = FedCount(sl)
    BY <2>3 DEF sl, FedCount
  <2>6. t <= Depth
    BY <1>3, DepthIs
  <2>. HIDE DEF input
  <2>. QED  BY <2>4, <2>5, <2>6 DEF sl
<1>4. \A t \in Slot : input(t).tok \in Tok /\ input(t).pos \in Nat
  <2>. TAKE t \in Slot
  <2>1. CASE Running(slots[t])
    <3>. HIDE DEF input
    <3>. QED  BY <1>3, <2>1
  <2>2. CASE ~Running(slots[t])
    BY <2>2, QkEngineAssumption
  <2>. QED  BY <2>1, <2>2
<1>. HIDE DEF input
<1>5. mem' \in [Slot -> Stripe]
  <2>1. \A t \in Slot : mem[t] \in Stripe /\ Feed(mem[t], input(t).tok, input(t).pos) \in Stripe
    BY <1>2, <1>4, FeedType DEF TypesToo
  <2>. QED  BY <1>1, <2>1
<1>6. step \in Nat /\ step < Chunk /\ Chunk \in Nat /\ 0 \in Slot
  <2>1. step \in 0 .. Chunk /\ Chunk \in Nat
    BY <1>2, QkEngineAssumption DEF TypeOK
  <2>2. step < Chunk
    BY <1>1 DEF MoreSteps
  <2>3. 0 \in Slot
    BY RequestsAssumption DEF Slot
  <2>. QED  BY <2>1, <2>2, <2>3
<1>7. step' \in 0 .. Chunk /\ step' >= 1 /\ step' - 1 = step /\ step - 0 = step
  BY <1>1, <1>6
<1>8. TypeOK'
  BY <1>1, <1>2, <1>6, <1>7 DEF TypeOK
<1>9. TypesToo'
  BY <1>1, <1>2, <1>5, <1>7 DEF TypesToo, ModelOK
<1>10. \A t \in Slot : (Live(t)' <=> Live(t)) /\ slots'[t].req = slots[t].req
  BY <1>1 DEF Live
<1>11. RequestsOK'
  BY <1>1, <1>2, <1>10, RequestsFrame
<1>12. ASSUME NEW t \in Slot PROVE SlotOK(t)' /\ CallOK(t)' /\ MemOK(t)'
  <2>1. SlotOK(t) /\ CallOK(t) /\ MemOK(t) /\ mem[t] \in Stripe
    BY SlotTypes
  <2>2. Waiting(t)' = 1 /\ Waiting(t) = 0
    <3>1. t >= 0
      BY RequestsAssumption DEF Slot
    <3>. QED  BY <1>1, <3>1 DEF Waiting
  <2>3. SlotOK(t)'
    BY <1>1, <1>10, <2>1, SlotFrame
  <2>4. CallOK(t)'
    BY <1>1, <1>7, <2>1, <2>2 DEF CallOK
  <2>5. MemOK(t)'
    <3>. SUFFICES ASSUME Running(slots[t])
                  PROVE  HoldsTo(mem'[t], History(slots[t]), FedCount(slots[t]) + 1)
      BY <1>1, <2>2 DEF MemOK
    <3>. DEFINE n == FedCount(slots[t])  h == History(slots[t])  x == input(t).tok
    <3>1. /\ n \in Nat /\ h \in Seq(Tok) /\ n < Len(h) /\ n < NCtx
          /\ x = h[n + 1] /\ input(t).pos = n /\ t <= Depth
      BY <1>3
    <3>2. HoldsTo(mem[t], h, n + 0)
      BY <2>1, <2>2 DEF MemOK
    <3>3. mem'[t] = Feed(mem[t], x, n)
      BY <1>1, <3>1
    <3>. HIDE DEF n, h, x
    <3>4. HoldsTo(mem[t], h, n)
      BY <3>1, <3>2
    <3>5. HoldsTo(Feed(mem[t], x, n), h, n + 1)
      BY <2>1, <3>1, <3>4, FeedHolds
    <3>. QED  BY <3>3, <3>5 DEF n, h
  <2>. QED  BY <2>3, <2>4, <2>5
<1>. QED  BY <1>8, <1>9, <1>11, <1>12 DEF EngineInv

-------------------------------------------------------------------------------
(* What finish does to a slot it is given.                                     *)

\* It frees the slot or leaves it as it is.
LEMMA FinishIs ==
  ASSUME NEW sl \in SlotRec
  PROVE  LET d == Finish(sl) IN
         /\ d \in SlotRec /\ d.req = sl.req /\ d.gen = sl.gen /\ d.cursor = sl.cursor
         /\ d.pos = sl.pos /\ d.outQ = sl.outQ
         /\ ~Freed(sl) => d = sl
         /\ Freed(sl) => ~d.active
         /\ Running(d) <=> Running(sl)
         /\ PromptOf(d) = PromptOf(sl) /\ (Prefilling(d) <=> Prefilling(sl))
         /\ History(d) = History(sl) /\ FedCount(d) = FedCount(sl)
<1>. DEFINE d == Finish(sl)
<1>1. CASE ~Freed(sl)
  <2>1. d = sl
    BY <1>1 DEF Finish
  <2>. QED  BY <1>1, <2>1
<1>2. CASE Freed(sl)
  <2>. DEFINE x == [sl EXCEPT !.active = FALSE, !.finPending = FALSE]
  <2>1. d = x
    BY <1>2 DEF Finish
  <2>2. x \in SlotRec
    BY DEF SlotRec
  <2>3. /\ x.req = sl.req /\ x.gen = sl.gen /\ x.cursor = sl.cursor
        /\ x.pos = sl.pos /\ x.outQ = sl.outQ /\ x.active = FALSE
    BY DEF SlotRec
  <2>. HIDE DEF x
  <2>4. PromptOf(x) = PromptOf(sl) /\ History(x) = History(sl)
    BY <2>3 DEF PromptOf, History
  <2>5. Prefilling(x) <=> Prefilling(sl)
    BY <2>3, <2>4 DEF Prefilling
  <2>6. FedCount(x) = FedCount(sl)
    BY <2>3, <2>5 DEF FedCount
  <2>7. ~Running(x) /\ ~Running(sl)
    BY <1>2, <2>3 DEF Running, Freed
  <2>. HIDE DEF d
  <2>. QED  BY <1>2, <2>1, <2>2, <2>3, <2>4, <2>5, <2>6, <2>7 DEF d
<1>. QED  BY <1>1, <1>2

\* A slot that was active when a step reached it, as finish is given it: the run
\* it has generated, and how far the call in progress has moved it.
Handled(f, sl, o, a) ==
  LET r == sl.req IN
  /\ sl.active /\ r \in Request /\ sl.cursor <= Len(Prompt[r])
  /\ RunOf(f, r, sl.gen) /\ a \o (o \o sl.outQ) = sl.gen
  /\ sl.finPending => EndsRun(f, r, sl.gen) /\ ~Prefilling(sl)
  /\ Running(sl) /\ Prefilling(sl) => sl.gen = <<>>
  /\ Running(sl) /\ ~Prefilling(sl) =>
       /\ Len(sl.gen) >= 1 /\ Len(sl.gen) < MaxGen[r]
       /\ sl.pos + 1 = Len(Prompt[r]) + Len(sl.gen)
Moved(sl, o, e, n, a) ==
  /\ sl.active /\ e.req # None /\ sl.req = e.req /\ e.gen = Len(a)
  /\ sl.outQ # <<>> => Len(o) = Chunk
  /\ Prefilling(sl) => e.pre = (Len(PromptOf(sl)) - sl.cursor) + n
  /\ Running(sl) /\ ~Prefilling(sl) /\ n >= 1 => o # <<>>

\* What finish leaves has generated the run it was given.
LEMMA FinishRun ==
  ASSUME NEW sl \in SlotRec, NEW f, NEW o, NEW a, Handled(f, sl, o, a)
  PROVE  RunOK(f, Finish(sl), o, a)
<1>. DEFINE d == Finish(sl)
<1>1. /\ d.req = sl.req /\ d.gen = sl.gen /\ d.cursor = sl.cursor
      /\ d.pos = sl.pos /\ d.outQ = sl.outQ /\ (~Freed(sl) => d = sl) /\ (Freed(sl) => ~d.active)
      /\ (Running(d) <=> Running(sl)) /\ (Prefilling(d) <=> Prefilling(sl))
  BY FinishIs
<1>. HIDE DEF d
<1>2. /\ sl.req \in Request /\ sl.cursor <= Len(Prompt[sl.req])
      /\ RunOf(f, sl.req, sl.gen) /\ a \o (o \o sl.outQ) = sl.gen
  BY DEF Handled
<1>3. d.active /\ d.finPending => d.outQ # <<>> /\ EndsRun(f, d.req, d.gen) /\ ~Prefilling(d)
  BY <1>1 DEF Handled, Freed
<1>4. ~d.active => d.outQ = <<>> /\ EndsRun(f, d.req, d.gen)
  BY <1>1 DEF Handled, Freed
<1>5. Running(d) /\ Prefilling(d) => d.gen = <<>>
  BY <1>1 DEF Handled
<1>6. Running(d) /\ ~Prefilling(d) =>
        /\ Len(d.gen) >= 1 /\ Len(d.gen) < MaxGen[d.req]
        /\ d.pos + 1 = Len(Prompt[d.req]) + Len(d.gen)
  BY <1>1 DEF Handled
<1>7. RunOK(f, d, o, a)
  BY <1>1, <1>2, <1>3, <1>4, <1>5, <1>6 DEF RunOK
<1>. QED  BY <1>7 DEF d

\* What finish leaves has been moved as far.
LEMMA FinishMove ==
  ASSUME NEW sl \in SlotRec, NEW o, NEW e, NEW n, NEW a, Moved(sl, o, e, n, a)
  PROVE  MoveOK(Finish(sl), o, e, Freed(sl), n, a)
<1>. DEFINE d == Finish(sl)
<1>1. /\ d.req = sl.req /\ d.cursor = sl.cursor /\ d.outQ = sl.outQ
      /\ (~Freed(sl) => d = sl) /\ (Freed(sl) => ~d.active)
      /\ (Running(d) <=> Running(sl)) /\ (Prefilling(d) <=> Prefilling(sl))
      /\ PromptOf(d) = PromptOf(sl)
  BY FinishIs
<1>. HIDE DEF d
<1>2. e.req # None /\ (d.active \/ Freed(sl)) /\ (Freed(sl) => ~d.active)
  BY <1>1 DEF Moved
<1>3. d.req = e.req /\ e.gen = Len(a) /\ (d.outQ # <<>> => Len(o) = Chunk)
  BY <1>1 DEF Moved
<1>4. Prefilling(d) => e.pre = (Len(PromptOf(d)) - d.cursor) + n
  BY <1>1 DEF Moved
<1>5. Running(d) /\ ~Prefilling(d) /\ n >= 1 => o # <<>>
  BY <1>1 DEF Moved
<1>6. MoveOK(d, o, e, Freed(sl), n, a)
  BY <1>2, <1>3, <1>4, <1>5 DEF MoveOK
<1>. QED  BY <1>6 DEF d

\* A step of the call that hands one slot to finish and touches no other.
LEMMA OneSlotKeeps ==
  ASSUME EngineInv, pc # "idle", NEW s \in Slot, NEW d \in SlotRec, NEW o \in Seq(Tok), Len(o) <= Chunk,
         d.req = slots[s].req, slots[s].active,
         slots' = [slots EXCEPT ![s] = Finish(d)], outTok' = [outTok EXCEPT ![s] = o],
         outFin' = IF Freed(d) THEN outFin \cup {s} ELSE outFin,
         UNCHANGED <<lm, step, jobs, sent, over, entry>>,
         pc' \in {"spec", "serial", "sampled"}, cur' \in Slot, pc' = "sampled" => step >= 1,
         Handled(lm, d, o, sent[d.req]),
         Moved(d, o, entry[s], step - Waiting(s)', sent[d.req]),
         CacheOK(cache'), mem' \in [Slot -> Stripe],
         Running(d) => HoldsTo(mem'[s], History(d), FedCount(d) + Waiting(s)'),
         \A t \in Slot : t # s => mem'[t] = mem[t] /\ Waiting(t)' = Waiting(t)
  PROVE  EngineInv'
<1>. DEFINE x == Finish(d)
<1>1. TypeOK /\ TypesToo /\ RequestsOK
  BY DEF EngineInv
<1>2. /\ x \in SlotRec /\ x.req = d.req /\ (Running(x) <=> Running(d))
      /\ History(x) = History(d) /\ FedCount(x) = FedCount(d)
  BY FinishIs
<1>3. RunOK(lm, x, o, sent[d.req])
  BY FinishRun
<1>4. MoveOK(x, o, entry[s], Freed(d), step - Waiting(s)', sent[d.req])
  BY FinishMove
<1>. HIDE DEF x
<1>5. /\ slots'[s] = x /\ outTok'[s] = o
      /\ \A t \in Slot : t # s => slots'[t] = slots[t] /\ outTok'[t] = outTok[t]
  BY <1>1 DEF TypeOK, TypesToo, x
<1>6. outFin' \subseteq Slot /\ \A t \in Slot : t # s => (t \in outFin' <=> t \in outFin)
  BY <1>1 DEF TypeOK
<1>7. s \in outFin' <=> Freed(d)
  <2>1. CallOK(s)
    BY SlotTypes
  <2>2. s \notin outFin
    BY <2>1 DEF CallOK, MoveOK
  <2>3. CASE Freed(d)
    BY <2>3
  <2>4. CASE ~Freed(d)
    BY <2>2, <2>4
  <2>. QED  BY <2>3, <2>4
<1>8. TypeOK'
  <2>1. slots' \in [Slot -> SlotRec]
    BY <1>1, <1>2 DEF TypeOK, x
  <2>2. pc' \in {"idle", "spec", "serial", "sampled"}
    OBVIOUS
  <2>3. \A t \in Slot : outTok'[t] \in Seq(Tok) /\ Len(outTok'[t]) <= Chunk
    BY <1>1, <1>5 DEF TypeOK
  <2>4. step' \in 0 .. Chunk /\ jobs' \subseteq Request /\ over' \subseteq Request
    BY <1>1 DEF TypeOK
  <2>. QED  BY <1>6, <2>1, <2>2, <2>3, <2>4 DEF TypeOK
<1>9. TypesToo'
  <2>1. outTok' \in [Slot -> Seq(Tok)]
    BY <1>1 DEF TypesToo
  <2>2. ModelOK' /\ sent' \in [Request -> Seq(Tok)] /\ entry' \in [Slot -> EntryShown]
    BY <1>1 DEF TypesToo, ModelOK
  <2>3. pc' = "sampled" => step' >= 1
    OBVIOUS
  <2>. QED  BY <2>1, <2>2, <2>3 DEF TypesToo
<1>10. \A t \in Slot : (Live(t)' => Live(t)) /\ slots'[t].req = slots[t].req
  <2>1. Live(s)
    BY DEF Live
  <2>2. slots'[s].req = slots[s].req
    BY <1>2, <1>5
  <2>3. \A t \in Slot : t # s => (Live(t)' => Live(t)) /\ slots'[t].req = slots[t].req
    BY <1>5 DEF Live
  <2>. QED  BY <2>1, <2>2, <2>3
<1>11. RequestsOK'
  BY <1>1, <1>10, RequestsFrame
<1>12. ASSUME NEW t \in Slot PROVE SlotOK(t)' /\ CallOK(t)' /\ MemOK(t)'
  <2>0. SlotOK(t) /\ CallOK(t) /\ MemOK(t)
    BY SlotTypes
  <2>1. CASE t # s
    <3>1. SlotOK(t)'
      BY <1>5, <1>10, <2>0, <2>1, SlotFrame
    <3>2. CallOK(t)'
      BY <1>5, <1>6, <2>0, <2>1 DEF CallOK
    <3>3. MemOK(t)'
      BY <1>5, <2>0, <2>1 DEF MemOK
    <3>. QED  BY <3>1, <3>2, <3>3
  <2>2. CASE t = s
    <3>1. SlotOK(s)'
      <4>1. ~x.active => x.outQ = <<>>
        BY <1>3 DEF RunOK
      <4>. QED  BY <1>2, <1>3, <1>5, <4>1 DEF SlotOK
    <3>2. CallOK(s)'
      <4>. DEFINE w == step - Waiting(s)'  a == sent[d.req]
      <4>1. step' - Waiting(s)' = w /\ sent'[slots'[s].req] = a /\ entry'[s] = entry[s]
        BY <1>2, <1>5
      <4>2. MoveOK(x, o, entry[s], Freed(d), w, a)
        BY <1>4
      <4>. HIDE DEF w, a
      <4>3. MoveOK(x, o, entry[s], s \in outFin', w, a)
        BY <1>7, <4>2 DEF MoveOK
      <4>4. MoveOK(slots'[s], outTok'[s], entry'[s], s \in outFin', step' - Waiting(s)',
                   sent'[slots'[s].req])
        BY <1>5, <4>1, <4>3
      <4>. QED  BY <4>4 DEF CallOK
    <3>3. MemOK(s)'
      BY <1>2, <1>5 DEF MemOK
    <3>. QED  BY <2>2, <3>1, <3>2, <3>3
  <2>. QED  BY <2>1, <2>2
<1>. QED  BY <1>8, <1>9, <1>11, <1>12 DEF EngineInv

\* What the first phase of a call takes off a slot's queue.
LEMMA DrainIs ==
  ASSUME NEW sl \in SlotRec
  PROVE  LET n == AtMost(Chunk, Len(sl.outQ))
             d == [sl EXCEPT !.outQ = SubSeq(@, n + 1, Len(@))]
             o == SubSeq(sl.outQ, 1, n) IN
         /\ d \in SlotRec /\ d.active = sl.active /\ d.req = sl.req /\ d.gen = sl.gen
         /\ d.cursor = sl.cursor /\ d.pos = sl.pos /\ d.finPending = sl.finPending
         /\ o \in Seq(Tok) /\ Len(o) <= Chunk /\ o \o d.outQ = sl.outQ /\ d.outQ \in Seq(Tok)
         /\ d.outQ # <<>> => Len(o) = Chunk
         /\ sl.outQ = <<>> => o = <<>> /\ d.outQ = <<>>
<1>. DEFINE q == sl.outQ  n == AtMost(Chunk, Len(q))  o == SubSeq(q, 1, n)  z == SubSeq(q, n + 1, Len(q))
            d == [sl EXCEPT !.outQ = z]
<1>1. q \in Seq(Tok) /\ Len(q) \in Nat /\ Chunk \in Nat
  BY QkEngineAssumption DEF SlotRec
<1>. HIDE DEF q
<1>2. n \in 0 .. Len(q) /\ n <= Chunk /\ (n = Chunk \/ n = Len(q))
  BY <1>1, AtMostIs
<1>. HIDE DEF n
<1>3. /\ o \in Seq(Tok) /\ Len(o) = n /\ z \in Seq(Tok) /\ Len(z) = Len(q) - n /\ o \o z = q
  BY <1>1, <1>2, CutInTwo DEF FirstPart, OtherPart
<1>. HIDE DEF o, z
<1>4. z # <<>> => Len(o) = Chunk
  <2>1. Len(z) = 0 => z = <<>>
    BY <1>3, EmptySeq
  <2>. QED  BY <1>1, <1>2, <1>3, <2>1
<1>5. q = <<>> => o = <<>> /\ z = <<>>
  <2>1. (Len(z) = 0 => z = <<>>) /\ (Len(o) = 0 => o = <<>>)
    BY <1>3, EmptySeq
  <2>2. q = <<>> => Len(q) = 0
    BY <1>1
  <2>. QED  BY <1>1, <1>2, <1>3, <2>1, <2>2
<1>6. d \in SlotRec
  BY <1>3 DEF SlotRec
<1>7. /\ d.active = sl.active /\ d.req = sl.req /\ d.gen = sl.gen
      /\ d.cursor = sl.cursor /\ d.pos = sl.pos /\ d.finPending = sl.finPending /\ d.outQ = z
  BY DEF SlotRec
<1>8. [sl EXCEPT !.outQ = SubSeq(@, n + 1, Len(@))] = d
  BY DEF q, z
<1>. HIDE DEF d
<1>9. Len(o) <= Chunk
  BY <1>2, <1>3
<1>. QED  BY <1>3, <1>4, <1>5, <1>6, <1>7, <1>8, <1>9 DEF o, n, q

\* A slot's part in the first phase.
LEMMA DrainKeeps ==
  ASSUME EngineInv, pc = "idle", NEW t \in Slot
  PROVE  LET sl == slots[t]
             n == AtMost(Chunk, Len(sl.outQ))
             d == [sl EXCEPT !.outQ = SubSeq(@, n + 1, Len(@))]
             o == SubSeq(sl.outQ, 1, n) IN
         /\ d \in SlotRec /\ o \in Seq(Tok) /\ Len(o) <= Chunk
         /\ Shown(sl) \in EntryShown /\ (Shown(sl).req # None <=> sl.active)
         /\ MoveOK(Finish(d), o, Shown(sl), Freed(d), 0, sent[sl.req])
         /\ sl.active => RunOK(lm, Finish(d), o, sent[sl.req])
         /\ ~sl.active => Finish(d).outQ = <<>>
         /\ d.req = sl.req /\ History(d) = History(sl) /\ FedCount(d) = FedCount(sl)
         /\ Running(d) <=> Running(sl)
<1>. DEFINE sl == slots[t]
            n == AtMost(Chunk, Len(sl.outQ))
            d == [sl EXCEPT !.outQ = SubSeq(@, n + 1, Len(@))]
            o == SubSeq(sl.outQ, 1, n)
            a == sent[sl.req]
            e == Shown(sl)
<1>1. sl \in SlotRec /\ SlotOK(t) /\ CallOK(t) /\ TypesToo
  BY SlotTypes DEF EngineInv
<1>2. /\ d \in SlotRec /\ d.active = sl.active /\ d.req = sl.req /\ d.gen = sl.gen
      /\ d.cursor = sl.cursor /\ d.pos = sl.pos /\ d.finPending = sl.finPending
      /\ o \in Seq(Tok) /\ Len(o) <= Chunk /\ o \o d.outQ = sl.outQ
      /\ d.outQ # <<>> => Len(o) = Chunk
      /\ sl.outQ = <<>> => o = <<>> /\ d.outQ = <<>>
  BY <1>1, DrainIs
<1>3. sl.active => RunOK(lm, sl, <<>>, a)
  BY <1>1 DEF SlotOK, Live, CallOK
<1>4. ~sl.active => sl.outQ = <<>>
  BY <1>1 DEF SlotOK
<1>5. sl.outQ \in Seq(Tok) /\ sl.gen \in Seq(Tok) /\ sl.cursor \in Nat /\ sl.req \in Request \cup {None}
  BY <1>1 DEF SlotRec
<1>. HIDE DEF sl, d, o
<1>6. /\ History(d) = History(sl) /\ FedCount(d) = FedCount(sl) /\ PromptOf(d) = PromptOf(sl)
      /\ Running(d) <=> Running(sl)
      /\ Prefilling(d) <=> Prefilling(sl)
  BY <1>2 DEF History, FedCount, PromptOf, Running, Prefilling
<1>7. CASE sl.active
  <2>1. /\ sl.req \in Request /\ sl.cursor <= Len(Prompt[sl.req])
        /\ RunOf(lm, sl.req, sl.gen) /\ a \o (<<>> \o sl.outQ) = sl.gen
    BY <1>3, <1>7 DEF RunOK
  <2>2. a \in Seq(Tok)
    BY <1>1, <2>1 DEF TypesToo
  <2>3. a \o sl.outQ = sl.gen /\ <<>> \o sl.outQ = sl.outQ
    BY <1>5, <2>1, ConcatEmptySeq
  <2>4. Len(sl.gen) = Len(a) + Len(sl.outQ) /\ Len(a) \in Nat /\ Len(sl.outQ) \in Nat
    <3>. HIDE DEF a
    <3>1. Len(a \o sl.outQ) = Len(a) + Len(sl.outQ) /\ Len(a) \in Nat /\ Len(sl.outQ) \in Nat
      BY <1>5, <2>2, TokConcat
    <3>. QED  BY <2>3, <3>1
  <2>5. Handled(lm, d, o, a)
    <3>1. d.active /\ d.req \in Request /\ d.cursor <= Len(Prompt[d.req]) /\ RunOf(lm, d.req, d.gen)
      BY <1>2, <1>7, <2>1
    <3>2. a \o (o \o d.outQ) = d.gen
      BY <1>2, <2>3
    <3>3. d.finPending => EndsRun(lm, d.req, d.gen) /\ ~Prefilling(d)
      BY <1>2, <1>3, <1>6, <1>7 DEF RunOK
    <3>4. Running(d) /\ Prefilling(d) => d.gen = <<>>
      BY <1>2, <1>3, <1>6, <1>7 DEF RunOK
    <3>5. Running(d) /\ ~Prefilling(d) =>
            /\ Len(d.gen) >= 1 /\ Len(d.gen) < MaxGen[d.req]
            /\ d.pos + 1 = Len(Prompt[d.req]) + Len(d.gen)
      BY <1>2, <1>3, <1>6, <1>7 DEF RunOK
    <3>. QED  BY <3>1, <3>2, <3>3, <3>4, <3>5 DEF Handled
  <2>6. /\ e.req = sl.req /\ e.pre = Len(PromptOf(sl)) - sl.cursor
        /\ e.gen = Len(sl.gen) - Len(sl.outQ) /\ e = [req |-> e.req, pre |-> e.pre, gen |-> e.gen]
    BY <1>7 DEF Shown
  <2>7. Len(PromptOf(sl)) - sl.cursor \in Nat /\ sl.req # None
    <3>1. Len(Prompt[sl.req]) \in Nat /\ PromptOf(sl) = Prompt[sl.req]
      BY <2>1, RequestTypes DEF PromptOf
    <3>2. sl.req # None
      BY <2>1, RequestsAssumption
    <3>. QED  BY <1>5, <2>1, <3>1, <3>2
  <2>. HIDE DEF e, a
  <2>8. e \in EntryShown /\ e.gen = Len(a)
    BY <1>5, <2>4, <2>6, <2>7 DEF EntryShown
  <2>9. Moved(d, o, e, 0, a)
    <3>1. d.active /\ e.req # None /\ d.req = e.req
      BY <1>2, <1>7, <2>6, <2>7
    <3>2. e.pre = (Len(PromptOf(d)) - d.cursor) + 0
      BY <1>2, <1>6, <2>6, <2>7
    <3>3. ~(0 >= 1)
      OBVIOUS
    <3>. QED  BY <1>2, <2>8, <3>1, <3>2, <3>3 DEF Moved
  <2>10. RunOK(lm, Finish(d), o, a)
    BY <1>2, <2>5, FinishRun
  <2>11. MoveOK(Finish(d), o, e, Freed(d), 0, a)
    BY <1>2, <2>9, FinishMove
  <2>. QED  BY <1>2, <1>6, <1>7, <2>6, <2>7, <2>8, <2>10, <2>11 DEF e, a, d, o, sl
<1>8. CASE ~sl.active
  <2>1. e \in EntryShown /\ e.req = None
    BY <1>8 DEF Shown, EntryShown
  <2>2. ~Freed(d) /\ Finish(d) = d
    BY <1>2, <1>8 DEF Freed, Finish
  <2>3. d.outQ = <<>> /\ o = <<>> /\ ~d.active
    BY <1>2, <1>4, <1>8
  <2>. HIDE DEF e, a
  <2>4. MoveOK(Finish(d), o, e, Freed(d), 0, a)
    BY <2>1, <2>2, <2>3 DEF MoveOK, Running
  <2>. QED  BY <1>2, <1>6, <1>8, <2>1, <2>2, <2>3, <2>4 DEF e, a, d, o, sl
<1>. QED  BY <1>7, <1>8

\* A call begins: each slot's queue gives the call what fits.
LEMMA CallKeeps ==
  ASSUME EngineInv, Call
  PROVE  EngineInv'
<1>. DEFINE n(t) == AtMost(Chunk, Len(slots[t].outQ))
            d(t) == [slots[t] EXCEPT !.outQ = SubSeq(@, n(t) + 1, Len(@))]
            o(t) == SubSeq(slots[t].outQ, 1, n(t))
<1>1. /\ pc = "idle"
      /\ outTok' = [t \in Slot |-> o(t)] /\ slots' = [t \in Slot |-> Finish(d(t))]
      /\ outFin' = {t \in Slot : Freed(d(t))} /\ entry' = [t \in Slot |-> Shown(slots[t])]
      /\ step' = 0 /\ pc' = IF SpecOn THEN "spec" ELSE "serial"
      /\ UNCHANGED <<lm, mem, scratch, cache, cur, jobs, sent, over>>
  BY DEF Call
<1>2. TypeOK /\ TypesToo /\ RequestsOK
  BY DEF EngineInv
<1>3. ASSUME NEW t \in Slot
      PROVE  LET sl == slots[t] IN
             /\ d(t) \in SlotRec /\ o(t) \in Seq(Tok) /\ Len(o(t)) <= Chunk
             /\ Shown(sl) \in EntryShown /\ (Shown(sl).req # None <=> sl.active)
             /\ MoveOK(Finish(d(t)), o(t), Shown(sl), Freed(d(t)), 0, sent[sl.req])
             /\ sl.active => RunOK(lm, Finish(d(t)), o(t), sent[sl.req])
             /\ ~sl.active => Finish(d(t)).outQ = <<>>
             /\ d(t).req = sl.req /\ History(d(t)) = History(sl) /\ FedCount(d(t)) = FedCount(sl)
             /\ Running(d(t)) <=> Running(sl)
  BY <1>1, DrainKeeps
<1>. HIDE DEF n, d, o
<1>4. ASSUME NEW t \in Slot
      PROVE  LET x == Finish(d(t)) IN
             /\ x \in SlotRec /\ x.req = slots[t].req /\ (Freed(d(t)) => ~x.active)
             /\ (Running(x) <=> Running(slots[t])) /\ History(x) = History(slots[t])
             /\ FedCount(x) = FedCount(slots[t])
  BY <1>3, FinishIs
<1>5. pc' \in {"spec", "serial"}
  BY <1>1
<1>6. /\ outFin' \subseteq Slot
      /\ \A t \in Slot : /\ slots'[t] = Finish(d(t)) /\ outTok'[t] = o(t) /\ entry'[t] = Shown(slots[t])
                         /\ t \in outFin' <=> Freed(d(t))
  BY <1>1
<1>7. TypeOK'
  <2>1. slots' \in [Slot -> SlotRec]
    BY <1>1, <1>4
  <2>2. \A t \in Slot : outTok'[t] \in Seq(Tok) /\ Len(outTok'[t]) <= Chunk
    BY <1>3, <1>6
  <2>3. step' \in 0 .. Chunk
    BY <1>1, QkEngineAssumption
  <2>. QED  BY <1>1, <1>2, <1>5, <1>6, <2>1, <2>2, <2>3 DEF TypeOK
<1>8. TypesToo'
  <2>1. outTok' \in [Slot -> Seq(Tok)] /\ entry' \in [Slot -> EntryShown]
    BY <1>1, <1>3
  <2>. QED  BY <1>1, <1>2, <1>5, <2>1 DEF TypesToo, ModelOK
<1>9. \A t \in Slot : /\ (Live(t)' => slots[t].active /\ Live(t)) /\ slots'[t].req = slots[t].req
  <2>. TAKE t \in Slot
  <2>1. slots'[t].req = slots[t].req
    BY <1>4, <1>6
  <2>2. slots'[t].active => slots[t].active
    <3>1. MoveOK(Finish(d(t)), o(t), Shown(slots[t]), Freed(d(t)), 0, sent[slots[t].req])
      BY <1>3
    <3>2. Finish(d(t)).active => Shown(slots[t]).req # None
      BY <3>1 DEF MoveOK
    <3>. QED  BY <1>3, <1>6, <3>2
  <2>3. entry'[t].req # None => slots[t].active
    BY <1>3, <1>6
  <2>. QED  BY <2>1, <2>2, <2>3 DEF Live
<1>10. RequestsOK'
  BY <1>1, <1>2, <1>9, RequestsFrame
<1>11. ASSUME NEW t \in Slot PROVE SlotOK(t)' /\ CallOK(t)' /\ MemOK(t)'
  <2>1. Waiting(t)' = 0 /\ Waiting(t) = 0
    BY <1>1, <1>5 DEF Waiting
  <2>2. SlotOK(t)'
    <3>1. Live(t)' => RunOK(lm', slots'[t], outTok'[t], sent'[slots'[t].req])
      BY <1>1, <1>3, <1>6, <1>9
    <3>2. ~slots'[t].active => slots'[t].outQ = <<>>
      <4>1. CASE slots[t].active
        <5>1. RunOK(lm, Finish(d(t)), o(t), sent[slots[t].req])
          BY <1>3, <4>1
        <5>. QED  BY <1>6, <5>1 DEF RunOK
      <4>2. CASE ~slots[t].active
        BY <1>3, <1>6, <4>2
      <4>. QED  BY <4>1, <4>2
    <3>. QED  BY <3>1, <3>2 DEF SlotOK
  <2>3. CallOK(t)'
    <3>. DEFINE x == Finish(d(t))  a == sent[slots[t].req]
    <3>1. MoveOK(x, o(t), Shown(slots[t]), Freed(d(t)), 0, a)
      BY <1>3
    <3>2. sent'[slots'[t].req] = a /\ step' - Waiting(t)' = 0
      BY <1>1, <1>9, <2>1
    <3>3. x = slots'[t]
      BY <1>6
    <3>. HIDE DEF x, a
    <3>4. MoveOK(x, o(t), Shown(slots[t]), t \in outFin', 0, a)
      BY <1>6, <3>1 DEF MoveOK
    <3>5. MoveOK(slots'[t], outTok'[t], entry'[t], t \in outFin', step' - Waiting(t)', sent'[slots'[t].req])
      BY <1>6, <3>2, <3>3, <3>4
    <3>. QED  BY <1>5, <3>5 DEF CallOK
  <2>4. MemOK(t)'
    <3>1. MemOK(t)
      BY SlotTypes
    <3>. QED  BY <1>1, <1>4, <1>6, <2>1, <3>1 DEF MemOK
  <2>. QED  BY <2>2, <2>3, <2>4
<1>. QED  BY <1>7, <1>8, <1>10, <1>11 DEF EngineInv

\* A slot with its end noted or not; one that emits a token more.
Ended(sl, b) == [sl EXCEPT !.finPending = b]
WithToken(sl, c, tok) == [sl EXCEPT !.gen = Append(@, tok), !.outQ = @ \o Overflow(c, <<tok>>)]

\* Noting an end changes no other field.
LEMMA EndedIs ==
  ASSUME NEW sl \in SlotRec, NEW b \in BOOLEAN
  PROVE  LET d == Ended(sl, b) IN
         /\ d \in SlotRec /\ d.active = sl.active /\ d.req = sl.req /\ d.gen = sl.gen
         /\ d.cursor = sl.cursor /\ d.pos = sl.pos /\ d.outQ = sl.outQ /\ d.finPending = b
<1>1. [sl EXCEPT !.finPending = b] \in SlotRec
  BY DEF SlotRec
<1>. QED  BY <1>1 DEF SlotRec, Ended

\* On to the next slot's sample.
LEMMA TurnIs ==
  ASSUME pc = "sampled", NEW c \in Slot, c = cur, step' = step, TypesToo,
         IF c = NSlots - 1 THEN pc' = "serial" /\ cur' = 0 ELSE pc' = pc /\ cur' = c + 1
  PROVE  /\ pc' \in {"spec", "serial", "sampled"} /\ cur' \in Slot /\ pc # "idle"
         /\ pc' = "sampled" => step >= 1
         /\ step >= 1
         /\ Waiting(c) = 1 /\ Waiting(c)' = 0
         /\ \A t \in Slot : t # c => Waiting(t)' = Waiting(t)
<1>1. /\ NSlots \in Nat \ {0} /\ c \in Nat /\ c <= NSlots - 1 /\ 0 \in Slot
      /\ \A t \in Slot : t \in Nat /\ t <= NSlots - 1
      /\ c # NSlots - 1 => c + 1 \in Slot
  BY RequestsAssumption DEF Slot
<1>2. step >= 1
  BY DEF TypesToo
<1>3. CASE c = NSlots - 1
  <2>1. \A t \in Slot : t # c => ~(t >= cur)
    BY <1>1, <1>3
  <2>2. pc' = "serial" /\ cur' = 0
    BY <1>3
  <2>. QED  BY <1>1, <1>2, <2>1, <2>2 DEF Waiting
<1>4. CASE c # NSlots - 1
  <2>1. pc' = "sampled" /\ cur' = c + 1 /\ cur' \in Slot
    BY <1>1, <1>4
  <2>2. /\ ~(c >= cur') /\ c >= cur
        /\ \A t \in Slot : t # c => (t >= cur' <=> t >= cur)
    BY <1>1, <2>1
  <2>. QED  BY <1>2, <2>1, <2>2 DEF Waiting
<1>. QED  BY <1>3, <1>4

\* A slot that samples nothing: it is not running, or has more of its prompt to read.
LEMMA PassedOver ==
  ASSUME EngineInv, pc = "sampled", NEW c \in Slot, c = cur, ~Running(slots[c]),
         UNCHANGED <<slots, cache, outTok, outFin>>,
         IF c = NSlots - 1 THEN pc' = "serial" /\ cur' = 0 ELSE pc' = pc /\ cur' = c + 1,
         UNCHANGED <<lm, mem, scratch, step, jobs, sent, over, entry>>
  PROVE  EngineInv'
<1>1. TypeOK /\ TypesToo /\ RequestsOK
  BY DEF EngineInv
<1>2. /\ pc' \in {"spec", "serial", "sampled"} /\ cur' \in Slot /\ (pc' = "sampled" => step >= 1)
      /\ \A t \in Slot : t # c => Waiting(t)' = Waiting(t)
  BY <1>1, TurnIs
<1>3. TypeOK'
  BY <1>1, <1>2 DEF TypeOK
<1>4. TypesToo'
  BY <1>1, <1>2 DEF TypesToo, ModelOK
<1>5. \A t \in Slot : (Live(t)' => Live(t)) /\ slots'[t].req = slots[t].req
  BY DEF Live
<1>6. RequestsOK'
  BY <1>1, <1>5, RequestsFrame
<1>7. ASSUME NEW t \in Slot PROVE SlotOK(t)' /\ CallOK(t)' /\ MemOK(t)'
  <2>1. SlotOK(t) /\ CallOK(t) /\ MemOK(t)
    BY SlotTypes
  <2>2. SlotOK(t)'
    BY <1>5, <2>1, SlotFrame
  <2>3. CASE t # c
    <3>1. Waiting(t)' = Waiting(t)
      BY <1>2, <2>3
    <3>2. CallOK(t)'
      BY <1>2, <2>1, <3>1 DEF CallOK
    <3>3. MemOK(t)'
      BY <1>2, <2>1, <3>1 DEF MemOK
    <3>. QED  BY <2>2, <3>2, <3>3
  <2>4. CASE t = c
    <3>. DEFINE x == slots[c]  a == sent[slots[c].req]  fin == c \in outFin
                n == step - Waiting(c)  k == step' - Waiting(c)'
    <3>1. MoveOK(x, outTok[c], entry[c], fin, n, a)
      BY <2>1, <2>4 DEF CallOK
    <3>2. x.active => ~Prefilling(x)
      <4>1. x.active => x.finPending /\ Live(c)
        BY DEF Running, Live
      <4>2. Live(c) => RunOK(lm, x, outTok[c], a)
        BY <2>1, <2>4 DEF SlotOK
      <4>. QED  BY <4>1, <4>2 DEF RunOK
    <3>3. ~Running(x)
      OBVIOUS
    <3>. HIDE DEF x, a, fin, n, k
    <3>4. MoveOK(x, outTok[c], entry[c], fin, k, a)
      BY <3>1, <3>2, <3>3 DEF MoveOK
    <3>5. CallOK(c)'
      BY <1>2, <3>4 DEF CallOK, x, a, fin, k
    <3>6. MemOK(c)'
      BY DEF MemOK
    <3>. QED  BY <2>2, <2>4, <3>5, <3>6
  <2>. QED  BY <2>3, <2>4
<1>. QED  BY <1>3, <1>4, <1>6, <1>7 DEF EngineInv

\* A prompt token that is not the last: its sample is dropped.
LEMMA ReadsOn ==
  ASSUME EngineInv, pc = "sampled", NEW c \in Slot, c = cur, Running(slots[c]), Prefilling(slots[c]),
         slots[c].cursor + 1 < Len(PromptOf(slots[c])),
         slots' = [slots EXCEPT ![c].cursor = @ + 1], UNCHANGED <<cache, outTok, outFin>>,
         IF c = NSlots - 1 THEN pc' = "serial" /\ cur' = 0 ELSE pc' = pc /\ cur' = c + 1,
         UNCHANGED <<lm, mem, scratch, step, jobs, sent, over, entry>>
  PROVE  EngineInv'
<1>. DEFINE sl == slots[c]  k == sl.cursor + 1  d == [sl EXCEPT !.cursor = k]
            o == outTok[c]  a == sent[sl.req]  e == entry[c]
<1>1. TypeOK /\ TypesToo /\ sl \in SlotRec /\ SlotOK(c) /\ CallOK(c) /\ MemOK(c)
      /\ o \in Seq(Tok) /\ Len(o) <= Chunk
  BY SlotTypes DEF EngineInv
<1>2. /\ pc' \in {"spec", "serial", "sampled"} /\ cur' \in Slot /\ pc # "idle"
      /\ (pc' = "sampled" => step >= 1) /\ step >= 1
      /\ Waiting(c) = 1 /\ Waiting(c)' = 0 /\ \A t \in Slot : t # c => Waiting(t)' = Waiting(t)
  BY <1>1, TurnIs
<1>3. slots' = [slots EXCEPT ![c] = d]
  BY <1>1 DEF TypeOK
<1>4. /\ RunOK(lm, sl, o, a) /\ sl.active
      /\ MoveOK(sl, o, e, c \in outFin, step - 1, a)
      /\ HoldsTo(mem[c], History(sl), FedCount(sl) + 1)
  BY <1>1, <1>2 DEF SlotOK, Live, CallOK, MemOK, Running
<1>. DEFINE m == Len(Prompt[sl.req])
<1>5. /\ sl.req \in Request /\ RunOf(lm, sl.req, sl.gen) /\ a \o (o \o sl.outQ) = sl.gen
      /\ sl.gen = <<>> /\ sl.finPending = FALSE
  BY <1>1, <1>4 DEF RunOK, Running, SlotRec
<1>6. m \in Nat /\ m <= NCtx /\ NCtx \in Nat /\ PromptOf(sl) = Prompt[sl.req] /\ step \in Nat
  <2>1. /\ m \in Nat /\ m + MaxGen[sl.req] <= NCtx /\ NCtx \in Nat /\ MaxGen[sl.req] \in Nat
    BY <1>5, RequestTypes
  <2>2. step \in Nat
    BY <1>1, QkEngineAssumption DEF TypeOK
  <2>. HIDE DEF m
  <2>. QED  BY <2>1, <2>2 DEF PromptOf
<1>. HIDE DEF m
<1>7. sl.cursor \in Nat /\ k \in 0 .. NCtx /\ k < m /\ k \in Nat /\ k <= m
  <2>1. sl.cursor \in 0 .. NCtx
    BY <1>1 DEF SlotRec
  <2>2. k < m
    BY <1>6 DEF m
  <2>. QED  BY <1>6, <2>1, <2>2
<1>8. /\ d \in SlotRec /\ d.active = sl.active /\ d.req = sl.req /\ d.gen = sl.gen
      /\ d.cursor = k /\ d.outQ = sl.outQ /\ d.finPending = sl.finPending
  <2>1. d \in SlotRec
    BY <1>1, <1>7 DEF SlotRec
  <2>. QED  BY <1>1, <2>1 DEF SlotRec
<1>9. sl.cursor + 1 = k
  OBVIOUS
<1>. HIDE DEF sl, d, k, o, a, e
<1>10. ~Freed(d) /\ Finish(d) = d /\ Running(d) /\ Prefilling(d) /\ PromptOf(d) = Prompt[sl.req]
       /\ History(d) = History(sl) /\ FedCount(d) = k /\ FedCount(sl) = sl.cursor
  <2>1. PromptOf(d) = Prompt[sl.req] /\ History(d) = History(sl) /\ ~Freed(d)
    BY <1>5, <1>8 DEF PromptOf, History, Freed
  <2>2. Prefilling(d) /\ Prefilling(sl)
    BY <1>7, <1>8, <2>1 DEF Prefilling, m, sl
  <2>. QED  BY <1>4, <1>5, <1>8, <2>1, <2>2 DEF Finish, Running, FedCount
<1>11. Handled(lm, d, o, a)
  BY <1>4, <1>5, <1>7, <1>8, <1>10 DEF Handled, m
<1>12. Moved(d, o, e, step - Waiting(c)', a)
  <2>1. e.pre = (m - sl.cursor) + (step - 1)
    BY <1>4, <1>6 DEF MoveOK, m, sl
  <2>2. e.pre = (m - k) + (step - 0)
    BY <1>6, <1>7, <1>9, <2>1, SMTT(60)
  <2>3. e.req # None /\ sl.req = e.req /\ e.gen = Len(a) /\ (sl.outQ # <<>> => Len(o) = Chunk)
    BY <1>4 DEF MoveOK
  <2>4. step - Waiting(c)' = step - 0
    BY <1>2
  <2>. DEFINE w == step - 0
  <2>. HIDE DEF w
  <2>5. Moved(d, o, e, w, a)
    BY <1>4, <1>8, <1>10, <2>2, <2>3 DEF Moved, m, w
  <2>. QED  BY <2>4, <2>5 DEF w
<1>13. HoldsTo(mem[c], History(d), FedCount(d) + Waiting(c)')
  <2>1. FedCount(d) + Waiting(c)' = FedCount(sl) + 1
    BY <1>2, <1>7, <1>9, <1>10
  <2>. QED  BY <1>4, <1>10, <2>1
<1>14. /\ slots' = [slots EXCEPT ![c] = Finish(d)] /\ outTok' = [outTok EXCEPT ![c] = o]
       /\ outFin' = IF Freed(d) THEN outFin \cup {c} ELSE outFin
       /\ CacheOK(cache') /\ mem' \in [Slot -> Stripe] /\ d.req = slots[c].req
  BY <1>1, <1>3, <1>8, <1>10 DEF TypesToo, o, sl
<1>15. a = sent[d.req] /\ e = entry[c] /\ slots[c].active /\ mem' = mem
  BY <1>4, <1>8 DEF a, e, sl
<1>16. /\ Handled(lm, d, o, sent[d.req]) /\ Moved(d, o, entry[c], step - Waiting(c)', sent[d.req])
       /\ Running(d) => HoldsTo(mem'[c], History(d), FedCount(d) + Waiting(c)')
       /\ \A t \in Slot : t # c => mem'[t] = mem[t] /\ Waiting(t)' = Waiting(t)
  BY <1>2, <1>11, <1>12, <1>13, <1>15
<1>17. d \in SlotRec /\ o \in Seq(Tok) /\ Len(o) <= Chunk /\ UNCHANGED <<lm, step, jobs, sent, over, entry>>
  BY <1>1, <1>8
<1>. QED  BY <1>2, <1>14, <1>15, <1>16, <1>17, OneSlotKeeps, ZenonT(60)

\* The state a slot samples from when it has read its whole history.
LEMMA SampleIs ==
  ASSUME EngineInv, pc = "sampled", NEW c \in Slot, c = cur, Running(slots[c]),
         ~Prefilling(slots[c]) \/ slots[c].cursor + 1 >= Len(PromptOf(slots[c]))
  PROVE  LET sl == slots[c]
             r == sl.req
             q == sl.gen
             h == History(sl)
             x == IF Prefilling(sl) THEN sl.cursor + 1 ELSE sl.cursor
             y == IF Prefilling(sl) THEN Len(PromptOf(sl)) ELSE sl.pos + 1 IN
         /\ r \in Request /\ GreedyRun(r, q) /\ Len(q) < MaxGen[r] /\ h = Prompt[r] \o q /\ h \in Seq(Tok)
         /\ HoldsTo(mem[c], h, Len(h)) /\ Len(h) = Len(Prompt[r]) + Len(q)
         /\ x \in 0 .. NCtx /\ x = Len(Prompt[r]) /\ y = Len(h) /\ y \in 0 .. NCtx /\ y < NCtx
         /\ Greedy(mem[c].dn) = lm[Before(r, q, Len(q) + 1)]
<1>. DEFINE sl == slots[c]  r == sl.req  q == sl.gen  p == Prompt[r]  h == p \o q  m == Len(p)  k == Len(q)
            x == IF Prefilling(sl) THEN sl.cursor + 1 ELSE sl.cursor
            y == IF Prefilling(sl) THEN Len(PromptOf(sl)) ELSE sl.pos + 1
<1>1. sl \in SlotRec /\ SlotOK(c) /\ MemOK(c) /\ TypesToo
  BY SlotTypes DEF EngineInv
<1>2. Waiting(c) = 1
  <2>1. c >= c
    BY RequestsAssumption DEF Slot
  <2>. QED  BY <2>1 DEF Waiting
<1>3. RunOK(lm, sl, outTok[c], sent[sl.req]) /\ HoldsTo(mem[c], History(sl), FedCount(sl) + 1)
  BY <1>1, <1>2 DEF SlotOK, Live, MemOK, Running
<1>. HIDE DEF sl
<1>4. /\ r \in Request /\ RunOf(lm, r, q) /\ sl.cursor <= m /\ q \in Seq(Tok) /\ Running(sl)
      /\ Prefilling(sl) => q = <<>>
      /\ ~Prefilling(sl) => k < MaxGen[r] /\ sl.pos + 1 = m + k
  BY <1>3 DEF RunOK, RunOf, sl
<1>5. /\ m \in Nat \ {0} /\ MaxGen[r] \in Nat \ {0} /\ m + MaxGen[r] <= NCtx /\ NCtx \in Nat
  BY <1>4, RequestTypes
<1>6. /\ h \in Seq(Tok) /\ Len(h) = m + k /\ k \in Nat /\ h # <<>>
      /\ Last(h) = Before(r, q, k + 1)
  BY <1>4, Decoded
<1>7. /\ sl.cursor \in Nat /\ sl.pos \in Nat /\ PromptOf(sl) = p /\ History(sl) = h
      /\ Prefilling(sl) <=> sl.cursor < m
  BY <1>1 DEF SlotRec, PromptOf, History, Prefilling
<1>. DEFINE n == FedCount(sl) + 1
<1>8. ~Prefilling(sl) \/ sl.cursor + 1 >= m
  BY <1>7 DEF sl
<1>9. <<>> \in Seq(Tok) /\ Len(<<>>) = 0
  OBVIOUS
<1>. HIDE DEF p, h, k, m
<1>10. /\ x = m /\ y = m + k /\ n = m + k /\ k < MaxGen[r]
  <2>1. CASE Prefilling(sl)
    <3>1. k = 0
      BY <1>4, <1>9, <2>1 DEF k
    <3>2. sl.cursor + 1 = m
      BY <1>5, <1>7, <1>8, <2>1
    <3>3. x = sl.cursor + 1 /\ y = Len(p) /\ n = sl.cursor + 1
      BY <1>7, <2>1 DEF FedCount
    <3>. QED  BY <1>5, <3>1, <3>2, <3>3 DEF m
  <2>2. CASE ~Prefilling(sl)
    <3>1. sl.cursor = m
      BY <1>4, <1>5, <1>7, <2>2
    <3>2. x = sl.cursor /\ y = sl.pos + 1 /\ n = sl.pos + 1
      BY <2>2 DEF FedCount
    <3>. QED  BY <1>4, <2>2, <3>1, <3>2
  <2>. QED  BY <2>1, <2>2
<1>11. HoldsTo(mem[c], h, Len(h))
  BY <1>3, <1>6, <1>7, <1>10
<1>. HIDE DEF x, y, n
<1>12. x \in 0 .. NCtx /\ y \in 0 .. NCtx /\ y < NCtx
  BY <1>5, <1>6, <1>10
<1>13. Greedy(mem[c].dn) = lm[Last(h)]
  <2>1. mem[c].dn = SubSeq(h, 1, Len(h))
    BY <1>11 DEF HoldsTo
  <2>2. Len(h) \in 1 .. Len(h)
    BY <1>5, <1>6
  <2>3. Greedy(SubSeq(h, 1, Len(h))) = lm[h[Len(h)]]
    BY <1>6, <2>2, GreedyOf
  <2>. QED  BY <2>1, <2>3 DEF Last
<1>. QED  BY <1>4, <1>6, <1>7, <1>10, <1>11, <1>12, <1>13 DEF sl, p, h, m, k, x, y, GreedyRun

\* A slot that has read its prompt and been given its samples, as they leave it;
\* its end, if this is it, is still to be noted.
GoodEnd(d, r, o, a, ends) ==
  /\ d \in SlotRec /\ d.active /\ r \in Request /\ d.req = r /\ d.cursor = Len(Prompt[r])
  /\ GreedyRun(r, d.gen) /\ a \o (o \o d.outQ) = d.gen /\ o \in Seq(Tok) /\ Len(o) <= Chunk
  /\ d.outQ # <<>> => Len(o) = Chunk
  /\ ends => Complete(r, d.gen)
  /\ ~ends => /\ o # <<>> /\ Len(d.gen) >= 1 /\ Len(d.gen) < MaxGen[r]
              /\ d.pos + 1 = Len(Prompt[r]) + Len(d.gen)

\* Such a slot, its end noted or not, is what finish may be given.
LEMMA EndIs ==
  ASSUME NEW new, NEW r, NEW o, NEW a, NEW ends \in BOOLEAN, GoodEnd(new, r, o, a, ends)
  PROVE  LET d == Ended(new, ends) IN
         /\ d \in SlotRec /\ d.req = r /\ Handled(lm, d, o, a)
         /\ \A e, n : e.req # None /\ r = e.req /\ e.gen = Len(a) => Moved(d, o, e, n, a)
         /\ History(d) = History(new) /\ FedCount(d) = new.pos /\ History(new) = Prompt[r] \o new.gen
<1>. DEFINE d == Ended(new, ends)
<1>1. /\ new \in SlotRec /\ new.active /\ r \in Request /\ new.req = r /\ new.cursor = Len(Prompt[r])
  BY DEF GoodEnd
<1>2. /\ d \in SlotRec /\ d.active = new.active /\ d.req = new.req /\ d.gen = new.gen
      /\ d.cursor = new.cursor /\ d.pos = new.pos /\ d.outQ = new.outQ /\ d.finPending = ends
  BY <1>1, EndedIs
<1>. HIDE DEF d
<1>3. /\ GreedyRun(r, d.gen) /\ a \o (o \o d.outQ) = d.gen
      /\ d.outQ # <<>> => Len(o) = Chunk
      /\ ends => Complete(r, d.gen)
      /\ ~ends => /\ o # <<>> /\ Len(d.gen) >= 1 /\ Len(d.gen) < MaxGen[r]
                  /\ d.pos + 1 = Len(Prompt[r]) + Len(d.gen)
  BY <1>2 DEF GoodEnd
<1>4. Len(Prompt[r]) \in Nat
  BY <1>1, RequestTypes
<1>5. ~Prefilling(d) /\ Prefilling(d) \in BOOLEAN
  BY <1>1, <1>2, <1>4 DEF Prefilling, PromptOf
<1>6. History(d) = History(new) /\ FedCount(d) = new.pos /\ History(new) = Prompt[r] \o new.gen
  BY <1>1, <1>2, <1>5 DEF History, PromptOf, FedCount
<1>7. Running(d) <=> ~ends
  BY <1>1, <1>2 DEF Running
<1>8. Handled(lm, d, o, a)
  <2>1. d.active /\ d.req = r /\ r \in Request /\ d.cursor <= Len(Prompt[r])
    BY <1>1, <1>2, <1>4
  <2>2. RunOf(lm, r, d.gen)
    BY <1>3 DEF GreedyRun
  <2>3. d.finPending => EndsRun(lm, r, d.gen)
    BY <1>2, <1>3 DEF Complete
  <2>. QED  BY <1>3, <1>5, <1>7, <2>1, <2>2, <2>3 DEF Handled
<1>9. ASSUME NEW e, NEW n, e.req # None, r = e.req, e.gen = Len(a)
      PROVE  Moved(d, o, e, n, a)
  BY <1>1, <1>2, <1>3, <1>5, <1>7, <1>9 DEF Moved
<1>. QED  BY <1>1, <1>2, <1>6, <1>8, <1>9 DEF d

\* A slot that has been fed its whole history, and its next sample.
FedAll(f, c, r, a) ==
  /\ f \in SlotRec /\ f.active /\ r \in Request /\ f.req = r /\ f.cursor = Len(Prompt[r])
  /\ GreedyRun(r, f.gen) /\ Len(f.gen) < MaxGen[r] /\ f.pos = Len(Prompt[r]) + Len(f.gen)
  /\ a \in Seq(Tok) /\ a \o (outTok[c] \o f.outQ) = f.gen
  /\ outTok[c] \in Seq(Tok) /\ Len(outTok[c]) <= Chunk /\ (f.outQ # <<>> => Len(outTok[c]) = Chunk)

\* The sample is Eos: nothing is emitted and the run is complete.
LEMMA EndSampled ==
  ASSUME NEW c, NEW f, NEW r, NEW a, FedAll(f, c, r, a), lm[Before(r, f.gen, Len(f.gen) + 1)] = Eos
  PROVE  GoodEnd(f, r, outTok[c], a, TRUE)
<1>1. Complete(r, f.gen)
  BY DEF Complete, EndsRun
<1>. QED  BY <1>1 DEF GoodEnd, FedAll

\* The sample is a token: it is emitted, and ends the run at max_gen.
LEMMA TokenSampled ==
  ASSUME ModelOK, NEW c, NEW f, NEW r, NEW a, FedAll(f, c, r, a),
         NEW tok, tok = lm[Before(r, f.gen, Len(f.gen) + 1)], tok # Eos
  PROVE  LET d == WithToken(f, c, tok) IN
         /\ d.pos = f.pos /\ d.gen = f.gen \o <<tok>> /\ <<tok>> \in Seq(Tok)
         /\ ~(d.pos >= NCtx)
         /\ \A ends \in BOOLEAN :
              (ends <=> Len(d.gen) >= MaxGen[r]) => GoodEnd(d, r, Emitted(c, <<tok>>), a, ends)
<1>. DEFINE q == f.gen  o == Emitted(c, <<tok>>)  z == f.outQ \o Overflow(c, <<tok>>)
            d == [f EXCEPT !.gen = Append(q, tok), !.outQ = z]
<1>1. /\ f \in SlotRec /\ f.active /\ r \in Request /\ f.req = r /\ f.cursor = Len(Prompt[r])
      /\ GreedyRun(r, q) /\ Len(q) < MaxGen[r] /\ f.pos = Len(Prompt[r]) + Len(q)
      /\ a \in Seq(Tok) /\ a \o (outTok[c] \o f.outQ) = q
      /\ outTok[c] \in Seq(Tok) /\ Len(outTok[c]) <= Chunk /\ (f.outQ # <<>> => Len(outTok[c]) = Chunk)
  BY DEF FedAll
<1>2. /\ q \in Seq(Tok) /\ f.outQ \in Seq(Tok) /\ Len(q) \in Nat
      /\ Len(Prompt[r]) \in Nat /\ MaxGen[r] \in Nat /\ Len(Prompt[r]) + MaxGen[r] <= NCtx /\ NCtx \in Nat
  BY <1>1, RequestTypes, SMTT(60) DEF SlotRec
<1>. HIDE DEF q
<1>3. tok \in Tok
  <2>1. Before(r, q, Len(q) + 1) \in Tok
    BY <1>1, <1>2, Decoded
  <2>2. lm \in [Tok -> Tok \cup {Eos}]
    BY DEF ModelOK
  <2>. QED  BY <2>1, <2>2 DEF q
<1>4. GreedyRun(r, Append(q, tok)) /\ Append(q, tok) = q \o <<tok>>
  BY <1>1, <1>3, GreedyNext DEF q
<1>5. <<tok>> \in Seq(Tok) /\ <<tok>> # <<>> /\ Len(<<tok>>) = 1
  BY <1>3
<1>6. /\ o \in Seq(Tok) /\ Len(o) <= Chunk /\ z \in Seq(Tok) /\ (z # <<>> => Len(o) = Chunk)
      /\ o # <<>> /\ a \o (o \o z) = (a \o (outTok[c] \o f.outQ)) \o <<tok>>
  <2>. DEFINE t == <<tok>>
  <2>. HIDE DEF t
  <2>1. t \in Seq(Tok) /\ t # <<>>
    BY <1>5 DEF t
  <2>2. LET oo == Emitted(c, t)  zz == f.outQ \o Overflow(c, t) IN
        /\ oo \in Seq(Tok) /\ Len(oo) <= Chunk /\ zz \in Seq(Tok)
        /\ zz # <<>> => Len(oo) = Chunk
        /\ t # <<>> \/ outTok[c] # <<>> => oo # <<>>
        /\ a \o (oo \o zz) = (a \o (outTok[c] \o f.outQ)) \o t
    <3>1. /\ t \in Seq(Tok) /\ f.outQ \in Seq(Tok) /\ a \in Seq(Tok) /\ outTok[c] \in Seq(Tok)
          /\ Len(outTok[c]) <= Chunk /\ (f.outQ # <<>> => Len(outTok[c]) = Chunk)
      BY <1>1, <1>2, <2>1
    <3>. DEFINE oo == Emitted(c, t)  zz == f.outQ \o Overflow(c, t)  w == outTok[c] \o f.outQ
    <3>2. /\ oo \in Seq(Tok) /\ Len(oo) <= Chunk /\ zz \in Seq(Tok)
          /\ zz # <<>> => Len(oo) = Chunk
          /\ t # <<>> \/ outTok[c] # <<>> => oo # <<>>
          /\ oo \o zz = w \o t
      BY <3>1, EmitKeeps, ZenonT(60)
    <3>3. w \in Seq(Tok)
      BY <3>1, TokConcat
    <3>. HIDE DEF oo, zz, w
    <3>4. a \o (w \o t) = (a \o w) \o t
      BY <3>1, <3>3, TokAssoc, ZenonT(60)
    <3>. QED  BY <3>2, <3>4 DEF oo, zz, w
  <2>. QED  BY <2>1, <2>2 DEF t
<1>. HIDE DEF o, z
<1>7. Append(q, tok) \in Seq(Tok) /\ Len(Append(q, tok)) = Len(q) + 1
  BY <1>2, <1>3, AppendProperties
<1>8. /\ d \in SlotRec /\ d.active = f.active /\ d.req = f.req /\ d.gen = Append(q, tok)
      /\ d.cursor = f.cursor /\ d.pos = f.pos /\ d.outQ = z
  <2>. DEFINE g == Append(q, tok)
  <2>1. g \in Seq(Tok)
    BY <1>7
  <2>. HIDE DEF g
  <2>2. LET x == [f EXCEPT !.gen = g, !.outQ = z] IN
        /\ x \in SlotRec /\ x.active = f.active /\ x.req = f.req /\ x.gen = g
        /\ x.cursor = f.cursor /\ x.pos = f.pos /\ x.outQ = z
    <3>1. f \in SlotRec /\ z \in Seq(Tok)
      BY <1>1, <1>6
    <3>. DEFINE x == [f EXCEPT !.gen = g, !.outQ = z]
    <3>2. x \in SlotRec
      BY <2>1, <3>1 DEF SlotRec
    <3>3. /\ x.active = f.active /\ x.req = f.req /\ x.gen = g
          /\ x.cursor = f.cursor /\ x.pos = f.pos /\ x.outQ = z
      BY <3>1 DEF SlotRec
    <3>. QED  BY <3>2, <3>3
  <2>. QED  BY <2>2 DEF g
<1>9. WithToken(f, c, tok) = d
  BY DEF q, z, WithToken
<1>. HIDE DEF d
<1>10. ~(d.pos >= NCtx)
  BY <1>1, <1>2, <1>8
<1>11. Len(d.gen) <= MaxGen[r] /\ Len(d.gen) \in Nat /\ d.pos + 1 = Len(Prompt[r]) + Len(d.gen)
       /\ Len(d.gen) >= 1
  <2>. DEFINE k == Len(q)  m == Len(Prompt[r])  l == Len(d.gen)
  <2>1. l = k + 1 /\ d.pos = m + k /\ k \in Nat /\ m \in Nat /\ k < MaxGen[r] /\ MaxGen[r] \in Nat
    BY <1>1, <1>2, <1>7, <1>8
  <2>. HIDE DEF k, m, l
  <2>2. l <= MaxGen[r] /\ l \in Nat /\ d.pos + 1 = m + l /\ l >= 1
    BY <2>1
  <2>. QED  BY <2>2 DEF k, m, l
<1>12. a \o (o \o d.outQ) = d.gen /\ GreedyRun(r, d.gen)
  BY <1>1, <1>4, <1>6, <1>8
<1>13. Len(d.gen) >= MaxGen[r] => Complete(r, d.gen)
  <2>1. Len(d.gen) >= MaxGen[r] => Len(d.gen) = MaxGen[r]
    BY <1>2, <1>11
  <2>. QED  BY <2>1 DEF Complete, EndsRun
<1>14. ~(Len(d.gen) >= MaxGen[r]) => Len(d.gen) < MaxGen[r]
  BY <1>2, <1>11
<1>15. ASSUME NEW ends \in BOOLEAN, ends <=> Len(d.gen) >= MaxGen[r]
       PROVE  GoodEnd(d, r, o, a, ends)
  <2>1. d \in SlotRec /\ d.active /\ r \in Request /\ d.req = r /\ d.cursor = Len(Prompt[r])
    BY <1>1, <1>8
  <2>. QED  BY <1>6, <1>8, <1>11, <1>12, <1>13, <1>14, <1>15, <2>1 DEF GoodEnd
<1>. QED  BY <1>4, <1>5, <1>8, <1>9, <1>10, <1>15 DEF o, q

\* A sample taken: a token more, or the end.
LEMMA SampleEmits ==
  ASSUME EngineInv, TakeSample, NEW c \in Slot, c = cur, Running(slots[c]),
         ~Prefilling(slots[c]) \/ slots[c].cursor + 1 >= Len(PromptOf(slots[c]))
  PROVE  EngineInv'
<1>. DEFINE sl == slots[c]
            tok == Greedy(mem[c].dn)
            fed == [sl EXCEPT !.cursor = IF Prefilling(sl) THEN @ + 1 ELSE @,
                              !.pos = IF Prefilling(sl) THEN Len(PromptOf(sl)) ELSE @ + 1]
            new == IF tok = Eos THEN fed
                   ELSE [fed EXCEPT !.gen = Append(@, tok), !.outQ = @ \o Overflow(c, <<tok>>)]
            ends == tok = Eos \/ new.pos >= NCtx \/ Len(new.gen) >= MaxGen[sl.req]
            done == [new EXCEPT !.finPending = ends]
            r == sl.req  q == sl.gen  h == History(sl)  p == Prompt[r]  a == sent[r]  e == entry[c]
            x == IF Prefilling(sl) THEN sl.cursor + 1 ELSE sl.cursor
            y == IF Prefilling(sl) THEN Len(PromptOf(sl)) ELSE sl.pos + 1
            o == IF tok = Eos THEN outTok[c] ELSE Emitted(c, <<tok>>)
<1>1. /\ pc = "sampled"
      /\ outTok' = IF tok = Eos THEN outTok ELSE [outTok EXCEPT ![c] = Emitted(c, <<tok>>)]
      /\ cache' = IF ends THEN SnapshotSlot(cache, new, mem[c]) ELSE cache
      /\ slots' = [slots EXCEPT ![c] = Finish(done)]
      /\ outFin' = IF Freed(done) THEN outFin \cup {c} ELSE outFin
      /\ IF c = NSlots - 1 THEN pc' = "serial" /\ cur' = 0 ELSE pc' = pc /\ cur' = c + 1
      /\ UNCHANGED <<lm, mem, scratch, step, jobs, sent, over, entry>>
  <2>1. ~(Prefilling(slots[c]) /\ ~(slots[c].cursor + 1 >= Len(PromptOf(slots[c]))))
    OBVIOUS
  <2>. QED  BY <2>1 DEF TakeSample, ghostVars
<1>. HIDE DEF tok, fed, new, ends, done
<1>2. /\ TypesToo /\ sl \in SlotRec /\ SlotOK(c) /\ CallOK(c)
      /\ outTok \in [Slot -> Seq(Tok)] /\ outTok[c] \in Seq(Tok) /\ Len(outTok[c]) <= Chunk
      /\ mem[c] \in Stripe /\ mem \in [Slot -> Stripe] /\ CacheOK(cache) /\ ModelOK
      /\ sent \in [Request -> Seq(Tok)] /\ Running(sl)
  BY SlotTypes DEF EngineInv, TypesToo
<1>3. /\ pc' \in {"spec", "serial", "sampled"} /\ cur' \in Slot /\ pc # "idle"
      /\ (pc' = "sampled" => step >= 1) /\ step >= 1
      /\ Waiting(c) = 1 /\ Waiting(c)' = 0 /\ \A t \in Slot : t # c => Waiting(t)' = Waiting(t)
  BY <1>1, <1>2, TurnIs
<1>4. /\ RunOK(lm, sl, outTok[c], a) /\ sl.active /\ sl.finPending = FALSE
      /\ MoveOK(sl, outTok[c], e, c \in outFin, step - 1, a)
  BY <1>1, <1>2, <1>3 DEF SlotOK, Live, CallOK, Running, SlotRec
<1>5. /\ r \in Request /\ GreedyRun(r, q) /\ Len(q) < MaxGen[r] /\ h = p \o q /\ h \in Seq(Tok)
      /\ HoldsTo(mem[c], h, Len(h)) /\ Len(h) = Len(p) + Len(q)
      /\ x \in 0 .. NCtx /\ x = Len(p) /\ y = Len(h) /\ y \in 0 .. NCtx /\ y < NCtx
      /\ tok = lm[Before(r, q, Len(q) + 1)]
  BY <1>1, SampleIs DEF tok
<1>. HIDE DEF x, y, o
<1>6. /\ fed \in SlotRec /\ fed.active = sl.active /\ fed.req = r /\ fed.gen = q
      /\ fed.cursor = x /\ fed.pos = y /\ fed.outQ = sl.outQ
  <2>1. fed = [sl EXCEPT !.cursor = x, !.pos = y]
    BY DEF fed, x, y
  <2>. DEFINE d == [sl EXCEPT !.cursor = x, !.pos = y]
  <2>. HIDE DEF sl
  <2>2. sl \in SlotRec /\ x \in 0 .. NCtx /\ y \in 0 .. NCtx
    BY <1>2, <1>5
  <2>3. d \in SlotRec
    BY <2>2 DEF SlotRec
  <2>4. /\ d.active = sl.active /\ d.req = sl.req /\ d.gen = sl.gen
        /\ d.cursor = x /\ d.pos = y /\ d.outQ = sl.outQ
    BY <2>2 DEF SlotRec
  <2>. QED  BY <2>1, <2>3, <2>4
<1>7. a \o (outTok[c] \o sl.outQ) = q /\ (sl.outQ # <<>> => Len(outTok[c]) = Chunk)
  BY <1>4 DEF RunOK, MoveOK
<1>8. e.req # None /\ r = e.req /\ e.gen = Len(a)
  BY <1>4 DEF MoveOK
<1>. HIDE DEF e, a, h, p, q, r, sl
<1>9. FedAll(fed, c, r, a)
  <2>1. a \in Seq(Tok)
    BY <1>2, <1>5 DEF a
  <2>. QED  BY <1>2, <1>4, <1>5, <1>6, <1>7, <2>1 DEF FedAll, p
<1>10. /\ GoodEnd(new, r, o, a, ends) /\ ends \in BOOLEAN /\ new.pos = Len(h)
       /\ \E u \in Seq(Tok) : new.gen = q \o u
  <2>1. CASE tok = Eos
    <3>1. new = fed /\ o = outTok[c] /\ ends = TRUE
      BY <2>1 DEF new, o, ends
    <3>2. GoodEnd(fed, r, outTok[c], a, TRUE)
      BY <1>5, <1>6, <1>9, <2>1, EndSampled
    <3>3. q \o <<>> = q /\ <<>> \in Seq(Tok)
      BY <1>5, ConcatEmptySeq DEF GreedyRun, RunOf
    <3>. QED  BY <1>5, <1>6, <3>1, <3>2, <3>3
  <2>2. CASE tok # Eos
    <3>. DEFINE d == WithToken(fed, c, tok)
    <3>1. new = d /\ o = Emitted(c, <<tok>>)
      BY <2>2 DEF new, o, WithToken
    <3>2. /\ d.pos = fed.pos /\ d.gen = fed.gen \o <<tok>> /\ <<tok>> \in Seq(Tok)
          /\ ~(d.pos >= NCtx)
          /\ \A b \in BOOLEAN :
               (b <=> Len(d.gen) >= MaxGen[r]) => GoodEnd(d, r, Emitted(c, <<tok>>), a, b)
      <4>1. ModelOK /\ FedAll(fed, c, r, a) /\ tok = lm[Before(r, fed.gen, Len(fed.gen) + 1)] /\ tok # Eos
        BY <1>2, <1>5, <1>6, <1>9, <2>2
      <4>. QED  BY <4>1, TokenSampled
    <3>. HIDE DEF d
    <3>3. ends <=> Len(d.gen) >= MaxGen[r]
      BY <2>2, <3>1, <3>2 DEF ends, r
    <3>4. GoodEnd(d, r, Emitted(c, <<tok>>), a, ends)
      <4>1. ends \in BOOLEAN
        BY DEF ends
      <4>. QED  BY <3>2, <3>3, <4>1
    <3>5. ends \in BOOLEAN
      BY DEF ends
    <3>. QED  BY <1>5, <1>6, <3>1, <3>2, <3>4, <3>5
  <2>. QED  BY <2>1, <2>2
<1>11. /\ done \in SlotRec /\ done.req = r /\ Handled(lm, done, o, a) /\ Moved(done, o, e, step - Waiting(c)', a)
       /\ History(done) = History(new) /\ FedCount(done) = new.pos /\ History(new) = p \o new.gen
  <2>. DEFINE n == step - Waiting(c)'
  <2>. HIDE DEF n
  <2>1. PICK b \in BOOLEAN : b = ends
    BY <1>10
  <2>2. GoodEnd(new, r, o, a, b)
    BY <1>10, <2>1
  <2>3. done = Ended(new, b)
    BY <2>1 DEF done, Ended
  <2>4. LET d == Ended(new, b) IN
        /\ d \in SlotRec /\ d.req = r /\ Handled(lm, d, o, a)
        /\ \A f, i : f.req # None /\ r = f.req /\ f.gen = Len(a) => Moved(d, o, f, i, a)
        /\ History(d) = History(new) /\ FedCount(d) = new.pos /\ History(new) = Prompt[r] \o new.gen
    BY <2>2, EndIs, ZenonT(60)
  <2>. QED  BY <1>8, <2>3, <2>4 DEF p, n
<1>12. new.req = r /\ new.gen \in Seq(Tok) /\ o \in Seq(Tok) /\ Len(o) <= Chunk
  BY <1>10 DEF GoodEnd, GreedyRun, RunOf
<1>13. /\ p \o new.gen \in Seq(Tok) /\ Len(p \o new.gen) = Len(p) + Len(new.gen)
       /\ Len(h) \in 0 .. Len(h) /\ Len(h) <= Len(p \o new.gen)
       /\ \A i \in 1 .. Len(h) : h[i] = (p \o new.gen)[i]
  <2>1. PICK u \in Seq(Tok) : new.gen = q \o u
    BY <1>10
  <2>2. q \in Seq(Tok) /\ p \in Seq(Tok)
    BY <1>5, RequestTypes DEF GreedyRun, RunOf, p
  <2>. DEFINE g == new.gen
  <2>. HIDE DEF g
  <2>3. p \o (q \o u) = (p \o q) \o u
    BY <2>2, TokAssoc
  <2>4. p \o g = h \o u
    BY <1>5, <2>1, <2>3 DEF g
  <2>5. /\ Len(h \o u) = Len(h) + Len(u) /\ Len(h) \in Nat /\ Len(u) \in Nat
        /\ \A i \in 1 .. Len(h) : (h \o u)[i] = h[i]
        /\ h \o u \in Seq(Tok)
    BY <1>5, TokConcat
  <2>6. Len(p \o g) = Len(p) + Len(g)
    BY <1>12, <2>2, TokConcat DEF g
  <2>7. Len(h) \in 0 .. Len(h) /\ Len(h) <= Len(h) + Len(u)
    BY <2>5
  <2>. QED  BY <2>4, <2>5, <2>6, <2>7 DEF g
<1>14. HoldsTo(mem[c], p \o new.gen, Len(h))
  <2>. DEFINE k == p \o new.gen
  <2>. HIDE DEF k
  <2>1. k \in Seq(Tok) /\ Len(h) <= Len(k) /\ \A i \in 1 .. Len(h) : h[i] = k[i]
    BY <1>13 DEF k
  <2>2. HoldsTo(mem[c], h, Len(h)) <=> HoldsTo(mem[c], k, Len(h))
    BY <1>5, <1>13, <2>1, HoldsSame
  <2>. QED  BY <1>5, <2>2 DEF k
<1>15. CacheOK(cache')
  <2>1. new.req \in Request /\ Prompt[new.req] = p
    BY <1>5, <1>12 DEF p
  <2>2. new.pos \in 0 .. Len(Prompt[new.req]) + Len(new.gen)
    BY <1>10, <1>13, <2>1
  <2>3. HoldsTo(mem[c], History(new), new.pos)
    BY <1>10, <1>11, <1>14
  <2>4. CacheOK(SnapshotSlot(cache, new, mem[c]))
    BY <1>2, <1>12, <2>1, <2>2, <2>3, SnapshotOK
  <2>. QED  BY <1>1, <1>2, <2>4
<1>16. HoldsTo(mem'[c], History(done), FedCount(done) + Waiting(c)')
  <2>1. FedCount(done) + Waiting(c)' = Len(h)
    <3>1. Len(h) + 0 = Len(h)
      BY <1>13
    <3>. QED  BY <1>3, <1>10, <1>11, <3>1
  <2>. QED  BY <1>1, <1>11, <1>14, <2>1
<1>17. outTok' = [outTok EXCEPT ![c] = o]
  BY <1>1, <1>2 DEF o
<1>18. /\ Handled(lm, done, o, sent[done.req]) /\ Moved(done, o, entry[c], step - Waiting(c)', sent[done.req])
       /\ Running(done) => HoldsTo(mem'[c], History(done), FedCount(done) + Waiting(c)')
       /\ \A t \in Slot : t # c => mem'[t] = mem[t] /\ Waiting(t)' = Waiting(t)
       /\ mem' \in [Slot -> Stripe]
  BY <1>1, <1>2, <1>3, <1>11, <1>16 DEF a, e
<1>19. done.req = slots[c].req /\ slots[c].active /\ UNCHANGED <<lm, step, jobs, sent, over, entry>>
  BY <1>1, <1>4, <1>11 DEF r, sl
<1>. QED  BY <1>1, <1>3, <1>11, <1>12, <1>15, <1>17, <1>18, <1>19, OneSlotKeeps

\* A slot's turn: passed over, a prompt token read, or a sample taken.
LEMMA TakeSampleKeeps ==
  ASSUME EngineInv, TakeSample
  PROVE  EngineInv'
<1>1. PICK c \in Slot : c = cur
  BY DEF EngineInv, TypeOK
<1>2. /\ pc = "sampled"
      /\ IF c = NSlots - 1 THEN pc' = "serial" /\ cur' = 0 ELSE pc' = pc /\ cur' = c + 1
      /\ UNCHANGED <<lm, mem, scratch, step, jobs, sent, over, entry>>
  BY <1>1 DEF TakeSample, ghostVars
<1>3. CASE ~Running(slots[c])
  <2>1. UNCHANGED <<slots, cache, outTok, outFin>>
    BY <1>1, <1>3 DEF TakeSample
  <2>. QED  BY <1>1, <1>2, <1>3, <2>1, PassedOver
<1>4. CASE Running(slots[c]) /\ Prefilling(slots[c]) /\ ~(slots[c].cursor + 1 >= Len(PromptOf(slots[c])))
  <2>1. slots' = [slots EXCEPT ![c].cursor = @ + 1] /\ UNCHANGED <<cache, outTok, outFin>>
    BY <1>1, <1>4 DEF TakeSample
  <2>2. slots[c].cursor + 1 < Len(PromptOf(slots[c]))
    <3>. DEFINE x == slots[c].cursor + 1
    <3>1. x \in Nat
      BY SlotTypes
    <3>2. slots[c].req \in Request
      <4>1. SlotOK(c) /\ Live(c)
        BY <1>4, SlotTypes DEF Live, Running
      <4>. QED  BY <4>1 DEF SlotOK, RunOK
    <3>3. Len(PromptOf(slots[c])) \in Nat
      BY <3>2, RequestTypes DEF PromptOf
    <3>4. ~(x >= Len(PromptOf(slots[c])))
      BY <1>4
    <3>. HIDE DEF x
    <3>5. x < Len(PromptOf(slots[c]))
      BY <3>1, <3>3, <3>4
    <3>. QED  BY <3>5 DEF x
  <2>. QED  BY <1>1, <1>2, <1>4, <2>1, <2>2, ReadsOn
<1>5. CASE Running(slots[c]) /\ ~(Prefilling(slots[c]) /\ ~(slots[c].cursor + 1 >= Len(PromptOf(slots[c]))))
  BY <1>1, <1>5, SampleEmits
<1>. QED  BY <1>3, <1>4, <1>5

\* The call returns: what it holds is the caller's.
LEMMA ReturnKeeps ==
  ASSUME EngineInv, Return
  PROVE  EngineInv'
<1>1. /\ pc = "serial" /\ pc' = "idle"
      /\ sent' = [r \in Request |->
           IF \E s \in Slot : entry[s].req = r
           THEN sent[r] \o outTok[CHOOSE s \in Slot : entry[s].req = r] ELSE sent[r]]
      /\ over' = over \cup {entry[s].req : s \in outFin}
      /\ outTok' = [s \in Slot |-> <<>>] /\ outFin' = {}
      /\ UNCHANGED <<lm, mem, scratch, slots, cache, step, cur, jobs, entry>>
  BY DEF Return
<1>2. TypeOK /\ TypesToo /\ RequestsOK
  BY DEF EngineInv
<1>3. ASSUME NEW t \in Slot
      PROVE  /\ SlotOK(t) /\ CallOK(t) /\ MemOK(t) /\ slots[t] \in SlotRec /\ outTok[t] \in Seq(Tok)
             /\ Live(t) <=> entry[t].req # None
             /\ entry[t].req # None => entry[t].req = slots[t].req
             /\ entry[t].req # None <=> slots[t].active \/ t \in outFin
             /\ t \in outFin => ~slots[t].active
  <2>1. SlotOK(t) /\ CallOK(t) /\ MemOK(t) /\ slots[t] \in SlotRec /\ outTok[t] \in Seq(Tok)
    BY SlotTypes
  <2>2. /\ entry[t].req # None => slots[t].req = entry[t].req
        /\ entry[t].req # None <=> slots[t].active \/ t \in outFin
        /\ t \in outFin => ~slots[t].active
    BY <1>1, <2>1 DEF CallOK, MoveOK
  <2>. QED  BY <1>1, <2>1, <2>2 DEF Live
<1>4. ASSUME NEW t \in Slot, Live(t)
      PROVE  /\ slots[t].req \in Request /\ entry[t].req = slots[t].req
             /\ sent'[slots[t].req] = sent[slots[t].req] \o outTok[t]
             /\ sent[slots[t].req] \in Seq(Tok)
             /\ RunOK(lm, slots[t], outTok[t], sent[slots[t].req])
  <2>1. RunOK(lm, slots[t], outTok[t], sent[slots[t].req])
    BY <1>3, <1>4 DEF SlotOK
  <2>2. slots[t].req \in Request
    BY <2>1 DEF RunOK
  <2>3. entry[t].req = slots[t].req
    BY <1>3, <1>4
  <2>4. \A u \in Slot : entry[u].req = slots[t].req => u = t
    <3>. SUFFICES ASSUME NEW u \in Slot, entry[u].req = slots[t].req PROVE u = t
      OBVIOUS
    <3>1. entry[u].req # None
      BY <2>2, RequestsAssumption
    <3>2. Live(u) /\ slots[u].req = slots[t].req
      BY <1>3, <3>1
    <3>. QED  BY <1>2, <1>4, <3>2 DEF RequestsOK
  <2>5. (CHOOSE s \in Slot : entry[s].req = slots[t].req) = t
    BY <2>3, <2>4
  <2>. QED  BY <1>1, <1>2, <2>1, <2>2, <2>3, <2>5 DEF TypesToo
<1>5. ASSUME NEW r \in Request
      PROVE  \/ sent'[r] = sent[r] /\ \A t \in Slot : Live(t) => slots[t].req # r
             \/ \E t \in Slot : Live(t) /\ slots[t].req = r
  <2>1. CASE \E s \in Slot : entry[s].req = r
    <3>1. PICK t \in Slot : entry[t].req = r
      BY <2>1
    <3>2. entry[t].req # None
      BY <3>1, RequestsAssumption
    <3>. QED  BY <1>3, <3>1, <3>2
  <2>2. CASE ~\E s \in Slot : entry[s].req = r
    <3>1. sent'[r] = sent[r]
      BY <1>1, <2>2
    <3>2. \A t \in Slot : Live(t) => slots[t].req # r
      BY <1>3, <2>2
    <3>. QED  BY <3>1, <3>2
  <2>. QED  BY <2>1, <2>2
<1>6. ASSUME NEW t \in Slot, Live(t)
      PROVE  LET sl == slots[t]  b == sent'[sl.req] IN
             /\ b \in Seq(Tok) /\ GreedyRun(sl.req, b) /\ b \o (<<>> \o sl.outQ) = sl.gen
             /\ ~sl.active => b = sl.gen
  <2>. DEFINE sl == slots[t]  a == sent[sl.req]  o == outTok[t]  z == sl.outQ  b == sent'[sl.req]
  <2>1. /\ sl.req \in Request /\ a \in Seq(Tok) /\ o \in Seq(Tok) /\ z \in Seq(Tok)
        /\ b = a \o o /\ RunOK(lm, sl, o, a)
    BY <1>3, <1>4, <1>6 DEF SlotRec
  <2>2. GreedyRun(sl.req, sl.gen) /\ a \o (o \o z) = sl.gen /\ (~sl.active => z = <<>>)
    BY <2>1 DEF RunOK, GreedyRun
  <2>. HIDE DEF sl, a, o, z, b
  <2>3. (a \o o) \o z = a \o (o \o z) /\ a \o o \in Seq(Tok)
    BY <2>1, TokAssoc, TokConcat
  <2>4. b \o z = sl.gen /\ b \in Seq(Tok)
    BY <2>1, <2>2, <2>3
  <2>5. GreedyRun(sl.req, b)
    <3>1. GreedyRun(sl.req, b \o z)
      BY <2>2, <2>4
    <3>. QED  BY <2>1, <2>4, <3>1, GreedyFirst
  <2>6. <<>> \o z = z /\ b \o <<>> = b
    BY <2>1, <2>4, ConcatEmptySeq
  <2>. QED  BY <2>2, <2>4, <2>5, <2>6 DEF sl, b, z
<1>7. sent' \in [Request -> Seq(Tok)]
  <2>1. \A r \in Request : sent'[r] \in Seq(Tok)
    <3>. TAKE r \in Request
    <3>1. CASE sent'[r] = sent[r]
      BY <1>2, <3>1 DEF TypesToo
    <3>2. CASE \E t \in Slot : Live(t) /\ slots[t].req = r
      BY <1>6, <3>2
    <3>. QED  BY <1>5, <3>1, <3>2
  <2>. QED  BY <1>1, <2>1
<1>8. outFin \subseteq Slot /\ \A t \in outFin : Live(t) /\ entry[t].req = slots[t].req /\ slots[t].req \in Request
  <2>1. outFin \subseteq Slot
    BY <1>2 DEF TypeOK
  <2>2. \A t \in outFin : Live(t) /\ entry[t].req = slots[t].req
    BY <1>3, <2>1
  <2>. QED  BY <1>4, <2>1, <2>2
<1>9. TypeOK'
  <2>1. over' \subseteq Request
    BY <1>1, <1>2, <1>8 DEF TypeOK
  <2>2. \A t \in Slot : outTok'[t] \in Seq(Tok) /\ Len(outTok'[t]) <= Chunk
    <3>1. <<>> \in Seq(Tok) /\ Len(<<>>) = 0 /\ 0 <= Chunk
      BY QkEngineAssumption
    <3>. QED  BY <1>1, <3>1
  <2>. QED  BY <1>1, <1>2, <2>1, <2>2 DEF TypeOK
<1>10. TypesToo'
  <2>1. outTok' \in [Slot -> Seq(Tok)]
    BY <1>1
  <2>. QED  BY <1>1, <1>2, <1>7, <2>1 DEF TypesToo, ModelOK
<1>11. \A t \in Slot : Live(t)' <=> slots[t].active
  BY <1>1 DEF Live
<1>12. \A t \in Slot : slots[t].active => Live(t)
  BY DEF Live
<1>13. RequestsOK'
  <2>1. ASSUME NEW t \in Slot, Live(t)' PROVE slots'[t].req \notin jobs' /\ slots'[t].req \notin over'
    <3>1. Live(t) /\ slots[t].active
      BY <1>11, <1>12, <2>1
    <3>2. slots[t].req \notin jobs /\ slots[t].req \notin over
      BY <1>2, <3>1 DEF RequestsOK
    <3>3. \A u \in outFin : entry[u].req # slots[t].req
      <4>. SUFFICES ASSUME NEW u \in outFin, entry[u].req = slots[t].req PROVE FALSE
        OBVIOUS
      <4>1. u \in Slot /\ Live(u) /\ slots[u].req = slots[t].req /\ ~slots[u].active
        BY <1>3, <1>8
      <4>2. u = t
        BY <1>2, <3>1, <4>1 DEF RequestsOK
      <4>. QED  BY <3>1, <4>1, <4>2
    <3>. QED  BY <1>1, <3>2, <3>3
  <2>2. \A t, u \in Slot : Live(t)' /\ Live(u)' /\ slots'[t].req = slots'[u].req => t = u
    BY <1>1, <1>2, <1>11, <1>12 DEF RequestsOK
  <2>3. ASSUME NEW r \in Request
        PROVE  /\ RunOf(lm', r, sent'[r])
               /\ r \in jobs' => sent'[r] = <<>> /\ r \notin over'
               /\ r \in over' => EndsRun(lm', r, sent'[r])
    <3>0. /\ RunOf(lm, r, sent[r])
          /\ r \in jobs => sent[r] = <<>> /\ r \notin over
          /\ r \in over => EndsRun(lm, r, sent[r])
      BY <1>2 DEF RequestsOK
    <3>1. CASE sent'[r] = sent[r] /\ \A t \in Slot : Live(t) => slots[t].req # r
      <4>1. r \in over' => r \in over
        BY <1>1, <1>8, <3>1
      <4>. QED  BY <1>1, <3>0, <3>1, <4>1
    <3>2. CASE \E t \in Slot : Live(t) /\ slots[t].req = r
      <4>1. PICK t \in Slot : Live(t) /\ slots[t].req = r
        BY <3>2
      <4>2. r \notin jobs /\ r \notin over
        BY <1>2, <4>1 DEF RequestsOK
      <4>3. RunOf(lm, r, sent'[r]) /\ (~slots[t].active => sent'[r] = slots[t].gen)
        BY <1>6, <4>1 DEF GreedyRun
      <4>4. r \in over' => ~slots[t].active
        <5>. SUFFICES ASSUME r \in over' PROVE ~slots[t].active
          OBVIOUS
        <5>1. PICK u \in outFin : entry[u].req = r
          BY <1>1, <4>2
        <5>2. u \in Slot /\ Live(u) /\ slots[u].req = slots[t].req /\ ~slots[u].active
          BY <1>3, <1>8, <4>1, <5>1
        <5>3. u = t
          BY <1>2, <4>1, <5>2 DEF RequestsOK
        <5>. QED  BY <5>2, <5>3
      <4>5. ~slots[t].active => EndsRun(lm, r, slots[t].gen)
        BY <1>4, <4>1 DEF RunOK
      <4>. QED  BY <1>1, <4>2, <4>3, <4>4, <4>5
    <3>. QED  BY <1>5, <3>1, <3>2
  <2>. QED  BY <2>1, <2>2, <2>3 DEF RequestsOK
<1>14. ASSUME NEW t \in Slot PROVE SlotOK(t)' /\ CallOK(t)' /\ MemOK(t)'
  <2>1. CallOK(t)'
    BY <1>1 DEF CallOK
  <2>2. MemOK(t)'
    <3>1. Waiting(t)' = 0 /\ Waiting(t) = 0 /\ MemOK(t)
      BY <1>1, <1>3 DEF Waiting
    <3>. QED  BY <1>1, <3>1 DEF MemOK
  <2>3. SlotOK(t)'
    <3>1. ~slots[t].active => slots[t].outQ = <<>>
      BY <1>3 DEF SlotOK
    <3>2. slots[t].active => RunOK(lm, slots[t], <<>>, sent'[slots[t].req])
      <4>. SUFFICES ASSUME slots[t].active PROVE RunOK(lm, slots[t], <<>>, sent'[slots[t].req])
        OBVIOUS
      <4>. DEFINE sl == slots[t]  b == sent'[sl.req]
      <4>1. Live(t)
        BY DEF Live
      <4>2. RunOK(lm, sl, outTok[t], sent[sl.req])
        BY <1>4, <4>1
      <4>3. b \o (<<>> \o sl.outQ) = sl.gen /\ sl.active
        BY <1>6, <4>1
      <4>. HIDE DEF sl, b
      <4>4. RunOK(lm, sl, <<>>, b)
        BY <4>2, <4>3 DEF RunOK
      <4>. QED  BY <4>4 DEF sl, b
    <3>. QED  BY <1>1, <1>11, <3>1, <3>2 DEF SlotOK
  <2>. QED  BY <2>1, <2>2, <2>3
<1>. QED  BY <1>9, <1>10, <1>13, <1>14 DEF EngineInv

\* What a round takes of a draft, and what it emits.
EosAt(toks, am) == {i \in 1 .. Agree(toks, am) : am[i] = Eos}
Taken(toks, am) == IF EosAt(toks, am) # {} THEN Least(EosAt(toks, am)) ELSE Agree(toks, am)
Told(toks, am) == IF EosAt(toks, am) # {} THEN Taken(toks, am) - 1 ELSE Taken(toks, am)

\* They are within the draft: k agreeing tokens, and no Eos among the samples told.
LEMMA TakenIs ==
  ASSUME NEW toks, NEW am, Len(toks) \in Nat \ {0}
  PROVE  LET k == Taken(toks, am)  l == Told(toks, am) IN
         /\ k \in 1 .. Len(toks) /\ l \in {k - 1, k}
         /\ \A i \in 2 .. k : toks[i] = am[i - 1]
         /\ \A i \in 1 .. l : am[i] # Eos
         /\ EosAt(toks, am) # {} => l = k - 1 /\ am[k] = Eos
         /\ EosAt(toks, am) = {} => l = k
<1>. DEFINE g == Agree(toks, am)  E == EosAt(toks, am)  k == Taken(toks, am)  l == Told(toks, am)  N == Len(toks)
<1>1. g \in 1 .. N /\ \A i \in 2 .. g : toks[i] = am[i - 1]
  BY AgreeIs
<1>2. N \in Nat /\ E \in SUBSET Nat /\ \A i \in Nat : i \in E <=> i \in 1 .. g /\ am[i] = Eos
  BY <1>1 DEF EosAt
<1>3. CASE E # {}
  <2>1. k = Least(E) /\ l = k - 1
    BY <1>3 DEF Taken, Told
  <2>. HIDE DEF g, E, k, l, N
  <2>2. k \in E /\ \A j \in E : k <= j
    BY <1>2, <1>3, <2>1, LeastIs
  <2>3. k \in Nat /\ k \in 1 .. g /\ am[k] = Eos
    BY <1>2, <2>2
  <2>4. \A i \in 1 .. l : i \in Nat /\ i \in 1 .. g /\ ~(k <= i)
    BY <1>1, <1>2, <2>1, <2>3
  <2>5. \A i \in 1 .. l : am[i] # Eos
    BY <1>2, <2>2, <2>4
  <2>6. k \in 1 .. N /\ \A i \in 2 .. k : i \in 2 .. g
    BY <1>1, <1>2, <2>3
  <2>. QED  BY <1>1, <1>3, <2>1, <2>3, <2>5, <2>6 DEF E, k, l, N
<1>4. CASE E = {}
  <2>1. k = g /\ l = k
    BY <1>4 DEF Taken, Told
  <2>2. \A i \in 1 .. l : am[i] # Eos
    BY <1>1, <1>2, <1>4, <2>1
  <2>. HIDE DEF E, k, l, N
  <2>. QED  BY <1>1, <1>4, <2>1, <2>2 DEF E, k, l, N
<1>. QED  BY <1>3, <1>4

\* A draft starts with the token not yet fed, and the request's limit bounds it.
LEMMA DraftIs ==
  ASSUME NEW sl \in SlotRec, sl.req \in Request, Len(sl.gen) <= MaxGen[sl.req], MaxDraft(sl) >= 2,
         History(sl) \in Seq(Tok), NEW toks \in Drafts(sl)
  PROVE  /\ toks \in Seq(Tok) /\ Len(toks) \in Nat \ {0} /\ Len(sl.gen) + Len(toks) <= MaxGen[sl.req]
         /\ toks[1] = Last(History(sl))
<1>. DEFINE h == History(sl)  n(e) == AtMost(MaxDraft(sl) - 1, Len(h) - e)
            M == MaxDraft(sl)  room == MaxGen[sl.req] - Len(sl.gen)  u == AtMost(SpecK, NCtx - sl.pos)
<1>1. /\ sl.gen \in Seq(Tok) /\ sl.pos \in 0 .. NCtx /\ NCtx \in Nat /\ SpecK \in Nat /\ SpecL \in Nat \ {0}
      /\ MaxGen[sl.req] \in Nat /\ Len(sl.gen) \in Nat
  BY RequestTypes, QkEngineAssumption DEF SlotRec
<1>2. room \in Nat /\ NCtx - sl.pos \in Nat /\ Len(sl.gen) + room = MaxGen[sl.req]
  BY <1>1
<1>3. u \in Nat
  <2>. DEFINE v == NCtx - sl.pos
  <2>1. v \in Nat /\ SpecK \in Nat /\ u = AtMost(SpecK, v)
    BY <1>1, <1>2
  <2>. HIDE DEF u, v
  <2>. QED  BY <2>1, AtMostIs
<1>4. M = AtMost(u, room)
  BY DEF MaxDraft
<1>. HIDE DEF room, u, M
<1>5. M \in Nat /\ M <= room
  BY <1>2, <1>3, <1>4, AtMostIs
<1>6. M >= 2
  BY DEF M
<1>7. PICK e \in Latest(h) : toks = <<Last(h)>> \o SubSeq(h, e + 1, e + n(e))
  BY DEF Drafts
<1>. HIDE DEF h
<1>8. e \in SpecL .. Len(h) - 1
  BY <1>7 DEF Latest, GramEnds
<1>9. Len(h) \in Nat /\ e \in Nat /\ e < Len(h) /\ Len(h) - e \in Nat /\ M - 1 \in Nat
  <2>1. h \in Seq(Tok)
    BY DEF h
  <2>2. Len(h) \in Nat
    BY <2>1
  <2>. QED  BY <1>1, <1>5, <1>6, <1>8, <2>2
<1>. DEFINE k == n(e)
<1>10. k \in Nat /\ k <= M - 1 /\ k <= Len(h) - e
  <2>1. k = AtMost(M - 1, Len(h) - e)
    BY DEF M
  <2>. HIDE DEF k
  <2>. QED  BY <1>9, <2>1, AtMostIs
<1>. HIDE DEF n
<1>. DEFINE d == SubSeq(h, e + 1, e + k)  x == Last(h)
<1>11. d \in Seq(Tok) /\ Len(d) = k
  <2>1. h \in Seq(Tok)
    BY DEF h
  <2>. HIDE DEF k
  <2>2. \A i \in e + 1 .. e + k : i \in 1 .. Len(h)
    BY <1>9, <1>10
  <2>3. d \in Seq(Tok)
    BY <1>9, <1>10, <2>1, <2>2
  <2>4. Len(d) = k
    BY <1>9, <1>10, <2>1, <2>2
  <2>. QED  BY <2>3, <2>4
<1>12. x \in Tok
  <2>1. h \in Seq(Tok) /\ Len(h) \in 1 .. Len(h)
    BY <1>9 DEF h
  <2>. QED  BY <2>1, ElementOfSeq DEF Last
<1>13. <<x>> \in Seq(Tok) /\ Len(<<x>>) = 1 /\ <<x>>[1] = x
  BY <1>12
<1>. HIDE DEF d, x, k
<1>14. <<x>> \o d \in Seq(Tok) /\ Len(<<x>> \o d) = 1 + k /\ (<<x>> \o d)[1] = x
  <2>. DEFINE w == <<x>>
  <2>1. 1 \in 1 .. 1
    OBVIOUS
  <2>. HIDE DEF w
  <2>2. w \in Seq(Tok) /\ Len(w) = 1 /\ w[1] = x
    BY <1>13 DEF w
  <2>3. /\ w \o d \in Seq(Tok) /\ Len(w \o d) = Len(w) + Len(d)
        /\ \A i \in 1 .. Len(w) : (w \o d)[i] = w[i]
    BY <1>11, <2>2, TokConcat
  <2>. QED  BY <1>11, <2>1, <2>2, <2>3 DEF w
<1>15. toks = <<x>> \o d
  BY <1>7 DEF x, d, k
<1>16. Len(toks) = 1 + k /\ toks \in Seq(Tok) /\ toks[1] = x
  BY <1>14, <1>15
<1>17. Len(toks) \in Nat \ {0} /\ Len(sl.gen) + Len(toks) <= MaxGen[sl.req]
  <2>. DEFINE lt == Len(toks)  lg == Len(sl.gen)
  <2>1. lt = 1 + k /\ lg \in Nat /\ lg + room = MaxGen[sl.req]
    BY <1>1, <1>2, <1>16
  <2>. HIDE DEF lt, lg
  <2>2. lt \in Nat \ {0} /\ lg + lt <= MaxGen[sl.req]
    BY <1>2, <1>5, <1>10, <2>1
  <2>. QED  BY <2>2 DEF lt, lg
<1>. QED  BY <1>16, <1>17 DEF x, h

\* A verify round: what it accepts is fed, what it emits follows greedily.
LEMMA SpecRoundKeeps ==
  ASSUME EngineInv, NEW s \in Slot, SpecRound(s)
  PROVE  EngineInv' /\ pc' # "idle"
<1>. DEFINE sl == slots[s]  r == sl.req  q == sl.gen  p == Prompt[r]  h == p \o q  m == sl.pos
            a == sent[r]  e == entry[s]
<1>1. /\ pc = "spec" /\ SpecReady(s)
      /\ UNCHANGED <<lm, step, cur, jobs, sent, over, entry>>
  BY DEF SpecRound, ghostVars
<1>2. PICK toks \in Drafts(sl) :
       LET n == Len(toks)
           verify == Fed(mem[s], toks, sl.pos)
           am == [i \in 1 .. n |-> Greedy(verify[i].dn)]
           agree == CHOOSE k \in 1 .. n : /\ \A i \in 2 .. k : toks[i] = am[i - 1]
                                          /\ k = n \/ toks[k + 1] # am[k]
           eosAt == {i \in 1 .. agree : am[i] = Eos}
           eosHit == eosAt # {}
           k == IF eosHit THEN CHOOSE i \in eosAt : \A j \in eosAt : i <= j ELSE agree
           toEmit == SubSeq(am, 1, IF eosHit THEN k - 1 ELSE k)
           new == [sl EXCEPT !.pos = @ + k, !.gen = @ \o toEmit,
                             !.outQ = @ \o Overflow(s, toEmit)]
           ends == eosHit \/ Len(new.gen) >= MaxGen[sl.req] \/ new.pos >= NCtx
           mem1 == Commit([mem[s] EXCEPT !.kv = verify[n].kv], verify[n].dn, toks, k, sl.pos)
           done == [new EXCEPT !.finPending = ends] IN
       /\ scratch' = verify[n].dn
       /\ mem' = [mem EXCEPT ![s] = mem1]
       /\ outTok' = [outTok EXCEPT ![s] = Emitted(s, toEmit)]
       /\ cache' = IF ends THEN SnapshotSlot(cache, new, mem1) ELSE cache
       /\ slots' = [slots EXCEPT ![s] = Finish(done)]
       /\ outFin' = IF Freed(done) THEN outFin \cup {s} ELSE outFin
       /\ pc' = IF ends THEN "serial" ELSE "spec"
  BY Zenon DEF SpecRound
<1>. DEFINE n == Len(toks)
            verify == Fed(mem[s], toks, m)
            am == [i \in 1 .. n |-> Greedy(verify[i].dn)]
            agree == CHOOSE i \in 1 .. n : /\ \A j \in 2 .. i : toks[j] = am[j - 1]
                                           /\ i = n \/ toks[i + 1] # am[i]
            eosAt == {i \in 1 .. agree : am[i] = Eos}
            k == IF eosAt # {} THEN CHOOSE i \in eosAt : \A j \in eosAt : i <= j ELSE agree
            t == SubSeq(am, 1, IF eosAt # {} THEN k - 1 ELSE k)
            z == sl.outQ \o Overflow(s, t)
            new == [sl EXCEPT !.pos = m + k, !.gen = q \o t, !.outQ = z]
            ends == eosAt # {} \/ Len(new.gen) >= MaxGen[r] \/ new.pos >= NCtx
            last == verify[n]
            mem1 == Commit([mem[s] EXCEPT !.kv = last.kv], last.dn, toks, k, m)
            done == [new EXCEPT !.finPending = ends]
            o == Emitted(s, t)
<1>3. /\ mem' = [mem EXCEPT ![s] = mem1]
      /\ outTok' = [outTok EXCEPT ![s] = o]
      /\ cache' = IF ends THEN SnapshotSlot(cache, new, mem1) ELSE cache
      /\ slots' = [slots EXCEPT ![s] = Finish(done)]
      /\ outFin' = IF Freed(done) THEN outFin \cup {s} ELSE outFin
      /\ pc' = IF ends THEN "serial" ELSE "spec"
  BY <1>2, ZenonT(60)
<1>. HIDE DEF new, ends, mem1, done, o
<1>4. am = Samples(mem[s], toks, m)
  BY DEF Samples
<1>. HIDE DEF am
<1>5. agree = Agree(toks, am)
  BY DEF Agree
<1>. HIDE DEF agree
<1>6. eosAt = EosAt(toks, am)
  BY <1>5 DEF EosAt
<1>. HIDE DEF eosAt
<1>7. k = Taken(toks, am)
  BY <1>5, <1>6, SMTT(60) DEF Taken, Least
<1>. HIDE DEF k
<1>. DEFINE l == Told(toks, am)
<1>8. t = SubSeq(am, 1, l)
  BY <1>6, <1>7 DEF Told
<1>. HIDE DEF t, z, last, verify, l
<1>9. /\ TypesToo /\ sl \in SlotRec /\ SlotOK(s) /\ CallOK(s) /\ MemOK(s) /\ sl.outQ \in Seq(Tok)
      /\ outTok \in [Slot -> Seq(Tok)] /\ outTok[s] \in Seq(Tok) /\ Len(outTok[s]) <= Chunk
      /\ mem[s] \in Stripe /\ mem \in [Slot -> Stripe] /\ CacheOK(cache) /\ ModelOK
      /\ sent \in [Request -> Seq(Tok)] /\ cur \in Slot
  BY SlotTypes DEF EngineInv, TypesToo, TypeOK
<1>10. Running(sl) /\ ~Prefilling(sl) /\ MaxDraft(sl) >= 2
  BY <1>1 DEF SpecReady, Alone
<1>11. \A u \in Slot : Waiting(u) = 0 /\ Waiting(u)' = 0
  <2>1. pc' = "serial" \/ pc' = "spec"
    BY <1>3
  <2>. QED  BY <1>1, <2>1 DEF Waiting
<1>12. /\ RunOK(lm, sl, outTok[s], a) /\ sl.active /\ MoveOK(sl, outTok[s], e, s \in outFin, step - 0, a)
       /\ HoldsTo(mem[s], History(sl), FedCount(sl) + 0)
  BY <1>1, <1>9, <1>10, <1>11 DEF SlotOK, Live, CallOK, MemOK, Running
<1>. HIDE DEF sl
<1>13. /\ r \in Request /\ sl.cursor <= Len(p) /\ GreedyRun(r, q) /\ a \o (outTok[s] \o sl.outQ) = q
       /\ Len(q) >= 1 /\ Len(q) < MaxGen[r] /\ m + 1 = Len(p) + Len(q)
       /\ e.req # None /\ r = e.req /\ e.gen = Len(a) /\ (sl.outQ # <<>> => Len(outTok[s]) = Chunk)
  BY <1>10, <1>12 DEF RunOK, MoveOK, GreedyRun
<1>14. /\ p \in Seq(Tok) /\ Len(p) \in Nat \ {0} /\ MaxGen[r] \in Nat /\ Len(p) + MaxGen[r] <= NCtx
       /\ NCtx \in Nat /\ q \in Seq(Tok) /\ Len(q) \in Nat /\ m \in Nat /\ sl.cursor \in Nat
       /\ a \in Seq(Tok)
  <2>1. /\ p \in Seq(Tok) /\ Len(p) \in Nat \ {0} /\ MaxGen[r] \in Nat /\ Len(p) + MaxGen[r] <= NCtx
        /\ NCtx \in Nat
    BY <1>13, RequestTypes
  <2>2. q \in Seq(Tok) /\ Len(q) \in Nat
    BY <1>13, SMTT(60) DEF GreedyRun, RunOf
  <2>3. m \in Nat /\ sl.cursor \in Nat
    <3>1. sl.pos \in 0 .. NCtx /\ sl.cursor \in 0 .. NCtx
      BY <1>9 DEF SlotRec
    <3>. QED  BY <3>1, <2>1, SMTT(60)
  <2>4. a \in Seq(Tok)
    BY <1>9, <1>13
  <2>. QED  BY <2>1, <2>2, <2>3, <2>4
<1>15. History(sl) = h /\ h \in Seq(Tok) /\ Len(h) = Len(p) + Len(q) /\ PromptOf(sl) = p
  BY <1>13, <1>14, Decoded DEF History, PromptOf
<1>16. HoldsTo(mem[s], h, m) /\ sl.cursor = Len(p)
  <2>1. FedCount(sl) = m /\ m + 0 = m
    BY <1>10, <1>14 DEF FedCount
  <2>2. ~(sl.cursor < Len(p))
    BY <1>10, <1>15 DEF Prefilling
  <2>. HIDE DEF p, m
  <2>. QED  BY <1>12, <1>13, <1>14, <1>15, <2>1, <2>2, SMTT(60)
<1>17. /\ toks \in Seq(Tok) /\ n \in Nat \ {0} /\ Len(q) + n <= MaxGen[r] /\ toks[1] = h[m + 1]
  <2>1. Len(sl.gen) <= MaxGen[sl.req]
    BY <1>13, <1>14, SMTT(60)
  <2>2. /\ toks \in Seq(Tok) /\ Len(toks) \in Nat \ {0} /\ Len(sl.gen) + Len(toks) <= MaxGen[sl.req]
        /\ toks[1] = Last(History(sl))
    BY <1>2, <1>9, <1>10, <1>13, <1>15, <2>1, DraftIs
  <2>3. Last(h) = h[m + 1]
    BY <1>13, <1>15 DEF Last
  <2>. QED  BY <1>15, <2>2, <2>3
<1>18. /\ k \in 1 .. n /\ l \in {k - 1, k}
       /\ \A i \in 2 .. k : toks[i] = am[i - 1]
       /\ \A i \in 1 .. l : am[i] # Eos
       /\ eosAt # {} => l = k - 1 /\ am[k] = Eos
       /\ eosAt = {} => l = k
  BY <1>6, <1>7, <1>17, TakenIs, SMTT(60) DEF l
<1>. HIDE DEF a, e, h, m, p, q, r, n
<1>19. /\ t \in Seq(Tok) /\ Len(t) = l /\ GreedyRun(r, q \o t)
       /\ mem1 \in Stripe /\ HoldsTo(mem1, p \o (q \o t), m + k)
       /\ l = k - 1 /\ am[k] = Eos => Complete(r, q \o t)
  <2>1. mem1 = Rolled(mem[s], last, toks, k, m)
    BY DEF mem1, Rolled
  <2>2. last = Fed(mem[s], toks, m)[Len(toks)]
    BY DEF last, verify, n
  <2>3. m \in Nat \ {0} /\ m + 1 = Len(Prompt[r]) + Len(q)
    <3>. DEFINE i == Len(p)  j == Len(q)
    <3>1. i \in Nat \ {0} /\ j \in Nat /\ j >= 1 /\ m \in Nat /\ m + 1 = i + j
      BY <1>13, <1>14
    <3>. HIDE DEF i, j
    <3>2. m \in Nat \ {0}
      BY <3>1
    <3>. QED  BY <1>13, <3>2 DEF p
  <2>4. HoldsTo(mem[s], Prompt[r] \o q, m) /\ toks[1] = (Prompt[r] \o q)[m + 1]
    BY <1>16, <1>17 DEF h, p
  <2>5. toks \in Seq(Tok) /\ Len(toks) # 0 /\ Len(q) + Len(toks) <= MaxGen[r] /\ k \in 1 .. Len(toks)
    BY <1>17, <1>18 DEF n
  <2>6. /\ ModelOK /\ r \in Request /\ GreedyRun(r, q) /\ mem[s] \in Stripe
        /\ am = Samples(mem[s], toks, m) /\ l \in {k - 1, k}
        /\ \A i \in 2 .. k : toks[i] = am[i - 1]
        /\ \A i \in 1 .. l : am[i] # Eos
    BY <1>4, <1>9, <1>13, <1>18
  <2>7. LET f == SubSeq(am, 1, l)
            y == q \o f
            d == Fed(mem[s], toks, m)[Len(toks)]
            c == Rolled(mem[s], d, toks, k, m) IN
        /\ f \in Seq(Tok) /\ Len(f) = l /\ GreedyRun(r, y)
        /\ c \in Stripe /\ HoldsTo(c, Prompt[r] \o y, m + k)
        /\ l = k - 1 /\ am[k] = Eos => Complete(r, y)
    <3>1. Round(r, q, m, mem[s], toks, am, k, l)
      BY <2>3, <2>4, <2>5, <2>6 DEF Round
    <3>. QED  BY <2>6, <3>1, RoundKeeps
  <2>. QED  BY <1>8, <2>1, <2>2, <2>7 DEF p
<1>. DEFINE x == m + k  g == q \o t  w == outTok[s]
<1>20. /\ g \in Seq(Tok) /\ Len(g) = Len(q) + l /\ x \in 0 .. Len(p) + Len(g) /\ x < NCtx
       /\ x \in 0 .. NCtx /\ Len(g) \in Nat /\ Len(g) >= 1 /\ Len(g) <= MaxGen[r]
       /\ (l = k => l >= 1 /\ x + 1 = Len(p) + Len(g))
  <2>1. g \in Seq(Tok) /\ Len(g) = Len(q) + l
    BY <1>14, <1>19, TokConcat
  <2>. DEFINE i == Len(p)  j == Len(q)  b == Len(g)  u == MaxGen[r]
  <2>2. /\ i \in Nat \ {0} /\ j \in Nat /\ j >= 1 /\ m \in Nat /\ m + 1 = i + j /\ b = j + l
        /\ n \in Nat /\ j + n <= u /\ u \in Nat /\ i + u <= NCtx /\ NCtx \in Nat
        /\ k \in 1 .. n /\ l \in {k - 1, k}
    BY <1>13, <1>14, <1>17, <1>18, <2>1
  <2>. HIDE DEF i, j, b, u, g
  <2>3. /\ x \in 0 .. i + b /\ x < NCtx /\ x \in 0 .. NCtx
        /\ b \in Nat /\ b >= 1 /\ b <= u /\ (l = k => l >= 1 /\ x + 1 = i + b)
    BY <2>2, SMTT(60)
  <2>. QED  BY <2>1, <2>3 DEF i, j, b, u
<1>. HIDE DEF x
<1>21. /\ o \in Seq(Tok) /\ Len(o) <= Chunk /\ z \in Seq(Tok) /\ (z # <<>> => Len(o) = Chunk)
       /\ (t # <<>> => o # <<>>) /\ a \o (o \o z) = g
  <2>. DEFINE v == sl.outQ  oz == Emitted(s, t)  zz == v \o Overflow(s, t)
  <2>1. v \in Seq(Tok) /\ a \in Seq(Tok) /\ w \in Seq(Tok) /\ t \in Seq(Tok)
        /\ Len(w) <= Chunk /\ (v # <<>> => Len(w) = Chunk) /\ a \o (w \o v) = q
    BY <1>9, <1>13, <1>14, <1>19
  <2>. HIDE DEF v
  <2>2. /\ oz \in Seq(Tok) /\ Len(oz) <= Chunk /\ zz \in Seq(Tok)
        /\ zz # <<>> => Len(oz) = Chunk
        /\ t # <<>> \/ w # <<>> => oz # <<>>
        /\ oz \o zz = (w \o v) \o t
    BY <2>1, EmitKeeps, ZenonT(60)
  <2>3. w \o v \in Seq(Tok)
    BY <2>1, TokConcat
  <2>. DEFINE wv == w \o v
  <2>4. oz = o /\ zz = z
    BY DEF o, z, v
  <2>. HIDE DEF oz, zz, wv, w
  <2>5. a \o (wv \o t) = (a \o wv) \o t
    <3>1. wv \in Seq(Tok)
      BY <2>3 DEF wv
    <3>. QED  BY <2>1, <3>1, TokAssoc, ZenonT(60)
  <2>. QED  BY <2>1, <2>2, <2>4, <2>5 DEF wv
<1>. HIDE DEF g, w
<1>22. /\ new \in SlotRec /\ new.active = sl.active /\ new.req = r /\ new.cursor = sl.cursor
       /\ new.gen = g /\ new.pos = x /\ new.outQ = z
  <2>. DEFINE d == [sl EXCEPT !.pos = x, !.gen = g, !.outQ = z]
  <2>1. sl \in SlotRec /\ x \in 0 .. NCtx /\ g \in Seq(Tok) /\ z \in Seq(Tok)
    BY <1>9, <1>20, <1>21
  <2>2. d \in SlotRec
    BY <2>1 DEF SlotRec
  <2>3. /\ d.active = sl.active /\ d.req = sl.req /\ d.cursor = sl.cursor
        /\ d.gen = g /\ d.pos = x /\ d.outQ = z
    BY <2>1 DEF SlotRec
  <2>4. new = d
    BY DEF new, x, g
  <2>. QED  BY <2>2, <2>3, <2>4 DEF r
<1>23. /\ ends <=> eosAt # {} \/ Len(g) >= MaxGen[r]
       /\ ends \in BOOLEAN
  <2>1. ~(x >= NCtx)
    BY <1>14, <1>20, SMTT(60)
  <2>2. ends = (eosAt # {} \/ Len(g) >= MaxGen[r] \/ x >= NCtx)
    BY <1>22 DEF ends
  <2>3. ends \in BOOLEAN
    BY DEF ends
  <2>. QED  BY <2>1, <2>2, <2>3
<1>24. PICK b \in BOOLEAN : b = ends
  BY <1>23
<1>25. GoodEnd(new, r, o, a, b)
  <2>1. b => Complete(r, g)
    <3>1. CASE eosAt # {}
      BY <1>18, <1>19, <3>1 DEF g
    <3>2. CASE Len(g) >= MaxGen[r]
      <4>1. Len(g) = MaxGen[r]
        BY <1>14, <1>20, <3>2, SMTT(60)
      <4>. QED  BY <4>1 DEF Complete, EndsRun
    <3>. QED  BY <1>23, <1>24, <3>1, <3>2
  <2>2. ~b => /\ o # <<>> /\ Len(g) < MaxGen[r] /\ x + 1 = Len(p) + Len(g)
    <3>. SUFFICES ASSUME ~b PROVE o # <<>> /\ Len(g) < MaxGen[r] /\ x + 1 = Len(p) + Len(g)
      OBVIOUS
    <3>1. eosAt = {} /\ ~(Len(g) >= MaxGen[r])
      BY <1>23, <1>24
    <3>2. l >= 1 /\ x + 1 = Len(p) + Len(g)
      BY <1>18, <1>20, <3>1
    <3>3. t # <<>>
      <4>1. Len(<<>>) = 0
        OBVIOUS
      <4>. QED  BY <1>19, <3>2, <4>1
    <3>4. Len(g) < MaxGen[r]
      BY <1>14, <1>20, <3>1, SMTT(60)
    <3>. QED  BY <1>21, <3>2, <3>3, <3>4
  <2>3. GreedyRun(r, g)
    BY <1>19 DEF g
  <2>4. /\ new \in SlotRec /\ new.active /\ r \in Request /\ new.req = r /\ new.cursor = Len(Prompt[r])
    BY <1>12, <1>13, <1>16, <1>22 DEF p
  <2>. QED  BY <1>20, <1>21, <1>22, <2>1, <2>2, <2>3, <2>4 DEF GoodEnd, p
<1>26. /\ done \in SlotRec /\ done.req = r /\ Handled(lm, done, o, a) /\ Moved(done, o, e, step - 0, a)
       /\ History(done) = p \o g /\ FedCount(done) = x /\ History(new) = p \o g
  <2>. DEFINE j == step - 0
  <2>. HIDE DEF j
  <2>1. done = Ended(new, b)
    BY <1>24 DEF done, Ended
  <2>2. LET d == Ended(new, b) IN
        /\ d \in SlotRec /\ d.req = r /\ Handled(lm, d, o, a)
        /\ \A f, i : f.req # None /\ r = f.req /\ f.gen = Len(a) => Moved(d, o, f, i, a)
        /\ History(d) = History(new) /\ FedCount(d) = new.pos /\ History(new) = Prompt[r] \o new.gen
    BY <1>25, EndIs, ZenonT(60)
  <2>. QED  BY <1>13, <1>22, <2>1, <2>2 DEF p, j
<1>27. HoldsTo(mem1, p \o g, x) /\ mem1 \in Stripe
  BY <1>19 DEF g, x
<1>28. CacheOK(cache')
  <2>1. /\ new.req \in Request /\ Prompt[new.req] = p /\ new.gen \in Seq(Tok)
        /\ new.pos \in 0 .. Len(p) + Len(new.gen)
    BY <1>13, <1>20, <1>22 DEF p
  <2>2. HoldsTo(mem1, History(new), new.pos)
    BY <1>22, <1>26, <1>27
  <2>3. CacheOK(SnapshotSlot(cache, new, mem1))
    BY <1>9, <1>27, <2>1, <2>2, SnapshotOK
  <2>. QED  BY <1>3, <1>9, <2>3
<1>29. /\ mem' \in [Slot -> Stripe] /\ mem'[s] = mem1
       /\ \A u \in Slot : u # s => mem'[u] = mem[u] /\ Waiting(u)' = Waiting(u)
  BY <1>3, <1>9, <1>11, <1>27
<1>30. HoldsTo(mem'[s], History(done), FedCount(done) + Waiting(s)')
  <2>1. x + 0 = x
    BY <1>20
  <2>. QED  BY <1>11, <1>26, <1>27, <1>29, <2>1
<1>31. /\ Handled(lm, done, o, sent[done.req]) /\ Moved(done, o, entry[s], step - Waiting(s)', sent[done.req])
  BY <1>11, <1>26 DEF a, e
<1>32. /\ pc # "idle" /\ pc' \in {"spec", "serial", "sampled"} /\ pc' # "idle" /\ pc' # "sampled" /\ cur' \in Slot
       /\ done.req = slots[s].req /\ slots[s].active
  BY <1>1, <1>3, <1>9, <1>12, <1>26 DEF r, sl
<1>33. EngineInv'
  BY <1>1, <1>3, <1>21, <1>26, <1>28, <1>29, <1>30, <1>31, <1>32, OneSlotKeeps
<1>. QED  BY <1>32, <1>33

\* No step at all.
LEMMA StutterKeeps ==
  ASSUME EngineInv, UNCHANGED vars
  PROVE  EngineInv'
<1>1. UNCHANGED <<lm, mem, scratch, slots, cache, pc, outTok, outFin, step, cur, jobs, sent, over, entry>>
  BY DEF vars
<1>2. TypeOK /\ TypesToo /\ RequestsOK
  BY DEF EngineInv
<1>3. TypeOK'
  BY <1>1, <1>2 DEF TypeOK
<1>4. TypesToo'
  BY <1>1, <1>2 DEF TypesToo, ModelOK
<1>5. \A t \in Slot : (Live(t)' <=> Live(t)) /\ slots'[t].req = slots[t].req /\ Waiting(t)' = Waiting(t)
  BY <1>1 DEF Live, Waiting
<1>6. RequestsOK'
  BY <1>1, <1>2, <1>5, RequestsFrame
<1>7. ASSUME NEW t \in Slot PROVE SlotOK(t)' /\ CallOK(t)' /\ MemOK(t)'
  <2>1. SlotOK(t) /\ CallOK(t) /\ MemOK(t)
    BY SlotTypes
  <2>2. SlotOK(t)'
    BY <1>1, <1>5, <2>1, SlotFrame
  <2>3. CallOK(t)'
    BY <1>1, <1>5, <2>1 DEF CallOK
  <2>4. MemOK(t)'
    BY <1>1, <1>5, <2>1 DEF MemOK
  <2>. QED  BY <2>2, <2>3, <2>4
<1>. QED  BY <1>3, <1>4, <1>6, <1>7 DEF EngineInv

-------------------------------------------------------------------------------
(* The theorems.                                                               *)

(* Every step of the engine keeps the invariant: the slots' bookkeeping, the   *)
(* stripes they own on the GPU and the tokens the caller has got agree.        *)
THEOREM EngineInvHolds == Spec => []EngineInv
<1>1. Init => EngineInv
  BY InitInv
<1>2. EngineInv /\ [Next]_vars => EngineInv'
  <2>. SUFFICES ASSUME EngineInv, [Next]_vars PROVE EngineInv'
    OBVIOUS
  <2>1. ASSUME NEW s \in Slot, NEW r \in Request, Start(s, r) PROVE EngineInv'
    BY <2>1, StartKeeps
  <2>2. ASSUME NEW s \in Slot, Cancel(s) PROVE EngineInv'
    BY <2>2, CancelKeeps
  <2>3. CASE Call
    BY <2>3, CallKeeps
  <2>4. ASSUME NEW s \in Slot, SpecRound(s) PROVE EngineInv'
    BY <2>4, SpecRoundKeeps
  <2>5. CASE SpecOver
    BY <2>5, SpecOverKeeps
  <2>6. CASE Submit
    BY <2>6, SubmitKeeps
  <2>7. CASE TakeSample
    BY <2>7, TakeSampleKeeps
  <2>8. CASE Return
    BY <2>8, ReturnKeeps
  <2>9. CASE UNCHANGED vars
    BY <2>9, StutterKeeps
  <2>. QED  BY <2>1, <2>2, <2>3, <2>4, <2>5, <2>6, <2>7, <2>8, <2>9 DEF Next
<1>. QED  BY <1>1, <1>2, PTL DEF Spec

\* Every field of a slot and of the call's buffers stays within its type: a
\* position never passes n_ctx, a call never holds more than chunk tokens a slot.
THEOREM EngineTypesHold == Spec => []TypeOK
<1>1. EngineInv => TypeOK
  BY DEF EngineInv
<1>. QED  BY <1>1, EngineInvHolds, PTL

\* snapshotSlot and restoreInto: the tokens a cache entry is keyed by are exactly
\* those its snapshot has been fed, whichever step took it.
THEOREM SnapshotsStayExact == Spec => []SnapshotsExact
<1>1. EngineInv => SnapshotsExact
  BY DEF EngineInv, TypesToo, CacheOK, SnapshotsExact
<1>. QED  BY <1>1, EngineInvHolds, PTL

\* A running slot's stripes hold exactly the tokens its cursor and its position
\* account for, between any two submits: no neighbour, rejected draft, commit pass
\* or earlier occupant shows through.
THEOREM LiveStateStaysExact == Spec => []LiveStateExact
<1>1. EngineInv => LiveStateExact
  <2>. SUFFICES ASSUME EngineInv, pc # "sampled", NEW s \in Slot, Running(slots[s])
                PROVE  LET sl == slots[s] IN Holds(mem[s], SubSeq(History(sl), 1, FedCount(sl)))
    BY DEF LiveStateExact, FedCount
  <2>. DEFINE sl == slots[s]  r == sl.req  h == History(sl)  n == FedCount(sl)
  <2>1. MemOK(s) /\ SlotOK(s) /\ sl \in SlotRec /\ Live(s)
    BY SlotTypes DEF Live, Running
  <2>2. HoldsTo(mem[s], h, n + Waiting(s)) /\ Waiting(s) = 0
    BY <2>1 DEF MemOK, Waiting
  <2>3. /\ r \in Request /\ sl.cursor <= Len(Prompt[r]) /\ GreedyRun(r, sl.gen)
        /\ Prefilling(sl) => sl.gen = <<>>
        /\ ~Prefilling(sl) => sl.pos + 1 = Len(Prompt[r]) + Len(sl.gen)
    BY <2>1 DEF SlotOK, RunOK, GreedyRun
  <2>4. h \in Seq(Tok) /\ Len(h) = Len(Prompt[r]) + Len(sl.gen) /\ Len(Prompt[r]) \in Nat /\ Len(sl.gen) \in Nat
    BY <2>3, Decoded, RequestTypes DEF GreedyRun, RunOf, History, PromptOf
  <2>5. sl.cursor \in Nat /\ sl.pos \in Nat
    <3>1. sl.cursor \in 0 .. NCtx /\ sl.pos \in 0 .. NCtx
      BY <2>1 DEF SlotRec
    <3>. QED  BY <3>1
  <2>. HIDE DEF sl, h, r
  <2>6. n \in 0 .. Len(h) /\ n + 0 = n
    <3>. DEFINE i == Len(Prompt[r])  j == Len(sl.gen)  k == Len(h)
    <3>1. n = IF Prefilling(sl) THEN sl.cursor ELSE sl.pos
      BY DEF FedCount
    <3>2. /\ sl.cursor \in Nat /\ sl.pos \in Nat /\ i \in Nat /\ j \in Nat /\ k = i + j
          /\ sl.cursor <= i /\ (~Prefilling(sl) => sl.pos + 1 = i + j)
      BY <2>3, <2>4, <2>5
    <3>. HIDE DEF n, i, j, k
    <3>3. CASE Prefilling(sl)
      <4>1. n = sl.cursor
        BY <3>1, <3>3
      <4>2. n \in 0 .. k /\ n + 0 = n
        BY <3>2, <4>1
      <4>. QED  BY <4>2 DEF k
    <3>4. CASE ~Prefilling(sl)
      <4>1. n = sl.pos /\ sl.pos + 1 = i + j
        BY <3>1, <3>2, <3>4
      <4>2. n \in 0 .. k /\ n + 0 = n
        BY <3>2, <4>1
      <4>. QED  BY <4>2 DEF k
    <3>. QED  BY <3>3, <3>4
  <2>. HIDE DEF n
  <2>7. HoldsTo(mem[s], h, n)
    BY <2>2, <2>6
  <2>8. Holds(mem[s], SubSeq(h, 1, n))
    BY <2>4, <2>6, <2>7, HoldsIs
  <2>. QED  BY <2>8 DEF sl, h, n
<1>. QED  BY <1>1, EngineInvHolds, PTL

(* Whatever path made them and however they queued across the calls, the      *)
(* tokens a request gets are greedy decoding of its prompt, in order, and a    *)
(* request reported finished has got all of them.                              *)
THEOREM OutputStaysGreedy == Spec => []OutputIsGreedy
<1>1. EngineInv => OutputIsGreedy
  <2>. SUFFICES ASSUME EngineInv PROVE OutputIsGreedy
    OBVIOUS
  <2>1. ModelOK /\ RequestsOK /\ over \subseteq Request
    BY DEF EngineInv, TypesToo, TypeOK
  <2>2. ASSUME NEW s \in Slot, slots[s].active, pc = "idle"
        PROVE  IsPrefix(sent[slots[s].req] \o slots[s].outQ, Reference(slots[s].req))
    <3>. DEFINE sl == slots[s]  r == sl.req  a == sent[r]
    <3>1. RunOK(lm, sl, <<>>, a) /\ sl \in SlotRec /\ sent \in [Request -> Seq(Tok)]
      BY <2>2, SlotTypes DEF SlotOK, CallOK, Live, EngineInv, TypesToo
    <3>2. /\ r \in Request /\ GreedyRun(r, sl.gen) /\ a \o (<<>> \o sl.outQ) = sl.gen
      BY <3>1 DEF RunOK, GreedyRun
    <3>3. sl.outQ \in Seq(Tok)
      BY <3>1 DEF SlotRec
    <3>4. <<>> \o sl.outQ = sl.outQ
      BY <3>3, ConcatEmptySeq
    <3>5. IsPrefix(sl.gen, Reference(r))
      BY <2>1, <3>2, RunsAreGreedy
    <3>. QED  BY <3>2, <3>4, <3>5
  <2>3. \A r \in Request : GreedyRun(r, sent[r]) /\ (r \in over => Complete(r, sent[r]))
    BY <2>1 DEF RequestsOK, GreedyRun, Complete
  <2>4. \A r \in Request : IsPrefix(sent[r], Reference(r))
    BY <2>1, <2>3, RunsAreGreedy
  <2>5. \A r \in over : sent[r] = Reference(r)
    BY <2>1, <2>3, RunsAreGreedy
  <2>. QED  BY <2>2, <2>4, <2>5 DEF OutputIsGreedy
<1>. QED  BY <1>1, EngineInvHolds, PTL

-------------------------------------------------------------------------------
(* The engine implements the slot ABI.                                         *)

\* What a caller sees of a slot: as it is between two calls, as it was when the
\* call in progress began.
ABIView == [s \in Slot |-> IF pc = "idle" THEN Shown(slots[s]) ELSE entry[s]]
NoEntry == [req |-> None, pre |-> 0, gen |-> 0]

\* A slot shown free is shown without work.
EntriesShown == \A s \in Slot : entry[s].req = None => entry[s] = NoEntry

\* The abstract engine has the same slots.
LEMMA SameSlots == ABI!Slot = Slot
BY DEF ABI!Slot, Slot

\* A slot that is not active is shown free.
LEMMA ShownFree ==
  ASSUME NEW sl, ~sl.active
  PROVE  Shown(sl) = NoEntry
BY DEF Shown, NoEntry

\* It is kept: only the start of a call changes what is shown.
LEMMA EntriesStay ==
  ASSUME EngineInv, EntriesShown, [Next]_vars
  PROVE  EntriesShown'
<1>1. CASE UNCHANGED entry
  BY <1>1 DEF EntriesShown
<1>2. CASE Call
  <2>1. entry' = [s \in Slot |-> Shown(slots[s])]
    BY <1>2 DEF Call
  <2>2. ASSUME NEW s \in Slot, Shown(slots[s]).req = None PROVE Shown(slots[s]) = NoEntry
    <3>1. CASE slots[s].active
      <4>1. slots[s].req \in Request
        BY <3>1, SlotTypes DEF SlotOK, Live, RunOK
      <4>2. Shown(slots[s]).req = slots[s].req
        BY <3>1 DEF Shown
      <4>. QED  BY <2>2, <4>1, <4>2, RequestsAssumption
    <3>2. CASE ~slots[s].active
      BY <3>2, ShownFree
    <3>. QED  BY <3>1, <3>2
  <2>. QED  BY <2>1, <2>2 DEF EntriesShown
<1>3. UNCHANGED entry \/ Call
  <2>1. ASSUME NEW s \in Slot, NEW r \in Request, Start(s, r) PROVE UNCHANGED entry
    BY <2>1 DEF Start
  <2>2. ASSUME NEW s \in Slot, Cancel(s) PROVE UNCHANGED entry
    BY <2>2 DEF Cancel, ghostVars
  <2>3. ASSUME NEW s \in Slot, SpecRound(s) PROVE UNCHANGED entry
    BY <2>3 DEF SpecRound, ghostVars
  <2>4. SpecOver => UNCHANGED entry
    BY DEF SpecOver, ghostVars
  <2>5. Submit => UNCHANGED entry
    BY DEF Submit, ghostVars
  <2>6. TakeSample => UNCHANGED entry
    BY DEF TakeSample, ghostVars
  <2>7. Return => UNCHANGED entry
    BY DEF Return
  <2>8. UNCHANGED vars => UNCHANGED entry
    BY DEF vars
  <2>. QED  BY <2>1, <2>2, <2>3, <2>4, <2>5, <2>6, <2>7, <2>8 DEF Next
<1>. QED  BY <1>1, <1>2, <1>3

\* A start appears as a start.
LEMMA StartMaps ==
  ASSUME EngineInv, NEW s \in Slot, NEW r \in Request, Start(s, r)
  PROVE  ABI!EngStart(s, r)
<1>1. /\ pc = "idle" /\ pc' = "idle" /\ ~slots[s].active
      /\ slots'[s].active /\ slots'[s].req = r /\ slots'[s].gen = <<>> /\ slots'[s].outQ = <<>>
      /\ slots'[s].cursor \in 0 .. Len(Prompt[r]) - 1
      /\ \A t \in Slot : t # s => slots'[t] = slots[t]
  BY StartKeeps
<1>2. Len(Prompt[r]) \in Nat \ {0} /\ Len(Prompt[r]) <= NCtx /\ NCtx \in Nat
  <2>. DEFINE n == Len(Prompt[r])
  <2>1. n \in Nat \ {0} /\ n + MaxGen[r] <= NCtx /\ MaxGen[r] \in Nat /\ NCtx \in Nat
    BY RequestTypes
  <2>. HIDE DEF n
  <2>2. n \in Nat \ {0} /\ n <= NCtx /\ NCtx \in Nat
    BY <2>1
  <2>. QED  BY <2>2 DEF n
<1>. DEFINE c == slots'[s].cursor  p == Len(Prompt[r]) - c
<1>3. p \in 1 .. NCtx
  <2>. DEFINE n == Len(Prompt[r])
  <2>1. n \in Nat \ {0} /\ n <= NCtx /\ NCtx \in Nat /\ c \in 0 .. n - 1
    BY <1>1, <1>2
  <2>. HIDE DEF n, c
  <2>2. n - c \in 1 .. NCtx
    BY <2>1
  <2>. QED  BY <2>2 DEF n
<1>4. Shown(slots'[s]) = [req |-> r, pre |-> p, gen |-> 0]
  <2>1. Len(<<>>) - Len(<<>>) = 0
    OBVIOUS
  <2>. QED  BY <1>1, <2>1 DEF Shown, PromptOf
<1>. HIDE DEF p
<1>5. ABIView' = [ABIView EXCEPT ![s] = [req |-> r, pre |-> p, gen |-> 0]]
  BY <1>1, <1>4 DEF ABIView
<1>6. ABIView[s].req = None
  BY <1>1, ShownFree DEF ABIView, NoEntry
<1>. QED  BY <1>3, <1>5, <1>6 DEF ABI!EngStart, ABI!EngActive, ABIView

\* A cancellation appears as a cancellation.
LEMMA CancelMaps ==
  ASSUME EngineInv, NEW s \in Slot, Cancel(s)
  PROVE  ABI!EngCancel(s)
<1>1. /\ pc = "idle" /\ pc' = "idle" /\ slots \in [Slot -> SlotRec]
      /\ slots' = [slots EXCEPT ![s] = [@ EXCEPT !.active = FALSE, !.outQ = <<>>, !.finPending = FALSE]]
  BY DEF Cancel, EngineInv, TypeOK
<1>2. ~slots'[s].active /\ \A t \in Slot : t # s => slots'[t] = slots[t]
  BY <1>1 DEF SlotRec
<1>3. ABIView' = [ABIView EXCEPT ![s] = NoEntry]
  BY <1>1, <1>2, ShownFree DEF ABIView
<1>. QED  BY <1>3 DEF ABI!EngCancel, ABI!EngFree, ABIView, NoEntry

\* The steps inside a call do not appear.
LEMMA InsideCall ==
  ASSUME EngineInv, NEW s \in Slot,
         Call \/ SpecRound(s) \/ SpecOver \/ Submit \/ TakeSample \/ UNCHANGED vars
  PROVE  ABIView' = ABIView
<1>1. CASE Call
  <2>1. /\ pc = "idle" /\ pc' = IF SpecOn THEN "spec" ELSE "serial"
        /\ entry' = [t \in Slot |-> Shown(slots[t])]
    BY <1>1 DEF Call
  <2>2. pc' # "idle"
    BY <2>1
  <2>. QED  BY <2>1, <2>2 DEF ABIView
<1>2. CASE SpecRound(s) \/ SpecOver \/ Submit \/ TakeSample
  <2>1. pc # "idle" /\ pc' # "idle" /\ entry' = entry
    <3>1. CASE SpecRound(s)
      <4>1. pc = "spec" /\ UNCHANGED entry
        BY <3>1, ZenonT(60) DEF SpecRound, ghostVars
      <4>2. pc' # "idle"
        BY <3>1, SpecRoundKeeps
      <4>. QED  BY <4>1, <4>2
    <3>2. CASE SpecOver
      BY <3>2 DEF SpecOver, ghostVars
    <3>3. CASE Submit
      BY <3>3 DEF Submit, ghostVars
    <3>4. CASE TakeSample
      <4>1. pc = "sampled" /\ UNCHANGED entry
        BY <3>4 DEF TakeSample, ghostVars
      <4>2. pc' = "serial" \/ pc' = pc
        BY <3>4 DEF TakeSample
      <4>. QED  BY <4>1, <4>2
    <3>. QED  BY <1>2, <3>1, <3>2, <3>3, <3>4
  <2>. QED  BY <2>1 DEF ABIView
<1>3. CASE UNCHANGED vars
  <2>1. UNCHANGED <<pc, slots, entry>>
    BY <1>3 DEF vars
  <2>. QED  BY <2>1 DEF ABIView
<1>. QED  BY <1>1, <1>2, <1>3

\* What a call that returns has done to an active slot: an outcome of the ABI.
LEMMA OutcomeIs ==
  ASSUME EngineInv, Return, NEW s \in Slot, entry[s].req # None
  PROVE  LET sl == slots[s]  e == entry[s]  k == Len(outTok[s]) IN
         /\ e.req \in Request /\ MaxGen[e.req] \in Nat /\ k \in 0 .. Chunk /\ Chunk \in Nat
         /\ \/ ~sl.active /\ e.gen + k <= MaxGen[e.req]
            \/ /\ sl.active /\ Shown(sl).req = e.req /\ Shown(sl).gen = e.gen + k
               /\ Shown(sl).pre \in 0 .. e.pre
               /\ \/ Shown(sl).pre > 0 /\ Shown(sl).pre < e.pre /\ k = 0
                  \/ Shown(sl).pre = 0 /\ k > 0 /\ e.gen + k < MaxGen[e.req]
<1>. DEFINE sl == slots[s]  e == entry[s]  o == outTok[s]  k == Len(o)  r == sl.req  a == sent[r]
            z == sl.outQ  q == sl.gen  p == Len(Prompt[r]) - sl.cursor
<1>1. pc = "serial" /\ ~MoreSteps
  BY DEF Return
<1>2. /\ sl \in SlotRec /\ o \in Seq(Tok) /\ k <= Chunk /\ e.pre \in Nat /\ e.gen \in Nat
      /\ RunOK(lm, sl, o, a) /\ MoveOK(sl, o, e, s \in outFin, step - 0, a) /\ step \in 0 .. Chunk
  <2>1. Waiting(s) = 0
    BY <1>1 DEF Waiting
  <2>2. SlotOK(s) /\ CallOK(s) /\ Live(s)
    BY <1>1, SlotTypes DEF Live
  <2>3. step \in 0 .. Chunk
    BY DEF EngineInv, TypeOK
  <2>. QED  BY <1>1, <2>1, <2>2, <2>3, SlotTypes DEF SlotOK, CallOK
<1>3. /\ r \in Request /\ sl.cursor <= Len(Prompt[r]) /\ GreedyRun(r, q) /\ a \o (o \o z) = q
      /\ e.req = r /\ e.gen = Len(a) /\ r # None
  BY <1>2, RequestsAssumption DEF RunOK, MoveOK, GreedyRun
<1>4. /\ sl.cursor \in Nat /\ Len(Prompt[r]) \in Nat /\ z \in Seq(Tok) /\ a \in Seq(Tok) /\ q \in Seq(Tok)
      /\ MaxGen[r] \in Nat /\ Len(q) <= MaxGen[r] /\ Chunk \in Nat \ {0}
  <2>1. sl.cursor \in 0 .. NCtx /\ z \in Seq(Tok)
    BY <1>2 DEF SlotRec
  <2>2. sent \in [Request -> Seq(Tok)]
    BY DEF EngineInv, TypesToo
  <2>3. Len(Prompt[r]) \in Nat /\ MaxGen[r] \in Nat
    BY <1>3, RequestTypes
  <2>4. q \in Seq(Tok) /\ Len(q) <= MaxGen[r]
    BY <1>3 DEF GreedyRun, RunOf
  <2>. QED  BY <1>3, <2>1, <2>2, <2>3, <2>4, QkEngineAssumption, SMTT(60)
<1>5. Prefilling(sl) <=> sl.cursor < Len(Prompt[r])
  BY DEF Prefilling, PromptOf
<1>6. /\ sl.active => Shown(sl) = [req |-> r, pre |-> p, gen |-> Len(q) - Len(z)]
      /\ Prefilling(sl) /\ sl.active => e.pre = p + (step - 0)
  BY <1>2 DEF Shown, PromptOf, MoveOK
<1>. HIDE DEF sl, e, o, r, a, z, q
<1>7. /\ Len(q) = Len(a) + k + Len(z) /\ Len(a) \in Nat /\ k \in Nat /\ Len(z) \in Nat
      /\ Len(q) - Len(z) = e.gen + k /\ e.gen + k <= MaxGen[r]
  <2>. DEFINE oz == o \o z  x == Len(q)  y == Len(a)  u == Len(z)
  <2>1. oz \in Seq(Tok) /\ Len(oz) = k + u /\ k \in Nat /\ u \in Nat
    BY <1>2, <1>4, TokConcat
  <2>2. a \o oz = q
    BY <1>3
  <2>. HIDE DEF oz, k, u
  <2>3. Len(a \o oz) = y + Len(oz) /\ y \in Nat
    BY <1>4, <2>1, TokConcat
  <2>. DEFINE g == e.gen  b == MaxGen[r]
  <2>4. /\ x = y + (k + u) /\ g = y /\ x \in Nat /\ x <= b /\ b \in Nat
        /\ y \in Nat /\ k \in Nat /\ u \in Nat
    BY <1>3, <1>4, <2>1, <2>2, <2>3
  <2>. HIDE DEF x, y, g, b
  <2>5. x = y + k + u /\ x - u = g + k /\ g + k <= b
    BY <2>4
  <2>. QED  BY <2>1, <2>3, <2>5 DEF x, y, u, g, b
<1>8. /\ e.req \in Request /\ MaxGen[e.req] \in Nat /\ k \in 0 .. Chunk /\ Chunk \in Nat
  <2>. HIDE DEF k
  <2>. QED  BY <1>2, <1>3, <1>4, <1>7
<1>9. CASE ~sl.active
  BY <1>3, <1>7, <1>8, <1>9 DEF sl, e, o
<1>10. CASE sl.active
  <2>. DEFINE sh == Shown(sl)
  <2>1. sh.req = e.req /\ sh.pre = p /\ sh.gen = e.gen + k
    BY <1>3, <1>6, <1>7, <1>10
  <2>. HIDE DEF sh
  <2>2. p \in Nat /\ (Prefilling(sl) => p > 0) /\ (~Prefilling(sl) => p = 0)
    <3>. DEFINE n == Len(Prompt[r])  c == sl.cursor
    <3>1. n \in Nat /\ c \in Nat /\ c <= n /\ (Prefilling(sl) <=> c < n)
      BY <1>3, <1>4, <1>5
    <3>. HIDE DEF n, c
    <3>2. n - c \in Nat /\ (Prefilling(sl) => n - c > 0) /\ (~Prefilling(sl) => n - c = 0)
      BY <3>1
    <3>. QED  BY <3>2 DEF n, c
  <2>. HIDE DEF p
  <2>3. Needy(s) => step = Chunk
    <3>1. ~(step < Chunk /\ Needy(s))
      BY <1>1 DEF MoreSteps
    <3>. QED  BY <1>2, <1>4, <3>1
  <2>4. CASE Running(sl) /\ Prefilling(sl)
    <3>1. step = Chunk
      BY <2>3, <2>4 DEF Needy, sl
    <3>2. p > 0 /\ p < e.pre /\ p \in 0 .. e.pre
      <4>1. e.pre = p + (Chunk - 0) /\ p > 0
        BY <1>6, <1>10, <2>2, <2>4, <3>1
      <4>. QED  BY <1>2, <1>4, <2>2, <4>1
    <3>3. k = 0
      <4>1. q = <<>>
        BY <1>2, <2>4 DEF RunOK, q
      <4>2. Len(q) = 0
        BY <4>1
      <4>. HIDE DEF k
      <4>. QED  BY <1>7, <4>2, SMTT(60)
    <3>. QED  BY <1>8, <1>10, <2>1, <3>2, <3>3 DEF sl, e, o, sh
  <2>5. CASE Running(sl) /\ ~Prefilling(sl)
    <3>1. Len(q) < MaxGen[r]
      BY <1>2, <2>5 DEF RunOK, q, r
    <3>2. k > 0
      <4>1. CASE step = 0
        <5>1. ~Needy(s)
          BY <1>4, <2>3, <4>1
        <5>2. ~(Chunk - k > 0)
          BY <2>5, <5>1 DEF Needy, Room, sl, o
        <5>. HIDE DEF k
        <5>. QED  BY <1>4, <1>7, <5>2
      <4>2. CASE step # 0
        <5>1. step - 0 >= 1
          BY <1>2, <1>4, <4>2
        <5>2. o # <<>>
          BY <1>2, <2>5, <5>1 DEF MoveOK
        <5>3. Len(o) = 0 => o = <<>>
          BY <1>2, EmptySeq
        <5>4. k # 0
          BY <5>2, <5>3
        <5>. HIDE DEF k
        <5>. QED  BY <1>7, <5>4
      <4>. QED  BY <4>1, <4>2
    <3>3. e.gen + k < MaxGen[e.req]
      <4>. DEFINE x == Len(q)  u == Len(z)
      <4>1. x - u = e.gen + k /\ x \in Nat /\ u \in Nat /\ x < MaxGen[r] /\ MaxGen[r] \in Nat /\ e.req = r
        BY <1>3, <1>4, <1>7, <3>1
      <4>. HIDE DEF x, u, k
      <4>2. x - u < MaxGen[r]
        BY <4>1
      <4>. QED  BY <4>1, <4>2
    <3>4. p = 0 /\ p \in 0 .. e.pre
      BY <1>2, <2>2, <2>5
    <3>. QED  BY <1>8, <1>10, <2>1, <3>2, <3>3, <3>4 DEF sl, e, o, sh
  <2>6. CASE sl.finPending
    <3>1. z # <<>> /\ ~Prefilling(sl) /\ k = Chunk
      BY <1>2, <1>10, <2>6 DEF RunOK, MoveOK, z
    <3>2. k > 0
      BY <1>4, <3>1
    <3>3. e.gen + k < MaxGen[e.req]
      <4>. DEFINE x == Len(q)  u == Len(z)
      <4>1. u # 0
        <5>1. Len(z) = 0 => z = <<>>
          BY <1>4, EmptySeq
        <5>. QED  BY <3>1, <5>1
      <4>2. /\ x - u = e.gen + k /\ x \in Nat /\ u \in Nat /\ x <= MaxGen[r] /\ MaxGen[r] \in Nat /\ e.req = r
        BY <1>3, <1>4, <1>7
      <4>. HIDE DEF x, u, k
      <4>3. x - u < MaxGen[r]
        BY <4>1, <4>2
      <4>. QED  BY <4>2, <4>3
    <3>4. p = 0 /\ p \in 0 .. e.pre
      BY <1>2, <2>2, <3>1
    <3>. QED  BY <1>8, <1>10, <2>1, <3>2, <3>3, <3>4 DEF sl, e, o, sh
  <2>. QED  BY <1>10, <2>4, <2>5, <2>6 DEF Running
<1>. QED  BY <1>9, <1>10

\* A call that returns appears as a step of every active slot.
LEMMA ReturnMaps ==
  ASSUME EngineInv, EntriesShown, Return
  PROVE  ABI!EngAdvance
<1>1. /\ pc = "serial" /\ pc' = "idle" /\ UNCHANGED slots
  BY DEF Return
<1>2. /\ \A s \in Slot : ABIView[s] = entry[s] /\ ABIView'[s] = Shown(slots[s])
      /\ ABIView' = [s \in Slot |-> ABIView'[s]]
  BY <1>1 DEF ABIView
<1>3. ASSUME NEW s \in Slot, entry[s].req = None
      PROVE  Shown(slots[s]) = entry[s]
  <2>1. CallOK(s)
    BY SlotTypes
  <2>2. ~slots[s].active
    BY <1>1, <1>3, <2>1 DEF CallOK, MoveOK
  <2>. QED  BY <1>3, <2>2, ShownFree DEF EntriesShown
<1>4. ASSUME NEW s \in Slot, entry[s].req # None
      PROVE  \E o \in ABI!StepOutcomes(entry[s]) : Shown(slots[s]) = ABI!StepSlot(entry[s], o)
  <2>. DEFINE sl == slots[s]  e == entry[s]  k == Len(outTok[s])  sh == Shown(sl)
  <2>1. /\ e.req \in Request /\ MaxGen[e.req] \in Nat /\ k \in 0 .. Chunk /\ Chunk \in Nat
        /\ \/ ~sl.active /\ e.gen + k <= MaxGen[e.req]
           \/ /\ sl.active /\ sh.req = e.req /\ sh.gen = e.gen + k
              /\ sh.pre \in 0 .. e.pre
              /\ \/ sh.pre > 0 /\ sh.pre < e.pre /\ k = 0
                 \/ sh.pre = 0 /\ k > 0 /\ e.gen + k < MaxGen[e.req]
    BY <1>4, OutcomeIs
  <2>2. e \in EntryShown /\ e.pre \in Nat /\ e.gen \in Nat
    BY SlotTypes
  <2>3. ~sl.active => sh = NoEntry
    BY ShownFree
  <2>4. sl.active => sh = [req |-> sh.req, pre |-> sh.pre, gen |-> sh.gen]
    BY DEF Shown
  <2>. HIDE DEF sl, e, k, sh
  <2>5. CASE ~sl.active
    <3>. DEFINE o == [pre |-> 0, n |-> k, fin |-> TRUE]
    <3>1. o \in ABI!StepOutcomes(e)
      BY <2>1, <2>2, <2>5 DEF ABI!StepOutcomes
    <3>2. sh = ABI!StepSlot(e, o)
      BY <2>3, <2>5 DEF ABI!StepSlot, ABI!EngFree, NoEntry
    <3>. QED  BY <3>1, <3>2 DEF e, sh, sl
  <2>6. CASE sl.active
    <3>. DEFINE o == [pre |-> sh.pre, n |-> k, fin |-> FALSE]
    <3>1. o \in ABI!StepOutcomes(e)
      <4>1. sh.pre \in 0 .. e.pre /\ k \in 0 .. Chunk /\ k \in Nat
        BY <2>1, <2>6
      <4>2. CASE sh.pre > 0 /\ sh.pre < e.pre /\ k = 0
        BY <4>1, <4>2 DEF ABI!StepOutcomes
      <4>3. CASE sh.pre = 0 /\ k > 0 /\ e.gen + k < MaxGen[e.req]
        <5>1. e.gen + k <= MaxGen[e.req] /\ e.gen + k # MaxGen[e.req]
          BY <2>1, <2>2, <4>1, <4>3
        <5>. QED  BY <4>1, <4>3, <5>1 DEF ABI!StepOutcomes
      <4>. QED  BY <2>1, <2>6, <4>2, <4>3
    <3>2. ABI!StepSlot(e, o) = [e EXCEPT !.pre = sh.pre, !.gen = e.gen + k]
      BY DEF ABI!StepSlot
    <3>3. [e EXCEPT !.pre = sh.pre, !.gen = e.gen + k] = [req |-> e.req, pre |-> sh.pre, gen |-> e.gen + k]
      <4>. DEFINE x == sh.pre  y == e.gen + k
      <4>. HIDE DEF x, y
      <4>. DEFINE f == [e EXCEPT !.pre = x, !.gen = y]
      <4>0. x \in Nat /\ y \in Nat
        BY <2>1, <2>2, <2>6 DEF x, y
      <4>2. f \in EntryShown /\ f.req = e.req /\ f.pre = x /\ f.gen = y
        BY <2>2, <4>0 DEF EntryShown
      <4>. HIDE DEF f
      <4>3. f = [req |-> f.req, pre |-> f.pre, gen |-> f.gen]
        BY <4>2 DEF EntryShown
      <4>1. f = [req |-> e.req, pre |-> x, gen |-> y]
        BY <4>2, <4>3
      <4>. QED  BY <4>1 DEF x, y, f
    <3>4. sh = [req |-> e.req, pre |-> sh.pre, gen |-> e.gen + k]
      BY <2>1, <2>4, <2>6
    <3>. QED  BY <3>1, <3>2, <3>3, <3>4 DEF e, sh, sl
  <2>. QED  BY <2>5, <2>6
<1>5. /\ ABIView' = [s \in Slot |-> ABIView'[s]]
      /\ \A s \in Slot :
           IF ABIView[s].req # None
           THEN \E o \in ABI!StepOutcomes(ABIView[s]) : ABIView'[s] = ABI!StepSlot(ABIView[s], o)
           ELSE ABIView'[s] = ABIView[s]
  BY <1>2, <1>3, <1>4
<1>. QED  BY <1>5, SameSlots DEF ABI!EngAdvance, ABI!EngActive, ABIView

(* The engine implements the slot ABI: seen from between the calls, a start    *)
(* takes a free slot, a cancellation frees one, and every qk_step_chunk gives  *)
(* each active slot more prefill, up to chunk tokens or its end; nothing the   *)
(* phases of a call do shows on the way.                                       *)
THEOREM EngineImplementsABI == Spec => ImplementsABI
<1>1. Init => ABI!EngInit /\ EntriesShown
  <2>. SUFFICES ASSUME Init PROVE ABI!EngInit /\ EntriesShown
    OBVIOUS
  <2>1. \A s \in Slot : slots[s] = FreeSlot /\ entry[s] = Shown(FreeSlot)
    BY DEF Init
  <2>2. Shown(FreeSlot) = NoEntry
    BY ShownFree DEF FreeSlot
  <2>3. ABIView = [s \in Slot |-> NoEntry]
    BY <2>1, <2>2 DEF ABIView
  <2>. QED  BY <2>1, <2>2, <2>3, SameSlots DEF EntriesShown, ABI!EngInit, ABI!EngFree, ABIView, NoEntry
<1>2. EngineInv /\ EntriesShown /\ [Next]_vars =>
        [ABI!EngNext]_([s \in Slot |-> IF pc = "idle" THEN Shown(slots[s]) ELSE entry[s]])
  <2>. SUFFICES ASSUME EngineInv, EntriesShown, [Next]_vars PROVE ABI!EngNext \/ ABIView' = ABIView
    BY DEF ABIView
  <2>1. ASSUME NEW s \in Slot, NEW r \in Request, Start(s, r) PROVE ABI!EngNext
    BY <2>1, StartMaps, SameSlots DEF ABI!EngNext
  <2>2. ASSUME NEW s \in Slot, Cancel(s) PROVE ABI!EngNext
    BY <2>2, CancelMaps, SameSlots DEF ABI!EngNext
  <2>3. CASE Return
    BY <2>3, ReturnMaps DEF ABI!EngNext
  <2>4. ASSUME NEW s \in Slot, SpecRound(s) PROVE ABIView' = ABIView
    BY <2>4, InsideCall
  <2>5. CASE Call \/ SpecOver \/ Submit \/ TakeSample \/ UNCHANGED vars
    <3>1. PICK c \in Slot : c = cur
      BY DEF EngineInv, TypeOK
    <3>. QED  BY <2>5, <3>1, InsideCall
  <2>. QED  BY <2>1, <2>2, <2>3, <2>4, <2>5 DEF Next
<1>3. EngineInv /\ EntriesShown /\ [Next]_vars => EntriesShown'
  BY EntriesStay
<1>. QED  BY <1>1, <1>2, <1>3, EngineInvHolds, PTL DEF Spec, ImplementsABI, ABI!EngSpec
===============================================================================
