------------------------- MODULE MessageStream_proofs -------------------------
(* Proofs about MessageStream, for any characters, tags, stop strings, pieces *)
(* and bounds: the text of a message is cut exactly at its stop string,       *)
(* however it is divided into events; the content blocks the client gets      *)
(* open, fill and close in order, and add up to what a parse of the whole     *)
(* text gives, however the parser was fed; and no message that used a tool is *)
(* prompted again.                                                            *)
EXTENDS MessageStream, SequenceLemmas

-------------------------------------------------------------------------------
(* Texts, and where one occurs in another.                                    *)

Txt == Seq(Char)

\* Text s is at place i of text x.
At(s, x, i) ==
  /\ i \in Nat \ {0} /\ i + Len(s) <= Len(x) + 1
  /\ \A j \in 1 .. Len(s) : x[i + j - 1] = s[j]

\* Texts under concatenation.
LEMMA TxtJoin ==
  ASSUME NEW x \in Txt, NEW y \in Txt
  PROVE  x \o y \in Txt /\ Len(x) \in Nat /\ Len(y) \in Nat /\ Len(x \o y) = Len(x) + Len(y)
BY DEF Txt

\* Concatenation of texts is associative.
LEMMA TxtAssoc ==
  ASSUME NEW x \in Txt, NEW y \in Txt, NEW z \in Txt
  PROVE  (x \o y) \o z = x \o (y \o z)
BY ConcatAssociative DEF Txt

\* So are three texts, whose parts are texts too.
LEMMA TxtThree ==
  ASSUME NEW x \in Txt, NEW y \in Txt, NEW z \in Txt
  PROVE  /\ (x \o y) \o z = x \o (y \o z) /\ (x \o y) \o z \in Txt
         /\ x \o y \in Txt /\ y \o z \in Txt
<1>1. x \o y \in Txt /\ y \o z \in Txt
  BY TxtJoin
<1>2. (x \o y) \o z \in Txt
  BY <1>1, TxtJoin
<1>3. (x \o y) \o z = x \o (y \o z)
  BY TxtAssoc, Zenon
<1>. QED  BY <1>1, <1>2, <1>3

\* The same for all texts at once.
LEMMA TxtAll ==
  \A x, y, z \in Txt : (x \o y) \o z = x \o (y \o z) /\ (x \o y) \o z \in Txt /\ y \o z \in Txt
BY TxtThree, ZenonT(60)

\* The empty text.
LEMMA TxtEmpty ==
  ASSUME NEW x \in Txt
  PROVE  /\ <<>> \in Txt /\ <<>> \o x = x /\ x \o <<>> = x
         /\ Len(x) \in Nat /\ (Len(x) = 0 => x = <<>>) /\ Len(<<>>) = 0
BY ConcatEmptySeq DEF Txt

\* A concatenation, place by place.
LEMMA Joint ==
  ASSUME NEW S, NEW x \in Seq(S), NEW y \in Seq(S)
  PROVE  /\ x \o y \in Seq(S) /\ Len(x) \in Nat /\ Len(y) \in Nat
         /\ Len(x \o y) = Len(x) + Len(y)
         /\ \A i \in 1 .. Len(x) : (x \o y)[i] = x[i]
         /\ \A i \in 1 .. Len(y) : (x \o y)[Len(x) + i] = y[i]
<1>. DEFINE z == x \o y  m == Len(x)  n == Len(y)
<1>1. z \in Seq(S) /\ Len(z) = m + n
      /\ \A i \in 1 .. m + n : z[i] = IF i <= m THEN x[i] ELSE y[i - m]
  BY ConcatProperties
<1>2. m \in Nat /\ n \in Nat
  OBVIOUS
<1>. HIDE DEF z, m, n
<1>3. \A i \in 1 .. m : z[i] = x[i]
  BY <1>1, <1>2
<1>4. \A i \in 1 .. n : m + i \in 1 .. m + n /\ ~(m + i <= m) /\ (m + i) - m = i
  BY <1>2
<1>5. \A i \in 1 .. n : z[m + i] = y[i]
  BY <1>1, <1>4
<1>. QED  BY <1>1, <1>2, <1>3, <1>5 DEF z, m, n

\* A text, what comes before place i of it, and what comes from there on.
LEMMA Halves ==
  ASSUME NEW x \in Txt, NEW i \in 1 .. Len(x) + 1
  PROVE  /\ Before(x, i) \in Txt /\ Len(Before(x, i)) = i - 1
         /\ \A j \in 1 .. i - 1 : Before(x, i)[j] = x[j]
         /\ From(x, i) \in Txt /\ Len(From(x, i)) = Len(x) - i + 1
         /\ \A j \in 1 .. Len(x) - i + 1 : From(x, i)[j] = x[i - 1 + j]
         /\ x = Before(x, i) \o From(x, i)
<1>1. i - 1 \in 0 .. Len(x) /\ (i - 1) + 1 = i /\ Len(x) - (i - 1) = Len(x) - i + 1
  BY DEF Txt
<1>2. PICK n \in 0 .. Len(x) : n = i - 1
  BY <1>1
<1>3. Before(x, i) = FirstPart(x, n) /\ From(x, i) = OtherPart(x, n)
  BY <1>1, <1>2 DEF Before, From, FirstPart, OtherPart
<1>. DEFINE a == FirstPart(x, n)  b == OtherPart(x, n)
<1>4. /\ a \in Txt /\ Len(a) = n /\ \A j \in 1 .. n : a[j] = x[j]
      /\ b \in Txt /\ Len(b) = Len(x) - n /\ \A j \in 1 .. Len(x) - n : b[j] = x[n + j]
      /\ x = a \o b
  BY CutInTwo DEF Txt
<1>5. Before(x, i) = a /\ From(x, i) = b
  BY <1>3
<1>. HIDE DEF a, b
<1>. QED  BY <1>1, <1>2, <1>4, <1>5

\* What Occurs says.
LEMMA OccursAt ==
  ASSUME NEW s \in Txt, s # <<>>, NEW x \in Txt
  PROVE  /\ Occurs(s, x) \in SUBSET (Nat \ {0})
         /\ \A i : i \in Occurs(s, x) <=> At(s, x, i)
<1>. DEFINE m == Len(s)  n == Len(x)
<1>1. m \in Nat \ {0} /\ n \in Nat
  BY DEF Txt
<1>2. \A i \in 1 .. n - m + 1 : SubSeq(x, i, i + m - 1) = s <=> \A j \in 1 .. m : x[i + j - 1] = s[j]
  <2>. TAKE i \in 1 .. n - m + 1
  <2>1. i \in Nat /\ i + m - 1 \in i .. n /\ (i + m - 1) - i + 1 = m /\ i >= 1
    BY <1>1
  <2>2. SubSeq(x, i, i + m - 1) \in Seq(Char) /\ Len(SubSeq(x, i, i + m - 1)) = m
        /\ \A j \in 1 .. m : SubSeq(x, i, i + m - 1)[j] = x[i + j - 1]
    BY <1>1, <2>1 DEF Txt
  <2>. DEFINE u == SubSeq(x, i, i + m - 1)
  <2>. HIDE DEF u
  <2>3. u = s <=> \A j \in 1 .. m : u[j] = s[j]
    <3>1. (Len(u) = m /\ Len(s) = m /\ \A j \in 1 .. m : u[j] = s[j]) => u = s
      BY <2>2, SeqEqual DEF u, Txt
    <3>. QED  BY <3>1, <2>2 DEF u
  <2>. HIDE DEF m
  <2>. QED  BY <2>2, <2>3 DEF u
<1>3. Occurs(s, x) = {i \in 1 .. n - m + 1 : SubSeq(x, i, i + m - 1) = s}
  BY DEF Occurs
<1>4. \A i : i \in 1 .. n - m + 1 <=> i \in Nat \ {0} /\ i + m <= n + 1
  BY <1>1
<1>. HIDE DEF m, n
<1>5. \A i : i \in Occurs(s, x) <=> (i \in 1 .. n - m + 1 /\ \A j \in 1 .. m : x[i + j - 1] = s[j])
  BY <1>2, <1>3
<1>6. \A i : i \in Occurs(s, x) <=> At(s, x, i)
  BY <1>4, <1>5, Zenon DEF At, m, n
<1>7. Occurs(s, x) \in SUBSET (Nat \ {0})
  BY <1>4, <1>5
<1>. QED  BY <1>6, <1>7

\* What Find finds: the first place.
LEMMA FindFirst ==
  ASSUME NEW s \in Txt, s # <<>>, NEW x \in Txt, Occurs(s, x) # {}
  PROVE  At(s, x, Find(s, x)) /\ \A i : At(s, x, i) => Find(s, x) <= i
<1>1. Occurs(s, x) \in SUBSET Nat
  BY OccursAt
<1>2. \E i \in Occurs(s, x) : \A j \in Occurs(s, x) : i <= j
  BY <1>1, LeastNumber
<1>3. Find(s, x) \in Occurs(s, x) /\ \A j \in Occurs(s, x) : Find(s, x) <= j
  BY <1>2, Zenon DEF Find
<1>. QED  BY <1>3, OccursAt

\* A text that begins at place i of the first part and ends in it.
LEMMA AtBegins ==
  ASSUME NEW s \in Txt, NEW x \in Txt, NEW z \in Txt, NEW i
  PROVE  At(s, x, i) <=> At(s, x \o z, i) /\ i + Len(s) <= Len(x) + 1
<1>. DEFINE y == x \o z
<1>1. Len(x) \in Nat /\ Len(z) \in Nat /\ Len(y) = Len(x) + Len(z) /\ \A j \in 1 .. Len(x) : y[j] = x[j]
  BY Joint DEF Txt
<1>. HIDE DEF y
<1>2. Len(s) \in Nat
  BY DEF Txt
<1>3. ASSUME i \in Nat \ {0}, i + Len(s) <= Len(x) + 1
      PROVE  (\A j \in 1 .. Len(s) : x[i + j - 1] = s[j]) <=> (\A j \in 1 .. Len(s) : y[i + j - 1] = s[j])
  <2>1. \A j \in 1 .. Len(s) : i + j - 1 \in 1 .. Len(x)
    BY <1>1, <1>2, <1>3
  <2>2. \A j \in 1 .. Len(s) : y[i + j - 1] = x[i + j - 1]
    BY <1>1, <2>1
  <2>. QED  BY <2>2
<1>4. i \in Nat /\ i + Len(s) <= Len(x) + 1 => i + Len(s) <= Len(y) + 1
  BY <1>1, <1>2
<1>. QED  BY <1>3, <1>4 DEF At, y

\* A text that begins in the second part.
LEMMA AtShift ==
  ASSUME NEW s \in Txt, NEW x \in Txt, NEW z \in Txt, NEW i \in Nat \ {0}
  PROVE  At(s, z, i) <=> At(s, x \o z, Len(x) + i)
<1>. DEFINE y == x \o z  m == Len(x)
<1>1. m \in Nat /\ Len(z) \in Nat /\ Len(y) = m + Len(z) /\ \A j \in 1 .. Len(z) : y[m + j] = z[j]
  BY Joint DEF Txt
<1>. HIDE DEF y, m
<1>2. Len(s) \in Nat
  BY DEF Txt
<1>3. ASSUME i + Len(s) <= Len(z) + 1
      PROVE  (\A j \in 1 .. Len(s) : z[i + j - 1] = s[j]) <=> (\A j \in 1 .. Len(s) : y[(m + i) + j - 1] = s[j])
  <2>1. \A j \in 1 .. Len(s) : i + j - 1 \in 1 .. Len(z) /\ (m + i) + j - 1 = m + (i + j - 1)
    BY <1>1, <1>2, <1>3
  <2>2. \A j \in 1 .. Len(s) : y[(m + i) + j - 1] = z[i + j - 1]
    BY <1>1, <2>1
  <2>. QED  BY <2>2
<1>4. i + Len(s) <= Len(z) + 1 <=> (m + i) + Len(s) <= Len(y) + 1
  BY <1>1, <1>2
<1>5. m + i \in Nat \ {0}
  BY <1>1
<1>. QED  BY <1>3, <1>4, <1>5 DEF At, y, m

\* Cutting a concatenation in its first part.
LEMMA CutFirst ==
  ASSUME NEW x \in Txt, NEW z \in Txt, NEW i \in 1 .. Len(x) + 1
  PROVE  Before(x \o z, i) = Before(x, i) /\ From(x \o z, i) = From(x, i) \o z
<1>. DEFINE y == x \o z  a == Before(x, i)  b == From(x, i)  c == Before(y, i)  d == From(y, i)
            m == Len(x)  n == Len(z)
<1>1. /\ y \in Txt /\ m \in Nat /\ n \in Nat /\ Len(y) = m + n
      /\ \A j \in 1 .. m : y[j] = x[j]
      /\ \A j \in 1 .. n : y[m + j] = z[j]
  BY Joint DEF Txt
<1>. HIDE DEF y
<1>2. i \in 1 .. m + 1 /\ i \in 1 .. Len(y) + 1 /\ i \in Nat
  BY <1>1
<1>3. /\ a \in Txt /\ Len(a) = i - 1 /\ \A j \in 1 .. i - 1 : a[j] = x[j]
      /\ b \in Txt /\ Len(b) = m - i + 1 /\ \A j \in 1 .. m - i + 1 : b[j] = x[i - 1 + j]
  BY <1>2, Halves
<1>4. /\ c \in Txt /\ Len(c) = i - 1 /\ \A j \in 1 .. i - 1 : c[j] = y[j]
      /\ d \in Txt /\ Len(d) = m + n - i + 1 /\ \A j \in 1 .. m + n - i + 1 : d[j] = y[i - 1 + j]
  <2>1. /\ c \in Txt /\ Len(c) = i - 1 /\ \A j \in 1 .. i - 1 : c[j] = y[j]
        /\ d \in Txt /\ Len(d) = Len(y) - i + 1 /\ \A j \in 1 .. Len(y) - i + 1 : d[j] = y[i - 1 + j]
    BY <1>1, <1>2, Halves
  <2>. HIDE DEF c, d, m, n
  <2>. QED  BY <1>1, <2>1
<1>. HIDE DEF a, b, c, d, m, n
<1>5. c = a
  <2>1. \A j \in 1 .. i - 1 : j \in 1 .. m
    BY <1>1, <1>2
  <2>2. \A j \in 1 .. i - 1 : c[j] = a[j]
    BY <1>1, <1>3, <1>4, <2>1
  <2>. QED  BY <1>3, <1>4, <2>2, SeqEqual DEF Txt
<1>6. d = b \o z
  <2>. DEFINE e == b \o z  k == m - i + 1
  <2>0. k \in Nat /\ Len(b) = k /\ Len(z) = n
    BY <1>1, <1>2, <1>3 DEF n
  <2>. HIDE DEF k
  <2>1. /\ e \in Txt /\ k \in Nat /\ Len(e) = k + n
        /\ \A j \in 1 .. k : e[j] = b[j]
        /\ \A j \in 1 .. n : e[k + j] = z[j]
    <3>1. /\ e \in Txt /\ Len(e) = Len(b) + Len(z)
          /\ \A j \in 1 .. Len(b) : e[j] = b[j]
          /\ \A j \in 1 .. Len(z) : e[Len(b) + j] = z[j]
      <4>1. b \in Seq(Char) /\ z \in Seq(Char)
        BY <1>3 DEF Txt
      <4>. QED  BY <4>1, Joint DEF Txt
    <3>. HIDE DEF e
    <3>. QED  BY <2>0, <3>1
  <2>. USE DEF k
  <2>. HIDE DEF e
  <2>2. Len(d) = k + n /\ Len(e) = k + n
    BY <1>1, <1>2, <1>4, <2>1
  <2>3. ASSUME NEW j \in 1 .. k + n PROVE d[j] = e[j]
    <3>1. j \in 1 .. m + n - i + 1
      BY <1>1, <1>2
    <3>2. d[j] = y[i - 1 + j]
      BY <1>4, <3>1
    <3>3. CASE j <= k
      <4>1. j \in 1 .. k /\ j \in 1 .. m - i + 1 /\ i - 1 + j \in 1 .. m
        BY <1>1, <1>2, <3>3
      <4>. QED  BY <1>1, <1>3, <2>1, <3>2, <4>1
    <3>4. CASE ~(j <= k)
      <4>1. PICK l \in 1 .. n : j = k + l
        <5>1. j - k \in 1 .. n /\ j = k + (j - k)
          BY <1>1, <1>2, <3>4
        <5>. QED  BY <5>1
      <4>2. i - 1 + j = m + l
        BY <1>1, <1>2, <4>1
      <4>. QED  BY <1>1, <2>1, <3>2, <4>1, <4>2
    <3>. QED  BY <3>3, <3>4
  <2>. HIDE DEF k
  <2>4. d \in Seq(Char) /\ e \in Seq(Char)
    BY <1>4, <2>1 DEF Txt
  <2>. QED  BY <2>2, <2>3, <2>4, SeqEqual DEF e
<1>. QED  BY <1>5, <1>6 DEF a, b, c, d, y

\* Cutting it in its second part.
LEMMA CutSecond ==
  ASSUME NEW x \in Txt, NEW z \in Txt, NEW i \in 1 .. Len(z) + 1
  PROVE  Before(x \o z, Len(x) + i) = x \o Before(z, i) /\ From(x \o z, Len(x) + i) = From(z, i)
<1>. DEFINE y == x \o z  m == Len(x)  n == Len(z)
            a == Before(z, i)  b == From(z, i)  c == Before(y, m + i)  d == From(y, m + i)
<1>1. /\ y \in Txt /\ m \in Nat /\ n \in Nat /\ Len(y) = m + n
      /\ \A j \in 1 .. m : y[j] = x[j]
      /\ \A j \in 1 .. n : y[m + j] = z[j]
  BY Joint DEF Txt
<1>. HIDE DEF y
<1>2. m + i \in 1 .. Len(y) + 1 /\ i \in Nat /\ i >= 1 /\ i <= n + 1
  BY <1>1
<1>3. /\ a \in Txt /\ Len(a) = i - 1 /\ \A j \in 1 .. i - 1 : a[j] = z[j]
      /\ b \in Txt /\ Len(b) = n - i + 1 /\ \A j \in 1 .. n - i + 1 : b[j] = z[i - 1 + j]
  BY <1>2, Halves
<1>4. /\ c \in Txt /\ Len(c) = m + i - 1 /\ \A j \in 1 .. m + i - 1 : c[j] = y[j]
      /\ d \in Txt /\ Len(d) = m + n - (m + i) + 1 /\ \A j \in 1 .. m + n - (m + i) + 1 : d[j] = y[m + i - 1 + j]
  <2>. DEFINE o == m + i
  <2>0. o \in 1 .. Len(y) + 1
    BY <1>2
  <2>. HIDE DEF o
  <2>1. /\ c \in Txt /\ Len(c) = o - 1 /\ \A j \in 1 .. o - 1 : c[j] = y[j]
        /\ d \in Txt /\ Len(d) = Len(y) - o + 1 /\ \A j \in 1 .. Len(y) - o + 1 : d[j] = y[o - 1 + j]
    BY <1>1, <2>0, Halves DEF o
  <2>. HIDE DEF c, d, m, n
  <2>. QED  BY <1>1, <2>1 DEF o
<1>. HIDE DEF a, b, c, d, m, n
<1>5. d = b
  <2>1. \A j \in 1 .. n - i + 1 : /\ j \in 1 .. m + n - (m + i) + 1 /\ i - 1 + j \in 1 .. n
                                 /\ m + i - 1 + j = m + (i - 1 + j)
    BY <1>1, <1>2
  <2>2. \A j \in 1 .. n - i + 1 : d[j] = b[j]
    BY <1>1, <1>3, <1>4, <2>1
  <2>3. Len(d) = n - i + 1
    BY <1>1, <1>2, <1>4
  <2>. QED  BY <1>3, <1>4, <2>2, <2>3, SeqEqual DEF Txt
<1>6. c = x \o a
  <2>. DEFINE e == x \o a  k == i - 1
  <2>0. k \in Nat /\ Len(a) = k /\ Len(x) = m
    BY <1>1, <1>2, <1>3 DEF m
  <2>. HIDE DEF k
  <2>1. /\ e \in Txt /\ k \in Nat /\ Len(e) = m + k
        /\ \A j \in 1 .. m : e[j] = x[j]
        /\ \A j \in 1 .. k : e[m + j] = a[j]
    <3>1. /\ e \in Txt /\ Len(e) = Len(x) + Len(a)
          /\ \A j \in 1 .. Len(x) : e[j] = x[j]
          /\ \A j \in 1 .. Len(a) : e[Len(x) + j] = a[j]
      <4>1. a \in Seq(Char) /\ x \in Seq(Char)
        BY <1>3 DEF Txt
      <4>. QED  BY <4>1, Joint DEF Txt
    <3>. HIDE DEF e
    <3>. QED  BY <2>0, <3>1
  <2>. USE DEF k
  <2>. HIDE DEF e
  <2>2. Len(c) = m + k
    BY <1>1, <1>2, <1>4
  <2>3. ASSUME NEW j \in 1 .. m + k PROVE c[j] = e[j]
    <3>1. j \in 1 .. m + i - 1
      BY <1>1, <1>2
    <3>2. c[j] = y[j]
      BY <1>4, <3>1
    <3>3. CASE j <= m
      <4>1. j \in 1 .. m
        BY <1>1, <1>2, <3>3
      <4>. QED  BY <1>1, <2>1, <3>2, <4>1
    <3>4. CASE ~(j <= m)
      <4>1. PICK l \in 1 .. k : j = m + l
        <5>1. j - m \in 1 .. k /\ j = m + (j - m)
          BY <1>1, <1>2, <3>4
        <5>. QED  BY <5>1
      <4>2. l \in 1 .. n /\ l \in 1 .. i - 1
        BY <1>1, <1>2, <4>1
      <4>. QED  BY <1>1, <1>3, <2>1, <3>2, <4>1, <4>2
    <3>. QED  BY <3>3, <3>4
  <2>. HIDE DEF k
  <2>4. c \in Seq(Char) /\ e \in Seq(Char)
    BY <1>4, <2>1 DEF Txt
  <2>. QED  BY <2>1, <2>2, <2>3, <2>4, SeqEqual DEF e
<1>. QED  BY <1>5, <1>6 DEF a, b, c, d, y, m

-------------------------------------------------------------------------------
(* The text of tokens.                                                        *)

\* A token is decoded to a text.
LEMMA PieceType ==
  ASSUME NEW p \in Pieces
  PROVE  Piece(p) \in Txt
BY MessageAssumption DEF Piece, Txt

\* So is a sequence of them.
LEMMA DecodeType ==
  ASSUME NEW q \in Seq(Pieces)
  PROVE  Decode(q) \in Txt /\ [i \in 1 .. Len(q) |-> Piece(q[i])] \in Seq(Txt)
<1>1. Len(q) \in Nat /\ \A i \in 1 .. Len(q) : Piece(q[i]) \in Txt
  BY PieceType
<1>2. [i \in 1 .. Len(q) |-> Piece(q[i])] \in Seq(Txt)
  BY <1>1
<1>. QED  BY <1>2, FlattenType DEF Decode, Txt

\* Tokens that come later add their text at the end.
LEMMA DecodeConcat ==
  ASSUME NEW p \in Seq(Pieces), NEW q \in Seq(Pieces)
  PROVE  p \o q \in Seq(Pieces) /\ Decode(p \o q) = Decode(p) \o Decode(q)
<1>. DEFINE r == p \o q
            f == [i \in 1 .. Len(p) |-> Piece(p[i])]  g == [i \in 1 .. Len(q) |-> Piece(q[i])]
            h == [i \in 1 .. Len(r) |-> Piece(r[i])]  m == Len(p)  n == Len(q)
<1>1. /\ r \in Seq(Pieces) /\ m \in Nat /\ n \in Nat /\ Len(r) = m + n
      /\ \A i \in 1 .. m : r[i] = p[i]
      /\ \A i \in 1 .. n : r[m + i] = q[i]
  BY Joint
<1>. HIDE DEF r
<1>2. f \in Seq(Txt) /\ g \in Seq(Txt) /\ h \in Seq(Txt)
  BY <1>1, DecodeType
<1>3. /\ Len(f) = m /\ \A i \in 1 .. m : f[i] = Piece(p[i])
      /\ Len(g) = n /\ \A i \in 1 .. n : g[i] = Piece(q[i])
      /\ Len(h) = m + n /\ \A i \in 1 .. m + n : h[i] = Piece(r[i])
  BY <1>1
<1>. DEFINE u == f \o g
<1>. HIDE DEF f, g, h, m, n
<1>4. /\ u \in Seq(Txt) /\ Len(u) = m + n
      /\ \A i \in 1 .. m : u[i] = f[i]
      /\ \A i \in 1 .. n : u[m + i] = g[i]
  <2>1. /\ u \in Seq(Txt) /\ Len(u) = Len(f) + Len(g)
        /\ \A i \in 1 .. Len(f) : u[i] = f[i]
        /\ \A i \in 1 .. Len(g) : u[Len(f) + i] = g[i]
    BY <1>2, Joint
  <2>. HIDE DEF u
  <2>. QED  BY <1>3, <2>1
<1>. HIDE DEF u
<1>5. \A i \in 1 .. m + n : h[i] = u[i]
  <2>. TAKE i \in 1 .. m + n
  <2>1. CASE i \in 1 .. m
    BY <1>1, <1>3, <1>4, <2>1
  <2>2. CASE ~(i \in 1 .. m)
    <3>1. i - m \in 1 .. n /\ i = m + (i - m)
      BY <1>1, <2>2
    <3>2. PICK j \in 1 .. n : i = m + j
      BY <3>1
    <3>3. m + j \in 1 .. m + n
      BY <1>1
    <3>4. h[m + j] = Piece(r[m + j]) /\ r[m + j] = q[j] /\ u[m + j] = g[j] /\ g[j] = Piece(q[j])
      BY <1>1, <1>3, <1>4, <3>3
    <3>. QED  BY <3>2, <3>4
  <2>. QED  BY <2>1, <2>2
<1>6. h = u
  BY <1>2, <1>3, <1>4, <1>5, SeqEqual
<1>7. FlattenSeq(u) = FlattenSeq(f) \o FlattenSeq(g)
  BY <1>2, FlattenConcat DEF u, Txt
<1>8. Decode(r) = FlattenSeq(h) /\ Decode(p) = FlattenSeq(f) /\ Decode(q) = FlattenSeq(g)
  BY DEF Decode, f, g, h
<1>. QED  BY <1>1, <1>6, <1>7, <1>8 DEF r

(* Stop strings.                                                              *)

\* A stop string is a text with something in it.
LEMMA StopTextType ==
  ASSUME NEW k \in DOMAIN Stops
  PROVE  Stops[k] \in Txt /\ Stops[k] # <<>> /\ Len(Stops[k]) \in Nat \ {0}
<1>1. Stops[k] \in Seq(Char) /\ Stops[k] # <<>>
  BY TextOutAssumption
<1>. QED  BY <1>1 DEF Txt

StopLens == {Len(Stops[i]) - 1 : i \in DOMAIN Stops}

\* There is a longest stop string.
LEMMA LongestStop ==
  ASSUME Stops # <<>>
  PROVE  \E n \in StopLens : \A i \in DOMAIN Stops : Len(Stops[i]) - 1 <= n
<1>. DEFINE m == Len(Stops)  len(i) == Len(Stops[i])
            T == {n \in Nat : n + 1 <= m => \E k \in 1 .. n + 1 : \A i \in 1 .. n + 1 : len(i) <= len(k)}
<1>1. m \in Nat \ {0} /\ DOMAIN Stops = 1 .. m /\ \A i \in 1 .. m : len(i) \in Nat
  <2>1. m \in Nat \ {0} /\ DOMAIN Stops = 1 .. m
    BY TextOutAssumption
  <2>. QED  BY <2>1, StopTextType
<1>. HIDE DEF len, m
<1>2. 0 \in T
  <2>1. 1 <= m => len(1) <= len(1) /\ \A i \in 1 .. 0 + 1 : i = 1
    BY <1>1
  <2>. QED  BY <2>1
<1>3. ASSUME NEW n \in T PROVE n + 1 \in T
  <2>1. n \in Nat /\ n + 1 \in Nat
    OBVIOUS
  <2>2. ASSUME n + 1 + 1 <= m
        PROVE  \E k \in 1 .. n + 1 + 1 : \A i \in 1 .. n + 1 + 1 : len(i) <= len(k)
    <3>. DEFINE e == n + 1 + 1
    <3>0. n + 1 <= m
      BY <1>1, <2>1, <2>2
    <3>1. PICK k \in 1 .. n + 1 : \A i \in 1 .. n + 1 : len(i) <= len(k)
      BY <3>0
    <3>2. e \in 1 .. m /\ k \in 1 .. m /\ k \in 1 .. e /\ e \in 1 .. e /\ \A i \in 1 .. e : i \in 1 .. n + 1 \/ i = e
      BY <1>1, <2>1, <2>2
    <3>3. len(e) \in Nat /\ len(k) \in Nat /\ \A i \in 1 .. e : len(i) \in Nat
      BY <1>1, <3>2
    <3>. HIDE DEF e
    <3>4. CASE len(e) <= len(k)
      <4>1. \A i \in 1 .. e : len(i) <= len(k)
        BY <3>1, <3>2, <3>4
      <4>. QED  BY <3>2, <4>1 DEF e
    <3>5. CASE ~(len(e) <= len(k))
      <4>1. \A i \in 1 .. e : len(i) <= len(e)
        BY <3>1, <3>2, <3>3, <3>5
      <4>. QED  BY <3>2, <4>1 DEF e
    <3>. QED  BY <3>4, <3>5
  <2>. QED  BY <2>1, <2>2
<1>4. m - 1 \in T /\ m - 1 \in Nat /\ (m - 1) + 1 = m
  <2>1. T \in SUBSET Nat
    OBVIOUS
  <2>. HIDE DEF T
  <2>2. T = Nat
    BY <1>2, <1>3, <2>1, NumbersByInduction
  <2>. QED  BY <1>1, <2>2
<1>5. PICK k \in 1 .. m : \A i \in 1 .. m : len(i) <= len(k)
  BY <1>1, <1>4
<1>6. len(k) - 1 \in StopLens
  BY <1>1 DEF StopLens, len
<1>7. \A i \in 1 .. m : len(i) - 1 <= len(k) - 1
  BY <1>1, <1>5
<1>. QED  BY <1>1, <1>6, <1>7 DEF len

\* hold_chars is one less than the longest stop string.
LEMMA HoldCharsIs ==
  HoldChars \in Nat /\ \A k \in DOMAIN Stops : Len(Stops[k]) <= HoldChars + 1
<1>1. CASE Stops = <<>>
  BY <1>1 DEF HoldChars
<1>2. CASE Stops # <<>>
  <2>1. HoldChars \in StopLens /\ \A i \in DOMAIN Stops : Len(Stops[i]) - 1 <= HoldChars
    BY <1>2, LongestStop, Zenon DEF HoldChars, StopLens
  <2>2. \A i \in DOMAIN Stops : Len(Stops[i]) \in Nat \ {0}
    BY StopTextType
  <2>3. \A n \in StopLens : n \in Nat
    BY <2>2 DEF StopLens
  <2>. QED  BY <2>1, <2>2, <2>3
<1>. QED  BY <1>1, <1>2

\* No text s of this many characters begins before what is held back: it would
\* have ended before the new text came.
LEMMA StopInNew ==
  ASSUME NEW s \in Txt, s # <<>>, Len(s) <= HoldChars + 1,
         NEW r \in Txt, NEW h \in Txt, NEW t \in Txt,
         Occurs(s, r \o h) = {}, Len(h) = HoldChars \/ r = <<>>
  PROVE  /\ \A i : At(s, (r \o h) \o t, i) => \E j \in Nat \ {0} : i = Len(r) + j /\ At(s, h \o t, j)
         /\ \A j \in Nat \ {0} : At(s, h \o t, j) => At(s, (r \o h) \o t, Len(r) + j)
<1>. DEFINE x == h \o t  o == r \o h  m == Len(r)
<1>1. x \in Txt /\ o \in Txt /\ o \o t = r \o x /\ m \in Nat /\ Len(h) \in Nat /\ Len(o) = m + Len(h)
  BY TxtJoin, TxtAssoc, ZenonT(100)
<1>. HIDE DEF x, o
<1>2. \A j \in Nat \ {0} : At(s, x, j) <=> At(s, r \o x, m + j)
  BY <1>1, AtShift
<1>3. ASSUME NEW i, At(s, o \o t, i), i <= m
      PROVE  FALSE
  <2>1. i \in Nat \ {0} /\ m > 0
    BY <1>1, <1>3 DEF At
  <2>2. Len(h) = HoldChars
    BY <1>1, <2>1
  <2>3. i + Len(s) <= Len(o) + 1
    <3>1. Len(s) \in Nat
      BY DEF Txt
    <3>. QED  BY <1>1, <1>3, <2>1, <2>2, <3>1, HoldCharsIs
  <2>4. At(s, o, i)
    BY <1>1, <1>3, <2>3, AtBegins
  <2>. QED  BY <1>1, <2>4, OccursAt DEF o
<1>4. ASSUME NEW i, At(s, o \o t, i)
      PROVE  \E j \in Nat \ {0} : i = m + j /\ At(s, x, j)
  <2>1. i \in Nat /\ ~(i <= m)
    BY <1>3, <1>4 DEF At
  <2>2. i - m \in Nat \ {0} /\ i = m + (i - m)
    BY <1>1, <2>1
  <2>3. PICK j \in Nat \ {0} : i = m + j
    BY <2>2
  <2>. QED  BY <1>1, <1>2, <1>4, <2>3
<1>. HIDE DEF m
<1>. QED  BY <1>1, <1>2, <1>4 DEF x, o, m

\* What is cut off the new text is cut off the whole.
LEMMA StopPlace ==
  ASSUME NEW s \in Txt, s # <<>>, Len(s) <= HoldChars + 1,
         NEW r \in Txt, NEW h \in Txt, NEW t \in Txt,
         Occurs(s, r \o h) = {}, Len(h) = HoldChars \/ r = <<>>
  PROVE  /\ Occurs(s, h \o t) = {} <=> Occurs(s, (r \o h) \o t) = {}
         /\ Occurs(s, h \o t) # {} =>
              Before((r \o h) \o t, Find(s, (r \o h) \o t)) = r \o Before(h \o t, Find(s, h \o t))
<1>0. (r \o h) \o t = r \o (h \o t) /\ (r \o h) \o t \in Txt /\ h \o t \in Txt
  BY TxtAll, ZenonT(200)
<1>. DEFINE x == h \o t  y == (r \o h) \o t  m == Len(r)
<1>1. x \in Txt /\ y \in Txt /\ y = r \o x /\ m \in Nat
  BY <1>0, TxtJoin
<1>2. /\ \A i : At(s, y, i) => \E j \in Nat \ {0} : i = m + j /\ At(s, x, j)
      /\ \A j \in Nat \ {0} : At(s, x, j) => At(s, y, m + j)
  BY StopInNew
<1>. HIDE DEF x, y, m
<1>3. /\ Occurs(s, x) \in SUBSET (Nat \ {0}) /\ \A i : i \in Occurs(s, x) <=> At(s, x, i)
      /\ \A i : i \in Occurs(s, y) <=> At(s, y, i)
  BY <1>1, OccursAt
<1>4. Occurs(s, x) = {} <=> Occurs(s, y) = {}
  BY <1>2, <1>3
<1>5. ASSUME Occurs(s, x) # {}
      PROVE  Before(y, Find(s, y)) = r \o Before(x, Find(s, x))
  <2>. DEFINE f == Find(s, x)  g == Find(s, y)
  <2>1. At(s, x, f) /\ \A i : At(s, x, i) => f <= i
    BY <1>1, <1>5, FindFirst
  <2>2. At(s, y, g) /\ \A i : At(s, y, i) => g <= i
    BY <1>1, <1>4, <1>5, FindFirst
  <2>. HIDE DEF f, g
  <2>3. PICK j \in Nat \ {0} : g = m + j /\ At(s, x, j)
    BY <1>2, <2>2
  <2>4. f \in Nat \ {0} /\ At(s, y, m + f)
    BY <1>2, <2>1 DEF At
  <2>5. f <= j /\ g <= m + f
    BY <2>1, <2>2, <2>3, <2>4
  <2>6. g = m + f
    BY <1>1, <2>3, <2>4, <2>5
  <2>7. f \in 1 .. Len(x) + 1
    <3>1. f + Len(s) <= Len(x) + 1 /\ Len(s) \in Nat /\ Len(x) \in Nat
      BY <1>1, <2>1 DEF At, Txt
    <3>. QED  BY <2>4, <3>1
  <2>8. Before(r \o x, Len(r) + f) = r \o Before(x, f)
    BY <1>1, <2>7, CutSecond
  <2>. QED  BY <1>1, <2>6, <2>8 DEF f, g, m
<1>. QED  BY <1>4, <1>5 DEF x, y

Detector == [held : Txt, ready : Txt, hit : Nat]

\* The fields of a detector that was pushed to.
LEMMA DetParts ==
  ASSUME NEW d \in Detector, NEW f, NEW a
  PROVE  LET e == [d EXCEPT !.held = f, !.ready = a]
         IN  e.held = f /\ e.ready = a /\ e.hit = d.hit /\ (f \in Txt /\ a \in Txt => e \in Detector)
BY DEF Detector

\* What StopDetector::push makes of text y, of which r was let through: no stop
\* string has come, or one of them is cut off.
PushedTo(r, e, y) ==
  /\ e \in Detector /\ e.ready \in Txt /\ e.held \in Txt
  /\ \/ /\ NoStopIn(y) /\ e.hit = 0
        /\ (r \o e.ready) \o e.held = y
        /\ Len(e.held) = HoldChars \/ r \o e.ready = <<>>
     \/ /\ e.hit \in Nat \ {0} /\ e.held = <<>>
        /\ \E k \in DOMAIN Stops : /\ Occurs(Stops[k], y) # {}
                                   /\ r \o e.ready = Before(y, Find(Stops[k], y))

\* StopDetector::push on text t after r was let through and h held back.
LEMMA PushIs ==
  ASSUME NEW r \in Txt, NEW h \in Txt, NEW t \in Txt,
         NEW d \in Detector, d.held = h, d.ready = <<>>, d.hit = 0,
         NoStopIn(r \o h), Len(h) = HoldChars \/ r = <<>>
  PROVE  PushedTo(r, Push(d, t), (r \o h) \o t)
<1>0. ASSUME NEW s \in Txt, s # <<>>, Len(s) <= HoldChars + 1, Occurs(s, r \o h) = {}
      PROVE  /\ Occurs(s, h \o t) = {} <=> Occurs(s, (r \o h) \o t) = {}
             /\ Occurs(s, h \o t) # {} =>
                  Before((r \o h) \o t, Find(s, (r \o h) \o t)) = r \o Before(h \o t, Find(s, h \o t))
  BY <1>0, StopPlace
<1>. DEFINE x == h \o t  y == (r \o h) \o t  e == Push(d, t)
            hits == {i \in DOMAIN Stops : Occurs(Stops[i], x) # {}}
            k == CHOOSE i \in hits : \A j \in hits : i <= j
            n == Len(x) - HeldBack(x)
<1>1. x \in Txt /\ y \in Txt /\ y = r \o x /\ Len(x) \in Nat /\ Len(h) \in Nat /\ Len(x) = Len(h) + Len(t)
  <2>1. r \o h \in Txt /\ x \in Txt /\ Len(x) \in Nat /\ Len(h) \in Nat /\ Len(x) = Len(h) + Len(t)
    BY TxtJoin
  <2>2. (r \o h) \o t = r \o (h \o t) /\ (r \o h) \o t \in Txt
    BY TxtThree, ZenonT(100)
  <2>. QED  BY <2>1, <2>2
<1>2. e = IF hits # {} THEN [held |-> <<>>, ready |-> d.ready \o Before(x, Find(Stops[k], x)), hit |-> k]
          ELSE [d EXCEPT !.held = From(x, n + 1), !.ready = d.ready \o Before(x, n + 1)]
  BY Zenon DEF Push
<1>3. ASSUME NEW i \in DOMAIN Stops
      PROVE  /\ Occurs(Stops[i], x) = {} <=> Occurs(Stops[i], y) = {}
             /\ Occurs(Stops[i], x) # {} => Before(y, Find(Stops[i], y)) = r \o Before(x, Find(Stops[i], x))
  <2>1. Stops[i] \in Txt /\ Stops[i] # <<>> /\ Len(Stops[i]) <= HoldChars + 1 /\ Occurs(Stops[i], r \o h) = {}
    BY StopTextType, HoldCharsIs DEF NoStopIn
  <2>2. PICK s \in Txt : s = Stops[i] /\ s # <<>> /\ Len(s) <= HoldChars + 1 /\ Occurs(s, r \o h) = {}
    BY <2>1
  <2>. QED  BY <1>0, <2>2
<1>. HIDE DEF x, y, e, k
<1>4. CASE hits # {}
  <2>1. k \in hits
    <3>1. hits \in SUBSET Nat
      BY TextOutAssumption
    <3>2. \E i \in hits : \A j \in hits : i <= j
      BY <1>4, <3>1, LeastNumber
    <3>. HIDE DEF hits
    <3>. QED  BY <3>2, Zenon DEF k
  <2>2. k \in DOMAIN Stops /\ k \in Nat \ {0} /\ Occurs(Stops[k], x) # {}
    BY <2>1, TextOutAssumption
  <2>. DEFINE b == Before(x, Find(Stops[k], x))
  <2>3. b \in Txt
    <3>1. PICK s \in Txt : s = Stops[k] /\ s # <<>>
      BY <2>2, StopTextType
    <3>2. At(s, x, Find(s, x))
      BY <1>1, <2>2, <3>1, FindFirst
    <3>3. Find(s, x) \in 1 .. Len(x) + 1
      <4>1. Len(s) \in Nat
        BY DEF Txt
      <4>. QED  BY <1>1, <3>2, <4>1 DEF At
    <3>. QED  BY <1>1, <3>1, <3>3, Halves
  <2>. HIDE DEF b
  <2>4. <<>> \o b = b
    BY <2>3, ConcatEmptySeq DEF Txt
  <2>5. e = [held |-> <<>>, ready |-> b, hit |-> k]
    BY <1>2, <1>4, <2>4 DEF b
  <2>6. Occurs(Stops[k], y) # {} /\ Before(y, Find(Stops[k], y)) = r \o b
    BY <1>3, <2>2 DEF b
  <2>7. e.hit = k /\ e.held = <<>> /\ e.ready = b
    BY <2>5
  <2>9. e \in Detector
    BY <2>2, <2>3, <2>5, TxtEmpty DEF Detector
  <2>8. /\ e.hit \in Nat \ {0} /\ e.held = <<>> /\ e.ready \in Txt /\ e.held \in Txt /\ e \in Detector
        /\ \E i \in DOMAIN Stops : Occurs(Stops[i], y) # {} /\ r \o e.ready = Before(y, Find(Stops[i], y))
    BY <2>2, <2>3, <2>6, <2>7, <2>9, TxtEmpty
  <2>. QED  BY <2>8, Zenon DEF e, y, PushedTo
<1>5. CASE hits = {}
  <2>1. NoStopIn(y)
    BY <1>3, <1>5 DEF NoStopIn
  <2>2. HeldBack(x) \in 0 .. Len(x) /\ (HeldBack(x) = HoldChars \/ HeldBack(x) = Len(x))
    BY <1>1, HoldCharsIs DEF HeldBack
  <2>. DEFINE b0 == HeldBack(x)  l == Len(x)
  <2>. HIDE DEF b0, l
  <2>3. n + 1 \in 1 .. Len(x) + 1 /\ Len(x) - (n + 1) + 1 = HeldBack(x) /\ (HeldBack(x) = Len(x) => (n + 1) - 1 = 0)
    <3>1. l \in Nat /\ b0 \in 0 .. l /\ n = l - b0
      BY <1>1, <2>2 DEF b0, l
    <3>. HIDE DEF n
    <3>2. n + 1 \in 1 .. l + 1 /\ l - (n + 1) + 1 = b0 /\ (b0 = l => (n + 1) - 1 = 0)
      BY <3>1
    <3>. QED  BY <3>2 DEF b0, l
  <2>. DEFINE a == Before(x, n + 1)  b == From(x, n + 1)
  <2>4. a \in Txt /\ b \in Txt /\ x = a \o b /\ Len(b) = HeldBack(x) /\ (HeldBack(x) = Len(x) => Len(a) = 0)
    <3>. DEFINE o == n + 1
    <3>1. o \in 1 .. Len(x) + 1
      BY <2>3
    <3>. HIDE DEF o, n
    <3>2. /\ Before(x, o) \in Txt /\ Len(Before(x, o)) = o - 1
          /\ From(x, o) \in Txt /\ Len(From(x, o)) = Len(x) - o + 1
          /\ x = Before(x, o) \o From(x, o)
      BY <1>1, <3>1, Halves
    <3>. QED  BY <2>3, <3>2 DEF o
  <2>. HIDE DEF a, b, n, hits
  <2>5. <<>> \o a = a /\ (Len(a) = 0 => a = <<>>) /\ (r = <<>> => r \o a = a)
    BY <2>4, TxtEmpty
  <2>6. e.held = b /\ e.ready = a /\ e.hit = 0 /\ e \in Detector
    <3>1. e = [d EXCEPT !.held = b, !.ready = a]
      BY <1>2, <1>5, <2>5 DEF a, b
    <3>2. PICK c : c = [d EXCEPT !.held = b, !.ready = a]
      OBVIOUS
    <3>3. c.held = b /\ c.ready = a /\ c.hit = d.hit /\ c \in Detector
      BY <2>4, <3>2 DEF Detector
    <3>. QED  BY <3>1, <3>2, <3>3
  <2>7. (r \o a) \o b = y
    <3>1. (r \o a) \o b = r \o (a \o b)
      BY <2>4, TxtAssoc, SMTT(60)
    <3>. QED  BY <1>1, <2>4, <3>1
  <2>8. Len(b) = HoldChars \/ r \o a = <<>>
    <3>1. CASE HeldBack(x) = HoldChars
      BY <2>4, <3>1
    <3>2. CASE HeldBack(x) # HoldChars
      <4>1. HeldBack(x) = Len(x) /\ Len(x) < HoldChars
        BY <1>1, <3>2, HoldCharsIs DEF HeldBack
      <4>2. Len(h) # HoldChars
        <5>1. Len(t) \in Nat
          BY DEF Txt
        <5>. QED  BY <1>1, <4>1, <5>1, HoldCharsIs
      <4>. QED  BY <2>4, <2>5, <4>1, <4>2
    <3>. QED  BY <3>1, <3>2
  <2>10. /\ NoStopIn(y) /\ e.hit = 0 /\ e.held \in Txt /\ e.ready \in Txt
         /\ e \in Detector
         /\ (r \o e.ready) \o e.held = y
         /\ Len(e.held) = HoldChars \/ r \o e.ready = <<>>
    BY <2>1, <2>4, <2>6, <2>7, <2>8
  <2>. QED  BY <2>10, Zenon DEF e, y, PushedTo
<1>. QED  BY <1>4, <1>5

-------------------------------------------------------------------------------
(* CutAtStop.                                                                 *)

\* What was let through and what the detector holds are the text said so far.
Held(r, d, said) ==
  /\ d.hit = 0 /\ d.ready = <<>> /\ NoStopIn(said) /\ r \o d.held = said
  /\ Len(d.held) = HoldChars \/ r = <<>>

\* What was let through ends at a stop string of the text.
CutOff(r, said) == \E k \in DOMAIN Stops : Occurs(Stops[k], said) # {} /\ r = Before(said, Find(Stops[k], said))

\* At the end of a round the rest is let through.
CutWhen(r, d, f, q, b) ==
  IF f = "word" THEN /\ d.held = <<>> /\ CutOff(r \o d.ready, Decode(q))
                     /\ NoStopIn(Decode(SubSeq(q, 1, b)))
  ELSE Held(r, d, Decode(q))

StopType == ids \in Seq(Pieces) /\ before \in Nat /\ raw \in Txt /\ det \in Detector

StopInv ==
  /\ StopType
  /\ phase = "reading" => Held(raw, det, Said)
  /\ phase = "tail" => CutWhen(raw, det, finish, ids, before)
  /\ Settled => /\ det = NewDetector
                /\ IF finish = "word" THEN CutOff(raw, Said) /\ NoStopIn(Decode(SubSeq(ids, 1, before)))
                   ELSE NoStopIn(Said) /\ raw = Said

\* The empty text is one.
LEMMA NothingTxt == <<>> \in Txt
BY DEF Txt

\* Before the first token.
LEMMA NothingSaid ==
  /\ <<>> \in Txt /\ <<>> \in Seq(Pieces) /\ Decode(<<>>) = <<>> /\ NoStopIn(<<>>)
  /\ NewDetector \in Detector /\ Held(<<>>, NewDetector, <<>>)
<1>1. <<>> \in Txt /\ <<>> \in Seq(Pieces) /\ <<>> \o <<>> = <<>>
  BY DEF Txt
<1>2. Decode(<<>>) = <<>>
  BY DEF Decode, FlattenSeq
<1>3. NoStopIn(<<>>)
  <2>. SUFFICES ASSUME NEW k \in DOMAIN Stops PROVE Occurs(Stops[k], <<>>) = {}
    BY DEF NoStopIn
  <2>1. PICK n \in Nat \ {0} : n = Len(Stops[k])
    BY StopTextType
  <2>2. 1 .. Len(<<>>) - n + 1 = {}
    BY <2>1
  <2>. QED  BY <2>1, <2>2 DEF Occurs
<1>4. NewDetector.held = <<>> /\ NewDetector.ready = <<>> /\ NewDetector.hit = 0 /\ NewDetector \in Detector
  BY <1>1 DEF NewDetector, Detector
<1>. QED  BY <1>1, <1>2, <1>3, <1>4 DEF Held

\* Taking what is ready.
LEMMA TakenIs ==
  ASSUME NEW d \in Detector
  PROVE  /\ Taken(d) \in Detector /\ Taken(d).held = d.held /\ Taken(d).hit = d.hit
         /\ Taken(d).ready = <<>>
BY NothingTxt DEF Taken, Detector

\* The tokens before the last event are the first ones of all.
LEMMA PartOfConcat ==
  ASSUME NEW q \in Seq(Pieces), NEW new \in Seq(Pieces), NEW p, p = q \o new
  PROVE  SubSeq(p, 1, Len(q)) = q
<1>1. /\ p \in Seq(Pieces) /\ Len(q) \in Nat /\ Len(new) \in Nat /\ Len(p) = Len(q) + Len(new)
      /\ \A i \in 1 .. Len(q) : p[i] = q[i]
  BY Joint
<1>. DEFINE u == SubSeq(p, 1, Len(q))
<1>2. u \in Seq(Pieces) /\ Len(u) = Len(q) /\ \A i \in 1 .. Len(q) : u[i] = p[i]
  BY <1>1
<1>. HIDE DEF u
<1>. QED  BY <1>1, <1>2, SeqEqual DEF u

\* Tokens arrive.
LEMMA TokensCut ==
  ASSUME NEW q \in Seq(Pieces), NEW new \in Seq(Pieces), NEW r \in Txt, NEW d0 \in Detector,
         Held(r, d0, Decode(q)), NEW d, d = Push(d0, Decode(new)),
         NEW p, p = q \o new
  PROVE  /\ d \in Detector /\ d.ready \in Txt /\ r \o d.ready \in Txt
         /\ d.hit = 0 => Held(r \o d.ready, Taken(d), Decode(p))
         /\ d.hit # 0 => CutWhen(r, d, "word", p, Len(q))
<1>. DEFINE t == Decode(new)  h == d0.held
<1>1. t \in Txt /\ h \in Txt /\ Decode(q) \in Txt
  BY DecodeType DEF Detector
<1>2. r \o h = Decode(q) /\ NoStopIn(r \o h) /\ (Len(h) = HoldChars \/ r = <<>>) /\ d0.ready = <<>> /\ d0.hit = 0
  BY DEF Held
<1>3. Decode(p) = Decode(q) \o t
  BY DecodeConcat
<1>. HIDE DEF t, h
<1>4. h = d0.held
  BY DEF h
<1>. DEFINE y == (r \o h) \o t
<1>5. PushedTo(r, d, y)
  <2>1. \A g \in Txt : g = d0.held /\ NoStopIn(r \o g) /\ (Len(g) = HoldChars \/ r = <<>>)
                       => PushedTo(r, Push(d0, t), (r \o g) \o t)
    BY <1>1, <1>2, PushIs, ZenonT(60)
  <2>2. d = Push(d0, t)
    BY DEF t
  <2>. QED  BY <1>1, <1>2, <1>4, <2>1, <2>2, ZenonT(60)
<1>6. y = Decode(p)
  BY <1>2, <1>3
<1>. HIDE DEF y
<1>7. d \in Detector /\ d.ready \in Txt /\ r \o d.ready \in Txt
  BY <1>5, TxtJoin DEF PushedTo
<1>8. CASE d.hit = 0
  <2>1. Held(r \o d.ready, Taken(d), Decode(p))
    BY <1>5, <1>6, <1>7, <1>8, TakenIs DEF Held, PushedTo
  <2>. QED  BY <1>7, <1>8, <2>1
<1>9. CASE d.hit # 0
  <2>1. CutOff(r \o d.ready, Decode(p)) /\ d.held = <<>>
    BY <1>5, <1>6, <1>9 DEF CutOff, PushedTo
  <2>2. SubSeq(p, 1, Len(q)) = q
    BY PartOfConcat
  <2>3. NoStopIn(Decode(SubSeq(p, 1, Len(q))))
    BY <1>2, <2>2
  <2>4. CutWhen(r, d, "word", p, Len(q))
    BY <2>1, <2>3 DEF CutWhen
  <2>. QED  BY <1>7, <1>9, <2>4
<1>. QED  BY <1>8, <1>9

\* The rest is let through.
LEMMA RestCut ==
  ASSUME NEW r \in Txt, NEW d \in Detector, NEW f, NEW q \in Seq(Pieces), NEW b,
         CutWhen(r, d, f, q, b)
  PROVE  /\ r \o Finished(d) \in Txt /\ Finished(d) \in Txt
         /\ IF f = "word" THEN CutOff(r \o Finished(d), Decode(q)) /\ NoStopIn(Decode(SubSeq(q, 1, b)))
            ELSE NoStopIn(Decode(q)) /\ r \o Finished(d) = Decode(q)
<1>1. PICK u \in Txt, v \in Txt : u = d.ready /\ v = d.held
  BY DEF Detector
<1>2. Finished(d) = u \o v
  BY <1>1 DEF Finished
<1>3. u \o v \in Txt /\ r \o (u \o v) \in Txt
  BY TxtJoin
<1>4. CASE f = "word"
  <2>1. v = <<>> /\ CutOff(r \o u, Decode(q)) /\ NoStopIn(Decode(SubSeq(q, 1, b)))
    BY <1>1, <1>4 DEF CutWhen
  <2>2. u \o v = u
    BY <2>1, TxtEmpty
  <2>. QED  BY <1>2, <1>3, <1>4, <2>1, <2>2
<1>5. CASE f # "word"
  <2>1. u = <<>> /\ r \o v = Decode(q) /\ NoStopIn(Decode(q))
    BY <1>1, <1>5 DEF CutWhen, Held
  <2>2. u \o v = v
    BY <2>1, TxtEmpty
  <2>. QED  BY <1>2, <1>3, <1>5, <2>1, <2>2
<1>. QED  BY <1>4, <1>5

\* It holds at the start.
LEMMA StopInit ==
  ASSUME Init
  PROVE  StopInv
<1>1. /\ phase = "reading" /\ det = NewDetector /\ ids = <<>> /\ before = 0 /\ raw = <<>>
  BY DEF Init
<1>2. Said = <<>>
  BY <1>1, NothingSaid DEF Said
<1>. QED  BY <1>1, <1>2, NothingSaid DEF StopInv, StopType, Settled

\* SlotEvent::Tokens: a stop string is hit, or what is ready is parsed.
LEMMA ReceiveIs ==
  ASSUME StopInv, Receive
  PROVE  \E new \in Seq(Pieces), d \in Detector :
           /\ phase = "reading" /\ ids' = ids \o new /\ before' = Len(ids)
           /\ ids' \in Seq(Pieces) /\ before' \in Nat
           /\ d.ready \in Txt /\ raw \o d.ready \in Txt
           /\ UNCHANGED <<attempts, rounds>>
           /\ \/ /\ finish' = "word" /\ phase' = "tail" /\ det' = d
                 /\ CutWhen(raw, d, "word", ids', Len(ids))
                 /\ UNCHANGED <<raw, parser, malformed, emitter, events>>
              \/ /\ Deliver(d.ready, FALSE) /\ raw' = raw \o d.ready
                 /\ det' = Taken(d) /\ Held(raw \o d.ready, Taken(d), Decode(ids'))
                 /\ UNCHANGED <<finish, phase>>
<1>. DEFINE P(new, d) ==
              /\ phase = "reading" /\ d = Push(det, Decode(new))
              /\ ids' = ids \o new /\ before' = Len(ids)
              /\ IF d.hit > 0
                   THEN /\ finish' = "word" /\ phase' = "tail" /\ det' = d
                        /\ UNCHANGED <<raw, parser, malformed, emitter, events>>
                   ELSE Deliver(d.ready, FALSE) /\ det' = Taken(d) /\ UNCHANGED <<finish, phase>>
<1>1. PICK n \in 1 .. MaxPerEvent : \E new \in [1 .. n -> Pieces] : \E d : P(new, d)
  BY Zenon DEF Receive
<1>2. \A new \in [1 .. n -> Pieces] : new \in Seq(Pieces)
  <2>1. n \in Nat
    BY MessageAssumption
  <2>. QED  BY <2>1
<1>3. PICK new, d : new \in Seq(Pieces) /\ P(new, d)
  BY <1>1, <1>2
<1>4. /\ d \in Detector /\ d.ready \in Txt /\ raw \o d.ready \in Txt
      /\ d.hit = 0 => Held(raw \o d.ready, Taken(d), Decode(ids'))
      /\ d.hit # 0 => CutWhen(raw, d, "word", ids', Len(ids))
  <2>1. PICK p : p = ids \o new
    OBVIOUS
  <2>2. Held(raw, det, Decode(ids))
    BY <1>3 DEF StopInv, Said
  <2>. QED  BY <1>3, <2>1, <2>2, TokensCut DEF StopInv, StopType
<1>5. ids' \in Seq(Pieces) /\ before' \in Nat
  BY <1>3, DecodeConcat DEF StopInv, StopType
<1>6. d.hit \in Nat
  BY <1>4 DEF Detector
<1>7. UNCHANGED <<attempts, rounds>>
  BY DEF Receive
<1>8. /\ phase = "reading" /\ ids' = ids \o new /\ before' = Len(ids)
      /\ ids' \in Seq(Pieces) /\ before' \in Nat
      /\ d.ready \in Txt /\ raw \o d.ready \in Txt
      /\ UNCHANGED <<attempts, rounds>>
  BY <1>3, <1>4, <1>5, <1>7
<1>9. \/ /\ finish' = "word" /\ phase' = "tail" /\ det' = d
         /\ CutWhen(raw, d, "word", ids', Len(ids))
         /\ UNCHANGED <<raw, parser, malformed, emitter, events>>
      \/ /\ Deliver(d.ready, FALSE) /\ raw' = raw \o d.ready
         /\ det' = Taken(d) /\ Held(raw \o d.ready, Taken(d), Decode(ids'))
         /\ UNCHANGED <<finish, phase>>
  <2>1. CASE d.hit > 0
    <3>1. /\ finish' = "word" /\ phase' = "tail" /\ det' = d
          /\ UNCHANGED <<raw, parser, malformed, emitter, events>>
      BY <1>3, <2>1, Zenon
    <3>2. d.hit # 0
      BY <1>6, <2>1
    <3>. QED  BY <1>4, <3>1, <3>2, Zenon
  <2>2. CASE ~(d.hit > 0)
    <3>1. Deliver(d.ready, FALSE) /\ det' = Taken(d) /\ UNCHANGED <<finish, phase>>
      BY <1>3, <2>2
    <3>2. raw' = raw \o d.ready
      BY <3>1, Zenon DEF Deliver
    <3>3. d.hit = 0
      BY <1>6, <2>2
    <3>. QED  BY <1>4, <3>1, <3>2, <3>3, Zenon
  <2>. QED  BY <2>1, <2>2
<1>. HIDE DEF P
<1>. QED  BY <1>3, <1>4, <1>8, <1>9, Zenon

\* It is kept by every step.
LEMMA StopNext ==
  ASSUME StopInv, [Next]_vars
  PROVE  StopInv'
<1>1. CASE Receive
  <2>1. PICK new \in Seq(Pieces), d \in Detector :
           /\ phase = "reading" /\ ids' = ids \o new /\ before' = Len(ids)
           /\ ids' \in Seq(Pieces) /\ before' \in Nat
           /\ d.ready \in Txt /\ raw \o d.ready \in Txt
           /\ UNCHANGED <<attempts, rounds>>
           /\ \/ /\ finish' = "word" /\ phase' = "tail" /\ det' = d
                 /\ CutWhen(raw, d, "word", ids', Len(ids))
                 /\ UNCHANGED <<raw, parser, malformed, emitter, events>>
              \/ /\ Deliver(d.ready, FALSE) /\ raw' = raw \o d.ready
                 /\ det' = Taken(d) /\ Held(raw \o d.ready, Taken(d), Decode(ids'))
                 /\ UNCHANGED <<finish, phase>>
    BY <1>1, ReceiveIs
  <2>2. CASE /\ finish' = "word" /\ phase' = "tail" /\ det' = d
             /\ CutWhen(raw, d, "word", ids', Len(ids)) /\ raw' = raw
    BY <2>1, <2>2 DEF StopInv, StopType, Settled
  <2>3. CASE /\ raw' = raw \o d.ready /\ det' = Taken(d) /\ Held(raw \o d.ready, Taken(d), Decode(ids'))
             /\ UNCHANGED <<finish, phase>>
    <3>1. /\ phase = "reading" /\ phase' = "reading" /\ raw' \in Txt
      BY <2>1, <2>3
    <3>2. Taken(d) \in Detector
      BY TakenIs
    <3>. QED  BY <2>1, <2>3, <3>1, <3>2 DEF StopInv, StopType, Settled, Said
  <2>. QED  BY <2>1, <2>2, <2>3
<1>2. CASE ReceiveDone
  <2>1. /\ phase = "reading" /\ phase' = "tail" /\ finish' \in {"eos", "limit"}
        /\ UNCHANGED <<det, ids, before, raw>>
    BY <1>2 DEF ReceiveDone
  <2>. QED  BY <2>1 DEF StopInv, StopType, Settled, Said, CutWhen
<1>3. CASE ReceiveError
  <2>1. phase' = "failed" /\ UNCHANGED <<det, ids, before, raw>>
    BY <1>3 DEF ReceiveError
  <2>. QED  BY <2>1 DEF StopInv, StopType, Settled
<1>4. CASE ParseRest
  <2>1. /\ phase = "tail" /\ phase' = "decide" /\ raw' = raw \o Finished(det) /\ det' = NewDetector
        /\ UNCHANGED <<finish, ids, before>>
    BY <1>4, Zenon DEF ParseRest, Deliver
  <2>2. /\ raw' \in Txt
        /\ IF finish = "word" THEN CutOff(raw', Decode(ids)) /\ NoStopIn(Decode(SubSeq(ids, 1, before)))
           ELSE NoStopIn(Decode(ids)) /\ raw' = Decode(ids)
    BY <2>1, RestCut DEF StopInv, StopType
  <2>. QED  BY <2>1, <2>2, NothingSaid DEF StopInv, StopType, Settled, Said
<1>5. CASE Retry
  <2>1. /\ phase = "decide" /\ phase' = "reading" /\ ids' = <<>> /\ before' = 0 /\ raw' = <<>>
        /\ det' = det
    BY <1>5 DEF Retry
  <2>. QED  BY <2>1, NothingSaid DEF StopInv, StopType, Settled, Said
<1>6. CASE End
  <2>1. /\ phase = "decide" /\ phase' = "ended" /\ UNCHANGED <<det, finish, ids, before, raw>>
    BY <1>6, Zenon DEF End
  <2>. QED  BY <2>1 DEF StopInv, StopType, Settled, Said
<1>7. CASE UNCHANGED vars
  BY <1>7 DEF vars, StopInv, StopType, Settled, Said
<1>. QED  BY <1>1, <1>2, <1>3, <1>4, <1>5, <1>6, <1>7 DEF Next

\* A message is cut at a stop string's first occurrence, found in the event that
\* completes it, and nothing else of its text is lost or let through too early:
\* StopDetector and the order stream_messages calls it in, for any stop strings.
THEOREM StopCutExact == Spec => []CutAtStop
<1>1. StopInv => CutAtStop
  BY DEF StopInv, CutAtStop, Held, Settled, CutOff, Said
<1>. QED  BY <1>1, StopInit, StopNext, PTL DEF Spec

-------------------------------------------------------------------------------
(* The parser: types.                                                         *)

Tags == {ToolOpen, ThinkOpen}
Item == [kind : {"text", "call", "malformed"}, body : Txt]

\* A set of numbers up to n has a greatest element.
LEMMA GreatestNumber ==
  ASSUME NEW n \in Nat, NEW T \in SUBSET (0 .. n), T # {}
  PROVE  \E x \in T : \A y \in T : y <= x
<1>. DEFINE D == {n - y : y \in T}
<1>01. \A y \in T : y \in 0 .. n
  BY Zenon
<1>02. \A y \in T : y \in Nat /\ y <= n /\ n - y \in Nat
  BY <1>01
<1>1. D \in SUBSET Nat /\ D # {}
  BY <1>02
<1>2. PICK d \in D : \A e \in D : d <= e
  BY <1>1, LeastNumber
<1>3. PICK x \in T : d = n - x
  OBVIOUS
<1>4. \A y \in T : n - x <= n - y
  BY <1>2, <1>3
<1>5. \A y \in T : y \in Nat /\ y <= n
  BY <1>02
<1>6. \A y \in T : y <= x
  <2>. TAKE y \in T
  <2>1. n - x <= n - y /\ x \in Nat /\ y \in Nat
    BY <1>4, <1>5
  <2>. QED  BY <2>1
<1>. QED  BY <1>6

\* The tags are texts with something in them.
LEMMA TagTypes ==
  /\ \A t \in {ToolOpen, ToolClose, ThinkOpen, ThinkClose} : t \in Txt /\ t # <<>> /\ Len(t) \in Nat \ {0}
  /\ \A t \in Tags : t \in Txt /\ t # <<>> /\ Len(t) \in Nat \ {0}
<1>1. \A t \in {ToolOpen, ToolClose, ThinkOpen, ThinkClose} : t \in Txt /\ t # <<>> /\ Len(t) \in Nat \ {0}
  <2>. TAKE t \in {ToolOpen, ToolClose, ThinkOpen, ThinkClose}
  <2>1. t \in Seq(Char) /\ t # <<>>
    BY MessageAssumption
  <2>. QED  BY <2>1 DEF Txt
<1>. QED  BY <1>1 DEF Tags

\* trim() yields a text.
LEMMA TrimType ==
  ASSUME NEW x \in Txt
  PROVE  Trim(x) \in Txt
<1>. DEFINE solid == {i \in 1 .. Len(x) : x[i] # Blank}
<1>1. CASE solid = {}
  <2>1. Trim(x) = <<>>
    BY <1>1 DEF Trim
  <2>. QED  BY <2>1, NothingTxt
<1>2. CASE solid # {}
  <2>1. Len(x) \in Nat
    BY DEF Txt
  <2>2. solid \in SUBSET Nat /\ solid \in SUBSET (0 .. Len(x)) /\ solid \in SUBSET (1 .. Len(x))
    BY <2>1
  <2>. DEFINE a == CHOOSE i \in solid : \A j \in solid : i <= j
              b == CHOOSE i \in solid : \A j \in solid : j <= i
  <2>3. Trim(x) = SubSeq(x, a, b)
    BY <1>2 DEF Trim
  <2>4. \E i \in solid : \A j \in solid : i <= j
    <3>. HIDE DEF solid
    <3>. QED  BY <1>2, <2>2, LeastNumber
  <2>5. \E i \in solid : \A j \in solid : j <= i
    <3>. HIDE DEF solid
    <3>. QED  BY <1>2, <2>1, <2>2, GreatestNumber
  <2>6. a \in solid /\ b \in solid
    <3>. HIDE DEF solid
    <3>. QED  BY <2>4, <2>5, Zenon
  <2>. HIDE DEF a, b
  <2>7. a \in 1 .. Len(x) /\ b \in 1 .. Len(x)
    BY <2>6
  <2>8. SubSeq(x, a, b) \in Seq(Char)
    BY <2>1, <2>7 DEF Txt
  <2>. QED  BY <2>3, <2>8 DEF Txt
<1>. QED  BY <1>1, <1>2

\* What the parser makes of a text.
LEMMA ItemTypes ==
  ASSUME NEW x \in Txt
  PROVE  /\ Text(x) \in Item /\ ParseCall(x) \in Item /\ ParseCall(x).kind # "text"
         /\ Text(x).kind = "text" /\ Text(x).body = x
         /\ Outside(x) \in Seq(Item)
<1>1. Text(x) \in Item /\ Text(x).kind = "text" /\ Text(x).body = x
  BY DEF Text, Item
<1>2. ParseCall(x) \in Item /\ ParseCall(x).kind # "text"
  <2>. DEFINE y == Trim(x)
  <2>1. y \in Txt
    BY TrimType
  <2>2. ParseCall(x) = IF y \in Calls THEN ToolCall(y) ELSE Malformed(y)
    BY DEF ParseCall
  <2>. HIDE DEF y
  <2>3. /\ ToolCall(y) \in Item /\ Malformed(y) \in Item
        /\ ToolCall(y).kind # "text" /\ Malformed(y).kind # "text"
    BY <2>1 DEF ToolCall, Malformed, Item
  <2>. QED  BY <2>2, <2>3
<1>3. Outside(x) \in Seq(Item)
  <2>1. Outside(x) = <<>> \/ Outside(x) = <<Text(x)>>
    BY DEF Outside
  <2>2. PICK e \in Item : e = Text(x)
    BY <1>1
  <2>3. <<e>> \in Seq(Item) /\ <<>> \in Seq(Item)
    OBVIOUS
  <2>. QED  BY <2>1, <2>2, <2>3
<1>. QED  BY <1>1, <1>2, <1>3

\* The first place of a tag cuts a text in two, or in three.
LEMMA FindPlace ==
  ASSUME NEW t \in Txt, t # <<>>, NEW x \in Txt, Occurs(t, x) # {}
  PROVE  /\ Find(t, x) \in 1 .. Len(x) /\ Find(t, x) + Len(t) \in 1 .. Len(x) + 1
         /\ Before(x, Find(t, x)) \in Txt /\ Len(Before(x, Find(t, x))) = Find(t, x) - 1
         /\ After(x, t) \in Txt /\ Len(After(x, t)) = Len(x) + 1 - Find(t, x) - Len(t)
         /\ Len(After(x, t)) < Len(x)
<1>. DEFINE f == Find(t, x)  m == Len(t)  n == Len(x)
<1>1. m \in Nat \ {0} /\ n \in Nat
  BY DEF Txt
<1>2. f \in Nat \ {0} /\ f + m <= n + 1
  BY FindFirst DEF At
<1>. HIDE DEF f, m, n
<1>3. f \in 1 .. n /\ f \in 1 .. n + 1 /\ f + m \in 1 .. n + 1
  BY <1>1, <1>2
<1>4. Before(x, f) \in Txt /\ Len(Before(x, f)) = f - 1
  <2>1. f \in 1 .. Len(x) + 1
    BY <1>3 DEF n
  <2>. QED  BY <2>1, Halves
<1>5. From(x, f + m) \in Txt /\ Len(From(x, f + m)) = n - (f + m) + 1
  <2>. DEFINE g == f + m
  <2>1. g \in 1 .. Len(x) + 1
    BY <1>3 DEF n
  <2>. HIDE DEF g
  <2>2. From(x, g) \in Txt /\ Len(From(x, g)) = Len(x) - g + 1
    BY <2>1, Halves
  <2>. QED  BY <2>2 DEF n, g
<1>6. After(x, t) = From(x, f + m)
  BY DEF After, f, m
<1>7. n - (f + m) + 1 < n /\ n - (f + m) + 1 = n + 1 - f - m
  BY <1>1, <1>2
<1>8. /\ f \in 1 .. n /\ f + m \in 1 .. n + 1
      /\ Before(x, f) \in Txt /\ Len(Before(x, f)) = f - 1
      /\ After(x, t) \in Txt /\ Len(After(x, t)) = n + 1 - f - m
      /\ Len(After(x, t)) < n
  BY <1>3, <1>4, <1>5, <1>6, <1>7
<1>. QED  BY <1>8 DEF f, m, n

\* The opening tag that comes first.
LEMMA OpenerIs ==
  ASSUME NEW x \in Txt
  PROVE  /\ Opener(x) = <<>> <=> \A t \in Tags : Occurs(t, x) = {}
         /\ Opener(x) # <<>> => /\ Opener(x) \in Tags /\ Occurs(Opener(x), x) # {}
                                /\ \A u \in Tags : Occurs(u, x) # {} => Find(Opener(x), x) <= Find(u, x)
<1>. DEFINE open == {t \in Tags : Occurs(t, x) # {}}
<1>1. Opener(x) = IF open = {} THEN <<>> ELSE CHOOSE t \in open : \A u \in open : Find(t, x) <= Find(u, x)
  BY DEF Opener, Tags
<1>2. CASE open = {}
  BY <1>1, <1>2
<1>3. CASE open # {}
  <2>1. \A t \in open : t \in Txt /\ t # <<>> /\ Occurs(t, x) # {}
    BY TagTypes
  <2>2. \A t \in open : Find(t, x) \in Nat
    BY <2>1, FindPlace
  <2>3. \E t \in open : \A u \in open : Find(t, x) <= Find(u, x)
    <3>1. PICK a \in open : TRUE
      BY <1>3
    <3>2. CASE \A u \in open : Find(a, x) <= Find(u, x)
      BY <3>1, <3>2
    <3>3. CASE ~ \A u \in open : Find(a, x) <= Find(u, x)
      <4>1. PICK b \in open : ~(Find(a, x) <= Find(b, x))
        BY <3>3
      <4>2. Find(a, x) \in Nat /\ Find(b, x) \in Nat /\ Find(b, x) <= Find(a, x) /\ a # b
        BY <2>2, <4>1
      <4>3. \A u \in open : u = a \/ u = b
        BY <4>2 DEF Tags
      <4>4. \A u \in open : Find(b, x) <= Find(u, x)
        BY <4>2, <4>3
      <4>. QED  BY <4>4
    <3>. QED  BY <3>2, <3>3
  <2>. DEFINE o == CHOOSE t \in open : \A u \in open : Find(t, x) <= Find(u, x)
  <2>4. o \in open /\ \A u \in open : Find(o, x) <= Find(u, x)
    <3>. HIDE DEF open
    <3>. QED  BY <2>3, Zenon
  <2>5. Opener(x) = o
    BY <1>1, <1>3
  <2>. HIDE DEF o
  <2>6. o # <<>>
    BY <2>1, <2>4
  <2>7. o \in Tags /\ Occurs(o, x) # {} /\ \A u \in Tags : Occurs(u, x) # {} => Find(o, x) <= Find(u, x)
    BY <2>4
  <2>8. ~ \A t \in Tags : Occurs(t, x) = {}
    BY <1>3
  <2>. QED  BY <2>5, <2>6, <2>7, <2>8
<1>. QED  BY <1>2, <1>3

\* The last n characters of x are less than a tag, and begin one.
BeginsTag(x, n) == \E t \in Tags : n < Len(t) /\ IsPrefix(From(x, Len(x) - n + 1), t)

\* holdback_len is the longest suffix that may begin a tag.
LEMMA HoldbackIs ==
  ASSUME NEW x \in Txt
  PROVE  /\ Holdback(x) \in 0 .. Len(x) /\ Len(x) \in Nat /\ BeginsTag(x, Holdback(x))
         /\ \A n \in 0 .. Len(x) : BeginsTag(x, n) => n <= Holdback(x)
<1>. DEFINE fits == {n \in 0 .. Len(x) : BeginsTag(x, n)}
<1>1. Holdback(x) = CHOOSE n \in fits : \A m \in fits : m <= n
  BY DEF Holdback, BeginsTag, Tags
<1>2. Len(x) \in Nat
  BY DEF Txt
<1>3. BeginsTag(x, 0)
  <2>1. From(x, Len(x) - 0 + 1) = <<>>
    BY <1>2 DEF From, Txt
  <2>2. ToolOpen \in Tags /\ Len(ToolOpen) \in Nat \ {0}
    BY TagTypes DEF Tags
  <2>3. IsPrefix(<<>>, ToolOpen)
    BY <2>2 DEF IsPrefix
  <2>4. 0 < Len(ToolOpen)
    BY <2>2
  <2>. QED  BY <2>1, <2>2, <2>3, <2>4 DEF BeginsTag
<1>4. 0 \in fits /\ fits \in SUBSET (0 .. Len(x))
  BY <1>2, <1>3
<1>. HIDE DEF fits
<1>5. \E n \in fits : \A m \in fits : m <= n
  BY <1>2, <1>4, GreatestNumber
<1>6. Holdback(x) \in fits /\ \A m \in fits : m <= Holdback(x)
  BY <1>1, <1>5, Zenon
<1>. QED  BY <1>2, <1>6 DEF fits

Mode == {"text", "tool", "think"}
Parser == [mode : Mode, buf : Txt]
Running == [mode : Mode, buf : Txt, out : Seq(Item), left : BOOLEAN]

Ready(x) == Len(x) - Holdback(x)
Closer(m) == IF m = "tool" THEN ToolClose ELSE ThinkClose

\* What a turn of the parser does, field by field.
TurnTo(p, q) ==
  \/ p.left /\ q = p
  \/ /\ ~p.left /\ p.mode = "text" /\ Opener(p.buf) # <<>>
     /\ q.mode = (IF Opener(p.buf) = ToolOpen THEN "tool" ELSE "think")
     /\ q.buf = After(p.buf, Opener(p.buf)) /\ q.left = FALSE
     /\ q.out = p.out \o Outside(Before(p.buf, Find(Opener(p.buf), p.buf)))
  \/ /\ ~p.left /\ p.mode = "text" /\ Opener(p.buf) = <<>>
     /\ q.mode = "text" /\ q.left = TRUE
     /\ q.buf = From(p.buf, Ready(p.buf) + 1)
     /\ q.out = p.out \o Outside(Before(p.buf, Ready(p.buf) + 1))
  \/ /\ ~p.left /\ p.mode # "text" /\ Occurs(Closer(p.mode), p.buf) # {}
     /\ q.mode = "text" /\ q.left = FALSE /\ q.buf = After(p.buf, Closer(p.mode))
     /\ q.out = (IF p.mode = "tool" THEN Append(p.out, ParseCall(Before(p.buf, Find(ToolClose, p.buf)))) ELSE p.out)
  \/ /\ ~p.left /\ p.mode # "text" /\ Occurs(Closer(p.mode), p.buf) = {}
     /\ q.mode = p.mode /\ q.left = TRUE /\ q.buf = p.buf /\ q.out = p.out

\* The fields of a parser after a turn.
LEMMA WithParts ==
  ASSUME NEW p \in Running, NEW m, NEW b, NEW o
  PROVE  /\ LET q == [p EXCEPT !.mode = m, !.buf = b, !.out = o] IN
              q.mode = m /\ q.buf = b /\ q.out = o /\ q.left = p.left
         /\ LET q == [p EXCEPT !.left = TRUE, !.buf = b, !.out = o] IN
              q.mode = p.mode /\ q.buf = b /\ q.out = o /\ q.left = TRUE
         /\ LET q == [p EXCEPT !.left = TRUE] IN
              q.mode = p.mode /\ q.buf = p.buf /\ q.out = p.out /\ q.left = TRUE
BY DEF Running

\* It is one that can go on.
LEMMA WithTypes ==
  ASSUME NEW p \in Running, NEW m \in Mode, NEW b \in Txt, NEW o \in Seq(Item)
  PROVE  /\ [p EXCEPT !.mode = m, !.buf = b, !.out = o] \in Running
         /\ [p EXCEPT !.left = TRUE, !.buf = b, !.out = o] \in Running
         /\ [p EXCEPT !.left = TRUE] \in Running
BY DEF Running

\* The last part of a text that may begin a tag is kept.
LEMMA KeptBack ==
  ASSUME NEW x \in Txt
  PROVE  /\ Ready(x) + 1 \in 1 .. Len(x) + 1 /\ Ready(x) \in 0 .. Len(x)
         /\ Before(x, Ready(x) + 1) \in Txt /\ Len(Before(x, Ready(x) + 1)) = Ready(x)
         /\ From(x, Ready(x) + 1) \in Txt /\ Len(From(x, Ready(x) + 1)) = Holdback(x)
         /\ x = Before(x, Ready(x) + 1) \o From(x, Ready(x) + 1)
<1>. DEFINE n == Len(x)  k == Holdback(x)  r == Ready(x)
<1>1. n \in Nat /\ k \in 0 .. n /\ r = n - k
  BY HoldbackIs DEF Ready
<1>. HIDE DEF n, k, r
<1>. DEFINE i == r + 1
<1>2. i \in 1 .. n + 1 /\ i - 1 = r /\ n - i + 1 = k /\ r \in 0 .. n
  BY <1>1
<1>. HIDE DEF i
<1>3. i \in 1 .. Len(x) + 1
  BY <1>2 DEF n
<1>4. /\ Before(x, i) \in Txt /\ Len(Before(x, i)) = i - 1
      /\ From(x, i) \in Txt /\ Len(From(x, i)) = Len(x) - i + 1
      /\ x = Before(x, i) \o From(x, i)
  BY <1>3, Halves
<1>. QED  BY <1>2, <1>3, <1>4 DEF n, k, r, i

\* A turn does what TurnTo says.
LEMMA TurnIs ==
  ASSUME NEW p \in Running
  PROVE  Turn(p) \in Running /\ TurnTo(p, Turn(p))
<1>. DEFINE x == p.buf  open == Opener(x)  q == Turn(p)
            close == IF p.mode = "tool" THEN ToolClose ELSE ThinkClose
            mode1 == IF open = ToolOpen THEN "tool" ELSE "think"
            out1 == p.out \o Outside(Before(x, Find(open, x)))
            out2 == p.out \o Outside(Before(x, Ready(x) + 1))
            out3 == IF p.mode = "tool" THEN Append(p.out, ParseCall(Before(x, Find(close, x)))) ELSE p.out
            buf1 == After(x, open)  buf2 == From(x, Ready(x) + 1)  buf3 == After(x, close)
<1>1. x \in Txt /\ p.mode \in Mode /\ p.out \in Seq(Item) /\ p.left \in BOOLEAN
  BY DEF Running
<1>2. q = CASE p.left -> p
            [] ~p.left /\ p.mode = "text" /\ open # <<>> -> [p EXCEPT !.mode = mode1, !.buf = buf1, !.out = out1]
            [] ~p.left /\ p.mode = "text" /\ open = <<>> -> [p EXCEPT !.left = TRUE, !.buf = buf2, !.out = out2]
            [] ~p.left /\ p.mode # "text" /\ Occurs(close, x) # {} -> [p EXCEPT !.mode = "text", !.buf = buf3, !.out = out3]
            [] OTHER -> [p EXCEPT !.left = TRUE]
  BY Zenon DEF Turn, Ready
<1>3. close = Closer(p.mode) /\ (p.mode = "tool" => close = ToolClose) /\ close \in Txt /\ close # <<>>
  BY TagTypes DEF Closer
<1>4. Before(x, Ready(x) + 1) \in Txt /\ buf2 \in Txt
  BY <1>1, KeptBack
<1>5. ASSUME open # <<>> PROVE Before(x, Find(open, x)) \in Txt /\ buf1 \in Txt
  <2>1. open \in Tags /\ Occurs(open, x) # {}
    BY <1>1, <1>5, OpenerIs
  <2>2. open \in Txt /\ open # <<>>
    BY <2>1, TagTypes
  <2>. HIDE DEF open, x
  <2>. QED  BY <1>1, <2>1, <2>2, FindPlace
<1>6. ASSUME Occurs(close, x) # {} PROVE Before(x, Find(close, x)) \in Txt /\ buf3 \in Txt
  <2>. HIDE DEF close, x
  <2>. QED  BY <1>1, <1>3, <1>6, FindPlace
<1>7. mode1 \in Mode /\ "text" \in Mode
  BY DEF Mode
<1>. HIDE DEF x, open, close, mode1, buf1, buf2, buf3, q
<1>8. \A y \in Txt : Outside(y) \in Seq(Item) /\ ParseCall(y) \in Item
  BY ItemTypes
<1>9. /\ open # <<>> => out1 \in Seq(Item)
      /\ out2 \in Seq(Item)
      /\ Occurs(close, x) # {} => out3 \in Seq(Item)
  <2>1. \A y \in Txt : p.out \o Outside(y) \in Seq(Item) /\ Append(p.out, ParseCall(y)) \in Seq(Item)
    BY <1>1, <1>8
  <2>. QED  BY <1>1, <1>4, <1>5, <1>6, <2>1
<1>. HIDE DEF out1, out2, out3
<1>10. CASE p.left
  <2>1. q = p
    BY <1>2, <1>10
  <2>2. TurnTo(p, q)
    BY <1>10, <2>1, Zenon DEF TurnTo
  <2>. QED  BY <2>1, <2>2 DEF q
<1>11. CASE ~p.left /\ p.mode = "text" /\ open # <<>>
  <2>1. q = [p EXCEPT !.mode = mode1, !.buf = buf1, !.out = out1]
    BY <1>2, <1>11
  <2>2. q.mode = mode1 /\ q.buf = buf1 /\ q.out = out1 /\ q.left = FALSE
    BY <1>1, <1>11, <2>1, WithParts
  <2>3. q \in Running
    BY <1>5, <1>7, <1>9, <1>11, <2>1, WithTypes
  <2>4. TurnTo(p, q)
    BY <1>11, <2>2, Zenon DEF TurnTo, open, x, mode1, buf1, out1
  <2>. QED  BY <2>3, <2>4 DEF q
<1>12. CASE ~p.left /\ p.mode = "text" /\ open = <<>>
  <2>1. q = [p EXCEPT !.left = TRUE, !.buf = buf2, !.out = out2]
    BY <1>2, <1>12
  <2>2. q.mode = "text" /\ q.buf = buf2 /\ q.out = out2 /\ q.left = TRUE
    BY <1>1, <1>12, <2>1, WithParts
  <2>3. q \in Running
    BY <1>4, <1>7, <1>9, <2>1, WithTypes
  <2>4. TurnTo(p, q)
    BY <1>12, <2>2, Zenon DEF TurnTo, open, x, buf2, out2
  <2>. QED  BY <2>3, <2>4 DEF q
<1>13. CASE ~p.left /\ p.mode # "text" /\ Occurs(close, x) # {}
  <2>1. q = [p EXCEPT !.mode = "text", !.buf = buf3, !.out = out3]
    BY <1>2, <1>13
  <2>2. q.mode = "text" /\ q.buf = buf3 /\ q.out = out3 /\ q.left = FALSE
    BY <1>1, <1>13, <2>1, WithParts
  <2>3. q \in Running
    BY <1>6, <1>7, <1>9, <1>13, <2>1, WithTypes
  <2>4. out3 = IF p.mode = "tool" THEN Append(p.out, ParseCall(Before(x, Find(ToolClose, x)))) ELSE p.out
    BY <1>3, Zenon DEF out3
  <2>5. buf3 = After(x, Closer(p.mode)) /\ Occurs(Closer(p.mode), x) # {}
    BY <1>3, <1>13 DEF buf3
  <2>6. TurnTo(p, q)
    BY <1>13, <2>2, <2>4, <2>5, Zenon DEF TurnTo, x
  <2>. QED  BY <2>3, <2>6 DEF q
<1>14. CASE ~p.left /\ p.mode # "text" /\ Occurs(close, x) = {}
  <2>1. q = [p EXCEPT !.left = TRUE]
    BY <1>2, <1>14
  <2>2. q.mode = p.mode /\ q.buf = p.buf /\ q.out = p.out /\ q.left = TRUE
    BY <1>1, <2>1, WithParts
  <2>3. q \in Running
    BY <2>1, WithTypes DEF Running
  <2>4. Occurs(Closer(p.mode), x) = {}
    BY <1>3, <1>14
  <2>5. TurnTo(p, q)
    BY <1>14, <2>2, <2>4, Zenon DEF TurnTo, x
  <2>. QED  BY <2>3, <2>5 DEF q
<1>. QED  BY <1>1, <1>10, <1>11, <1>12, <1>13, <1>14

-------------------------------------------------------------------------------
(* OutputParser::push: the turns of its loop.                                 *)

Start(m, x) == [mode |-> m, buf |-> x, out |-> <<>>, left |-> FALSE]
Turns(g, m, x) ==
  /\ g \in [0 .. Len(x) + 1 -> Running] /\ g[0] = Start(m, x)
  /\ \A i \in 1 .. Len(x) + 1 : g[i] = Turn(g[i - 1])

LoopBody(m, x, g) == [n \in 0 .. Len(x) + 1 |-> IF n = 0 THEN Start(m, x) ELSE Turn(g[n - 1])]

\* push is the loop of its turns.
LEMMA PushChosen ==
  ASSUME NEW p, NEW text
  PROVE  ParserPush(p, text) = (CHOOSE g : g = LoopBody(p.mode, p.buf \o text, g))[Len(p.buf \o text) + 1]
BY DEF ParserPush, LoopBody, Start

\* That loop exists.
LEMMA TurnsExist ==
  ASSUME NEW m \in Mode, NEW x \in Txt
  PROVE  /\ \E g : Turns(g, m, x) /\ g = LoopBody(m, x, g)
         /\ \A g : g = LoopBody(m, x, g) => Turns(g, m, x)
<1>. DEFINE N == Len(x) + 1  a == Start(m, x)  F == [i \in 1 .. N |-> [s \in Running |-> Turn(s)]]
<1>1. N \in Nat
  BY DEF Txt
<1>2. a \in Running
  <2>1. <<>> \in Seq(Item)
    OBVIOUS
  <2>. QED  BY <2>1 DEF Start, Running
<1>3. F \in Steps(Running, N)
  BY TurnIs DEF Steps
<1>4. PICK g : g \in [0 .. N -> Running] /\ g[0] = a /\ \A i \in 1 .. N : g[i] = F[i][g[i - 1]]
  <2>. HIDE DEF F, N, a
  <2>1. \E g : Iterates(g, Running, a, N, F)
    BY <1>1, <1>2, <1>3, RecursionDefined
  <2>. QED  BY <2>1 DEF Iterates
<1>5. \A i \in 1 .. N : g[i] = Turn(g[i - 1])
  <2>. TAKE i \in 1 .. N
  <2>1. i - 1 \in 0 .. N
    BY <1>1
  <2>2. g[i - 1] \in Running
    BY <1>4, <2>1
  <2>. QED  BY <1>4, <2>2
<1>6. g = LoopBody(m, x, g)
  <2>1. \A i \in 0 .. N : i # 0 => i \in 1 .. N
    BY <1>1
  <2>. QED  BY <1>4, <1>5, <2>1 DEF LoopBody
<1>7. Turns(g, m, x)
  BY <1>4, <1>5 DEF Turns
<1>8. ASSUME NEW f, f = LoopBody(m, x, f) PROVE Turns(f, m, x)
  <2>1. f[0] = a /\ \A i \in 1 .. N : f[i] = Turn(f[i - 1])
    <3>1. 0 \in 0 .. N /\ \A i \in 1 .. N : i \in 0 .. N /\ i # 0
      BY <1>1
    <3>2. /\ LoopBody(m, x, f)[0] = a
          /\ \A i \in 1 .. N : LoopBody(m, x, f)[i] = Turn(f[i - 1])
      BY <3>1 DEF LoopBody
    <3>. QED  BY <1>8, <3>2
  <2>2. \A i \in 0 .. N : f[i] \in Running
    <3>. DEFINE T == {n \in Nat : n <= N => f[n] \in Running}
    <3>1. 0 \in T
      BY <1>2, <2>1
    <3>2. ASSUME NEW n \in T PROVE n + 1 \in T
      <4>1. n \in Nat /\ n + 1 \in Nat /\ (n <= N => f[n] \in Running)
        OBVIOUS
      <4>2. ASSUME n + 1 <= N PROVE f[n + 1] \in Running
        <5>1. n + 1 \in 1 .. N /\ n <= N /\ (n + 1) - 1 = n
          BY <1>1, <4>1, <4>2
        <5>. QED  BY <2>1, <4>1, <5>1, TurnIs
      <4>. QED  BY <4>1, <4>2
    <3>3. T \in SUBSET Nat
      OBVIOUS
    <3>4. T = Nat
      <4>. HIDE DEF T
      <4>. QED  BY <3>1, <3>2, <3>3, NumbersByInduction
    <3>. QED  BY <3>4
  <2>3. DOMAIN f = 0 .. N /\ f = [i \in 0 .. N |-> f[i]]
    <3>1. LoopBody(m, x, f) = [i \in DOMAIN LoopBody(m, x, f) |-> LoopBody(m, x, f)[i]]
          /\ DOMAIN LoopBody(m, x, f) = 0 .. N
      BY DEF LoopBody
    <3>. QED  BY <1>8, <3>1
  <2>4. f \in [0 .. N -> Running]
    <3>. HIDE DEF N
    <3>. QED  BY <2>2, <2>3
  <2>. QED  BY <2>1, <2>4 DEF Turns
<1>. QED  BY <1>6, <1>7, <1>8

\* OutputParser::push ends where its turns end.
LEMMA PushTurns ==
  ASSUME NEW p \in Parser, NEW text \in Txt, NEW x, x = p.buf \o text
  PROVE  \E g : Turns(g, p.mode, x) /\ ParserPush(p, text) = g[Len(x) + 1]
<1>1. p.mode \in Mode /\ p.buf \in Txt
  BY DEF Parser
<1>2. x \in Txt
  BY <1>1, TxtJoin
<1>. DEFINE h == CHOOSE g : g = LoopBody(p.mode, x, g)
<1>3. \E g : g = LoopBody(p.mode, x, g)
  BY <1>1, <1>2, TurnsExist
<1>4. h = LoopBody(p.mode, x, h)
  BY <1>3, Zenon
<1>5. Turns(h, p.mode, x)
  <2>. HIDE DEF h
  <2>. QED  BY <1>1, <1>2, <1>4, TurnsExist
<1>6. ParserPush(p, text) = h[Len(x) + 1]
  BY PushChosen
<1>. HIDE DEF h
<1>. QED  BY <1>5, <1>6

\* What push returns.
LEMMA PushType ==
  ASSUME NEW p \in Parser, NEW text \in Txt
  PROVE  ParserPush(p, text) \in Running
<1>1. PICK x : x = p.buf \o text
  OBVIOUS
<1>2. x \in Txt
  BY <1>1, TxtJoin DEF Parser
<1>3. PICK g : Turns(g, p.mode, x) /\ ParserPush(p, text) = g[Len(x) + 1]
  BY <1>1, PushTurns
<1>4. Len(x) + 1 \in 0 .. Len(x) + 1
  BY <1>2 DEF Txt
<1>. QED  BY <1>3, <1>4 DEF Turns

-------------------------------------------------------------------------------
(* BlockEmitter.                                                              *)

Kinds == {"text", "call", "any"}
Event == [ev : {"start", "delta", "stop"}, index : Nat, kind : Kinds, body : Txt]
Emitter == [index : Nat, open : BOOLEAN, blanks : Txt, calls : Nat, sent : Seq(Event)]

\* The events of a block.
LEMMA EventTypes ==
  ASSUME NEW i \in Nat, NEW k \in Kinds, NEW x \in Txt
  PROVE  /\ BlockStart(i, k) \in Event /\ BlockDelta(i, k, x) \in Event /\ BlockStop(i) \in Event
         /\ BlockStart(i, k).ev = "start" /\ BlockStart(i, k).index = i /\ BlockStart(i, k).kind = k
         /\ BlockDelta(i, k, x).ev = "delta" /\ BlockDelta(i, k, x).index = i
         /\ BlockDelta(i, k, x).kind = k /\ BlockDelta(i, k, x).body = x
         /\ BlockStop(i).ev = "stop" /\ BlockStop(i).index = i
BY NothingTxt DEF BlockStart, BlockDelta, BlockStop, Event, Kinds

\* What the text of a block, and the end of one, change.
TextTo(em, x, q) ==
  \/ /\ em.open /\ q.open = TRUE /\ q.index = em.index /\ q.blanks = em.blanks /\ q.calls = em.calls
     /\ q.sent = Append(em.sent, BlockDelta(em.index, "text", x))
  \/ /\ ~em.open /\ IsBlank(x) /\ q.open = FALSE /\ q.index = em.index /\ q.blanks = em.blanks \o x
     /\ q.calls = em.calls /\ q.sent = em.sent
  \/ /\ ~em.open /\ ~IsBlank(x) /\ q.open = TRUE /\ q.index = em.index /\ q.blanks = <<>> /\ q.calls = em.calls
     /\ q.sent = Append(Append(em.sent, BlockStart(em.index, "text")),
                        BlockDelta(em.index, "text", em.blanks \o x))
CloseTo(em, q) ==
  /\ q.open = FALSE /\ q.blanks = em.blanks /\ q.calls = em.calls
  /\ IF em.open THEN q.index = em.index + 1 /\ q.sent = Append(em.sent, BlockStop(em.index))
     ELSE q.index = em.index /\ q.sent = em.sent
CallTo(c, x, q) ==
  /\ q.open = c.open /\ q.index = c.index + 1 /\ q.blanks = <<>> /\ q.calls = c.calls + 1
  /\ q.sent = Append(Append(Append(c.sent, BlockStart(c.index, "call")), BlockDelta(c.index, "call", x)),
                     BlockStop(c.index))

\* Two or three elements appended at once.
LEMMA TwoThree ==
  ASSUME NEW S, NEW q \in Seq(S), NEW a \in S, NEW b \in S, NEW c \in S
  PROVE  /\ q \o <<a, b>> = Append(Append(q, a), b)
         /\ q \o <<a, b, c>> = Append(Append(Append(q, a), b), c)
         /\ Append(Append(q, a), b) \in Seq(S) /\ Append(Append(Append(q, a), b), c) \in Seq(S)
OBVIOUS

\* Three events appended at once.
LEMMA ThreeMore ==
  ASSUME NEW r \in Seq(Event), NEW a \in Event, NEW b \in Event, NEW z \in Event, NEW s,
         s = Append(Append(Append(r, a), b), z)
  PROVE  s \in Seq(Event) /\ r \o <<a, b, z>> = s
BY TwoThree

\* The fields of an emitter.
LEMMA EmitterParts ==
  ASSUME NEW em \in Emitter
  PROVE  /\ em.index \in Nat /\ em.open \in BOOLEAN /\ em.blanks \in Txt /\ em.calls \in Nat
         /\ em.sent \in Seq(Event)
BY DEF Emitter

\* An emitter takes a text.
LEMMA EmitTextIs ==
  ASSUME NEW em \in Emitter, NEW x \in Txt
  PROVE  EmitText(em, x) \in Emitter /\ TextTo(em, x, EmitText(em, x))
<1>. DEFINE q == EmitText(em, x)  y == em.blanks \o x
            s1 == Append(em.sent, BlockDelta(em.index, "text", x))
            a == BlockStart(em.index, "text")  b == BlockDelta(em.index, "text", y)
            s2 == Append(Append(em.sent, a), b)
<1>1. /\ em.index \in Nat /\ em.open \in BOOLEAN /\ em.blanks \in Txt /\ em.sent \in Seq(Event)
  BY EmitterParts
<1>2. y \in Txt
  BY <1>1, TxtJoin
<1>3. a \in Event /\ b \in Event /\ BlockDelta(em.index, "text", x) \in Event
  <2>. HIDE DEF y
  <2>. QED  BY <1>1, <1>2, EventTypes DEF Kinds
<1>4. s1 \in Seq(Event) /\ s2 \in Seq(Event) /\ em.sent \o <<a, b>> = s2
  <2>. HIDE DEF a, b
  <2>. QED  BY <1>1, <1>3, TwoThree
<1>5. q = IF em.open THEN [em EXCEPT !.sent = s1]
          ELSE IF IsBlank(x) THEN [em EXCEPT !.blanks = y]
          ELSE [em EXCEPT !.open = TRUE, !.blanks = <<>>, !.sent = s2]
  <2>1. q = IF em.open THEN [em EXCEPT !.sent = s1]
          ELSE IF IsBlank(x) THEN [em EXCEPT !.blanks = y]
          ELSE [em EXCEPT !.open = TRUE, !.blanks = <<>>, !.sent = em.sent \o <<a, b>>]
    BY Zenon DEF EmitText
  <2>. HIDE DEF q, a, b, y, s1, s2
  <2>. QED  BY <1>4, <2>1
<1>. HIDE DEF q, a, b, y, s1, s2
<1>6. CASE em.open
  <2>1. q = [em EXCEPT !.sent = s1]
    BY <1>5, <1>6
  <2>2. /\ q \in Emitter /\ q.open = em.open /\ q.index = em.index /\ q.blanks = em.blanks
        /\ q.calls = em.calls /\ q.sent = s1
    BY <1>4, <2>1 DEF Emitter
  <2>3. TextTo(em, x, q)
    BY <1>1, <1>6, <2>2 DEF TextTo, s1
  <2>. QED  BY <2>2, <2>3 DEF q
<1>7. CASE ~em.open /\ IsBlank(x)
  <2>1. q = [em EXCEPT !.blanks = y]
    BY <1>5, <1>7
  <2>2. /\ q \in Emitter /\ q.open = em.open /\ q.index = em.index /\ q.blanks = y
        /\ q.calls = em.calls /\ q.sent = em.sent
    BY <1>2, <2>1 DEF Emitter
  <2>3. TextTo(em, x, q)
    BY <1>1, <1>7, <2>2 DEF TextTo, y
  <2>. QED  BY <2>2, <2>3 DEF q
<1>8. CASE ~em.open /\ ~IsBlank(x)
  <2>1. q = [em EXCEPT !.open = TRUE, !.blanks = <<>>, !.sent = s2]
    BY <1>5, <1>8
  <2>2. /\ q \in Emitter /\ q.open = TRUE /\ q.index = em.index /\ q.blanks = <<>>
        /\ q.calls = em.calls /\ q.sent = s2
    BY <1>4, <2>1, NothingTxt DEF Emitter
  <2>3. TextTo(em, x, q)
    BY <1>1, <1>8, <2>2 DEF TextTo, y, a, b, s2
  <2>. QED  BY <2>2, <2>3 DEF q
<1>. QED  BY <1>1, <1>6, <1>7, <1>8

\* It closes its text block.
LEMMA CloseTextIs ==
  ASSUME NEW em \in Emitter
  PROVE  CloseText(em) \in Emitter /\ CloseTo(em, CloseText(em))
<1>. DEFINE q == CloseText(em)  s == Append(em.sent, BlockStop(em.index))  i == em.index + 1
<1>1. /\ em.index \in Nat /\ em.open \in BOOLEAN /\ em.sent \in Seq(Event) /\ i \in Nat
  BY EmitterParts
<1>2. s \in Seq(Event)
  BY <1>1, EventTypes, NothingTxt DEF Kinds
<1>3. q = IF em.open THEN [em EXCEPT !.open = FALSE, !.index = i, !.sent = s] ELSE em
  BY Zenon DEF CloseText
<1>. HIDE DEF q, s, i
<1>4. CASE em.open
  <2>1. q = [em EXCEPT !.open = FALSE, !.index = i, !.sent = s]
    BY <1>3, <1>4
  <2>2. /\ q \in Emitter /\ q.open = FALSE /\ q.index = i /\ q.blanks = em.blanks
        /\ q.calls = em.calls /\ q.sent = s
    BY <1>1, <1>2, <2>1 DEF Emitter
  <2>. QED  BY <1>4, <2>2 DEF CloseTo, q, s, i
<1>5. CASE ~em.open
  <2>1. q = em /\ em.open = FALSE
    BY <1>1, <1>3, <1>5
  <2>. QED  BY <2>1 DEF CloseTo, q
<1>. QED  BY <1>1, <1>4, <1>5

\* It takes a tool call.
LEMMA EmitCallIs ==
  ASSUME NEW em \in Emitter, NEW x \in Txt
  PROVE  EmitCall(em, x) \in Emitter /\ CallTo(CloseText(em), x, EmitCall(em, x))
<1>1. PICK c \in Emitter : c = CloseText(em)
  BY CloseTextIs
<1>2. c.index \in Nat /\ c.index + 1 \in Nat /\ c.calls \in Nat /\ c.calls + 1 \in Nat /\ c.sent \in Seq(Event)
  BY EmitterParts
<1>. DEFINE q == EmitCall(em, x)  a == BlockStart(c.index, "call")  b == BlockDelta(c.index, "call", x)
            z == BlockStop(c.index)  s == Append(Append(Append(c.sent, a), b), z)
            i == c.index + 1  k == c.calls + 1
<1>3. a \in Event /\ b \in Event /\ z \in Event
  BY <1>2, EventTypes DEF Kinds
<1>4. s \in Seq(Event) /\ c.sent \o <<a, b, z>> = s
  <2>. HIDE DEF a, b, z
  <2>1. s = Append(Append(Append(c.sent, a), b), z)
    OBVIOUS
  <2>. HIDE DEF s
  <2>. QED  BY <1>2, <1>3, <2>1, ThreeMore
<1>5. q = [c EXCEPT !.index = i, !.blanks = <<>>, !.calls = k, !.sent = s]
  <2>1. q = [c EXCEPT !.index = i, !.blanks = <<>>, !.calls = k, !.sent = c.sent \o <<a, b, z>>]
    BY <1>1, Zenon DEF EmitCall
  <2>. HIDE DEF q, a, b, z, s, i, k
  <2>. QED  BY <1>4, <2>1
<1>6. /\ q \in Emitter /\ q.open = c.open /\ q.index = i /\ q.blanks = <<>> /\ q.calls = k /\ q.sent = s
  <2>. HIDE DEF q, a, b, z, s, i, k
  <2>1. i \in Nat /\ k \in Nat
    BY <1>2 DEF i, k
  <2>. QED  BY <1>4, <1>5, <2>1, NothingTxt DEF Emitter
<1>7. CallTo(c, x, q)
  <2>. HIDE DEF q
  <2>. QED  BY <1>6 DEF CallTo
<1>. QED  BY <1>1, <1>6, <1>7

\* An emitter takes a parsed item.
LEMMA OnEventIs ==
  ASSUME NEW em \in Emitter, NEW e \in Item
  PROVE  /\ OnEvent(em, e) \in Emitter /\ e.body \in Txt
         /\ \/ e.kind = "text" /\ TextTo(em, e.body, OnEvent(em, e))
            \/ e.kind = "call" /\ CallTo(CloseText(em), e.body, OnEvent(em, e))
            \/ e.kind = "malformed" /\ OnEvent(em, e) = em
<1>1. e.body \in Txt /\ e.kind \in {"text", "call", "malformed"}
  BY DEF Item
<1>2. PICK x \in Txt : x = e.body
  BY <1>1
<1>3. CASE e.kind = "text"
  <2>1. OnEvent(em, e) = EmitText(em, x)
    BY <1>2, <1>3 DEF OnEvent
  <2>. QED  BY <1>2, <1>3, <2>1, EmitTextIs
<1>4. CASE e.kind = "call"
  <2>1. OnEvent(em, e) = EmitCall(em, x)
    BY <1>2, <1>4 DEF OnEvent
  <2>. QED  BY <1>2, <1>4, <2>1, EmitCallIs
<1>5. CASE e.kind = "malformed"
  <2>1. OnEvent(em, e) = em
    BY <1>5 DEF OnEvent
  <2>. QED  BY <1>1, <1>5, <2>1
<1>. QED  BY <1>1, <1>3, <1>4, <1>5

-------------------------------------------------------------------------------
(* The items a push yields, taken in turn.                                    *)

\* A set of sequences with the empty one and with each of its elements and one more.
LEMMA SequencesByInduction ==
  ASSUME NEW S, NEW T \in SUBSET Seq(S), <<>> \in T,
         \A u \in T : \A x \in S : Append(u, x) \in T
  PROVE  T = Seq(S)
<1>. DEFINE N == {n \in Nat : \A u \in Seq(S) : Len(u) = n => u \in T}
<1>1. 0 \in N
  <2>1. \A u \in Seq(S) : Len(u) = 0 => u = <<>>
    OBVIOUS
  <2>. QED  BY <2>1
<1>2. ASSUME NEW n \in N PROVE n + 1 \in N
  <2>1. n \in Nat /\ n + 1 \in Nat /\ n + 1 # 0
    OBVIOUS
  <2>2. ASSUME NEW u \in Seq(S), Len(u) = n + 1 PROVE u \in T
    <3>1. u # <<>>
      BY <2>1, <2>2
    <3>2. PICK v \in Seq(S), x \in S : u = Append(v, x)
      BY <3>1, SequenceEmptyOrAppend
    <3>3. Len(v) = n
      <4>1. Len(u) = Len(v) + 1 /\ Len(v) \in Nat
        BY <3>2
      <4>. QED  BY <2>1, <2>2, <4>1
    <3>4. v \in T
      BY <3>2, <3>3
    <3>. QED  BY <3>2, <3>4
  <2>. QED  BY <2>1, <2>2
<1>3. N \in SUBSET Nat
  OBVIOUS
<1>4. N = Nat
  <2>. HIDE DEF N
  <2>. QED  BY <1>1, <1>2, <1>3, NumbersByInduction
<1>5. \A u \in Seq(S) : u \in T
  <2>. TAKE u \in Seq(S)
  <2>1. Len(u) \in N
    BY <1>4
  <2>. QED  BY <2>1
<1>. QED  BY <1>5

EmitBody(em, q, g) == [i \in 0 .. Len(q) |-> IF i = 0 THEN em ELSE OnEvent(g[i - 1], q[i])]
Emits(g, em, q) ==
  /\ g \in [0 .. Len(q) -> Emitter] /\ g[0] = em
  /\ \A i \in 1 .. Len(q) : g[i] = OnEvent(g[i - 1], q[i])

\* Emitted is the recursion over the items.
LEMMA EmittedChosen ==
  ASSUME NEW em, NEW q
  PROVE  Emitted(em, q) = (CHOOSE g : g = EmitBody(em, q, g))[Len(q)]
BY DEF Emitted, EmitBody

\* That recursion has a solution.
LEMMA EmitsExist ==
  ASSUME NEW em \in Emitter, NEW q \in Seq(Item)
  PROVE  \E g : Emits(g, em, q) /\ Emitted(em, q) = g[Len(q)]
<1>. DEFINE N == Len(q)  F == [i \in 1 .. N |-> [s \in Emitter |-> OnEvent(s, q[i])]]
<1>1. N \in Nat /\ \A i \in 1 .. N : q[i] \in Item
  OBVIOUS
<1>3. F \in Steps(Emitter, N)
  BY <1>1, OnEventIs DEF Steps
<1>4. PICK g : g \in [0 .. N -> Emitter] /\ g[0] = em /\ \A i \in 1 .. N : g[i] = F[i][g[i - 1]]
  <2>. HIDE DEF F, N
  <2>1. \E g : Iterates(g, Emitter, em, N, F)
    BY <1>1, <1>3, RecursionDefined
  <2>. QED  BY <2>1 DEF Iterates
<1>5. \A i \in 1 .. N : g[i] = OnEvent(g[i - 1], q[i])
  <2>. TAKE i \in 1 .. N
  <2>1. i - 1 \in 0 .. N
    BY <1>1
  <2>2. g[i - 1] \in Emitter
    BY <1>4, <2>1
  <2>. QED  BY <1>4, <2>2
<1>6. g = EmitBody(em, q, g)
  <2>1. \A i \in 0 .. N : i # 0 => i \in 1 .. N
    BY <1>1
  <2>. QED  BY <1>4, <1>5, <2>1 DEF EmitBody
<1>. DEFINE f == CHOOSE h : h = EmitBody(em, q, h)
<1>7. f = EmitBody(em, q, f)
  <2>1. \E h : h = EmitBody(em, q, h)
    BY <1>6
  <2>. QED  BY <2>1, Zenon
<1>9. Emitted(em, q) = f[N]
  BY EmittedChosen
<1>. HIDE DEF f
<1>8. Emits(f, em, q)
  <2>1. f[0] = em /\ \A i \in 1 .. N : f[i] = OnEvent(f[i - 1], q[i])
    <3>1. 0 \in 0 .. N /\ \A i \in 1 .. N : i \in 0 .. N /\ i # 0
      BY <1>1
    <3>2. /\ EmitBody(em, q, f)[0] = em
          /\ \A i \in 1 .. N : EmitBody(em, q, f)[i] = OnEvent(f[i - 1], q[i])
      BY <3>1 DEF EmitBody
    <3>. QED  BY <1>7, <3>2
  <2>2. \A i \in 0 .. N : f[i] \in Emitter
    <3>. DEFINE T == {n \in Nat : n <= N => f[n] \in Emitter}
    <3>1. 0 \in T
      BY <2>1
    <3>2. ASSUME NEW n \in T PROVE n + 1 \in T
      <4>1. n \in Nat /\ n + 1 \in Nat /\ (n <= N => f[n] \in Emitter)
        OBVIOUS
      <4>2. ASSUME n + 1 <= N PROVE f[n + 1] \in Emitter
        <5>1. n + 1 \in 1 .. N /\ n <= N /\ (n + 1) - 1 = n
          BY <1>1, <4>1, <4>2
        <5>2. q[n + 1] \in Item
          BY <1>1, <5>1
        <5>. QED  BY <2>1, <4>1, <5>1, <5>2, OnEventIs
      <4>. QED  BY <4>1, <4>2
    <3>3. T \in SUBSET Nat
      OBVIOUS
    <3>4. T = Nat
      <4>. HIDE DEF T
      <4>. QED  BY <3>1, <3>2, <3>3, NumbersByInduction
    <3>. QED  BY <3>4
  <2>3. DOMAIN f = 0 .. N /\ f = [i \in 0 .. N |-> f[i]]
    <3>1. EmitBody(em, q, f) = [i \in DOMAIN EmitBody(em, q, f) |-> EmitBody(em, q, f)[i]]
          /\ DOMAIN EmitBody(em, q, f) = 0 .. N
      BY DEF EmitBody
    <3>. QED  BY <1>7, <3>1
  <2>4. f \in [0 .. N -> Emitter]
    <3>. HIDE DEF N
    <3>. QED  BY <2>2, <2>3
  <2>. QED  BY <2>1, <2>4 DEF Emits
<1>. QED  BY <1>8, <1>9

\* No item, and one more.
LEMMA EmittedStep ==
  ASSUME NEW em \in Emitter, NEW u \in Seq(Item), NEW e \in Item
  PROVE  /\ Emitted(em, <<>>) = em
         /\ Emitted(em, u) \in Emitter
         /\ Emitted(em, Append(u, e)) = OnEvent(Emitted(em, u), e)
<1>. DEFINE v == Append(u, e)  n == Len(u)
<1>1. /\ v \in Seq(Item) /\ n \in Nat /\ Len(v) = n + 1 /\ v[n + 1] = e /\ \A i \in 1 .. n : v[i] = u[i]
  BY AppendProperties
<1>. HIDE DEF v
<1>2. PICK g : Emits(g, em, u) /\ Emitted(em, u) = g[n]
  BY EmitsExist
<1>3. PICK h : Emits(h, em, v) /\ Emitted(em, v) = h[n + 1]
  BY <1>1, EmitsExist
<1>4. /\ g[0] = em /\ h[0] = em /\ \A i \in 1 .. n : g[i] = OnEvent(g[i - 1], u[i])
      /\ \A i \in 1 .. n + 1 : h[i] = OnEvent(h[i - 1], v[i])
  BY <1>1, <1>2, <1>3 DEF Emits
<1>5. \A i \in 0 .. n : g[i] = h[i]
  <2>. DEFINE T == {i \in Nat : i <= n => g[i] = h[i]}
  <2>1. 0 \in T
    BY <1>4
  <2>2. ASSUME NEW i \in T PROVE i + 1 \in T
    <3>1. i \in Nat /\ i + 1 \in Nat /\ (i <= n => g[i] = h[i])
      OBVIOUS
    <3>2. ASSUME i + 1 <= n PROVE g[i + 1] = h[i + 1]
      <4>1. i + 1 \in 1 .. n /\ i + 1 \in 1 .. n + 1 /\ i <= n /\ (i + 1) - 1 = i
        BY <1>1, <3>1, <3>2
      <4>. QED  BY <1>1, <1>4, <3>1, <4>1
    <3>. QED  BY <3>1, <3>2
  <2>3. T \in SUBSET Nat
    OBVIOUS
  <2>4. T = Nat
    <3>. HIDE DEF T
    <3>. QED  BY <2>1, <2>2, <2>3, NumbersByInduction
  <2>. QED  BY <2>4
<1>6. g[n] = h[n] /\ n + 1 \in 1 .. n + 1 /\ (n + 1) - 1 = n /\ n \in 0 .. n
  BY <1>1, <1>5
<1>7. h[n + 1] = OnEvent(h[n], e)
  BY <1>1, <1>4, <1>6
<1>8. g[n] \in Emitter
  BY <1>2, <1>6 DEF Emits
<1>9. Emitted(em, <<>>) = em
  <2>1. <<>> \in Seq(Item) /\ Len(<<>>) = 0
    OBVIOUS
  <2>2. PICK f : Emits(f, em, <<>>) /\ Emitted(em, <<>>) = f[0]
    BY <2>1, EmitsExist
  <2>. QED  BY <2>2 DEF Emits
<1>. QED  BY <1>2, <1>3, <1>6, <1>7, <1>8, <1>9 DEF v

\* Without items the emitter is as it was.
LEMMA EmittedNone ==
  ASSUME NEW em \in Emitter
  PROVE  Emitted(em, <<>>) = em
<1>1. PICK e \in Item : TRUE
  BY ItemTypes, NothingTxt
<1>2. <<>> \in Seq(Item)
  OBVIOUS
<1>. QED  BY <1>1, <1>2, EmittedStep

-------------------------------------------------------------------------------
(* BlocksWellFormed.                                                          *)

\* Event e may come after the events s.
Follows(s, e) ==
  LET p == s[Len(s)] IN
  \/ e.ev = "start" /\ IF s = <<>> THEN e.index = 0 ELSE p.ev = "stop" /\ e.index = p.index + 1
  \/ e.ev = "delta" /\ s # <<>> /\ p.ev \in {"start", "delta"} /\ e.index = p.index /\ e.kind = p.kind
  \/ e.ev = "stop" /\ s # <<>> /\ p.ev = "delta" /\ e.index = p.index

\* The i-th event may be e after p.
Placed(i, e, p) ==
  CASE e.ev = "start" -> IF i = 1 THEN e.index = 0 ELSE p.ev = "stop" /\ e.index = p.index + 1
    [] e.ev = "delta" -> i > 1 /\ p.ev \in {"start", "delta"} /\ e.index = p.index /\ e.kind = p.kind
    [] e.ev = "stop"  -> i > 1 /\ p.ev = "delta" /\ e.index = p.index
InOrder(s) == \A i \in 1 .. Len(s) : Placed(i, s[i], s[i - 1])

\* The first event has none before it.
LEMMA PlacedFirst ==
  ASSUME NEW e \in Event, NEW p, NEW q, Placed(1, e, p)
  PROVE  Placed(1, e, q)
<1>1. e.ev \in {"start", "delta", "stop"} /\ ~(1 > 1)
  BY DEF Event
<1>2. CASE e.ev = "start"
  BY <1>2, Zenon DEF Placed
<1>3. CASE e.ev = "delta"
  BY <1>1, <1>3 DEF Placed
<1>4. CASE e.ev = "stop"
  BY <1>1, <1>4 DEF Placed
<1>. QED  BY <1>1, <1>2, <1>3, <1>4

\* One event more keeps the order.
LEMMA InOrderAppend ==
  ASSUME NEW s \in Seq(Event), InOrder(s), NEW e \in Event, Follows(s, e), NEW t, t = Append(s, e)
  PROVE  /\ t \in Seq(Event) /\ InOrder(t) /\ t # <<>> /\ t[Len(t)] = e
<1>1. /\ t \in Seq(Event) /\ Len(s) \in Nat /\ Len(t) = Len(s) + 1 /\ t[Len(s) + 1] = e
      /\ \A i \in 1 .. Len(s) : t[i] = s[i]
  BY AppendProperties
<1>2. t # <<>> /\ t[Len(t)] = e /\ \A i \in 1 .. Len(s) : s[i] \in Event
  BY <1>1
<1>3. InOrder(t)
  <2>. SUFFICES ASSUME NEW i \in 1 .. Len(t) PROVE Placed(i, t[i], t[i - 1])
    BY DEF InOrder
  <2>1. CASE i \in 1 .. Len(s)
    <3>1. t[i] = s[i] /\ s[i] \in Event /\ Placed(i, s[i], s[i - 1])
      BY <1>1, <1>2, <2>1 DEF InOrder
    <3>4. CASE i = 1
      BY <3>1, <3>4, PlacedFirst
    <3>5. CASE i # 1
      <4>1. i - 1 \in 1 .. Len(s)
        BY <1>1, <2>1, <3>5
      <4>. QED  BY <1>1, <3>1, <4>1
    <3>. QED  BY <3>4, <3>5
  <2>2. CASE ~(i \in 1 .. Len(s))
    <3>1. i = Len(s) + 1 /\ i - 1 = Len(s) /\ t[i] = e
      BY <1>1, <2>2
    <3>2. s = <<>> <=> Len(s) = 0
      OBVIOUS
    <3>3. s # <<>> => i > 1 /\ i # 1 /\ Len(s) \in 1 .. Len(s)
      BY <1>1, <3>1, <3>2
    <3>4. s # <<>> => t[i - 1] = s[Len(s)]
      BY <1>1, <3>1, <3>3
    <3>5. s = <<>> => i = 1
      BY <1>1, <3>1, <3>2
    <3>. QED  BY <3>1, <3>3, <3>4, <3>5 DEF Follows, Placed
  <2>. QED  BY <2>1, <2>2
<1>. QED  BY <1>1, <1>2, <1>3

\* The emitter knows which block the events s have left open.
Fits(em, s) ==
  IF em.open THEN /\ s # <<>> /\ s[Len(s)].ev = "delta" /\ s[Len(s)].index = em.index
                  /\ s[Len(s)].kind = "text"
  ELSE IF s = <<>> THEN em.index = 0
  ELSE s[Len(s)].ev = "stop" /\ em.index = s[Len(s)].index + 1

\* E was sent before em.sent.
Blocks(E, em) ==
  /\ E \in Seq(Event) /\ em \in Emitter
  /\ InOrder(E \o em.sent) /\ Fits(em, E \o em.sent)

\* One event more.
LEMMA SentMore ==
  ASSUME NEW E \in Seq(Event), NEW s \in Seq(Event), NEW e \in Event,
         NEW w, w = E \o s, NEW r, r = Append(s, e)
  PROVE  E \o r = Append(w, e) /\ r \in Seq(Event)
OBVIOUS

\* The parts of an emitter whose blocks are in order.
LEMMA SentBefore ==
  ASSUME NEW E, NEW em, Blocks(E, em)
  PROVE  /\ E \in Seq(Event) /\ em \in Emitter /\ em.sent \in Seq(Event) /\ em.index \in Nat
         /\ em.blanks \in Txt /\ em.open \in BOOLEAN /\ E \o em.sent \in Seq(Event)
<1>1. PICK r \in Seq(Event) : r = em.sent
  BY DEF Blocks, Emitter
<1>2. E \o r \in Seq(Event)
  BY DEF Blocks
<1>. QED  BY <1>1, <1>2 DEF Blocks, Emitter

\* A text keeps the blocks in order.
LEMMA TextBlocks ==
  ASSUME NEW E, NEW em, Blocks(E, em), NEW x \in Txt, NEW q \in Emitter, TextTo(em, x, q)
  PROVE  Blocks(E, q)
<1>1. E \in Seq(Event) /\ em \in Emitter /\ em.sent \in Seq(Event) /\ em.index \in Nat /\ em.blanks \in Txt
      /\ em.open \in BOOLEAN
  BY SentBefore
<1>2. PICK s \in Seq(Event) : s = E \o em.sent
  BY SentBefore
<1>3. InOrder(s) /\ Fits(em, s)
  BY <1>2 DEF Blocks
<1>4. CASE em.open
  <2>1. PICK e \in Event : e = BlockDelta(em.index, "text", x) /\ e.ev = "delta" /\ e.index = em.index /\ e.kind = "text"
    BY <1>1, EventTypes DEF Kinds
  <2>2. q.sent = Append(em.sent, e) /\ q.open = TRUE /\ q.index = em.index
    BY <1>4, <2>1 DEF TextTo
  <2>3. E \o q.sent = Append(s, e)
    BY <1>1, <1>2, <2>2, SentMore, SMTT(60)
  <2>4. Follows(s, e)
    BY <1>3, <1>4, <2>1 DEF Follows, Fits
  <2>5. PICK t : t = Append(s, e)
    OBVIOUS
  <2>6. InOrder(t) /\ t # <<>> /\ t[Len(t)] = e
    BY <1>3, <2>4, <2>5, InOrderAppend
  <2>7. Fits(q, t)
    BY <2>1, <2>2, <2>6 DEF Fits
  <2>. QED  BY <1>1, <2>3, <2>5, <2>6, <2>7 DEF Blocks
<1>5. CASE ~em.open /\ IsBlank(x)
  <2>1. q.sent = em.sent /\ q.open = FALSE /\ q.index = em.index
    BY <1>5 DEF TextTo
  <2>2. Fits(q, s)
    BY <1>3, <1>5, <2>1 DEF Fits
  <2>. QED  BY <1>1, <1>2, <1>3, <2>1, <2>2 DEF Blocks
<1>6. CASE ~em.open /\ ~IsBlank(x)
  <2>1. PICK a \in Event : a = BlockStart(em.index, "text") /\ a.ev = "start" /\ a.index = em.index /\ a.kind = "text"
    BY <1>1, EventTypes, NothingTxt DEF Kinds
  <2>2. em.blanks \o x \in Txt
    BY <1>1, TxtJoin
  <2>3. PICK b \in Event : b = BlockDelta(em.index, "text", em.blanks \o x) /\ b.ev = "delta" /\ b.index = em.index /\ b.kind = "text"
    BY <1>1, <2>2, EventTypes DEF Kinds
  <2>4. q.sent = Append(Append(em.sent, a), b) /\ q.open = TRUE /\ q.index = em.index
    BY <1>6, <2>1, <2>3 DEF TextTo
  <2>5. PICK t : t = Append(s, a)
    OBVIOUS
  <2>6. PICK u : u = Append(t, b)
    OBVIOUS
  <2>7. E \o q.sent = u
    <3>1. PICK r : r = Append(em.sent, a)
      OBVIOUS
    <3>2. r \in Seq(Event) /\ E \o r = t
      BY <1>1, <1>2, <2>5, <3>1, SentMore, SMTT(60)
    <3>3. q.sent = Append(r, b)
      BY <2>4, <3>1
    <3>. QED  BY <1>1, <2>6, <3>2, <3>3, SentMore, SMTT(60)
  <2>8. Follows(s, a)
    BY <1>3, <1>6, <2>1 DEF Follows, Fits
  <2>9. t \in Seq(Event) /\ InOrder(t) /\ t # <<>> /\ t[Len(t)] = a
    BY <1>3, <2>5, <2>8, InOrderAppend
  <2>10. Follows(t, b)
    BY <2>1, <2>3, <2>9 DEF Follows
  <2>11. InOrder(u) /\ u # <<>> /\ u[Len(u)] = b
    BY <2>6, <2>9, <2>10, InOrderAppend
  <2>12. Fits(q, u)
    BY <2>3, <2>4, <2>11 DEF Fits
  <2>. QED  BY <1>1, <2>7, <2>11, <2>12 DEF Blocks
<1>. QED  BY <1>1, <1>4, <1>5, <1>6

\* So does the end of a text block.
LEMMA CloseBlocks ==
  ASSUME NEW E, NEW em, Blocks(E, em), NEW q \in Emitter, CloseTo(em, q)
  PROVE  Blocks(E, q) /\ q.open = FALSE
<1>1. E \in Seq(Event) /\ em \in Emitter /\ em.sent \in Seq(Event) /\ em.index \in Nat /\ em.open \in BOOLEAN
  BY SentBefore
<1>2. PICK s \in Seq(Event) : s = E \o em.sent
  BY SentBefore
<1>3. InOrder(s) /\ Fits(em, s)
  BY <1>2 DEF Blocks
<1>4. CASE em.open
  <2>1. PICK e \in Event : e = BlockStop(em.index) /\ e.ev = "stop" /\ e.index = em.index
    BY <1>1, EventTypes, NothingTxt DEF Kinds
  <2>2. q.sent = Append(em.sent, e) /\ q.open = FALSE /\ q.index = em.index + 1
    BY <1>4, <2>1 DEF CloseTo
  <2>3. E \o q.sent = Append(s, e)
    BY <1>1, <1>2, <2>2, SentMore, SMTT(60)
  <2>4. Follows(s, e)
    BY <1>3, <1>4, <2>1 DEF Follows, Fits
  <2>5. PICK t : t = Append(s, e)
    OBVIOUS
  <2>6. InOrder(t) /\ t # <<>> /\ t[Len(t)] = e
    BY <1>3, <2>4, <2>5, InOrderAppend
  <2>7. Fits(q, t)
    BY <2>1, <2>2, <2>6 DEF Fits
  <2>. QED  BY <1>1, <2>2, <2>3, <2>5, <2>6, <2>7 DEF Blocks
<1>5. CASE ~em.open
  <2>1. q.sent = em.sent /\ q.open = FALSE /\ q.index = em.index
    BY <1>5 DEF CloseTo
  <2>2. Fits(q, s)
    BY <1>3, <1>5, <2>1 DEF Fits
  <2>. QED  BY <1>1, <1>2, <1>3, <2>1, <2>2 DEF Blocks
<1>. QED  BY <1>1, <1>4, <1>5

\* So does a tool block, when no text block is open.
LEMMA CallBlocks ==
  ASSUME NEW E, NEW c, Blocks(E, c), c.open = FALSE, NEW x \in Txt, NEW q \in Emitter, CallTo(c, x, q)
  PROVE  Blocks(E, q)
<1>1. E \in Seq(Event) /\ c \in Emitter /\ c.sent \in Seq(Event) /\ c.index \in Nat
  BY SentBefore
<1>2. PICK s \in Seq(Event) : s = E \o c.sent
  BY SentBefore
<1>3. InOrder(s) /\ Fits(c, s)
  BY <1>2 DEF Blocks
<1>4. PICK a \in Event : a = BlockStart(c.index, "call") /\ a.ev = "start" /\ a.index = c.index /\ a.kind = "call"
  BY <1>1, EventTypes, NothingTxt DEF Kinds
<1>5. PICK b \in Event : b = BlockDelta(c.index, "call", x) /\ b.ev = "delta" /\ b.index = c.index /\ b.kind = "call"
  BY <1>1, EventTypes DEF Kinds
<1>6. PICK z \in Event : z = BlockStop(c.index) /\ z.ev = "stop" /\ z.index = c.index
  BY <1>1, EventTypes, NothingTxt DEF Kinds
<1>7. q.sent = Append(Append(Append(c.sent, a), b), z) /\ q.open = FALSE /\ q.index = c.index + 1
  BY <1>4, <1>5, <1>6 DEF CallTo
<1>8. PICK t : t = Append(s, a)
  OBVIOUS
<1>9. PICK u : u = Append(t, b)
  OBVIOUS
<1>10. PICK v : v = Append(u, z)
  OBVIOUS
<1>11. E \o q.sent = v
  <2>1. PICK r : r = Append(c.sent, a)
    OBVIOUS
  <2>2. r \in Seq(Event) /\ E \o r = t
    BY <1>1, <1>2, <1>8, <2>1, SentMore, SMTT(60)
  <2>3. PICK y : y = Append(r, b)
    OBVIOUS
  <2>4. y \in Seq(Event) /\ E \o y = u
    BY <1>1, <1>9, <2>2, <2>3, SentMore, SMTT(60)
  <2>5. q.sent = Append(y, z)
    BY <1>7, <2>1, <2>3
  <2>6. PICK o : o = q.sent
    OBVIOUS
  <2>7. PICK w : w = E \o y
    OBVIOUS
  <2>8. E \o o = Append(w, z)
    BY <1>1, <2>4, <2>5, <2>6, <2>7, SentMore, SMTT(60)
  <2>. QED  BY <1>10, <2>4, <2>6, <2>7, <2>8
<1>12. Follows(s, a)
  BY <1>3, <1>4 DEF Follows, Fits
<1>13. t \in Seq(Event) /\ InOrder(t) /\ t # <<>> /\ t[Len(t)] = a
  BY <1>3, <1>8, <1>12, InOrderAppend
<1>14. Follows(t, b)
  BY <1>4, <1>5, <1>13 DEF Follows
<1>15. u \in Seq(Event) /\ InOrder(u) /\ u # <<>> /\ u[Len(u)] = b
  BY <1>9, <1>13, <1>14, InOrderAppend
<1>16. Follows(u, z)
  BY <1>5, <1>6, <1>15 DEF Follows
<1>17. InOrder(v) /\ v # <<>> /\ v[Len(v)] = z
  BY <1>10, <1>15, <1>16, InOrderAppend
<1>18. Fits(q, v)
  BY <1>6, <1>7, <1>17 DEF Fits
<1>. QED  BY <1>1, <1>11, <1>17, <1>18 DEF Blocks

\* So does any sequence of items.
LEMMA EmittedBlocks ==
  ASSUME NEW E, NEW em, Blocks(E, em), NEW p \in Seq(Item)
  PROVE  Blocks(E, Emitted(em, p))
<1>. DEFINE T == {u \in Seq(Item) : Blocks(E, Emitted(em, u))}
<1>1. em \in Emitter
  BY DEF Blocks
<1>2. <<>> \in T
  <2>1. <<>> \in Seq(Item)
    OBVIOUS
  <2>2. Emitted(em, <<>>) = em
    BY <1>1, EmittedNone
  <2>. QED  BY <2>1, <2>2
<1>3. ASSUME NEW u \in T, NEW e \in Item PROVE Append(u, e) \in T
  <2>1. u \in Seq(Item) /\ Append(u, e) \in Seq(Item) /\ Blocks(E, Emitted(em, u))
    OBVIOUS
  <2>2. PICK a \in Emitter : a = Emitted(em, u)
    BY <1>1, <2>1, EmittedStep
  <2>3. PICK q \in Emitter : q = OnEvent(a, e)
    BY OnEventIs
  <2>4. Emitted(em, Append(u, e)) = q
    BY <1>1, <2>1, <2>2, <2>3, EmittedStep
  <2>5. e.body \in Txt /\ \/ TextTo(a, e.body, q)
                          \/ CallTo(CloseText(a), e.body, q)
                          \/ q = a
    BY <2>3, OnEventIs
  <2>6. Blocks(E, a)
    BY <2>1, <2>2
  <2>7. PICK c \in Emitter : c = CloseText(a) /\ CloseTo(a, c)
    BY CloseTextIs
  <2>8. Blocks(E, c) /\ c.open = FALSE
    BY <2>6, <2>7, CloseBlocks
  <2>9. Blocks(E, q)
    <3>1. CASE TextTo(a, e.body, q)
      BY <2>5, <2>6, <3>1, TextBlocks
    <3>2. CASE CallTo(CloseText(a), e.body, q)
      BY <2>5, <2>7, <2>8, <3>2, CallBlocks
    <3>3. CASE q = a
      BY <2>6, <3>3
    <3>. QED  BY <2>5, <3>1, <3>2, <3>3
  <2>. QED  BY <2>1, <2>4, <2>9
<1>4. T = Seq(Item)
  <2>1. T \in SUBSET Seq(Item)
    OBVIOUS
  <2>. HIDE DEF T
  <2>. QED  BY <1>2, <1>3, <2>1, SequencesByInduction
<1>. QED  BY <1>4

-------------------------------------------------------------------------------
(* BlocksWellFormed.                                                          *)

\* The items of some kinds are items.
LEMMA OnlyType ==
  ASSUME NEW q \in Seq(Item), NEW K
  PROVE  Only(q, K) \in Seq(Item)
<1>. DEFINE f == [i \in 1 .. Len(q) |-> IF q[i].kind \in K THEN <<q[i]>> ELSE <<>>]
<1>1. f \in Seq(Seq(Item))
  <2>1. Len(q) \in Nat /\ \A i \in 1 .. Len(q) : q[i] \in Item
    OBVIOUS
  <2>2. \A e \in Item : <<e>> \in Seq(Item) /\ <<>> \in Seq(Item)
    OBVIOUS
  <2>3. \A i \in 1 .. Len(q) : (IF q[i].kind \in K THEN <<q[i]>> ELSE <<>>) \in Seq(Item)
    BY <2>1, <2>2
  <2>. QED  BY <2>1, <2>3
<1>2. Only(q, K) = FlattenSeq(f)
  BY DEF Only
<1>. HIDE DEF f
<1>. QED  BY <1>1, <1>2, FlattenType

\* What the parser ends with are items.
LEMMA FinishType ==
  ASSUME NEW p \in Running
  PROVE  ParserFinish(p) \in Seq(Item)
<1>1. PICK x \in Txt : x = p.buf /\ p.mode \in Mode
  BY DEF Running
<1>2. CASE p.mode = "text"
  BY <1>1, <1>2, ItemTypes DEF ParserFinish
<1>3. CASE p.mode = "think"
  <2>1. ParserFinish(p) = <<>>
    BY <1>3 DEF ParserFinish
  <2>. QED  BY <2>1
<1>4. CASE p.mode = "tool"
  <2>1. ParserFinish(p) = <<ParseCall(x)>>
    BY <1>1, <1>4 DEF ParserFinish
  <2>2. PICK e \in Item : e = ParseCall(x)
    BY ItemTypes
  <2>. QED  BY <2>1, <2>2
<1>. QED  BY <1>1, <1>2, <1>3, <1>4 DEF Mode

\* What a delivery parses.
ParsedOf(q, end) == IF end THEN q.out \o ParserFinish(q) ELSE q.out

\* What a delivery hands to the emitter are items.
LEMMA ParsedType ==
  ASSUME NEW q \in Running, NEW end
  PROVE  ParsedOf(q, end) \in Seq(Item) /\ [mode |-> q.mode, buf |-> q.buf] \in Parser
<1>1. PICK o \in Seq(Item), f \in Seq(Item) : o = q.out /\ f = ParserFinish(q)
  BY FinishType DEF Running
<1>2. o \o f \in Seq(Item)
  OBVIOUS
<1>. QED  BY <1>1, <1>2 DEF ParsedOf, Running, Parser

\* A malformed call as text.
LEMMA FallbackType ==
  ASSUME NEW x \in Txt
  PROVE  Fallback(x) \in Txt
<1>1. ToolOpen \in Txt /\ ToolClose \in Txt /\ <<Blank>> \in Txt
  BY TagTypes, MessageAssumption DEF Txt
<1>2. ToolOpen \o <<Blank>> \in Txt
  BY <1>1, TxtJoin
<1>3. (ToolOpen \o <<Blank>>) \o x \in Txt
  BY <1>2, TxtJoin
<1>4. ((ToolOpen \o <<Blank>>) \o x) \o <<Blank>> \in Txt
  BY <1>1, <1>3, TxtJoin
<1>5. (((ToolOpen \o <<Blank>>) \o x) \o <<Blank>>) \o ToolClose \in Txt
  BY <1>1, <1>4, TxtJoin
<1>. QED  BY <1>5 DEF Fallback

\* The events sent leave the emitter.
LEMMA SentOut ==
  ASSUME NEW E, NEW a, Blocks(E, a), NEW b, b = [a EXCEPT !.sent = <<>>]
  PROVE  /\ Blocks(E \o a.sent, b) /\ b.sent = <<>> /\ b.open = a.open /\ b.index = a.index
         /\ b.blanks = a.blanks /\ b.calls = a.calls
<1>1. PICK s \in Seq(Event) : s = E \o a.sent
  BY SentBefore
<1>2. /\ b \in Emitter /\ b.sent = <<>> /\ b.open = a.open /\ b.index = a.index
      /\ b.blanks = a.blanks /\ b.calls = a.calls
  <2>1. <<>> \in Seq(Event)
    OBVIOUS
  <2>. QED  BY <2>1 DEF Emitter, Blocks
<1>3. s \o <<>> = s
  BY ConcatEmptySeq
<1>4. InOrder(s) /\ Fits(a, s)
  BY <1>1 DEF Blocks
<1>5. Fits(b, s)
  BY <1>2, <1>4 DEF Fits
<1>. QED  BY <1>1, <1>2, <1>3, <1>4, <1>5 DEF Blocks

BlockInv ==
  /\ Blocks(events, emitter) /\ emitter.sent = <<>>
  /\ parser \in Parser /\ malformed \in Seq(Item)
  /\ phase = "ended" => emitter.open = FALSE

\* A delivery keeps the blocks in order.
LEMMA DeliverBlocks ==
  ASSUME BlockInv, NEW text \in Txt, NEW end, Deliver(text, end)
  PROVE  /\ Blocks(events', emitter') /\ emitter'.sent = <<>>
         /\ parser' \in Parser /\ malformed' \in Seq(Item)
<1>1. PICK q \in Running : q = ParserPush(parser, text)
  BY PushType DEF BlockInv
<1>2. PICK p \in Seq(Item) : p = ParsedOf(q, end) /\ [mode |-> q.mode, buf |-> q.buf] \in Parser
  BY ParsedType
<1>3. PICK a : a = Emitted(emitter, p)
  OBVIOUS
<1>4. /\ parser' = [mode |-> q.mode, buf |-> q.buf]
      /\ malformed' = malformed \o Only(p, {"malformed"})
      /\ emitter' = [a EXCEPT !.sent = <<>>]
      /\ events' = events \o a.sent
  BY <1>1, <1>2, <1>3, Zenon DEF Deliver, ParsedOf
<1>5. Blocks(events, a)
  BY <1>3, EmittedBlocks DEF BlockInv
<1>6. PICK b : b = emitter'
  OBVIOUS
<1>7. Blocks(events \o a.sent, b) /\ b.sent = <<>>
  BY <1>4, <1>5, <1>6, SentOut
<1>8. malformed' \in Seq(Item)
  <2>1. PICK m \in Seq(Item), o \in Seq(Item) : m = malformed /\ o = Only(p, {"malformed"})
    BY OnlyType DEF BlockInv
  <2>2. m \o o \in Seq(Item)
    OBVIOUS
  <2>. QED  BY <1>4, <2>1, <2>2
<1>. QED  BY <1>2, <1>4, <1>6, <1>7, <1>8

\* The blocks are in order at the start.
LEMMA BlockInit ==
  ASSUME Init
  PROVE  BlockInv
<1>1. /\ phase = "reading" /\ parser = NewParser /\ malformed = <<>> /\ emitter = NewEmitter
      /\ events = <<>>
  BY DEF Init
<1>2. NewParser \in Parser
  BY NothingTxt DEF NewParser, Parser, Mode
<1>3. /\ NewEmitter \in Emitter /\ NewEmitter.sent = <<>> /\ NewEmitter.open = FALSE /\ NewEmitter.index = 0
  <2>1. <<>> \in Seq(Event)
    OBVIOUS
  <2>. QED  BY <2>1, NothingTxt DEF NewEmitter, Emitter
<1>4. <<>> \o <<>> = <<>> /\ <<>> \in Seq(Event) /\ <<>> \in Seq(Item)
  OBVIOUS
<1>5. InOrder(<<>>)
  BY DEF InOrder
<1>6. Fits(NewEmitter, <<>>)
  BY <1>3 DEF Fits
<1>. QED  BY <1>1, <1>2, <1>3, <1>4, <1>5, <1>6 DEF BlockInv, Blocks

\* Every step keeps them so.
LEMMA BlockNext ==
  ASSUME StopInv, BlockInv, [Next]_vars
  PROVE  BlockInv'
<1>1. CASE Receive
  <2>1. PICK new \in Seq(Pieces), d \in Detector :
           /\ phase = "reading" /\ d.ready \in Txt
           /\ \/ phase' = "tail" /\ UNCHANGED <<raw, parser, malformed, emitter, events>>
              \/ Deliver(d.ready, FALSE) /\ UNCHANGED <<finish, phase>>
    BY <1>1, ReceiveIs
  <2>2. CASE phase' = "tail" /\ UNCHANGED <<parser, malformed, emitter, events>>
    BY <2>2 DEF BlockInv
  <2>3. CASE Deliver(d.ready, FALSE) /\ phase' = "reading" /\ d.ready \in Txt
    <3>1. PICK text \in Txt : text = d.ready
      BY <2>3
    <3>2. /\ Blocks(events', emitter') /\ emitter'.sent = <<>>
          /\ parser' \in Parser /\ malformed' \in Seq(Item)
      BY <2>3, <3>1, DeliverBlocks
    <3>. QED  BY <2>3, <3>2 DEF BlockInv
  <2>. QED  BY <2>1, <2>2, <2>3
<1>2. CASE ReceiveDone \/ ReceiveError
  <2>1. phase' # "ended" /\ UNCHANGED <<parser, malformed, emitter, events>>
    BY <1>2 DEF ReceiveDone, ReceiveError
  <2>. QED  BY <2>1 DEF BlockInv
<1>3. CASE ParseRest
  <2>1. phase = "tail" /\ Deliver(Finished(det), TRUE) /\ phase' = "decide"
    BY <1>3 DEF ParseRest
  <2>2. PICK text \in Txt : text = Finished(det)
    BY <2>1, RestCut DEF StopInv, StopType
  <2>3. /\ Blocks(events', emitter') /\ emitter'.sent = <<>>
        /\ parser' \in Parser /\ malformed' \in Seq(Item)
    BY <2>1, <2>2, DeliverBlocks
  <2>. QED  BY <2>1, <2>3 DEF BlockInv
<1>4. CASE Retry
  <2>1. /\ phase' = "reading" /\ parser' = NewParser /\ malformed' = <<>> /\ UNCHANGED <<emitter, events>>
    BY <1>4 DEF Retry
  <2>2. NewParser \in Parser /\ <<>> \in Seq(Item)
    BY NothingTxt DEF NewParser, Parser, Mode
  <2>. QED  BY <2>1, <2>2 DEF BlockInv
<1>5. CASE End
  <2>. DEFINE left == IF emitter.calls = 0
                      THEN [i \in 1 .. Len(malformed) |-> Text(Fallback(malformed[i].body))] ELSE <<>>
  <2>1. left \in Seq(Item)
    <3>1. Len(malformed) \in Nat /\ \A i \in 1 .. Len(malformed) : malformed[i] \in Item
      BY DEF BlockInv
    <3>2. \A e \in Item : Text(Fallback(e.body)) \in Item
      BY ItemTypes, FallbackType DEF Item
    <3>3. [i \in 1 .. Len(malformed) |-> Text(Fallback(malformed[i].body))] \in Seq(Item)
      BY <3>1, <3>2
    <3>. QED  BY <3>3
  <2>2. PICK a : a = Emitted(emitter, left)
    OBVIOUS
  <2>3. PICK c : c = CloseText(a)
    OBVIOUS
  <2>4. /\ emitter' = [c EXCEPT !.sent = <<>>] /\ events' = events \o c.sent /\ phase' = "ended"
        /\ UNCHANGED <<parser, malformed>>
    BY <1>5, <2>2, <2>3, Zenon DEF End
  <2>. HIDE DEF left
  <2>5. Blocks(events, a)
    BY <2>1, <2>2, EmittedBlocks DEF BlockInv
  <2>6. Blocks(events, c) /\ c.open = FALSE
    <3>1. c \in Emitter /\ CloseTo(a, c)
      BY <2>3, <2>5, CloseTextIs DEF Blocks
    <3>. QED  BY <2>5, <3>1, CloseBlocks
  <2>7. PICK b : b = emitter'
    OBVIOUS
  <2>8. Blocks(events \o c.sent, b) /\ b.sent = <<>> /\ b.open = FALSE
    BY <2>4, <2>6, <2>7, SentOut
  <2>. QED  BY <2>4, <2>7, <2>8 DEF BlockInv
<1>6. CASE UNCHANGED vars
  BY <1>6 DEF vars, BlockInv
<1>. QED  BY <1>1, <1>2, <1>3, <1>4, <1>5, <1>6 DEF Next

\* Blocks are numbered from 0, open, carry deltas of their own kind and close
\* before the next opens, across deliveries and retries; none is open at the end:
\* BlockEmitter as stream_messages uses it, for any output of the model.
THEOREM BlocksInOrder == Spec => []BlocksWellFormed
<1>1. BlockInv => BlocksWellFormed
  <2>. SUFFICES ASSUME BlockInv PROVE BlocksWellFormed
    OBVIOUS
  <2>1. PICK s \in Seq(Event) : s = events /\ events \o emitter.sent = s
    <3>1. events \in Seq(Event) /\ emitter.sent = <<>>
      BY DEF BlockInv, Blocks
    <3>. QED  BY <3>1, ConcatEmptySeq
  <2>2. InOrder(events) /\ Fits(emitter, events)
    BY <2>1 DEF BlockInv, Blocks
  <2>3. phase = "ended" /\ events # <<>> => Last(events).ev = "stop"
    BY <2>2 DEF BlockInv, Fits, Last
  <2>. QED  BY <2>2, <2>3, Zenon DEF BlocksWellFormed, InOrder, Placed
<1>. QED  BY <1>1, StopInit, StopNext, BlockInit, BlockNext, PTL DEF Spec

-------------------------------------------------------------------------------
(* Sequences made element by element: Letters, Only.                          *)

Each(F, q) == FlattenSeq([i \in 1 .. Len(q) |-> F[q[i]]])

\* What it is made of.
LEMMA EachType ==
  ASSUME NEW S, NEW V, NEW F \in [S -> Seq(V)], NEW q \in Seq(S)
  PROVE  [i \in 1 .. Len(q) |-> F[q[i]]] \in Seq(Seq(V)) /\ Each(F, q) \in Seq(V)
<1>. DEFINE f == [i \in 1 .. Len(q) |-> F[q[i]]]
<1>1. Len(q) \in Nat /\ \A i \in 1 .. Len(q) : F[q[i]] \in Seq(V)
  OBVIOUS
<1>2. f \in Seq(Seq(V))
  BY <1>1
<1>3. Each(F, q) = FlattenSeq(f)
  BY DEF Each
<1>. HIDE DEF f
<1>4. Each(F, q) \in Seq(V)
  BY <1>2, <1>3, FlattenType
<1>. QED  BY <1>2, <1>4 DEF f

\* Of a concatenation it is the concatenation.
EachJoins(F, p, q) == Each(F, p \o q) = Each(F, p) \o Each(F, q)

\* Sequences made element by element: of a concatenation, made of both parts.
LEMMA EachConcat ==
  ASSUME NEW S, NEW V, NEW F \in [S -> Seq(V)], NEW p \in Seq(S), NEW q \in Seq(S)
  PROVE  EachJoins(F, p, q)
<1>. DEFINE r == p \o q
            f == [i \in 1 .. Len(p) |-> F[p[i]]]  g == [i \in 1 .. Len(q) |-> F[q[i]]]
            h == [i \in 1 .. Len(r) |-> F[r[i]]]
<1>1. /\ r \in Seq(S) /\ Len(p) \in Nat /\ Len(q) \in Nat /\ Len(r) = Len(p) + Len(q)
      /\ \A i \in 1 .. Len(p) : r[i] = p[i]
      /\ \A i \in 1 .. Len(q) : r[Len(p) + i] = q[i]
  BY Joint
<1>2. f \in Seq(Seq(V)) /\ g \in Seq(Seq(V)) /\ h \in Seq(Seq(V))
  <2>. HIDE DEF r
  <2>. QED  BY <1>1, EachType
<1>3. Each(F, p) = FlattenSeq(f) /\ Each(F, q) = FlattenSeq(g) /\ Each(F, r) = FlattenSeq(h)
  BY DEF Each
<1>. DEFINE k == f \o g
<1>4. /\ k \in Seq(Seq(V)) /\ Len(k) = Len(f) + Len(g)
      /\ \A i \in 1 .. Len(f) : k[i] = f[i]
      /\ \A i \in 1 .. Len(g) : k[Len(f) + i] = g[i]
  <2>. HIDE DEF f, g
  <2>. QED  BY <1>2, Joint
<1>5. /\ Len(f) = Len(p) /\ Len(g) = Len(q) /\ Len(h) = Len(r)
      /\ \A i \in 1 .. Len(p) : f[i] = F[p[i]]
      /\ \A i \in 1 .. Len(q) : g[i] = F[q[i]]
      /\ \A i \in 1 .. Len(r) : h[i] = F[r[i]]
  <2>. HIDE DEF r
  <2>. QED  BY <1>1
<1>. HIDE DEF f, g, h, k, r
<1>6. \A i \in 1 .. Len(r) : h[i] = k[i]
  <2>. TAKE i \in 1 .. Len(r)
  <2>1. CASE i \in 1 .. Len(p)
    BY <1>1, <1>4, <1>5, <2>1
  <2>2. CASE i \notin 1 .. Len(p)
    <3>1. i - Len(p) \in 1 .. Len(q) /\ Len(p) + (i - Len(p)) = i
      BY <1>1, <2>2
    <3>2. PICK j \in 1 .. Len(q) : Len(p) + j = i
      BY <3>1
    <3>. QED  BY <1>1, <1>4, <1>5, <3>2
  <2>. QED  BY <2>1, <2>2
<1>7. h = k
  BY <1>1, <1>2, <1>4, <1>5, <1>6, SeqEqual
<1>8. FlattenSeq(k) = FlattenSeq(f) \o FlattenSeq(g)
  BY <1>2, FlattenConcat DEF k
<1>. QED  BY <1>3, <1>7, <1>8, Zenon DEF r, EachJoins

\* Of one element, and of none.
LEMMA EachOne ==
  ASSUME NEW S, NEW V, NEW F \in [S -> Seq(V)], NEW e \in S
  PROVE  Each(F, <<e>>) = F[e] /\ Each(F, <<>>) = <<>>
<1>1. [i \in 1 .. Len(<<e>>) |-> F[<<e>>[i]]] = <<F[e]>>
  OBVIOUS
<1>2. F[e] \in Seq(V)
  OBVIOUS
<1>3. [i \in 1 .. Len(<<>>) |-> F[<<>>[i]]] = <<>>
  OBVIOUS
<1>. QED  BY <1>1, <1>2, <1>3, FlattenOne, FlattenEmpty DEF Each

\* Things of any kind; of text, each letter is one.
Thing == [kind : {"text", "call", "malformed", "any"}, body : Txt]
Spelt(e) == IF e.kind = "text" THEN [j \in 1 .. Len(e.body) |-> Text(<<e.body[j]>>)] ELSE <<e>>
Spell == [e \in Thing |-> Spelt(e)]
Kept(K) == [e \in Thing |-> IF e.kind \in K THEN <<e>> ELSE <<>>]

\* Items are things, and so are the letters of a text.
LEMMA ThingTypes ==
  /\ Item \subseteq Thing /\ Seq(Item) \subseteq Seq(Thing)
  /\ \A e \in Thing : e.body \in Txt /\ Spelt(e) \in Seq(Thing)
  /\ \A K : Kept(K) \in [Thing -> Seq(Thing)]
  /\ Spell \in [Thing -> Seq(Thing)]
<1>1. Item \subseteq Thing
  BY DEF Item, Thing
<1>2. Seq(Item) \subseteq Seq(Thing)
  BY <1>1
<1>3. ASSUME NEW e \in Thing PROVE e.body \in Txt /\ Spelt(e) \in Seq(Thing)
  <2>1. e.body \in Txt
    BY DEF Thing
  <2>2. Len(e.body) \in Nat /\ \A j \in 1 .. Len(e.body) : <<e.body[j]>> \in Txt
    BY <2>1 DEF Txt
  <2>3. \A j \in 1 .. Len(e.body) : Text(<<e.body[j]>>) \in Thing
    BY <1>1, <2>2, ItemTypes
  <2>4. [j \in 1 .. Len(e.body) |-> Text(<<e.body[j]>>)] \in Seq(Thing)
    BY <2>2, <2>3, SMTT(60)
  <2>5. <<e>> \in Seq(Thing)
    OBVIOUS
  <2>. QED  BY <2>1, <2>4, <2>5 DEF Spelt
<1>4. ASSUME NEW K PROVE Kept(K) \in [Thing -> Seq(Thing)]
  <2>1. \A e \in Thing : <<e>> \in Seq(Thing) /\ <<>> \in Seq(Thing)
    OBVIOUS
  <2>. QED  BY <2>1 DEF Kept
<1>5. Spell \in [Thing -> Seq(Thing)]
  BY <1>3 DEF Spell
<1>. QED  BY <1>1, <1>2, <1>3, <1>4, <1>5

\* Letters and Only are made element by element.
LEMMA EachLetter ==
  ASSUME NEW q \in Seq(Thing)
  PROVE  Letters(q) = Each(Spell, q) /\ Letters(q) \in Seq(Thing)
<1>1. \A i \in 1 .. Len(q) : q[i] \in Thing
  OBVIOUS
<1>2. [i \in 1 .. Len(q) |-> Spelt(q[i])] = [i \in 1 .. Len(q) |-> Spell[q[i]]]
  BY <1>1 DEF Spell
<1>3. Letters(q) = FlattenSeq([i \in 1 .. Len(q) |-> Spelt(q[i])])
  BY DEF Letters, Spelt
<1>4. Letters(q) = Each(Spell, q)
  BY <1>2, <1>3 DEF Each
<1>. QED  BY <1>4, ThingTypes, EachType

\* Only keeps each item or drops it.
LEMMA EachKept ==
  ASSUME NEW q \in Seq(Thing), NEW K
  PROVE  Only(q, K) = Each(Kept(K), q) /\ Only(q, K) \in Seq(Thing)
<1>1. \A i \in 1 .. Len(q) : q[i] \in Thing
  OBVIOUS
<1>2. [i \in 1 .. Len(q) |-> IF q[i].kind \in K THEN <<q[i]>> ELSE <<>>] = [i \in 1 .. Len(q) |-> Kept(K)[q[i]]]
  BY <1>1 DEF Kept
<1>3. Only(q, K) = Each(Kept(K), q)
  BY <1>2 DEF Each, Only
<1>4. Kept(K) \in [Thing -> Seq(Thing)]
  BY ThingTypes
<1>5. Each(Kept(K), q) \in Seq(Thing)
  BY <1>4, EachType
<1>. QED  BY <1>3, <1>5

LettersJoin(p, q) == Letters(p \o q) = Letters(p) \o Letters(q)
OnlyJoins(p, q, K) == Only(p \o q, K) = Only(p, K) \o Only(q, K)

\* The letters of a concatenation.
LEMMA LettersConcat ==
  ASSUME NEW p \in Seq(Thing), NEW q \in Seq(Thing)
  PROVE  /\ LettersJoin(p, q) /\ p \o q \in Seq(Thing)
         /\ Letters(p) \in Seq(Thing) /\ Letters(q) \in Seq(Thing)
<1>1. p \o q \in Seq(Thing)
  BY Joint
<1>2. EachJoins(Spell, p, q)
  <2>1. Spell \in [Thing -> Seq(Thing)]
    BY ThingTypes
  <2>. QED  BY <2>1, EachConcat
<1>3. Letters(p) = Each(Spell, p) /\ Letters(q) = Each(Spell, q) /\ Letters(p \o q) = Each(Spell, p \o q)
  BY <1>1, EachLetter
<1>4. LettersJoin(p, q)
  BY <1>2, <1>3, Zenon DEF LettersJoin, EachJoins
<1>. QED  BY <1>1, <1>4, EachLetter

\* The items of some kinds in a concatenation.
LEMMA OnlyConcat ==
  ASSUME NEW p \in Seq(Thing), NEW q \in Seq(Thing), NEW K
  PROVE  /\ OnlyJoins(p, q, K) /\ p \o q \in Seq(Thing)
         /\ Only(p, K) \in Seq(Thing) /\ Only(q, K) \in Seq(Thing)
<1>1. p \o q \in Seq(Thing)
  BY Joint
<1>2. EachJoins(Kept(K), p, q)
  <2>1. Kept(K) \in [Thing -> Seq(Thing)]
    BY ThingTypes
  <2>. QED  BY <2>1, EachConcat
<1>3. Only(p, K) = Each(Kept(K), p) /\ Only(q, K) = Each(Kept(K), q) /\ Only(p \o q, K) = Each(Kept(K), p \o q)
  BY <1>1, EachKept
<1>4. OnlyJoins(p, q, K)
  BY <1>2, <1>3, Zenon DEF OnlyJoins, EachJoins
<1>. QED  BY <1>1, <1>4, EachKept

\* Letters and kinds of a single item, and of none.
LEMMA ThingAlone ==
  ASSUME NEW e \in Thing, NEW K
  PROVE  /\ Letters(<<e>>) = Spelt(e) /\ Letters(<<>>) = <<>>
         /\ Only(<<e>>, K) = (IF e.kind \in K THEN <<e>> ELSE <<>>) /\ Only(<<>>, K) = <<>>
         /\ <<e>> \in Seq(Thing) /\ <<>> \in Seq(Thing)
<1>1. <<e>> \in Seq(Thing) /\ <<>> \in Seq(Thing)
  OBVIOUS
<1>2. Each(Spell, <<e>>) = Spell[e] /\ Each(Spell, <<>>) = <<>>
  BY ThingTypes, EachOne
<1>3. Each(Kept(K), <<e>>) = Kept(K)[e] /\ Each(Kept(K), <<>>) = <<>>
  BY ThingTypes, EachOne
<1>4. Spell[e] = Spelt(e) /\ Kept(K)[e] = IF e.kind \in K THEN <<e>> ELSE <<>>
  BY DEF Spell, Kept
<1>. QED  BY <1>1, <1>2, <1>3, <1>4, EachLetter, EachKept

\* A sequence grows by one.
LEMMA OneMore ==
  ASSUME NEW S, NEW u \in Seq(S), NEW e \in S
  PROVE  Append(u, e) = u \o <<e>> /\ <<e>> \in Seq(S) /\ u \o <<e>> \in Seq(S)
OBVIOUS

\* What has none of the kinds is left out, what has only them is kept.
LEMMA OnlyNone ==
  ASSUME NEW q \in Seq(Thing), NEW K, \A i \in 1 .. Len(q) : q[i].kind \notin K
  PROVE  Only(q, K) = <<>>
<1>. DEFINE f == [i \in 1 .. Len(q) |-> IF q[i].kind \in K THEN <<q[i]>> ELSE <<>>]
            T == {u \in Seq(Thing) : (\A i \in 1 .. Len(u) : u[i].kind \notin K) => Only(u, K) = <<>>}
<1>1. PICK z \in Thing : TRUE
  BY ThingTypes, ItemTypes, NothingTxt
<1>2. <<>> \in T
  BY <1>1, ThingAlone
<1>3. ASSUME NEW u \in T, NEW e \in Thing PROVE Append(u, e) \in T
  <2>1. u \in Seq(Thing) /\ ((\A i \in 1 .. Len(u) : u[i].kind \notin K) => Only(u, K) = <<>>)
    OBVIOUS
  <2>2. PICK w \in Seq(Thing) : w = Append(u, e)
    <3>. HIDE DEF T
    <3>. QED  BY <2>1, AppendProperties
  <2>3. /\ Len(u) \in Nat /\ Len(w) = Len(u) + 1 /\ w[Len(u) + 1] = e /\ \A i \in 1 .. Len(u) : w[i] = u[i]
    BY <2>1, <2>2, AppendProperties
  <2>4. w = u \o <<e>> /\ <<e>> \in Seq(Thing)
    BY <2>1, <2>2, OneMore
  <2>5. Only(w, K) = Only(u, K) \o Only(<<e>>, K)
    <3>1. OnlyJoins(u, <<e>>, K)
      BY <2>1, <2>4, OnlyConcat
    <3>. QED  BY <2>4, <3>1, Zenon DEF OnlyJoins
  <2>6. ASSUME \A i \in 1 .. Len(w) : w[i].kind \notin K PROVE Only(w, K) = <<>>
    <3>1. Len(u) + 1 \in 1 .. Len(w) /\ \A i \in 1 .. Len(u) : i \in 1 .. Len(w)
      BY <2>3
    <3>2. e.kind \notin K /\ \A i \in 1 .. Len(u) : u[i].kind \notin K
      BY <2>3, <2>6, <3>1
    <3>3. Only(u, K) = <<>> /\ Only(<<e>>, K) = <<>>
      BY <2>1, <3>2, ThingAlone
    <3>4. <<>> \o <<>> = <<>>
      OBVIOUS
    <3>. QED  BY <2>5, <3>3, <3>4
  <2>. QED  BY <2>2, <2>6
<1>4. T \in SUBSET Seq(Thing)
  OBVIOUS
<1>5. T = Seq(Thing)
  <2>. HIDE DEF T
  <2>. QED  BY <1>2, <1>3, <1>4, SequencesByInduction
<1>. QED  BY <1>5

\* Nothing is dropped when every item is of the kinds asked for.
LEMMA OnlyAll ==
  ASSUME NEW q \in Seq(Thing), NEW K, \A i \in 1 .. Len(q) : q[i].kind \in K
  PROVE  Only(q, K) = q
<1>. DEFINE T == {u \in Seq(Thing) : (\A i \in 1 .. Len(u) : u[i].kind \in K) => Only(u, K) = u}
<1>1. PICK z \in Thing : TRUE
  BY ThingTypes, ItemTypes, NothingTxt
<1>2. <<>> \in T
  BY <1>1, ThingAlone
<1>3. ASSUME NEW u \in T, NEW e \in Thing PROVE Append(u, e) \in T
  <2>1. u \in Seq(Thing) /\ ((\A i \in 1 .. Len(u) : u[i].kind \in K) => Only(u, K) = u)
    OBVIOUS
  <2>2. PICK w \in Seq(Thing) : w = Append(u, e)
    <3>. HIDE DEF T
    <3>. QED  BY <2>1, AppendProperties
  <2>3. /\ Len(u) \in Nat /\ Len(w) = Len(u) + 1 /\ w[Len(u) + 1] = e /\ \A i \in 1 .. Len(u) : w[i] = u[i]
    BY <2>1, <2>2, AppendProperties
  <2>4. w = u \o <<e>> /\ <<e>> \in Seq(Thing)
    BY <2>1, <2>2, OneMore
  <2>5. Only(w, K) = Only(u, K) \o Only(<<e>>, K)
    <3>1. OnlyJoins(u, <<e>>, K)
      BY <2>1, <2>4, OnlyConcat
    <3>. QED  BY <2>4, <3>1, Zenon DEF OnlyJoins
  <2>6. ASSUME \A i \in 1 .. Len(w) : w[i].kind \in K PROVE Only(w, K) = w
    <3>1. Len(u) + 1 \in 1 .. Len(w) /\ \A i \in 1 .. Len(u) : i \in 1 .. Len(w)
      BY <2>3
    <3>2. e.kind \in K /\ \A i \in 1 .. Len(u) : u[i].kind \in K
      BY <2>3, <2>6, <3>1
    <3>3. Only(u, K) = u /\ Only(<<e>>, K) = <<e>>
      BY <2>1, <3>2, ThingAlone
    <3>. QED  BY <2>4, <2>5, <3>3
  <2>. QED  BY <2>2, <2>6
<1>4. T \in SUBSET Seq(Thing)
  OBVIOUS
<1>5. T = Seq(Thing)
  <2>. HIDE DEF T
  <2>. QED  BY <1>2, <1>3, <1>4, SequencesByInduction
<1>. QED  BY <1>5

\* Calls are letters of their own.
LEMMA OnlyLetters ==
  ASSUME NEW q \in Seq(Thing), NEW K, "text" \notin K
  PROVE  Only(Letters(q), K) = Only(q, K)
<1>. DEFINE T == {u \in Seq(Thing) : Only(Letters(u), K) = Only(u, K)}
<1>1. PICK z \in Thing : TRUE
  BY ThingTypes, ItemTypes, NothingTxt
<1>2. <<>> \in T
  BY <1>1, ThingAlone
<1>3. ASSUME NEW u \in T, NEW e \in Thing PROVE Append(u, e) \in T
  <2>1. u \in Seq(Thing) /\ Only(Letters(u), K) = Only(u, K)
    OBVIOUS
  <2>2. PICK w \in Seq(Thing) : w = Append(u, e)
    <3>. HIDE DEF T
    <3>. QED  BY <2>1, AppendProperties
  <2>4. w = u \o <<e>> /\ <<e>> \in Seq(Thing)
    BY <2>1, <2>2, OneMore
  <2>5. Only(w, K) = Only(u, K) \o Only(<<e>>, K)
    <3>1. OnlyJoins(u, <<e>>, K)
      BY <2>1, <2>4, OnlyConcat
    <3>. QED  BY <2>4, <3>1, Zenon DEF OnlyJoins
  <2>6. Letters(w) = Letters(u) \o Spelt(e) /\ Letters(u) \in Seq(Thing) /\ Spelt(e) \in Seq(Thing)
    <3>1. LettersJoin(u, <<e>>) /\ Letters(u) \in Seq(Thing)
      BY <2>1, <2>4, LettersConcat
    <3>2. Letters(<<e>>) = Spelt(e) /\ Spelt(e) \in Seq(Thing)
      BY ThingAlone, ThingTypes
    <3>. QED  BY <2>4, <3>1, <3>2, Zenon DEF LettersJoin
  <2>7. Only(Letters(w), K) = Only(Letters(u), K) \o Only(Spelt(e), K)
    <3>1. OnlyJoins(Letters(u), Spelt(e), K)
      BY <2>6, OnlyConcat
    <3>. QED  BY <2>6, <3>1, Zenon DEF OnlyJoins
  <2>8. Only(Spelt(e), K) = Only(<<e>>, K)
    <3>1. CASE e.kind = "text"
      <4>1. \A i \in 1 .. Len(Spelt(e)) : Spelt(e)[i].kind \notin K
        <5>1. Len(e.body) \in Nat
          BY ThingTypes DEF Txt
        <5>. QED  BY <3>1, <5>1 DEF Spelt, Text
      <4>2. Only(Spelt(e), K) = <<>>
        BY <2>6, <4>1, OnlyNone
      <4>3. Only(<<e>>, K) = <<>>
        BY <3>1, ThingAlone
      <4>. QED  BY <4>2, <4>3
    <3>2. CASE e.kind # "text"
      BY <3>2 DEF Spelt
    <3>. QED  BY <3>1, <3>2
  <2>9. Only(Letters(w), K) = Only(w, K)
    BY <2>1, <2>5, <2>7, <2>8, Zenon
  <2>. QED  BY <2>2, <2>9
<1>4. T \in SUBSET Seq(Thing)
  OBVIOUS
<1>5. T = Seq(Thing)
  <2>. HIDE DEF T
  <2>. QED  BY <1>2, <1>3, <1>4, SequencesByInduction
<1>. QED  BY <1>5

\* The letters of a text that is read in two parts.
LEMMA LettersOutside ==
  ASSUME NEW x \in Txt, NEW y \in Txt
  PROVE  /\ Letters(Outside(x \o y)) = Letters(Outside(x)) \o Letters(Outside(y))
         /\ Outside(x) \in Seq(Thing) /\ Letters(Outside(x)) \in Seq(Thing)
<1>. DEFINE sp(t) == [j \in 1 .. Len(t) |-> Text(<<t[j]>>)]
<1>1. ASSUME NEW t \in Txt PROVE Letters(Outside(t)) = sp(t) /\ sp(t) \in Seq(Thing) /\ Outside(t) \in Seq(Thing)
  <2>1. Text(t) \in Thing /\ Text(t).kind = "text" /\ Text(t).body = t
    BY ItemTypes, ThingTypes
  <2>2. Letters(<<Text(t)>>) = sp(t) /\ sp(t) \in Seq(Thing)
    BY <2>1, ThingAlone, ThingTypes DEF Spelt
  <2>3. CASE t = <<>>
    <3>1. Outside(t) = <<>> /\ sp(t) = <<>>
      BY <2>3 DEF Outside
    <3>. QED  BY <2>1, <2>2, <3>1, ThingAlone
  <2>4. CASE t # <<>>
    BY <2>1, <2>2, <2>4, ThingAlone DEF Outside
  <2>. QED  BY <2>3, <2>4
<1>2. PICK z \in Txt : z = x \o y
  BY TxtJoin
<1>3. /\ Len(x) \in Nat /\ Len(y) \in Nat /\ Len(z) = Len(x) + Len(y)
      /\ \A i \in 1 .. Len(x) : z[i] = x[i]
      /\ \A i \in 1 .. Len(y) : z[Len(x) + i] = y[i]
  BY <1>2, Joint DEF Txt
<1>. DEFINE a == sp(x)  b == sp(y)  c == sp(z)  d == a \o b
<1>4. /\ a \in Seq(Thing) /\ Len(a) = Len(x) /\ \A i \in 1 .. Len(x) : a[i] = Text(<<x[i]>>)
      /\ b \in Seq(Thing) /\ Len(b) = Len(y) /\ \A i \in 1 .. Len(y) : b[i] = Text(<<y[i]>>)
      /\ c \in Seq(Thing) /\ Len(c) = Len(z) /\ \A i \in 1 .. Len(z) : c[i] = Text(<<z[i]>>)
  <2>1. ASSUME NEW t \in Txt PROVE /\ Len(sp(t)) = Len(t) /\ \A i \in 1 .. Len(t) : sp(t)[i] = Text(<<t[i]>>)
    <3>1. Len(t) \in Nat
      BY DEF Txt
    <3>. QED  BY <3>1
  <2>. HIDE DEF sp
  <2>. QED  BY <1>1, <2>1
<1>5. a = Letters(Outside(x)) /\ b = Letters(Outside(y)) /\ c = Letters(Outside(z))
  BY <1>1
<1>. HIDE DEF a, b, c
<1>6. /\ d \in Seq(Thing) /\ Len(d) = Len(a) + Len(b)
      /\ \A i \in 1 .. Len(a) : d[i] = a[i]
      /\ \A i \in 1 .. Len(b) : d[Len(a) + i] = b[i]
  <2>1. a \in Seq(Thing) /\ b \in Seq(Thing)
    BY <1>4
  <2>. QED  BY <2>1, Joint
<1>. HIDE DEF d
<1>7. \A i \in 1 .. Len(z) : c[i] = d[i]
  <2>. TAKE i \in 1 .. Len(z)
  <2>1. CASE i \in 1 .. Len(x)
    BY <1>3, <1>4, <1>6, <2>1, ZenonT(100)
  <2>2. CASE i \notin 1 .. Len(x)
    <3>1. i - Len(x) \in 1 .. Len(y) /\ Len(x) + (i - Len(x)) = i
      BY <1>3, <2>2
    <3>2. PICK j \in 1 .. Len(y) : Len(x) + j = i
      BY <3>1
    <3>. QED  BY <1>3, <1>4, <1>6, <3>2, ZenonT(100)
  <2>. QED  BY <2>1, <2>2
<1>8. c = d
  BY <1>3, <1>4, <1>6, <1>7, SeqEqual
<1>. QED  BY <1>1, <1>2, <1>5, <1>8, Zenon DEF d

-------------------------------------------------------------------------------
(* A whole text parsed at once: Items.                                        *)

\* A function applied again and again.
Again(h, S, F, a) == h \in [Nat -> S] /\ h[0] = a /\ \A n \in Nat : h[n + 1] = F[h[n]]

\* A function can be applied again and again.
LEMMA Iteration ==
  ASSUME NEW S, NEW F \in [S -> S], NEW a \in S
  PROVE  \E h : Again(h, S, F, a)
<1>. DEFINE It(g, N) == g \in [0 .. N -> S] /\ g[0] = a /\ \A i \in 1 .. N : g[i] = F[g[i - 1]]
<1>1. ASSUME NEW N \in Nat PROVE \E g : It(g, N)
  <2>. DEFINE K == [i \in 1 .. N |-> F]
  <2>1. K \in Steps(S, N)
    BY DEF Steps
  <2>2. \A i \in 1 .. N : K[i] = F
    OBVIOUS
  <2>. HIDE DEF K
  <2>3. PICK g : Iterates(g, S, a, N, K)
    BY <2>1, RecursionDefined
  <2>. QED  BY <2>2, <2>3 DEF Iterates
<1>2. ASSUME NEW N \in Nat, NEW g, It(g, N), NEW f, It(f, N + 1)
      PROVE  \A i \in 0 .. N : g[i] = f[i]
  <2>. DEFINE T == {n \in Nat : n <= N => g[n] = f[n]}
  <2>1. 0 \in T
    BY <1>2
  <2>2. ASSUME NEW n \in T PROVE n + 1 \in T
    <3>1. n \in Nat /\ n + 1 \in Nat /\ (n <= N => g[n] = f[n])
      OBVIOUS
    <3>2. ASSUME n + 1 <= N PROVE g[n + 1] = f[n + 1]
      <4>1. n + 1 \in 1 .. N /\ n + 1 \in 1 .. N + 1 /\ n <= N /\ (n + 1) - 1 = n
        BY <3>1, <3>2
      <4>. QED  BY <1>2, <3>1, <4>1
    <3>. QED  BY <3>1, <3>2
  <2>3. T \in SUBSET Nat
    OBVIOUS
  <2>4. T = Nat
    <3>. HIDE DEF T
    <3>. QED  BY <2>1, <2>2, <2>3, NumbersByInduction
  <2>. QED  BY <2>4
<1>. DEFINE c(n) == CHOOSE g : It(g, n)
            h == [n \in Nat |-> c(n)[n]]
<1>3. \A n \in Nat : It(c(n), n)
  <2>. HIDE DEF It
  <2>. QED  BY <1>1, Zenon
<1>. HIDE DEF c
<1>4. h \in [Nat -> S]
  <2>1. \A n \in Nat : n \in 0 .. n
    OBVIOUS
  <2>. QED  BY <1>3, <2>1
<1>5. h[0] = a
  BY <1>3
<1>6. \A n \in Nat : h[n + 1] = F[h[n]]
  <2>. TAKE n \in Nat
  <2>1. n + 1 \in Nat /\ n + 1 \in 1 .. n + 1 /\ (n + 1) - 1 = n /\ n \in 0 .. n
    OBVIOUS
  <2>2. PICK g : g = c(n) /\ It(g, n)
    BY <1>3
  <2>3. PICK f : f = c(n + 1) /\ It(f, n + 1)
    BY <1>3, <2>1
  <2>4. g[n] = f[n]
    <3>. HIDE DEF It
    <3>1. \A i \in 0 .. n : g[i] = f[i]
      BY <1>2, <2>2, <2>3
    <3>. QED  BY <2>1, <3>1
  <2>5. f[n + 1] = F[f[n]]
    BY <2>1, <2>3
  <2>. QED  BY <2>1, <2>2, <2>3, <2>4, <2>5
<1>. HIDE DEF h
<1>7. Again(h, S, F, a)
  BY <1>4, <1>5, <1>6 DEF Again
<1>. QED  BY <1>7

\* What Part makes of a text, and what it leaves.
Inner(close, y) == IF Occurs(close, y) # {} THEN Before(y, Find(close, y)) ELSE y
Outer(close, y) == IF Occurs(close, y) # {} THEN After(y, close) ELSE <<>>
ModeOf(open) == IF open = ToolOpen THEN "tool" ELSE "think"
Called(m, y) == IF m = "tool" THEN <<ParseCall(Inner(Closer(m), y))>> ELSE <<>>
FirstItems(x) ==
  IF Opener(x) = <<>> THEN Outside(x)
  ELSE Outside(Before(x, Find(Opener(x), x))) \o Called(ModeOf(Opener(x)), After(x, Opener(x)))
RestOf(x) ==
  IF Opener(x) = <<>> THEN <<>> ELSE Outer(Closer(ModeOf(Opener(x))), After(x, Opener(x)))

PartState == [rest : Txt, items : Seq(Item)]

\* What is left of a text after a tag, or within it.
LEMMA InnerOuter ==
  ASSUME NEW m \in {"tool", "think"}, NEW y \in Txt
  PROVE  /\ Closer(m) \in Txt /\ Closer(m) # <<>>
         /\ Inner(Closer(m), y) \in Txt /\ Outer(Closer(m), y) \in Txt /\ Called(m, y) \in Seq(Item)
         /\ Len(Outer(Closer(m), y)) <= Len(y) /\ Len(y) \in Nat /\ Len(Outer(Closer(m), y)) \in Nat
<1>1. PICK c : c = Closer(m)
  OBVIOUS
<1>2. c \in Txt /\ c # <<>>
  BY <1>1, TagTypes DEF Closer
<1>3. Inner(c, y) \in Txt /\ Outer(c, y) \in Txt /\ Len(Outer(c, y)) <= Len(y) /\ Len(y) \in Nat
  <2>1. Len(y) \in Nat
    BY DEF Txt
  <2>2. CASE Occurs(c, y) # {}
    <3>1. /\ Before(y, Find(c, y)) \in Txt /\ After(y, c) \in Txt /\ Len(After(y, c)) < Len(y)
      BY <1>2, <2>2, FindPlace
    <3>2. Len(After(y, c)) \in Nat
      BY <3>1 DEF Txt
    <3>. QED  BY <2>1, <2>2, <3>1, <3>2 DEF Inner, Outer
  <2>3. CASE Occurs(c, y) = {}
    BY <2>1, <2>3, NothingTxt DEF Inner, Outer
  <2>. QED  BY <2>2, <2>3
<1>4. Called(m, y) \in Seq(Item)
  <2>1. PICK e \in Item : e = ParseCall(Inner(c, y))
    BY <1>3, ItemTypes
  <2>2. <<e>> \in Seq(Item) /\ <<>> \in Seq(Item)
    OBVIOUS
  <2>. QED  BY <1>1, <2>1, <2>2 DEF Called
<1>5. Len(Outer(c, y)) \in Nat
  BY <1>3 DEF Txt
<1>. QED  BY <1>1, <1>2, <1>3, <1>4, <1>5

\* What one part of a whole text gives, and that it shortens the rest.
LEMMA PartTypes ==
  ASSUME NEW x \in Txt
  PROVE  /\ FirstItems(x) \in Seq(Item) /\ RestOf(x) \in Txt /\ Len(x) \in Nat /\ Len(RestOf(x)) \in Nat
         /\ x # <<>> => Len(RestOf(x)) < Len(x)
         /\ x = <<>> => RestOf(x) = <<>> /\ FirstItems(x) = <<>>
         /\ Opener(x) # <<>> => /\ Opener(x) \in Tags /\ Occurs(Opener(x), x) # {}
                                /\ Before(x, Find(Opener(x), x)) \in Txt /\ After(x, Opener(x)) \in Txt
<1>. DEFINE o == Opener(x)  b == Before(x, Find(o, x))  y == After(x, o)  m == ModeOf(o)
<1>0. Len(x) \in Nat /\ <<>> \in Txt /\ Len(<<>>) = 0 /\ (Len(x) = 0 => x = <<>>)
  BY TxtEmpty
<1>1. CASE o = <<>>
  <2>1. FirstItems(x) = Outside(x) /\ RestOf(x) = <<>>
    BY <1>1 DEF FirstItems, RestOf
  <2>2. x = <<>> => Outside(x) = <<>>
    BY DEF Outside
  <2>. QED  BY <1>0, <1>1, <2>1, <2>2, ItemTypes
<1>2. CASE o # <<>>
  <2>1. o \in Tags /\ Occurs(o, x) # {}
    BY <1>2, OpenerIs
  <2>2. o \in Txt
    BY <2>1, TagTypes
  <2>3. b \in Txt /\ y \in Txt /\ Len(y) < Len(x)
    <3>. HIDE DEF o
    <3>. QED  BY <1>2, <2>1, <2>2, FindPlace
  <2>4. m \in {"tool", "think"}
    BY DEF ModeOf
  <2>5. /\ FirstItems(x) = Outside(b) \o Called(m, y)
        /\ RestOf(x) = Outer(Closer(m), y)
    BY <1>2 DEF FirstItems, RestOf
  <2>. HIDE DEF b, y, m
  <2>6. Called(m, y) \in Seq(Item) /\ Outer(Closer(m), y) \in Txt
        /\ Len(Outer(Closer(m), y)) <= Len(y) /\ Len(y) \in Nat /\ Len(Outer(Closer(m), y)) \in Nat
    BY <2>3, <2>4, InnerOuter
  <2>7. Outside(b) \in Seq(Item)
    BY <2>3, ItemTypes
  <2>8. Outside(b) \o Called(m, y) \in Seq(Item)
    BY <2>6, <2>7, Joint
  <2>9. x # <<>> /\ Len(Outer(Closer(m), y)) < Len(x)
    BY <1>0, <2>3, <2>6
  <2>. QED  BY <1>0, <2>1, <2>3, <2>5, <2>6, <2>8, <2>9 DEF b, y
<1>. QED  BY <1>1, <1>2

\* Part takes the first items off the rest.
LEMMA PartIs ==
  ASSUME NEW s \in PartState
  PROVE  /\ Part(s) \in PartState
         /\ Part(s).rest = RestOf(s.rest) /\ Part(s).items = s.items \o FirstItems(s.rest)
<1>. DEFINE x == s.rest  o == Opener(x)  b == Before(x, Find(o, x))  y == After(x, o)  m == ModeOf(o)
            close == IF o = ToolOpen THEN ToolClose ELSE ThinkClose
<1>1. x \in Txt /\ s.items \in Seq(Item)
  BY DEF PartState
<1>2. close = Closer(m)
  BY DEF Closer, ModeOf
<1>3. Part(s) = IF o = <<>> THEN [rest |-> <<>>, items |-> s.items \o Outside(x)]
                ELSE [rest |-> Outer(close, y),
                      items |-> (s.items \o Outside(b))
                                \o (IF o = ToolOpen THEN <<ParseCall(Inner(close, y))>> ELSE <<>>)]
  BY Zenon DEF Part, Inner, Outer
<1>4. Called(m, y) = IF o = ToolOpen THEN <<ParseCall(Inner(close, y))>> ELSE <<>>
  BY <1>2 DEF Called, ModeOf
<1>5. o # <<>> => b \in Txt /\ y \in Txt
  BY <1>1, PartTypes
<1>6. m \in {"tool", "think"}
  BY DEF ModeOf
<1>7. /\ o = <<>> => FirstItems(x) = Outside(x) /\ RestOf(x) = <<>>
      /\ o # <<>> => FirstItems(x) = Outside(b) \o Called(m, y) /\ RestOf(x) = Outer(close, y)
  BY <1>2 DEF FirstItems, RestOf
<1>. HIDE DEF b, y, m, close, o, x
<1>8. FirstItems(x) \in Seq(Item) /\ RestOf(x) \in Txt /\ s.items \o FirstItems(x) \in Seq(Item)
  <2>1. FirstItems(x) \in Seq(Item) /\ RestOf(x) \in Txt
    BY <1>1, PartTypes
  <2>. QED  BY <1>1, <2>1, Joint
<1>9. Part(s) = [rest |-> RestOf(x), items |-> s.items \o FirstItems(x)]
  <2>1. CASE o = <<>>
    BY <1>3, <1>7, <2>1, Zenon
  <2>2. CASE o # <<>>
    <3>1. PICK p \in Seq(Item), q \in Seq(Item), r \in Seq(Item) : p = s.items /\ q = Outside(b) /\ r = Called(m, y)
      BY <1>1, <1>5, <1>6, <2>2, InnerOuter, ItemTypes
    <3>2. (p \o q) \o r = p \o (q \o r)
      BY ConcatAssociative, SMTT(60)
    <3>. QED  BY <1>3, <1>4, <1>7, <2>2, <3>1, <3>2, Zenon
  <2>. QED  BY <2>1, <2>2
<1>10. PICK w : w = s.items \o FirstItems(x)
  OBVIOUS
<1>. QED  BY <1>8, <1>9, <1>10 DEF PartState, x

Begin(x) == [rest |-> x, items |-> <<>>]
PartFun == [s \in PartState |-> Part(s)]
PartBody(x, g) == [n \in 0 .. Len(x) + 1 |-> IF n = 0 THEN Begin(x) ELSE Part(g[n - 1])]

\* The text, cut again and again; in the end nothing is left of it.
CutUp(h, x) ==
  /\ h \in [Nat -> PartState] /\ h[0] = Begin(x)
  /\ \A n \in Nat : h[n + 1].rest = RestOf(h[n].rest) /\ h[n + 1].items = h[n].items \o FirstItems(h[n].rest)
  /\ \A n \in Nat : n >= Len(x) => h[n].items = Items(x)

\* Items is the recursion of Part.
LEMMA ItemsChosen ==
  ASSUME NEW x
  PROVE  Items(x) = (CHOOSE g : g = PartBody(x, g))[Len(x) + 1].items
BY DEF Items, PartBody, Begin

\* The recursion has one solution, that of cutting again and again.
LEMMA ItemsIterate ==
  ASSUME NEW x \in Txt, NEW h, Again(h, PartState, PartFun, Begin(x))
  PROVE  Items(x) = h[Len(x) + 1].items
<1>. DEFINE N == Len(x) + 1  g == [n \in 0 .. N |-> h[n]]  f == CHOOSE u : u = PartBody(x, u)
<1>1. N \in Nat
  BY DEF Txt
<1>2. h \in [Nat -> PartState] /\ h[0] = Begin(x) /\ \A n \in Nat : h[n + 1] = Part(h[n])
  BY DEF Again, PartFun
<1>3. g = PartBody(x, g)
  <2>1. \A n \in 0 .. N : n # 0 => n - 1 \in 0 .. N /\ n - 1 \in Nat /\ (n - 1) + 1 = n
    BY <1>1
  <2>2. \A n \in 0 .. N : g[n] = IF n = 0 THEN Begin(x) ELSE Part(g[n - 1])
    BY <1>2, <2>1
  <2>3. g = [n \in 0 .. N |-> g[n]]
    OBVIOUS
  <2>. HIDE DEF g
  <2>. QED  BY <2>2, <2>3 DEF PartBody
<1>4. f = PartBody(x, f)
  <2>1. \E u : u = PartBody(x, u)
    BY <1>3
  <2>. QED  BY <2>1, Zenon
<1>5. Items(x) = f[N].items
  BY ItemsChosen
<1>. HIDE DEF f
<1>6. f[0] = Begin(x) /\ \A n \in 1 .. N : f[n] = Part(f[n - 1])
  <2>1. 0 \in 0 .. N /\ \A n \in 1 .. N : n \in 0 .. N /\ n # 0
    BY <1>1
  <2>2. /\ PartBody(x, f)[0] = Begin(x)
        /\ \A n \in 1 .. N : PartBody(x, f)[n] = Part(f[n - 1])
    BY <2>1 DEF PartBody
  <2>. QED  BY <1>4, <2>2
<1>. DEFINE T == {n \in Nat : n <= N => f[n] = h[n]}
<1>7. 0 \in T
  BY <1>2, <1>6
<1>8. ASSUME NEW n \in T PROVE n + 1 \in T
  <2>1. n \in Nat /\ n + 1 \in Nat /\ (n <= N => f[n] = h[n])
    OBVIOUS
  <2>2. ASSUME n + 1 <= N PROVE f[n + 1] = h[n + 1]
    <3>1. n + 1 \in 1 .. N /\ n <= N /\ (n + 1) - 1 = n
      BY <1>1, <2>1, <2>2
    <3>. QED  BY <1>2, <1>6, <2>1, <3>1
  <2>. QED  BY <2>1, <2>2
<1>9. T = Nat
  <2>1. T \in SUBSET Nat
    OBVIOUS
  <2>. HIDE DEF T
  <2>. QED  BY <1>7, <1>8, <2>1, NumbersByInduction
<1>. QED  BY <1>1, <1>5, <1>9

\* What is left gets shorter until nothing is left.
LEMMA LessIsLeft ==
  ASSUME NEW x \in Txt, NEW h, Again(h, PartState, PartFun, Begin(x))
  PROVE  \A n \in Nat : h[n].rest = <<>> \/ Len(h[n].rest) + n <= Len(x)
<1>1. h \in [Nat -> PartState] /\ h[0] = Begin(x) /\ \A n \in Nat : h[n + 1] = Part(h[n])
  BY DEF Again, PartFun
<1>. DEFINE T == {n \in Nat : h[n].rest = <<>> \/ Len(h[n].rest) + n <= Len(x)}
<1>2. Len(x) \in Nat
  BY DEF Txt
<1>3. 0 \in T
  BY <1>1, <1>2 DEF Begin
<1>4. ASSUME NEW n \in T PROVE n + 1 \in T
  <2>1. n \in Nat /\ n + 1 \in Nat /\ (h[n].rest = <<>> \/ Len(h[n].rest) + n <= Len(x))
    OBVIOUS
  <2>2. PICK s \in PartState : s = h[n]
    BY <1>1, <2>1
  <2>3. PICK y \in Txt : y = s.rest
    BY <2>2 DEF PartState
  <2>4. h[n + 1].rest = RestOf(y)
    BY <1>1, <2>1, <2>2, <2>3, PartIs
  <2>5. /\ Len(y) \in Nat /\ Len(RestOf(y)) \in Nat
        /\ y # <<>> => Len(RestOf(y)) < Len(y)
        /\ y = <<>> => RestOf(y) = <<>>
    BY <2>3, PartTypes
  <2>6. y = <<>> \/ Len(y) + n <= Len(x)
    BY <2>1, <2>2, <2>3
  <2>7. RestOf(y) = <<>> \/ Len(RestOf(y)) + (n + 1) <= Len(x)
    BY <1>2, <2>1, <2>5, <2>6
  <2>. QED  BY <2>1, <2>4, <2>7
<1>5. T = Nat
  <2>1. T \in SUBSET Nat
    OBVIOUS
  <2>. HIDE DEF T
  <2>. QED  BY <1>3, <1>4, <2>1, NumbersByInduction
<1>. QED  BY <1>5

\* Every text is cut up.
LEMMA ItemsRun ==
  ASSUME NEW x \in Txt
  PROVE  \E h : CutUp(h, x)
<1>0. Begin(x) \in PartState /\ PartFun \in [PartState -> PartState]
  <2>1. <<>> \in Seq(Item)
    OBVIOUS
  <2>2. \A s \in PartState : Part(s) \in PartState
    BY PartIs
  <2>. QED  BY <2>1, <2>2 DEF Begin, PartState, PartFun
<1>1. PICK h : Again(h, PartState, PartFun, Begin(x))
  BY <1>0, Iteration
<1>2. h \in [Nat -> PartState] /\ h[0] = Begin(x) /\ \A n \in Nat : h[n + 1] = Part(h[n])
  BY <1>1 DEF Again, PartFun
<1>3. \A n \in Nat : h[n] \in PartState /\ h[n].rest \in Txt /\ h[n].items \in Seq(Item)
  <2>1. \A s \in PartState : s.rest \in Txt /\ s.items \in Seq(Item)
    BY DEF PartState
  <2>. QED  BY <1>2, <2>1
<1>4. \A n \in Nat : h[n + 1].rest = RestOf(h[n].rest) /\ h[n + 1].items = h[n].items \o FirstItems(h[n].rest)
  <2>. TAKE n \in Nat
  <2>1. PICK s \in PartState : s = h[n]
    BY <1>3
  <2>2. PICK t : t = Part(s)
    OBVIOUS
  <2>3. h[n + 1] = t
    BY <1>2, <2>1, <2>2
  <2>4. t.rest = RestOf(s.rest) /\ t.items = s.items \o FirstItems(s.rest)
    BY <2>2, PartIs, Zenon
  <2>. QED  BY <2>1, <2>3, <2>4, Zenon
<1>5. Len(x) \in Nat
  BY DEF Txt
<1>6. \A n \in Nat : n >= Len(x) => h[n].rest = <<>>
  <2>. TAKE n \in Nat
  <2>. HAVE n >= Len(x)
  <2>1. h[n].rest = <<>> \/ Len(h[n].rest) + n <= Len(x)
    BY <1>1, LessIsLeft
  <2>2. h[n].rest \in Txt
    BY <1>3
  <2>3. PICK y \in Txt : y = h[n].rest
    BY <2>2
  <2>4. Len(y) \in Nat /\ (Len(y) = 0 => y = <<>>)
    BY TxtEmpty
  <2>. QED  BY <1>5, <2>1, <2>3, <2>4
<1>7. \A n \in Nat : n >= Len(x) => h[n + 1].items = h[n].items
  <2>. TAKE n \in Nat
  <2>. HAVE n >= Len(x)
  <2>1. h[n].rest = <<>>
    BY <1>6
  <2>2. FirstItems(<<>>) = <<>>
    BY NothingTxt, PartTypes
  <2>3. PICK i \in Seq(Item) : i = h[n].items
    BY <1>3
  <2>4. i \o <<>> = i
    BY ConcatEmptySeq
  <2>. QED  BY <1>4, <2>1, <2>2, <2>3, <2>4, Zenon
<1>. DEFINE T == {k \in Nat : h[Len(x) + k].items = h[Len(x)].items}
<1>8. 0 \in T
  BY <1>5
<1>9. ASSUME NEW k \in T PROVE k + 1 \in T
  <2>1. k \in Nat /\ k + 1 \in Nat /\ h[Len(x) + k].items = h[Len(x)].items
    OBVIOUS
  <2>2. Len(x) + k \in Nat /\ Len(x) + k >= Len(x) /\ (Len(x) + k) + 1 = Len(x) + (k + 1)
    BY <1>5, <2>1
  <2>3. h[(Len(x) + k) + 1].items = h[Len(x) + k].items
    BY <1>7, <2>2
  <2>4. h[Len(x) + (k + 1)].items = h[Len(x)].items
    BY <2>1, <2>2, <2>3
  <2>. QED  BY <2>1, <2>4
<1>10. T = Nat
  <2>1. T \in SUBSET Nat
    OBVIOUS
  <2>. HIDE DEF T
  <2>. QED  BY <1>8, <1>9, <2>1, NumbersByInduction
<1>11. \A n \in Nat : n >= Len(x) => h[n].items = h[Len(x)].items
  <2>. TAKE n \in Nat
  <2>. HAVE n >= Len(x)
  <2>1. n - Len(x) \in Nat /\ Len(x) + (n - Len(x)) = n
    BY <1>5
  <2>2. PICK k \in Nat : k \in T /\ Len(x) + k = n
    <3>. HIDE DEF T
    <3>. QED  BY <1>10, <2>1
  <2>. QED  BY <2>2
<1>12. Items(x) = h[Len(x) + 1].items
  BY <1>1, ItemsIterate
<1>13. \A n \in Nat : n >= Len(x) => h[n].items = Items(x)
  <2>1. Len(x) + 1 \in Nat /\ Len(x) + 1 >= Len(x)
    BY <1>5
  <2>. QED  BY <1>11, <1>12, <2>1
<1>. QED  BY <1>2, <1>4, <1>13 DEF CutUp

\* A text is parsed part by part.
Unrolls(x) == Items(x) = FirstItems(x) \o Items(RestOf(x))

\* Items is what its first part gives, and the items of the rest.
LEMMA ItemsUnroll ==
  ASSUME NEW x \in Txt
  PROVE  /\ Unrolls(x) /\ Items(x) \in Seq(Item) /\ Items(<<>>) = <<>>
<1>1. ASSUME NEW z \in Txt PROVE Items(z) \in Seq(Item)
  <2>1. PICK h : CutUp(h, z)
    BY ItemsRun
  <2>2. Len(z) \in Nat /\ Len(z) >= Len(z)
    BY DEF Txt
  <2>3. h[Len(z)].items = Items(z) /\ h[Len(z)] \in PartState
    BY <2>1, <2>2 DEF CutUp
  <2>. QED  BY <2>3 DEF PartState
<1>2. Items(<<>>) = <<>>
  <2>1. PICK h : CutUp(h, <<>>)
    BY NothingTxt, ItemsRun
  <2>2. Len(<<>>) = 0
    OBVIOUS
  <2>3. h[0] = Begin(<<>>) /\ h[0].items = Items(<<>>)
    BY <2>1, <2>2 DEF CutUp
  <2>. QED  BY <2>3 DEF Begin
<1>3. PICK y \in Txt : y = RestOf(x)
  BY PartTypes
<1>4. PICK f \in Seq(Item) : f = FirstItems(x)
  BY PartTypes
<1>5. PICK h : CutUp(h, x)
  BY ItemsRun
<1>6. PICK g : CutUp(g, y)
  BY ItemsRun
<1>. DEFINE Joined(n) == h[n + 1].items = f \o g[n].items
            T == {n \in Nat : h[n + 1].rest = g[n].rest /\ Joined(n)}
<1>7. \A n \in Nat : g[n] \in PartState /\ g[n].rest \in Txt /\ g[n].items \in Seq(Item)
  <2>1. \A s \in PartState : s.rest \in Txt /\ s.items \in Seq(Item)
    BY DEF PartState
  <2>. QED  BY <1>6, <2>1 DEF CutUp
<1>8. 0 \in T
  <2>1. /\ h[0].rest = x /\ h[0].items = <<>> /\ g[0].rest = y /\ g[0].items = <<>>
    BY <1>5, <1>6 DEF CutUp, Begin
  <2>2. h[0 + 1].rest = RestOf(x) /\ h[0 + 1].items = <<>> \o FirstItems(x)
    <3>1. h[0 + 1].rest = RestOf(h[0].rest) /\ h[0 + 1].items = h[0].items \o FirstItems(h[0].rest)
      BY <1>5 DEF CutUp
    <3>. QED  BY <2>1, <3>1, Zenon
  <2>3. <<>> \o f = f /\ f \o <<>> = f
    BY ConcatEmptySeq
  <2>4. h[0 + 1].rest = g[0].rest /\ Joined(0)
    BY <1>3, <1>4, <2>1, <2>2, <2>3, Zenon
  <2>5. 0 \in Nat
    OBVIOUS
  <2>. HIDE DEF Joined
  <2>. QED  BY <2>4, <2>5
<1>9. ASSUME NEW n \in T PROVE n + 1 \in T
  <2>1. n \in Nat /\ n + 1 \in Nat /\ h[n + 1].rest = g[n].rest /\ Joined(n)
    <3>. HIDE DEF Joined
    <3>. QED  OBVIOUS
  <2>2. PICK r \in Txt, i \in Seq(Item), e \in Seq(Item) : r = g[n].rest /\ i = g[n].items /\ e = FirstItems(r)
    <3>1. PICK r \in Txt : r = g[n].rest
      BY <1>7, <2>1
    <3>2. FirstItems(r) \in Seq(Item)
      BY PartTypes
    <3>. QED  BY <1>7, <2>1, <3>1, <3>2
  <2>3. h[(n + 1) + 1].rest = RestOf(r) /\ h[(n + 1) + 1].items = (f \o i) \o e
    <3>1. /\ h[(n + 1) + 1].rest = RestOf(h[n + 1].rest)
          /\ h[(n + 1) + 1].items = h[n + 1].items \o FirstItems(h[n + 1].rest)
      BY <1>5, <2>1 DEF CutUp
    <3>. QED  BY <2>1, <2>2, <3>1, Zenon
  <2>4. g[n + 1].rest = RestOf(r) /\ g[n + 1].items = i \o e
    <3>1. /\ g[n + 1].rest = RestOf(g[n].rest)
          /\ g[n + 1].items = g[n].items \o FirstItems(g[n].rest)
      BY <1>6, <2>1 DEF CutUp
    <3>. QED  BY <2>2, <3>1, Zenon
  <2>5. (f \o i) \o e = f \o (i \o e)
    BY ConcatAssociative, SMTT(60)
  <2>6. h[(n + 1) + 1].rest = g[n + 1].rest /\ Joined(n + 1)
    BY <2>3, <2>4, <2>5, Zenon
  <2>. HIDE DEF Joined
  <2>. QED  BY <2>1, <2>6
<1>10. T = Nat
  <2>1. T \in SUBSET Nat
    <3>. HIDE DEF Joined
    <3>. QED  OBVIOUS
  <2>. HIDE DEF T
  <2>. QED  BY <1>8, <1>9, <2>1, NumbersByInduction
<1>11. Len(x) \in Nat /\ Len(y) \in Nat /\ Len(x) >= Len(y) /\ Len(x) + 1 \in Nat /\ Len(x) + 1 >= Len(x)
  <2>1. /\ Len(x) \in Nat /\ Len(y) \in Nat
        /\ x # <<>> => Len(y) < Len(x)
        /\ x = <<>> => y = <<>>
    BY <1>3, PartTypes
  <2>. QED  BY <2>1
<1>12. Joined(Len(x))
  <2>1. Len(x) \in T
    <3>. HIDE DEF T
    <3>. QED  BY <1>10, <1>11
  <2>. HIDE DEF Joined
  <2>. QED  BY <2>1
<1>13. h[Len(x) + 1].items = Items(x) /\ g[Len(x)].items = Items(y)
  BY <1>5, <1>6, <1>11 DEF CutUp
<1>14. Unrolls(x)
  BY <1>3, <1>4, <1>12, <1>13, Zenon DEF Unrolls
<1>. QED  BY <1>1, <1>2, <1>14

-------------------------------------------------------------------------------
(* Tags in a text that grows.                                                 *)

\* What a prefix is, letter by letter.
LEMMA PrefixIs ==
  ASSUME NEW s \in Txt, NEW t \in Txt
  PROVE  IsPrefix(s, t) <=> Len(s) <= Len(t) /\ \A j \in 1 .. Len(s) : s[j] = t[j]
<1>1. Len(s) \in Nat /\ Len(t) \in Nat
  BY DEF Txt
<1>2. CASE Len(s) <= Len(t)
  <2>. DEFINE a == SubSeq(s, 1, Len(s))  b == SubSeq(t, 1, Len(s))
  <2>1. a \in Seq(Char) /\ Len(a) = Len(s) /\ \A j \in 1 .. Len(s) : a[j] = s[j]
    BY <1>1 DEF Txt
  <2>2. b \in Seq(Char) /\ Len(b) = Len(s) /\ \A j \in 1 .. Len(s) : b[j] = t[j]
    BY <1>1, <1>2 DEF Txt
  <2>3. IsPrefix(s, t) <=> a = b
    BY <1>2 DEF IsPrefix
  <2>. HIDE DEF a, b
  <2>4. (\A j \in 1 .. Len(s) : a[j] = b[j]) => a = b
    BY <1>1, <2>1, <2>2, SeqEqual
  <2>. QED  BY <1>2, <2>1, <2>2, <2>3, <2>4
<1>3. CASE ~(Len(s) <= Len(t))
  BY <1>3 DEF IsPrefix
<1>. QED  BY <1>2, <1>3

\* The text has tag o at place f, and none before.
FirstTag(x, o, f) ==
  /\ o \in Tags /\ At(o, x, f)
  /\ \A u \in Tags : \A g : At(u, x, g) => f <= g

\* No two tags are at one place.
LEMMA OneTag ==
  ASSUME NEW x \in Txt, NEW o \in Tags, NEW u \in Tags, NEW f, At(o, x, f), At(u, x, f)
  PROVE  o = u
<1>1. /\ o \in Txt /\ u \in Txt /\ Len(o) \in Nat \ {0} /\ Len(u) \in Nat \ {0}
  BY TagTypes
<1>2. /\ \A j \in 1 .. Len(o) : x[f + j - 1] = o[j]
      /\ \A j \in 1 .. Len(u) : x[f + j - 1] = u[j]
  BY DEF At
<1>3. CASE Len(o) <= Len(u)
  <2>1. \A j \in 1 .. Len(o) : o[j] = u[j]
    BY <1>1, <1>2, <1>3
  <2>2. IsPrefix(o, u)
    BY <1>1, <1>3, <2>1, PrefixIs
  <2>. QED  BY <2>2, TagAssumption DEF Tags
<1>4. CASE Len(u) <= Len(o)
  <2>1. \A j \in 1 .. Len(u) : u[j] = o[j]
    BY <1>1, <1>2, <1>4
  <2>2. IsPrefix(u, o)
    BY <1>1, <1>4, <2>1, PrefixIs
  <2>. QED  BY <2>2, TagAssumption DEF Tags
<1>. QED  BY <1>1, <1>3, <1>4

\* Opener and Find are about that tag.
LEMMA OpenerFirst ==
  ASSUME NEW x \in Txt
  PROVE  /\ \A o, f : FirstTag(x, o, f) => Opener(x) = o /\ Opener(x) # <<>> /\ Find(o, x) = f
         /\ Opener(x) # <<>> => FirstTag(x, Opener(x), Find(Opener(x), x))
         /\ Opener(x) = <<>> <=> \A t \in Tags : \A i : ~At(t, x, i)
<1>1. \A t \in Tags : /\ t \in Txt /\ t # <<>>
                      /\ Occurs(t, x) # {} <=> \E i : At(t, x, i)
                      /\ Occurs(t, x) # {} => At(t, x, Find(t, x)) /\ \A i : At(t, x, i) => Find(t, x) <= i
  <2>. TAKE t \in Tags
  <2>1. t \in Txt /\ t # <<>>
    BY TagTypes
  <2>2. \A i : i \in Occurs(t, x) <=> At(t, x, i)
    BY <2>1, OccursAt
  <2>. QED  BY <2>1, <2>2, FindFirst
<1>2. \A t \in Tags : \A i : At(t, x, i) => i \in Nat
  BY DEF At
<1>3. Opener(x) = <<>> <=> \A t \in Tags : Occurs(t, x) = {}
  BY OpenerIs
<1>4. Opener(x) # <<>> => /\ Opener(x) \in Tags /\ Occurs(Opener(x), x) # {}
                          /\ \A u \in Tags : Occurs(u, x) # {} => Find(Opener(x), x) <= Find(u, x)
  BY OpenerIs
<1>5. ASSUME Opener(x) # <<>> PROVE FirstTag(x, Opener(x), Find(Opener(x), x))
  <2>1. PICK o \in Tags : /\ o = Opener(x) /\ Occurs(o, x) # {}
                          /\ \A u \in Tags : Occurs(u, x) # {} => Find(o, x) <= Find(u, x)
    BY <1>4, <1>5
  <2>2. At(o, x, Find(o, x))
    BY <1>1, <2>1
  <2>3. ASSUME NEW u \in Tags, NEW g, At(u, x, g) PROVE Find(o, x) <= g
    <3>1. Occurs(u, x) # {} /\ At(u, x, Find(u, x)) /\ Find(u, x) <= g
      BY <1>1, <2>3
    <3>2. Find(o, x) <= Find(u, x)
      BY <2>1, <3>1
    <3>3. Find(o, x) \in Nat /\ Find(u, x) \in Nat /\ g \in Nat
      BY <1>2, <2>2, <2>3, <3>1
    <3>. QED  BY <3>1, <3>2, <3>3
  <2>. QED  BY <2>1, <2>2, <2>3 DEF FirstTag
<1>6. ASSUME NEW o, NEW f, FirstTag(x, o, f) PROVE Opener(x) = o /\ Opener(x) # <<>> /\ Find(o, x) = f
  <2>1. o \in Tags /\ At(o, x, f) /\ \A u \in Tags : \A g : At(u, x, g) => f <= g
    BY <1>6 DEF FirstTag
  <2>2. Opener(x) # <<>>
    BY <1>1, <1>3, <2>1
  <2>3. PICK u \in Tags : /\ u = Opener(x) /\ At(u, x, Find(u, x))
                          /\ \A v \in Tags : \A g : At(v, x, g) => Find(u, x) <= g
    BY <1>5, <2>2 DEF FirstTag
  <2>4. Find(u, x) <= f /\ f <= Find(u, x) /\ f \in Nat /\ Find(u, x) \in Nat
    BY <1>2, <2>1, <2>3
  <2>5. Find(u, x) = f
    BY <2>4
  <2>6. u = o
    BY <2>1, <2>3, <2>5, OneTag
  <2>. QED  BY <2>2, <2>3, <2>5, <2>6
<1>7. Opener(x) = <<>> <=> \A t \in Tags : \A i : ~At(t, x, i)
  BY <1>1, <1>3
<1>. QED  BY <1>5, <1>6, <1>7

\* The first tag of a text stays the first when the text grows.
LEMMA FirstStays ==
  ASSUME NEW x \in Txt, NEW z \in Txt, NEW o, NEW f, FirstTag(x, o, f)
  PROVE  FirstTag(x \o z, o, f)
<1>. DEFINE y == x \o z
<1>1. /\ o \in Tags /\ At(o, x, f) /\ \A u \in Tags : \A g : At(u, x, g) => f <= g
      /\ f \in Nat \ {0} /\ f + Len(o) <= Len(x) + 1
  BY DEF FirstTag, At
<1>2. o \in Txt /\ Len(o) \in Nat \ {0} /\ Len(x) \in Nat
  BY <1>1, TagTypes DEF Txt
<1>3. At(o, y, f)
  BY <1>1, <1>2, AtBegins
<1>. HIDE DEF y
<1>4. ASSUME NEW u \in Tags, NEW g, At(u, y, g), ~(f <= g) PROVE FALSE
  <2>1. u \in Txt /\ Len(u) \in Nat \ {0} /\ g \in Nat \ {0} /\ g < f
    BY <1>1, <1>4, TagTypes DEF At
  <2>2. CASE g + Len(u) <= Len(x) + 1
    <3>1. At(u, x, g)
      BY <1>4, <2>1, <2>2, AtBegins DEF y
    <3>. QED  BY <1>1, <1>4, <3>1
  <2>3. CASE ~(g + Len(u) <= Len(x) + 1)
    <3>. DEFINE i == f - g + 1
    <3>1. i \in 2 .. Len(u) /\ g + i - 1 = f /\ i \in 1 .. Len(u)
      BY <1>1, <1>2, <2>1, <2>3
    <3>2. y[g + i - 1] = u[i]
      BY <1>4, <3>1 DEF At
    <3>3. y[f + 1 - 1] = o[1] /\ f + 1 - 1 = f
      BY <1>1, <1>2, <1>3 DEF At
    <3>4. u[i] = o[1]
      BY <3>1, <3>2, <3>3
    <3>. HIDE DEF i
    <3>. QED  BY <1>1, <3>1, <3>4, TagAssumption DEF Tags
  <2>. QED  BY <2>2, <2>3
<1>. QED  BY <1>1, <1>3, <1>4 DEF FirstTag, y

\* A closing tag's first place stays too, and cuts what comes after.
LEMMA FindStays ==
  ASSUME NEW s \in Txt, s # <<>>, NEW x \in Txt, NEW z \in Txt, Occurs(s, x) # {}
  PROVE  Occurs(s, x \o z) # {} /\ Find(s, x \o z) = Find(s, x)
<1>1. PICK y \in Txt : y = x \o z
  BY TxtJoin
<1>2. At(s, x, Find(s, x)) /\ \A i : At(s, x, i) => Find(s, x) <= i
  BY FindFirst
<1>3. At(s, y, Find(s, x)) /\ Find(s, x) + Len(s) <= Len(x) + 1
  BY <1>1, <1>2, AtBegins
<1>4. Occurs(s, y) # {}
  BY <1>1, <1>3, OccursAt
<1>5. At(s, y, Find(s, y)) /\ \A i : At(s, y, i) => Find(s, y) <= i
  BY <1>1, <1>4, FindFirst
<1>6. Find(s, y) \in Nat /\ Find(s, x) \in Nat /\ Len(s) \in Nat /\ Len(x) \in Nat /\ Find(s, y) <= Find(s, x)
  BY <1>2, <1>3, <1>5 DEF At, Txt
<1>7. Find(s, y) + Len(s) <= Len(x) + 1
  BY <1>3, <1>6
<1>8. At(s, x, Find(s, y))
  BY <1>1, <1>5, <1>7, AtBegins
<1>9. Find(s, x) <= Find(s, y)
  BY <1>2, <1>8
<1>. QED  BY <1>1, <1>4, <1>6, <1>9

\* What comes before and after a place that stays.
LEMMA CutStays ==
  ASSUME NEW s \in Txt, s # <<>>, NEW x \in Txt, NEW z \in Txt, Occurs(s, x) # {},
         Find(s, x \o z) = Find(s, x)
  PROVE  Before(x \o z, Find(s, x \o z)) = Before(x, Find(s, x)) /\ After(x \o z, s) = After(x, s) \o z
<1>1. PICK f \in 1 .. Len(x) : f = Find(s, x) /\ f + Len(s) \in 1 .. Len(x) + 1
  BY FindPlace
<1>2. f \in 1 .. Len(x) + 1
  <2>1. Len(x) \in Nat
    BY DEF Txt
  <2>. QED  BY <2>1
<1>3. Before(x \o z, f) = Before(x, f)
  BY <1>2, CutFirst
<1>4. From(x \o z, f + Len(s)) = From(x, f + Len(s)) \o z
  BY <1>1, CutFirst
<1>. QED  BY <1>1, <1>3, <1>4, Zenon DEF After

\* A tag that is not in text x = a \o c, of which c is held back, does not begin in a
\* when more text comes.
LEMMA TagInHeld ==
  ASSUME NEW a \in Txt, NEW c \in Txt, NEW z \in Txt, Len(c) = Holdback(a \o c), Opener(a \o c) = <<>>,
         NEW t \in Tags, NEW i, At(t, a \o (c \o z), i)
  PROVE  \E j \in Nat \ {0} : i = Len(a) + j /\ At(t, c \o z, j)
<1>1. PICK x \in Txt : x = a \o c
  BY TxtJoin
<1>2. PICK w \in Txt : w = c \o z
  BY TxtJoin
<1>3. a \o w = x \o z
  <2>1. (a \o c) \o z = a \o (c \o z)
    BY TxtAll, ZenonT(200)
  <2>. QED  BY <1>1, <1>2, <2>1
<1>4. Len(x) = Len(a) + Len(c) /\ Len(a) \in Nat /\ Len(c) \in Nat
  BY <1>1, TxtJoin
<1>5. t \in Txt /\ Len(t) \in Nat \ {0} /\ i \in Nat \ {0}
  BY TagTypes DEF At
<1>6. At(t, x \o z, i)
  BY <1>2, <1>3
<1>7. ASSUME i <= Len(a) PROVE FALSE
  <2>1. CASE i + Len(t) <= Len(x) + 1
    <3>1. At(t, x, i)
      BY <1>5, <1>6, <2>1, AtBegins
    <3>. QED  BY <1>1, <3>1, OpenerFirst
  <2>2. CASE ~(i + Len(t) <= Len(x) + 1)
    <3>0. Len(x) - i + 1 \in Nat
      BY <1>4, <1>5, <1>7
    <3>a. PICK n \in Nat : n = Len(x) - i + 1
      BY <3>0
    <3>b. Len(x) \in Nat /\ i - 1 \in Nat /\ i <= Len(x) + 1
      BY <1>4, <1>5, <1>7
    <3>1. n \in 0 .. Len(x) /\ n < Len(t) /\ Len(x) - n + 1 = i /\ i \in 1 .. Len(x) + 1 /\ n > Len(c)
          /\ i - 1 \in Nat
      BY <1>4, <1>5, <1>7, <2>2, <3>a, <3>b
    <3>2. PICK v \in Txt : /\ v = From(x, i) /\ Len(v) = n
                           /\ \A j \in 1 .. n : v[j] = x[i - 1 + j]
      BY <3>1, Halves
    <3>3. \A j \in 1 .. n : i + j - 1 \in 1 .. Len(x) /\ i + j - 1 = i - 1 + j /\ j \in 1 .. Len(t)
      <4>. TAKE j \in 1 .. n
      <4>1. Len(x) \in Nat /\ n < Len(t) /\ n = Len(x) - i + 1
        BY <1>4, <3>1, <3>a
      <4>. QED  BY <1>5, <4>1
    <3>4. \A j \in 1 .. Len(x) : (x \o z)[j] = x[j]
      BY Joint DEF Txt
    <3>5. \A j \in 1 .. Len(t) : (x \o z)[i + j - 1] = t[j]
      BY <1>6 DEF At
    <3>6. \A j \in 1 .. n : v[j] = t[j]
      <4>. TAKE j \in 1 .. n
      <4>1. (x \o z)[i + j - 1] = x[i + j - 1]
        BY <3>3, <3>4
      <4>2. (x \o z)[i + j - 1] = t[j]
        BY <3>3, <3>5
      <4>3. v[j] = x[i + j - 1]
        BY <3>2, <3>3
      <4>. QED  BY <4>1, <4>2, <4>3, Zenon
    <3>7. IsPrefix(v, t)
      <4>1. Len(v) <= Len(t) /\ \A j \in 1 .. Len(v) : v[j] = t[j]
        BY <1>5, <3>1, <3>2, <3>6
      <4>. QED  BY <1>5, <3>2, <4>1, PrefixIs
    <3>8. BeginsTag(x, n)
      BY <3>1, <3>2, <3>7 DEF BeginsTag
    <3>9. n <= Holdback(x)
      BY <3>1, <3>8, HoldbackIs
    <3>. QED  BY <1>1, <1>4, <3>1, <3>9
  <2>. QED  BY <2>1, <2>2
<1>8. i - Len(a) \in Nat \ {0} /\ i = Len(a) + (i - Len(a))
  BY <1>4, <1>5, <1>7
<1>9. PICK j \in Nat \ {0} : i = Len(a) + j
  BY <1>8
<1>10. At(t, w, j)
  BY <1>2, <1>5, <1>9, AtShift
<1>. QED  BY <1>2, <1>9, <1>10

\* So the first tag is the same, further on.
LEMMA FirstShifts ==
  ASSUME NEW a \in Txt, NEW c \in Txt, NEW z \in Txt, Len(c) = Holdback(a \o c), Opener(a \o c) = <<>>
  PROVE  /\ Opener(c \o z) = <<>> => Opener(a \o (c \o z)) = <<>>
         /\ \A o, f : FirstTag(c \o z, o, f) => FirstTag(a \o (c \o z), o, Len(a) + f)
<1>1. PICK w \in Txt : w = c \o z
  BY TxtJoin
<1>2. PICK y \in Txt : y = a \o w
  BY TxtJoin
<1>3. \A t \in Tags : \A i : At(t, y, i) => \E j \in Nat \ {0} : i = Len(a) + j /\ At(t, w, j)
  BY <1>1, <1>2, TagInHeld
<1>4. Opener(w) = <<>> => Opener(y) = <<>>
  BY <1>3, OpenerFirst
<1>5. ASSUME NEW o, NEW f, FirstTag(w, o, f) PROVE FirstTag(y, o, Len(a) + f)
  <2>1. o \in Tags /\ At(o, w, f) /\ \A u \in Tags : \A g : At(u, w, g) => f <= g
    BY <1>5 DEF FirstTag
  <2>2. f \in Nat \ {0} /\ o \in Txt /\ Len(a) \in Nat
    BY <2>1, TagTypes DEF At, Txt
  <2>3. At(o, y, Len(a) + f)
    BY <1>2, <2>1, <2>2, AtShift
  <2>4. ASSUME NEW u \in Tags, NEW g, At(u, y, g) PROVE Len(a) + f <= g
    <3>1. PICK j \in Nat \ {0} : g = Len(a) + j /\ At(u, w, j)
      BY <1>3, <2>4
    <3>2. f <= j
      BY <2>1, <3>1
    <3>. QED  BY <2>2, <3>1, <3>2
  <2>. QED  BY <2>1, <2>3, <2>4 DEF FirstTag
<1>. QED  BY <1>1, <1>2, <1>4, <1>5

\* What becomes of the rest y of a text in mode m, parsed at once.
Whole(m, y) == IF m = "text" THEN Items(y) ELSE Called(m, y) \o Items(Outer(Closer(m), y))

\* What is left of a text gives items.
LEMMA WholeType ==
  ASSUME NEW m \in Mode, NEW y \in Txt
  PROVE  Whole(m, y) \in Seq(Item)
<1>1. CASE m = "text"
  BY <1>1, ItemsUnroll DEF Whole
<1>2. CASE m # "text"
  <2>1. m \in {"tool", "think"}
    BY <1>2 DEF Mode
  <2>2. PICK r \in Txt : r = Outer(Closer(m), y)
    BY <2>1, InnerOuter
  <2>3. PICK a \in Seq(Item), b \in Seq(Item) : a = Called(m, y) /\ b = Items(r)
    BY <2>1, InnerOuter, ItemsUnroll
  <2>4. a \o b \in Seq(Item)
    BY Joint
  <2>. QED  BY <1>2, <2>2, <2>3, <2>4 DEF Whole
<1>. QED  BY <1>1, <1>2

\* A text without a tag is text.
LEMMA ItemsPlain ==
  ASSUME NEW x \in Txt, Opener(x) = <<>>
  PROVE  Items(x) = Outside(x)
<1>1. FirstItems(x) = Outside(x) /\ RestOf(x) = <<>>
  BY DEF FirstItems, RestOf
<1>2. Items(x) = FirstItems(x) \o Items(RestOf(x)) /\ Items(<<>>) = <<>>
  BY ItemsUnroll, Zenon DEF Unrolls
<1>3. PICK a \in Seq(Item) : a = Outside(x)
  BY ItemTypes
<1>4. a \o <<>> = a
  BY ConcatEmptySeq
<1>. QED  BY <1>1, <1>2, <1>3, <1>4, Zenon

\* A text with a tag is the text before it, and what becomes of the rest.
Tagged(x, o, f) == Items(x) = Outside(Before(x, f)) \o Whole(ModeOf(o), After(x, o))

\* A text with a first tag is cut at it.
LEMMA ItemsTagged ==
  ASSUME NEW x \in Txt, NEW o, NEW f, FirstTag(x, o, f)
  PROVE  Tagged(x, o, f) /\ Before(x, f) \in Txt /\ After(x, o) \in Txt
<1>1. Opener(x) = o /\ Opener(x) # <<>> /\ Find(o, x) = f
  BY OpenerFirst
<1>2. Before(x, f) \in Txt /\ After(x, o) \in Txt
  BY <1>1, PartTypes
<1>3. PICK m \in {"tool", "think"} : m = ModeOf(o)
  BY DEF ModeOf
<1>4. PICK y \in Txt : y = After(x, o)
  BY <1>2
<1>5. FirstItems(x) = Outside(Before(x, f)) \o Called(m, y) /\ RestOf(x) = Outer(Closer(m), y)
  BY <1>1, <1>3, <1>4 DEF FirstItems, RestOf
<1>6. Items(x) = FirstItems(x) \o Items(RestOf(x))
  BY ItemsUnroll, Zenon DEF Unrolls
<1>7. PICK r \in Txt : r = Outer(Closer(m), y)
  BY InnerOuter
<1>8. PICK a \in Seq(Item), b \in Seq(Item), c \in Seq(Item) :
        a = Outside(Before(x, f)) /\ b = Called(m, y) /\ c = Items(r)
  BY <1>2, InnerOuter, ItemTypes, ItemsUnroll
<1>9. (a \o b) \o c = a \o (b \o c)
  BY ConcatAssociative, SMTT(60)
<1>10. Whole(m, y) = b \o c
  BY <1>3, <1>7, <1>8 DEF Whole
<1>11. Items(x) = a \o Whole(m, y)
  BY <1>5, <1>6, <1>7, <1>8, <1>9, <1>10, Zenon
<1>. QED  BY <1>2, <1>3, <1>4, <1>8, <1>11, Zenon DEF Tagged

\* What is handed on of the items is still there.
LEMMA LettersShift ==
  ASSUME NEW p \in Seq(Item), NEW u \in Seq(Item), NEW w \in Seq(Item)
  PROVE  Letters(p \o u) \o Letters(w) = Letters(p) \o Letters(u \o w)
<1>1. p \in Seq(Thing) /\ u \in Seq(Thing) /\ w \in Seq(Thing)
  BY ThingTypes
<1>2. LettersJoin(p, u) /\ LettersJoin(u, w)
  BY <1>1, LettersConcat
<1>3. PICK a \in Seq(Thing), b \in Seq(Thing), c \in Seq(Thing) : a = Letters(p) /\ b = Letters(u) /\ c = Letters(w)
  BY <1>1, EachLetter
<1>4. (a \o b) \o c = a \o (b \o c)
  BY ConcatAssociative, SMTT(60)
<1>. QED  BY <1>2, <1>3, <1>4, Zenon DEF LettersJoin

\* The text let go when no tag is in sight does not depend on what comes.
LetGo(a, w) == Letters(Items(a \o w)) = Letters(Outside(a)) \o Letters(Items(w))

\* A text without a tag: all but what may begin one is text, whatever follows.
LEMMA ItemsLetGo ==
  ASSUME NEW a \in Txt, NEW c \in Txt, NEW z \in Txt, Len(c) = Holdback(a \o c), Opener(a \o c) = <<>>
  PROVE  LetGo(a, c \o z)
<1>1. PICK w \in Txt : w = c \o z
  BY TxtJoin
<1>2. PICK y \in Txt : y = a \o w
  BY TxtJoin
<1>3. CASE Opener(w) = <<>>
  <2>1. Opener(y) = <<>>
    BY <1>1, <1>2, <1>3, FirstShifts
  <2>2. Items(w) = Outside(w) /\ Items(y) = Outside(y)
    BY <1>3, <2>1, ItemsPlain
  <2>3. Letters(Outside(a \o w)) = Letters(Outside(a)) \o Letters(Outside(w))
    BY LettersOutside
  <2>. QED  BY <1>1, <1>2, <2>2, <2>3, Zenon DEF LetGo
<1>4. CASE Opener(w) # <<>>
  <2>1. PICK o, f : o = Opener(w) /\ f = Find(o, w)
    OBVIOUS
  <2>2. FirstTag(w, o, f)
    BY <1>4, <2>1, OpenerFirst
  <2>3. FirstTag(y, o, Len(a) + f)
    BY <1>1, <1>2, <2>2, FirstShifts
  <2>4. Tagged(w, o, f) /\ Tagged(y, o, Len(a) + f)
    BY <2>2, <2>3, ItemsTagged
  <2>5. o \in Txt /\ o # <<>> /\ Len(o) \in Nat \ {0} /\ At(o, w, f) /\ Occurs(o, w) # {}
    BY <1>4, <2>1, <2>2, TagTypes, OpenerIs DEF FirstTag
  <2>6. f \in 1 .. Len(w) + 1 /\ f + Len(o) \in 1 .. Len(w) + 1 /\ Len(w) \in Nat /\ Len(a) \in Nat
    <3>1. Len(w) \in Nat /\ Len(a) \in Nat /\ f \in 1 .. Len(w)
      BY <2>1, <2>5, FindPlace, SMTT(60) DEF Txt
    <3>. QED  BY <2>1, <2>5, <3>1, FindPlace
  <2>7. Before(y, Len(a) + f) = a \o Before(w, f) /\ From(y, Len(a) + (f + Len(o))) = From(w, f + Len(o))
    BY <1>2, <2>6, CutSecond
  <2>8. Find(o, y) = Len(a) + f
    BY <2>3, OpenerFirst
  <2>9. (Len(a) + f) + Len(o) = Len(a) + (f + Len(o))
    BY <2>5, <2>6
  <2>10. After(y, o) = After(w, o)
    BY <2>1, <2>7, <2>8, <2>9 DEF After
  <2>11. PICK b \in Txt : b = Before(w, f)
    BY <2>2, ItemsTagged
  <2>12. PICK v \in Seq(Item) : v = Whole(ModeOf(o), After(w, o))
    <3>1. ModeOf(o) \in Mode
      BY DEF ModeOf, Mode
    <3>. QED  BY <2>2, <3>1, ItemsTagged, WholeType
  <2>13. Items(w) = Outside(b) \o v /\ Items(y) = Outside(a \o b) \o v
    BY <2>4, <2>7, <2>10, <2>11, <2>12, Zenon DEF Tagged
  <2>14. PICK p \in Seq(Thing), q \in Seq(Thing), r \in Seq(Thing) :
           p = Letters(Outside(a)) /\ q = Letters(Outside(b)) /\ r = Letters(v)
    BY LettersOutside, EachLetter, ThingTypes
  <2>15. Letters(Outside(a \o b)) = p \o q
    BY <2>14, LettersOutside, Zenon
  <2>16. Letters(Items(w)) = q \o r
    <3>1. Outside(b) \in Seq(Thing) /\ v \in Seq(Thing)
      BY ItemTypes, ThingTypes
    <3>2. LettersJoin(Outside(b), v)
      BY <3>1, LettersConcat
    <3>. QED  BY <2>13, <2>14, <3>2, Zenon DEF LettersJoin
  <2>17. Letters(Items(y)) = (p \o q) \o r
    <3>1. a \o b \in Txt
      BY TxtJoin
    <3>2. Outside(a \o b) \in Seq(Thing) /\ v \in Seq(Thing)
      BY <3>1, ItemTypes, ThingTypes
    <3>3. LettersJoin(Outside(a \o b), v)
      BY <3>2, LettersConcat
    <3>. QED  BY <2>13, <2>14, <2>15, <3>3, Zenon DEF LettersJoin
  <2>18. (p \o q) \o r = p \o (q \o r)
    BY ConcatAssociative, SMTT(60)
  <2>. QED  BY <1>1, <1>2, <2>14, <2>16, <2>17, <2>18, Zenon DEF LetGo
<1>. QED  BY <1>3, <1>4

\* All there is, of what was parsed and of what is still in the buffer, when z follows.
Amount(p, z) == Letters(p.out) \o Letters(Whole(p.mode, p.buf \o z))

\* A turn that finds an opening tag.
Opens(x, z, o, b, y) == Items(x \o z) = Outside(b) \o Whole(ModeOf(o), y \o z)

\* An opening tag is the first one whatever follows it.
LEMMA OpeningKeeps ==
  ASSUME NEW x \in Txt, NEW z \in Txt, NEW o, o = Opener(x), o # <<>>
  PROVE  /\ Opens(x, z, o, Before(x, Find(o, x)), After(x, o))
         /\ Before(x, Find(o, x)) \in Txt /\ After(x, o) \in Txt
<1>1. FirstTag(x, o, Find(o, x))
  BY OpenerFirst
<1>2. PICK y \in Txt : y = x \o z
  BY TxtJoin
<1>3. FirstTag(y, o, Find(o, x))
  BY <1>1, <1>2, FirstStays
<1>4. Tagged(y, o, Find(o, x))
  BY <1>3, ItemsTagged
<1>5. Find(o, y) = Find(o, x)
  BY <1>3, OpenerFirst
<1>6. o \in Txt /\ o # <<>> /\ Occurs(o, x) # {}
  BY <1>1, TagTypes, OpenerIs DEF FirstTag
<1>7. Before(y, Find(o, y)) = Before(x, Find(o, x)) /\ After(y, o) = After(x, o) \o z
  BY <1>2, <1>5, <1>6, CutStays, ZenonT(100)
<1>. QED  BY <1>1, <1>2, <1>4, <1>5, <1>7, ItemsTagged, Zenon DEF Tagged, Opens

\* A turn that finds the closing tag.
LEMMA ClosingKeeps ==
  ASSUME NEW x \in Txt, NEW z \in Txt, NEW m \in {"tool", "think"}, Occurs(Closer(m), x) # {}
  PROVE  /\ Whole(m, x \o z) = Called(m, x) \o Items(After(x, Closer(m)) \o z)
         /\ Called(m, x) \in Seq(Item) /\ After(x, Closer(m)) \in Txt
<1>1. PICK c \in Txt : c = Closer(m) /\ c # <<>>
  BY InnerOuter
<1>2. Occurs(c, x \o z) # {} /\ Find(c, x \o z) = Find(c, x)
  BY <1>1, FindStays
<1>3. Before(x \o z, Find(c, x \o z)) = Before(x, Find(c, x)) /\ After(x \o z, c) = After(x, c) \o z
  BY <1>1, <1>2, CutStays
<1>4. Inner(c, x \o z) = Inner(c, x) /\ Outer(c, x \o z) = After(x, c) \o z
  BY <1>1, <1>2, <1>3, Zenon DEF Inner, Outer
<1>5. Called(m, x \o z) = Called(m, x)
  BY <1>1, <1>4 DEF Called
<1>6. Called(m, x) \in Seq(Item) /\ After(x, c) \in Txt
  BY <1>1, InnerOuter, FindPlace
<1>7. m # "text"
  OBVIOUS
<1>. QED  BY <1>1, <1>4, <1>5, <1>6, <1>7, Zenon DEF Whole

\* When the loop is left, the buffer holds no tag it looks for.
Quiet(p) ==
  /\ p.left
  /\ p.mode = "text" => Opener(p.buf) = <<>>
  /\ p.mode # "text" => Occurs(Closer(p.mode), p.buf) = {}

\* What is kept back has no tag.
LEMMA KeptQuiet ==
  ASSUME NEW x \in Txt, Opener(x) = <<>>
  PROVE  Opener(From(x, Ready(x) + 1)) = <<>>
<1>1. PICK a \in Txt, c \in Txt : a = Before(x, Ready(x) + 1) /\ c = From(x, Ready(x) + 1)
  BY KeptBack
<1>2. x = a \o c
  BY <1>1, KeptBack
<1>3. ASSUME NEW t \in Tags, NEW i, At(t, c, i) PROVE FALSE
  <2>1. t \in Txt /\ i \in Nat \ {0}
    BY <1>3, TagTypes DEF At
  <2>2. At(t, x, Len(a) + i)
    BY <1>2, <1>3, <2>1, AtShift
  <2>. QED  BY <2>2, OpenerFirst
<1>. QED  BY <1>1, <1>3, OpenerFirst

\* A turn neither adds nor loses anything, whatever follows; it shortens the buffer
\* or leaves the loop.
LEMMA TurnKeeps ==
  ASSUME NEW p \in Running, NEW q \in Running, TurnTo(p, q), NEW z \in Txt
  PROVE  /\ Amount(q, z) = Amount(p, z)
         /\ (p.left => Quiet(p)) => (q.left => Quiet(q))
         /\ p.left \/ q.left \/ Len(q.buf) < Len(p.buf)
         /\ p.left => q.left
<1>1. PICK x \in Txt, m \in Mode, u \in Seq(Item) : x = p.buf /\ m = p.mode /\ u = p.out
  BY DEF Running
<1>2. PICK y \in Txt, n \in Mode, v \in Seq(Item) : y = q.buf /\ n = q.mode /\ v = q.out
  BY DEF Running
<1>3. /\ Amount(p, z) = Letters(u) \o Letters(Whole(m, x \o z))
      /\ Amount(q, z) = Letters(v) \o Letters(Whole(n, y \o z))
  BY <1>1, <1>2 DEF Amount
<1>4. x \o z \in Txt /\ y \o z \in Txt
  BY TxtJoin
<1>5. CASE p.left /\ q = p
  BY <1>5
<1>6. CASE /\ ~p.left /\ p.mode = "text" /\ Opener(p.buf) # <<>>
           /\ q.mode = (IF Opener(p.buf) = ToolOpen THEN "tool" ELSE "think")
           /\ q.buf = After(p.buf, Opener(p.buf)) /\ q.left = FALSE
           /\ q.out = p.out \o Outside(Before(p.buf, Find(Opener(p.buf), p.buf)))
  <2>1. PICK o : o = Opener(x)
    OBVIOUS
  <2>2. o # <<>> /\ n = ModeOf(o) /\ y = After(x, o) /\ v = u \o Outside(Before(x, Find(o, x))) /\ m = "text"
    BY <1>1, <1>2, <1>6, <2>1 DEF ModeOf
  <2>3. Opens(x, z, o, Before(x, Find(o, x)), y) /\ Before(x, Find(o, x)) \in Txt
    BY <2>1, <2>2, OpeningKeeps
  <2>4. PICK a \in Seq(Item), w \in Seq(Item) : a = Outside(Before(x, Find(o, x))) /\ w = Whole(n, y \o z)
    BY <1>4, <2>3, ItemTypes, WholeType
  <2>5. Letters(u \o a) \o Letters(w) = Letters(u) \o Letters(a \o w)
    BY LettersShift
  <2>6. Whole(m, x \o z) = Items(x \o z)
    BY <2>2 DEF Whole
  <2>7. Amount(q, z) = Amount(p, z)
    BY <1>3, <2>2, <2>3, <2>4, <2>5, <2>6, Zenon DEF Opens
  <2>8. Len(y) < Len(x)
    <3>1. o \in Tags /\ Occurs(o, x) # {}
      BY <2>1, <2>2, OpenerIs
    <3>2. o \in Txt /\ o # <<>>
      BY <3>1, TagTypes
    <3>. QED  BY <2>2, <3>1, <3>2, FindPlace
  <2>. QED  BY <1>1, <1>2, <1>6, <2>7, <2>8
<1>7. CASE /\ ~p.left /\ p.mode = "text" /\ Opener(p.buf) = <<>>
           /\ q.mode = "text" /\ q.left = TRUE
           /\ q.buf = From(p.buf, Ready(p.buf) + 1)
           /\ q.out = p.out \o Outside(Before(p.buf, Ready(p.buf) + 1))
  <2>1. PICK a \in Txt : a = Before(x, Ready(x) + 1)
    BY KeptBack
  <2>2. y = From(x, Ready(x) + 1) /\ Opener(x) = <<>> /\ v = u \o Outside(a) /\ m = "text" /\ n = "text"
    BY <1>1, <1>2, <1>7, <2>1
  <2>3. x = a \o y /\ Len(y) = Holdback(x)
    BY <2>1, <2>2, KeptBack
  <2>4. Opener(a \o y) = <<>> /\ Len(y) = Holdback(a \o y)
    BY <2>2, <2>3
  <2>5. LetGo(a, y \o z)
    BY <2>4, ItemsLetGo
  <2>6. x \o z = a \o (y \o z)
    <3>1. (a \o y) \o z = a \o (y \o z)
      BY TxtAll, ZenonT(200)
    <3>. QED  BY <2>3, <3>1
  <2>7. PICK b \in Seq(Item), w \in Seq(Item) : b = Outside(a) /\ w = Items(y \o z)
    BY <1>4, ItemTypes, ItemsUnroll
  <2>8. PICK r \in Seq(Thing), s \in Seq(Thing), t \in Seq(Thing) : r = Letters(u) /\ s = Letters(b) /\ t = Letters(w)
    BY EachLetter, ThingTypes
  <2>9. Letters(u \o b) = r \o s
    <3>1. LettersJoin(u, b)
      BY ThingTypes, LettersConcat
    <3>. QED  BY <2>8, <3>1, Zenon DEF LettersJoin
  <2>10. (r \o s) \o t = r \o (s \o t)
    BY ConcatAssociative, SMTT(60)
  <2>11. Whole(m, x \o z) = Items(x \o z) /\ Whole(n, y \o z) = Items(y \o z)
    BY <2>2 DEF Whole
  <2>12. Amount(q, z) = Amount(p, z)
    BY <1>3, <2>2, <2>5, <2>6, <2>7, <2>8, <2>9, <2>10, <2>11, Zenon DEF LetGo
  <2>13. Opener(y) = <<>>
    BY <2>2, KeptQuiet
  <2>. QED  BY <1>2, <1>7, <2>12, <2>13 DEF Quiet
<1>8. CASE /\ ~p.left /\ p.mode # "text" /\ Occurs(Closer(p.mode), p.buf) # {}
           /\ q.mode = "text" /\ q.left = FALSE /\ q.buf = After(p.buf, Closer(p.mode))
           /\ q.out = (IF p.mode = "tool" THEN Append(p.out, ParseCall(Before(p.buf, Find(ToolClose, p.buf)))) ELSE p.out)
  <2>1. m \in {"tool", "think"}
    BY <1>1, <1>8 DEF Mode
  <2>2. n = "text" /\ y = After(x, Closer(m)) /\ Occurs(Closer(m), x) # {}
        /\ v = (IF m = "tool" THEN Append(u, ParseCall(Before(x, Find(ToolClose, x)))) ELSE u)
    BY <1>1, <1>2, <1>8
  <2>3. Whole(m, x \o z) = Called(m, x) \o Items(y \o z)
    BY <2>1, <2>2, ClosingKeeps, ZenonT(100)
  <2>4. PICK a \in Seq(Item), w \in Seq(Item) : a = Called(m, x) /\ w = Items(y \o z)
    BY <1>4, <2>1, <2>2, ClosingKeeps, ItemsUnroll
  <2>5. v = u \o a
    <3>1. CASE m = "tool"
      <4>1. Closer(m) = ToolClose
        BY <3>1 DEF Closer
      <4>2. PICK e : e = ParseCall(Before(x, Find(ToolClose, x)))
        OBVIOUS
      <4>3. a = <<e>> /\ v = Append(u, e)
        BY <2>2, <2>4, <3>1, <4>1, <4>2 DEF Called, Inner
      <4>4. e \in Item
        BY <4>3
      <4>5. Append(u, e) = u \o <<e>>
        BY <4>4, OneMore
      <4>. QED  BY <4>3, <4>5, Zenon
    <3>2. CASE m # "tool"
      <4>1. a = <<>> /\ v = u
        BY <2>2, <2>4, <3>2 DEF Called
      <4>2. u \o <<>> = u
        BY ConcatEmptySeq
      <4>. QED  BY <4>1, <4>2, Zenon
    <3>. QED  BY <3>1, <3>2
  <2>6. Letters(u \o a) \o Letters(w) = Letters(u) \o Letters(a \o w)
    BY LettersShift
  <2>7. Whole(n, y \o z) = Items(y \o z)
    BY <2>2 DEF Whole
  <2>8. Amount(q, z) = Amount(p, z)
    BY <1>3, <2>3, <2>4, <2>5, <2>6, <2>7, Zenon
  <2>9. Len(y) < Len(x)
    <3>1. Closer(m) \in Txt /\ Closer(m) # <<>>
      BY <2>1, InnerOuter
    <3>. QED  BY <2>2, <3>1, FindPlace
  <2>. QED  BY <1>1, <1>2, <1>8, <2>8, <2>9
<1>9. CASE /\ ~p.left /\ p.mode # "text" /\ Occurs(Closer(p.mode), p.buf) = {}
           /\ q.mode = p.mode /\ q.left = TRUE /\ q.buf = p.buf /\ q.out = p.out
  <2>1. Amount(q, z) = Amount(p, z)
    BY <1>9 DEF Amount
  <2>2. Quiet(q)
    BY <1>9 DEF Quiet
  <2>. QED  BY <1>9, <2>1, <2>2
<1>. QED  BY <1>5, <1>6, <1>7, <1>8, <1>9 DEF TurnTo

\* So push neither adds nor loses anything, and leaves no tag to be found.
Pushed(p, text, q) ==
  /\ Quiet(q)
  /\ \A z \in Txt : Amount(q, z) = Letters(Whole(p.mode, (p.buf \o text) \o z))

\* push neither loses nor changes anything, in as many turns as it takes.
LEMMA PushKeeps ==
  ASSUME NEW p \in Parser, NEW text \in Txt
  PROVE  Pushed(p, text, ParserPush(p, text))
<1>1. PICK m \in Mode : m = p.mode
  BY DEF Parser
<1>2. PICK x \in Txt : x = p.buf \o text
  BY TxtJoin DEF Parser
<1>3. PICK g : Turns(g, m, x) /\ ParserPush(p, text) = g[Len(x) + 1]
  BY <1>1, <1>2, PushTurns
<1>. DEFINE N == Len(x) + 1
            Same(n) == \A z \in Txt : Amount(g[n], z) = Letters(Whole(m, x \o z))
            T == {n \in Nat : n <= N => /\ Same(n)
                                        /\ g[n].left => Quiet(g[n])
                                        /\ g[n].left \/ Len(g[n].buf) + n <= Len(x)}
<1>4. N \in Nat /\ Len(x) \in Nat
  BY DEF Txt
<1>5. /\ g[0] = Start(m, x) /\ \A n \in 0 .. N : g[n] \in Running
      /\ \A n \in 1 .. N : g[n] = Turn(g[n - 1])
  BY <1>3 DEF Turns
<1>6. 0 \in T
  <2>1. /\ g[0].mode = m /\ g[0].buf = x /\ g[0].out = <<>> /\ g[0].left = FALSE
    BY <1>5 DEF Start
  <2>2. ASSUME NEW z \in Txt PROVE Amount(g[0], z) = Letters(Whole(m, x \o z))
    <3>1. PICK w \in Seq(Item) : w = Whole(m, x \o z)
      BY TxtJoin, WholeType
    <3>2. PICK l \in Seq(Thing) : l = Letters(w)
      BY EachLetter, ThingTypes
    <3>3. Letters(<<>>) = <<>>
      <4>1. PICK e \in Thing : TRUE
        BY ThingTypes, ItemTypes, NothingTxt
      <4>. QED  BY ThingAlone
    <3>4. <<>> \o l = l
      BY ConcatEmptySeq
    <3>. QED  BY <2>1, <3>1, <3>2, <3>3, <3>4, Zenon DEF Amount
  <2>3. 0 \in Nat /\ Len(g[0].buf) + 0 <= Len(x)
    BY <1>4, <2>1
  <2>. QED  BY <2>1, <2>2, <2>3
<1>7. ASSUME NEW n \in T PROVE n + 1 \in T
  <2>1. n \in Nat /\ n + 1 \in Nat
        /\ (n <= N => Same(n) /\ (g[n].left => Quiet(g[n])) /\ (g[n].left \/ Len(g[n].buf) + n <= Len(x)))
    <3>. HIDE DEF Same
    <3>. QED  OBVIOUS
  <2>2. ASSUME n + 1 <= N
        PROVE  /\ Same(n + 1)
               /\ g[n + 1].left => Quiet(g[n + 1])
               /\ g[n + 1].left \/ Len(g[n + 1].buf) + (n + 1) <= Len(x)
    <3>1. n + 1 \in 1 .. N /\ n <= N /\ (n + 1) - 1 = n /\ n \in 0 .. N /\ n + 1 \in 0 .. N
      BY <1>4, <2>1, <2>2
    <3>2. PICK a \in Running : a = g[n]
      BY <1>5, <3>1
    <3>3. PICK b \in Running : b = g[n + 1] /\ TurnTo(a, b)
      <4>1. g[n + 1] = Turn(a)
        BY <1>5, <3>1, <3>2
      <4>. QED  BY <4>1, TurnIs
    <3>4. Same(n) /\ (a.left => Quiet(a)) /\ (a.left \/ Len(a.buf) + n <= Len(x))
      <4>. HIDE DEF Same
      <4>. QED  BY <2>1, <3>1, <3>2
    <3>5. \A z \in Txt : Amount(b, z) = Amount(a, z)
      BY <3>3, TurnKeeps
    <3>6. Same(n + 1)
      BY <3>2, <3>3, <3>4, <3>5
    <3>7. /\ b.left => Quiet(b)
          /\ a.left \/ b.left \/ Len(b.buf) < Len(a.buf)
          /\ a.left => b.left
      BY <3>3, <3>4, NothingTxt, TurnKeeps
    <3>8. Len(a.buf) \in Nat /\ Len(b.buf) \in Nat
      BY DEF Running, Txt
    <3>9. b.left \/ Len(b.buf) + (n + 1) <= Len(x)
      <4>. SUFFICES ASSUME ~b.left PROVE Len(b.buf) + (n + 1) <= Len(x)
        OBVIOUS
      <4>1. ~a.left /\ Len(b.buf) < Len(a.buf)
        BY <3>7, Zenon
      <4>2. Len(a.buf) + n <= Len(x)
        BY <3>4, <4>1, Zenon
      <4>3. \A i, j, k, l \in Nat : i < j /\ j + l <= k => i + (l + 1) <= k
        OBVIOUS
      <4>. QED  BY <1>4, <2>1, <3>8, <4>1, <4>2, <4>3, Zenon
    <3>. HIDE DEF Same
    <3>. QED  BY <3>3, <3>6, <3>7, <3>9
  <2>. HIDE DEF Same
  <2>. QED  BY <2>1, <2>2
<1>8. N \in T
  <2>1. T \in SUBSET Nat
    <3>. HIDE DEF Same
    <3>. QED  OBVIOUS
  <2>. HIDE DEF T
  <2>2. T = Nat
    BY <1>6, <1>7, <2>1, NumbersByInduction
  <2>. QED  BY <1>4, <2>2
<1>9. PICK q \in Running : q = g[N]
  BY <1>4, <1>5
<1>10. Same(N) /\ (q.left => Quiet(q)) /\ (q.left \/ Len(q.buf) + N <= Len(x))
  <2>. HIDE DEF Same, N
  <2>1. N <= N
    BY <1>4
  <2>. QED  BY <1>8, <1>9, <2>1
<1>11. q.left
  <2>1. Len(q.buf) \in Nat
    BY DEF Running, Txt
  <2>2. ~(Len(q.buf) + N <= Len(x))
    <3>1. \A i, j \in Nat : ~(i + (j + 1) <= j)
      OBVIOUS
    <3>. QED  BY <1>4, <2>1, <3>1, Zenon
  <2>. QED  BY <1>10, <2>2, Zenon
<1>. QED  BY <1>1, <1>2, <1>3, <1>9, <1>10, <1>11, Zenon DEF Pushed

\* What finish returns is what becomes of the rest.
LEMMA FinishIs ==
  ASSUME NEW q \in Running, Quiet(q)
  PROVE  ParserFinish(q) = Whole(q.mode, q.buf)
<1>1. PICK x \in Txt, m \in Mode : x = q.buf /\ m = q.mode
  BY DEF Running
<1>2. CASE m = "text"
  <2>1. Opener(x) = <<>>
    BY <1>1, <1>2 DEF Quiet
  <2>2. Items(x) = Outside(x)
    BY <2>1, ItemsPlain
  <2>. QED  BY <1>1, <1>2, <2>2 DEF ParserFinish, Whole
<1>3. CASE m # "text"
  <2>1. Occurs(Closer(m), x) = {}
    BY <1>1, <1>3 DEF Quiet
  <2>2. Inner(Closer(m), x) = x /\ Outer(Closer(m), x) = <<>> /\ m \in {"tool", "think"}
    BY <1>3, <2>1 DEF Inner, Outer, Mode
  <2>3. PICK a \in Seq(Item) : a = Called(m, x)
    BY <2>2, InnerOuter
  <2>4. Items(<<>>) = <<>> /\ a \o <<>> = a
    BY NothingTxt, ItemsUnroll, ConcatEmptySeq
  <2>5. Whole(m, x) = a
    BY <1>3, <2>2, <2>3, <2>4, Zenon DEF Whole
  <2>6. ParserFinish(q) = a
    <3>1. ParserFinish(q) = IF m = "tool" THEN <<ParseCall(x)>> ELSE <<>>
      BY <1>1, <2>2 DEF ParserFinish
    <3>. QED  BY <2>2, <2>3, <3>1 DEF Called
  <2>. QED  BY <1>1, <2>5, <2>6
<1>. QED  BY <1>2, <1>3

-------------------------------------------------------------------------------
(* CallsEndTheTurn.                                                           *)

\* Items P and a parser in mode m with buffer b account for text r and what follows.
Accounts(r, P, m, b) == \A z \in Txt : Letters(Items(r \o z)) = Letters(P) \o Letters(Whole(m, b \o z))
AccountsAll(r, P) == Letters(P) = Letters(Items(r))

\* A new parser accounts for the empty text.
LEMMA AccountsStart == Accounts(<<>>, <<>>, "text", <<>>)
<1>1. ASSUME NEW z \in Txt PROVE Letters(Items(<<>> \o z)) = Letters(<<>>) \o Letters(Whole("text", <<>> \o z))
  <2>1. <<>> \o z = z
    BY TxtEmpty
  <2>2. Whole("text", z) = Items(z)
    BY DEF Whole
  <2>3. PICK l \in Seq(Thing) : l = Letters(Items(z))
    BY ItemsUnroll, EachLetter, ThingTypes
  <2>4. Letters(<<>>) = <<>>
    <3>1. PICK e \in Thing : TRUE
      BY ThingTypes, ItemTypes
    <3>. QED  BY ThingAlone
  <2>5. <<>> \o l = l
    BY ConcatEmptySeq
  <2>. QED  BY <2>1, <2>2, <2>3, <2>4, <2>5, Zenon
<1>. QED  BY <1>1, Zenon DEF Accounts

\* Text pushed is accounted for by the items handed on and what the parser keeps;
\* when it is finished, by the items alone.
LEMMA AccountsMore ==
  ASSUME NEW r \in Txt, NEW P \in Seq(Item), NEW p \in Parser, Accounts(r, P, p.mode, p.buf),
         NEW t \in Txt, NEW q \in Running, q = ParserPush(p, t), NEW end \in BOOLEAN
  PROVE  /\ ~end => Accounts(r \o t, P \o ParsedOf(q, end), q.mode, q.buf)
         /\ end => AccountsAll(r \o t, P \o ParsedOf(q, end))
<1>1. PICK m \in Mode, b \in Txt : m = p.mode /\ b = p.buf
  BY DEF Parser
<1>2. PICK n \in Mode, c \in Txt, o \in Seq(Item) : n = q.mode /\ c = q.buf /\ o = q.out
  BY DEF Running
<1>3. Quiet(q) /\ \A z \in Txt : Letters(o) \o Letters(Whole(n, c \o z)) = Letters(Whole(m, (b \o t) \o z))
  <2>1. Pushed(p, t, q)
    BY PushKeeps
  <2>. QED  BY <1>1, <1>2, <2>1, Zenon DEF Pushed, Amount
<1>4. \A z \in Txt : t \o z \in Txt /\ r \o (t \o z) = (r \o t) \o z /\ b \o (t \o z) = (b \o t) \o z
  BY TxtAll, ZenonT(200)
<1>5. \A z \in Txt : Letters(Items((r \o t) \o z)) = Letters(P) \o (Letters(o) \o Letters(Whole(n, c \o z)))
  <2>0. Accounts(r, P, m, b)
    BY <1>1
  <2>. TAKE z \in Txt
  <2>1. Letters(Items(r \o (t \o z))) = Letters(P) \o Letters(Whole(m, b \o (t \o z)))
    BY <1>4, <2>0, Zenon DEF Accounts
  <2>2. Letters(o) \o Letters(Whole(n, c \o z)) = Letters(Whole(m, (b \o t) \o z))
    BY <1>3
  <2>3. r \o (t \o z) = (r \o t) \o z /\ b \o (t \o z) = (b \o t) \o z
    BY <1>4, Zenon
  <2>. QED  BY <2>1, <2>2, <2>3, Zenon
<1>6. ASSUME NEW w \in Seq(Item)
      PROVE  Letters(P) \o (Letters(o) \o Letters(w)) = Letters(P \o o) \o Letters(w)
  <2>1. P \in Seq(Thing) /\ o \in Seq(Thing) /\ w \in Seq(Thing)
    BY ThingTypes
  <2>2. PICK a \in Seq(Thing), d \in Seq(Thing), e \in Seq(Thing) : a = Letters(P) /\ d = Letters(o) /\ e = Letters(w)
    BY <2>1, EachLetter
  <2>3. LettersJoin(P, o)
    BY <2>1, LettersConcat
  <2>4. (a \o d) \o e = a \o (d \o e)
    BY ConcatAssociative, SMTT(60)
  <2>. QED  BY <2>2, <2>3, <2>4, Zenon DEF LettersJoin
<1>7. CASE ~end
  <2>1. ParsedOf(q, end) = o
    BY <1>2, <1>7 DEF ParsedOf
  <2>2. \A z \in Txt : Whole(n, c \o z) \in Seq(Item)
    BY TxtJoin, WholeType
  <2>3. Accounts(r \o t, P \o o, n, c)
    BY <1>5, <1>6, <2>2, Zenon DEF Accounts
  <2>. QED  BY <1>2, <1>7, <2>1, <2>3, Zenon
<1>8. CASE end
  <2>1. PICK f \in Seq(Item) : f = ParserFinish(q)
    BY FinishType
  <2>2. f = Whole(n, c)
    BY <1>2, <1>3, <2>1, FinishIs
  <2>3. ParsedOf(q, end) = o \o f
    BY <1>2, <1>8, <2>1, Zenon DEF ParsedOf
  <2>4. r \o t \in Txt /\ (r \o t) \o <<>> = r \o t /\ c \o <<>> = c /\ <<>> \in Txt
    BY TxtJoin, TxtEmpty
  <2>5. Letters(Items(r \o t)) = Letters(P) \o (Letters(o) \o Letters(f))
    BY <1>5, <2>2, <2>4, Zenon
  <2>6. P \o (o \o f) = (P \o o) \o f /\ P \o o \in Seq(Item)
    <3>1. (P \o o) \o f = P \o (o \o f)
      BY ConcatAssociative, SMTT(60)
    <3>2. P \o o \in Seq(Item)
      BY Joint
    <3>. QED  BY <3>1, <3>2, Zenon
  <2>7. LettersJoin(P \o o, f)
    BY <2>6, ThingTypes, LettersConcat
  <2>8. AccountsAll(r \o t, P \o (o \o f))
    BY <1>6, <2>5, <2>6, <2>7, Zenon DEF LettersJoin, AccountsAll
  <2>. QED  BY <1>8, <2>3, <2>8, Zenon
<1>. QED  BY <1>7, <1>8

\* The emitter counts the calls.
LEMMA EmittedCalls ==
  ASSUME NEW em \in Emitter, NEW p \in Seq(Item)
  PROVE  Emitted(em, p).calls = em.calls + Len(Only(p, {"call"}))
<1>. DEFINE n(u) == Len(Only(u, {"call"}))
            T == {u \in Seq(Item) : Emitted(em, u).calls = em.calls + n(u)}
<1>1. PICK z \in Item : TRUE
  BY ItemTypes, NothingTxt
<1>0. em.calls \in Nat
  BY DEF Emitter
<1>2. <<>> \in T
  <2>1. Emitted(em, <<>>) = em /\ <<>> \in Seq(Item)
    BY EmittedNone
  <2>2. n(<<>>) = 0
    <3>1. Only(<<>>, {"call"}) = <<>>
      BY <1>1, ThingAlone, ThingTypes
    <3>. QED  BY <3>1
  <2>. QED  BY <1>0, <2>1, <2>2
<1>3. ASSUME NEW u \in T, NEW e \in Item PROVE Append(u, e) \in T
  <2>1. u \in Seq(Item) /\ Emitted(em, u).calls = em.calls + n(u)
    OBVIOUS
  <2>2. PICK w \in Seq(Item) : w = Append(u, e)
    <3>. HIDE DEF T
    <3>. QED  BY <2>1, AppendProperties
  <2>3. w = u \o <<e>> /\ <<e>> \in Seq(Item) /\ u \in Seq(Thing) /\ <<e>> \in Seq(Thing) /\ e \in Thing
    BY <2>1, <2>2, OneMore, ThingTypes
  <2>4. PICK a \in Emitter, q \in Emitter : a = Emitted(em, u) /\ q = OnEvent(a, e) /\ Emitted(em, w) = q
    <3>1. PICK a \in Emitter : a = Emitted(em, u)
      BY <2>1, EmittedStep
    <3>2. PICK q \in Emitter : q = OnEvent(a, e)
      BY OnEventIs
    <3>3. Emitted(em, w) = q
      BY <2>1, <2>2, <3>1, <3>2, EmittedStep
    <3>. QED  BY <3>1, <3>2, <3>3
  <2>5. n(w) = n(u) + IF e.kind = "call" THEN 1 ELSE 0
    <3>1. OnlyJoins(u, <<e>>, {"call"}) /\ Only(u, {"call"}) \in Seq(Thing) /\ Only(<<e>>, {"call"}) \in Seq(Thing)
      BY <2>3, OnlyConcat
    <3>2. Only(w, {"call"}) = Only(u, {"call"}) \o Only(<<e>>, {"call"})
      BY <2>3, <3>1, Zenon DEF OnlyJoins
    <3>3. Len(Only(w, {"call"})) = Len(Only(u, {"call"})) + Len(Only(<<e>>, {"call"}))
      BY <3>1, <3>2, Joint
    <3>4. Only(<<e>>, {"call"}) = IF e.kind = "call" THEN <<e>> ELSE <<>>
      BY <2>3, ThingAlone
    <3>5. Len(Only(<<e>>, {"call"})) = IF e.kind = "call" THEN 1 ELSE 0
      BY <3>4
    <3>. QED  BY <3>3, <3>5
  <2>6. n(u) \in Nat /\ a.calls = em.calls + n(u) /\ a.calls \in Nat
    <3>1. Only(u, {"call"}) \in Seq(Thing)
      BY <2>3, EachKept
    <3>. QED  BY <2>1, <2>4, <3>1 DEF Emitter
  <2>. HIDE DEF n
  <2>7. q.calls = a.calls + IF e.kind = "call" THEN 1 ELSE 0
    <3>1. PICK c \in Emitter : c = CloseText(a) /\ CloseTo(a, c)
      BY CloseTextIs
    <3>2. \/ e.kind = "text" /\ TextTo(a, e.body, q)
          \/ e.kind = "call" /\ CallTo(c, e.body, q)
          \/ e.kind = "malformed" /\ q = a
      BY <2>4, <3>1, OnEventIs
    <3>3. CASE e.kind = "text" /\ TextTo(a, e.body, q)
      <4>1. q.calls = a.calls /\ e.kind # "call"
        BY <3>3, Zenon DEF TextTo
      <4>. QED  BY <2>6, <4>1
    <3>4. CASE e.kind = "call" /\ CallTo(c, e.body, q)
      BY <3>1, <3>4 DEF CallTo, CloseTo
    <3>5. CASE e.kind = "malformed" /\ q = a
      BY <2>6, <3>5
    <3>. QED  BY <3>2, <3>3, <3>4, <3>5
  <2>8. q.calls = em.calls + n(w)
    <3>1. PICK i \in {0, 1} : i = IF e.kind = "call" THEN 1 ELSE 0
      OBVIOUS
    <3>2. n(w) = n(u) + i /\ q.calls = (em.calls + n(u)) + i
      BY <2>5, <2>6, <2>7, <3>1
    <3>3. \A j, k \in Nat : (j + k) + i = j + (k + i)
      BY <3>1
    <3>. QED  BY <1>0, <2>6, <3>2, <3>3
  <2>. QED  BY <2>2, <2>4, <2>8
<1>4. T = Seq(Item)
  <2>1. T \in SUBSET Seq(Item)
    <3>. HIDE DEF n
    <3>. QED  OBVIOUS
  <2>. HIDE DEF T
  <2>. QED  BY <1>2, <1>3, <2>1, SequencesByInduction
<1>. QED  BY <1>4

\* P is what the parser has handed on in this round.
RoundOK(P) ==
  /\ IF Settled THEN AccountsAll(raw, P) ELSE Accounts(raw, P, parser.mode, parser.buf)
  /\ malformed = Only(P, {"malformed"})
  /\ emitter.calls = Len(Only(P, {"call"}))

Round == [ids : Seq(Pieces), raw : Txt]
NoCallsYet == rounds \in Seq(Round) /\ \A i \in DOMAIN rounds : Only(Items(rounds[i].raw), {"call"}) = <<>>

RoundInv == NoCallsYet /\ \E P \in Seq(Item) : RoundOK(P)

\* What else a delivery leaves: the items it handed on, accounted for.
LEMMA DeliverAccounts ==
  ASSUME StopInv, BlockInv, NEW P \in Seq(Item), RoundOK(P), ~Settled,
         NEW text \in Txt, NEW end \in BOOLEAN, Deliver(text, end), Settled' <=> end
  PROVE  \E p \in Seq(Item) : /\ P \o p \in Seq(Item) /\ RoundOK(P \o p)'
                              /\ p = ParsedOf(ParserPush(parser, text), end)
<1>1. PICK q \in Running : q = ParserPush(parser, text)
  BY PushType DEF BlockInv
<1>2. PICK p \in Seq(Item) : p = ParsedOf(q, end)
  BY ParsedType
<1>3. PICK a : a = Emitted(emitter, p)
  OBVIOUS
<1>4. /\ parser' = [mode |-> q.mode, buf |-> q.buf] /\ raw' = raw \o text
      /\ malformed' = malformed \o Only(p, {"malformed"})
      /\ emitter' = [a EXCEPT !.sent = <<>>]
  BY <1>1, <1>2, <1>3, Zenon DEF Deliver, ParsedOf
<1>5. PICK e \in Emitter : e = emitter
  BY DEF BlockInv, Blocks
<1>6. PICK r \in Txt, k \in Parser : r = raw /\ k = parser
  BY DEF StopInv, StopType, BlockInv
<1>7. Accounts(r, P, k.mode, k.buf)
  BY <1>6 DEF RoundOK
<1>8. PICK Q \in Seq(Item) : Q = P \o p
  <2>1. P \o p \in Seq(Item)
    BY Joint
  <2>. QED  BY <2>1
<1>9. /\ ~end => Accounts(r \o text, Q, q.mode, q.buf)
      /\ end => AccountsAll(r \o text, Q)
  BY <1>1, <1>2, <1>6, <1>7, <1>8, AccountsMore
<1>10. malformed' = Only(Q, {"malformed"})
  <2>1. OnlyJoins(P, p, {"malformed"})
    BY ThingTypes, OnlyConcat
  <2>. QED  BY <1>4, <1>8, <2>1, Zenon DEF OnlyJoins, RoundOK
<1>11. emitter'.calls = Len(Only(Q, {"call"}))
  <2>1. a \in Emitter
    <3>1. Emitted(e, p) \in Emitter
      <4>1. PICK z \in Item : TRUE
        BY ItemTypes
      <4>. QED  BY EmittedStep
    <3>. QED  BY <1>3, <1>5, <3>1
  <2>2. emitter'.calls = a.calls
    BY <1>4, <2>1 DEF Emitter
  <2>3. a.calls = e.calls + Len(Only(p, {"call"}))
    BY <1>3, <1>5, EmittedCalls
  <2>4. OnlyJoins(P, p, {"call"}) /\ Only(P, {"call"}) \in Seq(Thing) /\ Only(p, {"call"}) \in Seq(Thing)
    BY ThingTypes, OnlyConcat
  <2>5. Only(Q, {"call"}) = Only(P, {"call"}) \o Only(p, {"call"})
    BY <1>8, <2>4, Zenon DEF OnlyJoins
  <2>6. Len(Only(Q, {"call"})) = Len(Only(P, {"call"})) + Len(Only(p, {"call"}))
    BY <2>4, <2>5, Joint
  <2>7. e.calls = Len(Only(P, {"call"}))
    BY <1>5 DEF RoundOK
  <2>. QED  BY <2>2, <2>3, <2>6, <2>7, Zenon
<1>12. /\ raw' = r \o text /\ parser'.mode = q.mode /\ parser'.buf = q.buf
  BY <1>4, <1>6
<1>13. IF Settled' THEN AccountsAll(raw', Q) ELSE Accounts(raw', Q, parser'.mode, parser'.buf)
  BY <1>9, <1>12, Zenon
<1>14. RoundOK(Q)'
  BY <1>10, <1>11, <1>13, Zenon DEF RoundOK
<1>. QED  BY <1>1, <1>2, <1>8, <1>14

\* What goes out at the end in place of malformed calls.
FallbackOf(q, n) == IF n = 0 THEN [i \in 1 .. Len(q) |-> Text(Fallback(q[i].body))] ELSE <<>>

\* It is text, and has no call.
LEMMA FallbackIs ==
  ASSUME NEW q \in Seq(Item), NEW n
  PROVE  /\ FallbackOf(q, n) \in Seq(Item) /\ \A i \in 1 .. Len(FallbackOf(q, n)) : FallbackOf(q, n)[i].kind = "text"
         /\ Only(FallbackOf(q, n), {"call"}) = <<>>
<1>. DEFINE f == [i \in 1 .. Len(q) |-> Text(Fallback(q[i].body))]
<1>1. f \in Seq(Item) /\ \A i \in 1 .. Len(f) : f[i].kind = "text"
  <2>1. Len(q) \in Nat /\ \A i \in 1 .. Len(q) : q[i] \in Item
    OBVIOUS
  <2>2. \A e \in Item : Text(Fallback(e.body)) \in Item /\ Text(Fallback(e.body)).kind = "text"
    BY ItemTypes, FallbackType DEF Item
  <2>. QED  BY <2>1, <2>2
<1>2. PICK g \in Seq(Item) : g = FallbackOf(q, n) /\ \A i \in 1 .. Len(g) : g[i].kind = "text"
  <2>1. FallbackOf(q, n) = IF n = 0 THEN f ELSE <<>>
    BY DEF FallbackOf
  <2>2. CASE n = 0
    BY <1>1, <2>1, <2>2
  <2>3. CASE n # 0
    <3>1. FallbackOf(q, n) = <<>>
      BY <2>1, <2>3
    <3>2. PICK g \in Seq(Item) : g = <<>>
      BY EmptySeq
    <3>3. \A i \in 1 .. Len(g) : FALSE
      BY <3>2
    <3>. QED  BY <3>1, <3>2, <3>3
  <2>. QED  BY <2>2, <2>3
<1>3. Only(g, {"call"}) = <<>>
  <2>1. g \in Seq(Thing) /\ \A i \in 1 .. Len(g) : g[i].kind \notin {"call"}
    BY <1>2, ThingTypes
  <2>. QED  BY <2>1, OnlyNone
<1>. QED  BY <1>2, <1>3

\* What the end of a message does.
LEMMA EndIs ==
  ASSUME BlockInv, End
  PROVE  \E l \in Seq(Item), a \in Emitter, c \in Emitter :
           /\ phase = "decide" /\ phase' = "ended"
           /\ l = FallbackOf(malformed, emitter.calls) /\ a = Emitted(emitter, l) /\ c = CloseText(a)
           /\ emitter' = [c EXCEPT !.sent = <<>>] /\ events' = events \o c.sent
           /\ emitter'.calls = emitter.calls
           /\ UNCHANGED <<parser, malformed, raw, rounds>>
<1>1. PICK e \in Emitter : e = emitter
  BY DEF BlockInv, Blocks
<1>2. PICK l \in Seq(Item) : l = FallbackOf(malformed, e.calls) /\ Only(l, {"call"}) = <<>>
  BY FallbackIs DEF BlockInv
<1>3. PICK a \in Emitter : a = Emitted(e, l)
  <2>1. PICK z \in Item : TRUE
    BY ItemTypes, NothingTxt
  <2>. QED  BY EmittedStep
<1>4. PICK c \in Emitter : c = CloseText(a) /\ CloseTo(a, c)
  BY CloseTextIs
<1>5. /\ phase = "decide" /\ phase' = "ended" /\ emitter' = [c EXCEPT !.sent = <<>>] /\ events' = events \o c.sent
      /\ UNCHANGED <<parser, malformed, raw, rounds>>
  BY <1>1, <1>2, <1>3, <1>4, Zenon DEF End, FallbackOf
<1>6. emitter'.calls = emitter.calls
  <2>1. emitter'.calls = c.calls
    BY <1>5 DEF Emitter
  <2>2. c.calls = a.calls
    BY <1>4, Zenon DEF CloseTo
  <2>3. a.calls = e.calls + Len(Only(l, {"call"}))
    BY <1>3, EmittedCalls
  <2>4. Len(Only(l, {"call"})) = 0 /\ e.calls \in Nat
    BY <1>2 DEF Emitter
  <2>. QED  BY <1>1, <2>1, <2>2, <2>3, <2>4
<1>. QED  BY <1>1, <1>2, <1>3, <1>4, <1>5, <1>6, Zenon

\* What a round had of some kind of call, its items had.
LEMMA CallsOf ==
  ASSUME NEW r \in Txt, NEW P \in Seq(Item), AccountsAll(r, P), NEW K, "text" \notin K
  PROVE  Only(Items(r), K) = Only(P, K)
<1>1. Items(r) \in Seq(Thing) /\ P \in Seq(Thing)
  BY ItemsUnroll, ThingTypes
<1>2. Only(Letters(Items(r)), K) = Only(Items(r), K) /\ Only(Letters(P), K) = Only(P, K)
  BY <1>1, OnlyLetters
<1>. QED  BY <1>2, Zenon DEF AccountsAll

\* At the start nothing was handed on.
LEMMA FreshRound == Only(<<>>, {"malformed"}) = <<>> /\ Only(<<>>, {"call"}) = <<>> /\ <<>> \in Seq(Item)
<1>1. PICK e \in Thing : TRUE
  BY ThingTypes, ItemTypes, NothingTxt
<1>2. Only(<<>>, {"malformed"}) = <<>> /\ Only(<<>>, {"call"}) = <<>>
  BY <1>1, ThingAlone
<1>. QED  BY <1>2, EmptySeq

\* It holds at the start.
LEMMA RoundInit ==
  ASSUME Init
  PROVE  RoundInv
<1>1. /\ phase = "reading" /\ parser = NewParser /\ malformed = <<>> /\ emitter = NewEmitter /\ raw = <<>> /\ rounds = <<>>
  BY DEF Init
<1>2. Accounts(raw, <<>>, parser.mode, parser.buf)
  BY <1>1, AccountsStart DEF NewParser
<1>3. emitter.calls = Len(<<>>)
  BY <1>1 DEF NewEmitter
<1>4. RoundOK(<<>>)
  BY <1>1, <1>2, <1>3, FreshRound DEF RoundOK, Settled
<1>5. NoCallsYet
  BY <1>1 DEF NoCallsYet
<1>. QED  BY <1>4, <1>5, FreshRound DEF RoundInv

\* A retry starts a round, after one without calls.
LEMMA RetryRound ==
  ASSUME StopInv, BlockInv, NoCallsYet, NEW P \in Seq(Item), RoundOK(P), Retry
  PROVE  NoCallsYet' /\ RoundOK(<<>>)'
<1>1. /\ phase = "decide" /\ malformed # <<>> /\ emitter.calls = 0
      /\ rounds' = Append(rounds, [ids |-> ids, raw |-> raw])
      /\ phase' = "reading" /\ parser' = NewParser /\ malformed' = <<>> /\ raw' = <<>> /\ emitter' = emitter
  BY DEF Retry, Retryable
<1>2. PICK r \in Txt, k \in Seq(Pieces) : r = raw /\ k = ids
  BY DEF StopInv, StopType
<1>3. AccountsAll(r, P) /\ Len(Only(P, {"call"})) = 0
  BY <1>1, <1>2 DEF RoundOK, Settled
<1>4. Only(Items(r), {"call"}) = <<>>
  <2>1. Only(P, {"call"}) \in Seq(Thing)
    BY EachKept, ThingTypes
  <2>2. Only(P, {"call"}) = <<>>
    BY <1>3, <2>1
  <2>. QED  BY <1>3, <2>2, CallsOf
<1>5. NoCallsYet'
  <2>1. PICK e \in Round : e = [ids |-> k, raw |-> r] /\ e.raw = r
    <3>1. [ids |-> k, raw |-> r] \in Round
      BY DEF Round
    <3>. QED  BY <3>1
  <2>2. PICK R \in Seq(Round) : R = rounds
    BY DEF NoCallsYet
  <2>3. PICK W \in Seq(Round) : /\ W = Append(R, e) /\ Len(W) = Len(R) + 1 /\ W[Len(R) + 1] = e
                                /\ \A i \in 1 .. Len(R) : W[i] = R[i]
    <3>1. PICK W \in Seq(Round) : W = Append(R, e)
      BY AppendProperties
    <3>2. Len(W) = Len(R) + 1 /\ W[Len(R) + 1] = e /\ \A i \in 1 .. Len(R) : W[i] = R[i]
      BY <3>1, AppendProperties
    <3>. QED  BY <3>1, <3>2
  <2>4. DOMAIN W = 1 .. Len(R) + 1 /\ DOMAIN R = 1 .. Len(R) /\ Len(R) \in Nat
    BY <2>3
  <2>5. \A i \in DOMAIN R : Only(Items(R[i].raw), {"call"}) = <<>>
    BY <2>2 DEF NoCallsYet
  <2>6. \A i \in DOMAIN W : Only(Items(W[i].raw), {"call"}) = <<>>
    <3>. TAKE i \in DOMAIN W
    <3>1. CASE i = Len(R) + 1
      BY <1>4, <2>1, <2>3, <3>1
    <3>2. CASE i # Len(R) + 1
      <4>1. i \in 1 .. Len(R)
        BY <2>4, <3>2
      <4>. QED  BY <2>3, <2>4, <2>5, <4>1
    <3>. QED  BY <3>1, <3>2
  <2>7. rounds' = W
    BY <1>1, <1>2, <2>1, <2>2, <2>3
  <2>. QED  BY <2>6, <2>7, Zenon DEF NoCallsYet
<1>6. Accounts(raw', <<>>, parser'.mode, parser'.buf)
  BY <1>1, AccountsStart DEF NewParser
<1>7. emitter'.calls = Len(<<>>)
  BY <1>1
<1>8. RoundOK(<<>>)'
  BY <1>1, <1>6, <1>7, FreshRound DEF RoundOK, Settled
<1>. QED  BY <1>5, <1>8

\* The steps of a round: what is handed on is accounted for, or nothing is; a retry
\* starts with nothing.
Stays(P) == RoundOK(P)' /\ UNCHANGED <<rounds, events, emitter>> /\ (phase' = "ended" => phase = "ended")
Hands(P) == \E text \in Txt, end \in BOOLEAN, p \in Seq(Item) :
  /\ Deliver(text, end) /\ p = ParsedOf(ParserPush(parser, text), end)
  /\ P \o p \in Seq(Item) /\ RoundOK(P \o p)' /\ rounds' = rounds /\ phase' # "ended"
Retries == Retry /\ NoCallsYet' /\ RoundOK(<<>>)' /\ phase' # "ended"
Ends(P) == End /\ RoundOK(P)' /\ rounds' = rounds

\* Every step is one of these.
LEMMA RoundSteps ==
  ASSUME StopInv, BlockInv, NoCallsYet, NEW P \in Seq(Item), RoundOK(P), [Next]_vars
  PROVE  Stays(P) \/ Hands(P) \/ Retries \/ Ends(P)
<1>1. CASE Receive
  <2>1. PICK new \in Seq(Pieces), d \in Detector :
           /\ phase = "reading" /\ d.ready \in Txt /\ UNCHANGED rounds
           /\ \/ phase' = "tail" /\ UNCHANGED <<raw, parser, malformed, emitter, events>>
              \/ Deliver(d.ready, FALSE) /\ UNCHANGED <<finish, phase>>
    BY <1>1, ReceiveIs
  <2>2. CASE phase' = "tail" /\ UNCHANGED <<raw, parser, malformed, emitter, events>>
    <3>1. RoundOK(P)'
      BY <2>1, <2>2 DEF RoundOK, Settled
    <3>. QED  BY <2>1, <2>2, <3>1 DEF Stays
  <2>3. CASE Deliver(d.ready, FALSE) /\ phase' = "reading"
    <3>1. PICK text \in Txt, end \in BOOLEAN : text = d.ready /\ end = FALSE
      BY <2>1
    <3>2. Deliver(text, end) /\ ~Settled /\ (Settled' <=> end)
      BY <2>1, <2>3, <3>1 DEF Settled
    <3>3. PICK p \in Seq(Item) : /\ P \o p \in Seq(Item) /\ RoundOK(P \o p)'
                                 /\ p = ParsedOf(ParserPush(parser, text), end)
      BY <3>2, DeliverAccounts
    <3>4. rounds' = rounds /\ phase' # "ended"
      BY <2>1, <2>3
    <3>. QED  BY <3>2, <3>3, <3>4, Zenon DEF Hands
  <2>. QED  BY <2>1, <2>2, <2>3
<1>2. CASE ReceiveDone \/ ReceiveError
  <2>1. /\ phase = "reading" /\ phase' \in {"tail", "failed"}
        /\ UNCHANGED <<parser, malformed, emitter, events, raw, rounds>>
    BY <1>2 DEF ReceiveDone, ReceiveError
  <2>2. RoundOK(P)'
    BY <2>1 DEF RoundOK, Settled
  <2>. QED  BY <2>1, <2>2 DEF Stays
<1>3. CASE ParseRest
  <2>1. phase = "tail" /\ Deliver(Finished(det), TRUE) /\ phase' = "decide" /\ UNCHANGED rounds
    BY <1>3 DEF ParseRest
  <2>2. PICK text \in Txt, end \in BOOLEAN : text = Finished(det) /\ end = TRUE
    BY <2>1, RestCut DEF StopInv, StopType
  <2>3. Deliver(text, end) /\ ~Settled /\ (Settled' <=> end)
    BY <2>1, <2>2 DEF Settled
  <2>4. PICK p \in Seq(Item) : /\ P \o p \in Seq(Item) /\ RoundOK(P \o p)'
                               /\ p = ParsedOf(ParserPush(parser, text), end)
    BY <2>3, DeliverAccounts
  <2>5. rounds' = rounds /\ phase' # "ended"
    BY <2>1
  <2>. QED  BY <2>3, <2>4, <2>5, Zenon DEF Hands
<1>4. CASE Retry
  <2>1. NoCallsYet' /\ RoundOK(<<>>)'
    BY <1>4, RetryRound
  <2>2. phase' # "ended"
    BY <1>4 DEF Retry
  <2>. QED  BY <1>4, <2>1, <2>2 DEF Retries
<1>5. CASE End
  <2>1. /\ phase = "decide" /\ phase' = "ended" /\ emitter'.calls = emitter.calls
        /\ UNCHANGED <<parser, malformed, raw, rounds>>
    BY <1>5, EndIs
  <2>2. RoundOK(P)'
    BY <2>1 DEF RoundOK, Settled
  <2>. QED  BY <1>5, <2>1, <2>2 DEF Ends
<1>6. CASE UNCHANGED vars
  <2>1. UNCHANGED <<phase, parser, malformed, emitter, events, raw, rounds>>
    BY <1>6 DEF vars
  <2>2. RoundOK(P)'
    BY <2>1 DEF RoundOK, Settled
  <2>. QED  BY <2>1, <2>2 DEF Stays
<1>. QED  BY <1>1, <1>2, <1>3, <1>4, <1>5, <1>6 DEF Next

\* It is kept by every step.
LEMMA RoundNext ==
  ASSUME StopInv, BlockInv, RoundInv, [Next]_vars
  PROVE  RoundInv'
<1>0. PICK P \in Seq(Item) : NoCallsYet /\ RoundOK(P)
  BY DEF RoundInv
<1>1. rounds' = rounds => NoCallsYet'
  BY <1>0 DEF NoCallsYet
<1>2. CASE Stays(P)
  BY <1>1, <1>2 DEF Stays, RoundInv
<1>3. CASE Hands(P)
  BY <1>1, <1>3, Zenon DEF Hands, RoundInv
<1>4. CASE Retries
  BY <1>4, FreshRound DEF Retries, RoundInv
<1>5. CASE Ends(P)
  BY <1>1, <1>5 DEF Ends, RoundInv
<1>. QED  BY <1>0, <1>2, <1>3, <1>4, <1>5, RoundSteps

\* A message that used a tool is never prompted again: the rounds that were
\* retried have no call in them, however their text came.  The retry is decided on
\* what the emitter has counted; that this is what the text as a whole holds is
\* the work of the parser.
THEOREM CallsAreLast == Spec => []CallsEndTheTurn
<1>1. RoundInv => CallsEndTheTurn
  BY DEF RoundInv, NoCallsYet, CallsEndTheTurn
<1>. QED  BY <1>1, StopInit, StopNext, BlockInit, BlockNext, RoundInit, RoundNext, PTL DEF Spec

-------------------------------------------------------------------------------
(* ContentExact: what is shown of blank texts.                                *)

Joined(t, i, j) == \A k \in (i .. j) \cup (j .. i) : t[k].kind = "text"
Seen(t, i) == t[i].kind # "text" \/ \E j \in 1 .. Len(t) : Joined(t, i, j) /\ t[j].body # <<Blank>>
AllText(q) == \A i \in 1 .. Len(q) : q[i].kind = "text"
AllBlank(q) == \A i \in 1 .. Len(q) : q[i].body = <<Blank>>

\* Shown leaves out what is not seen.
LEMMA ShownIs ==
  ASSUME NEW t
  PROVE  Shown(t) = FlattenSeq([i \in 1 .. Len(t) |-> IF Seen(t, i) THEN <<t[i]>> ELSE <<>>])
BY DEF Shown, Seen, Joined

\* All of a sequence, or nothing of it.
LEMMA AllOrNone ==
  ASSUME NEW q \in Seq(Thing)
  PROVE  /\ FlattenSeq([i \in 1 .. Len(q) |-> <<q[i]>>]) = q
         /\ FlattenSeq([i \in 1 .. Len(q) |-> <<>>]) = <<>>
<1>. DEFINE K == {"text", "call", "malformed", "any"}
<1>1. \A i \in 1 .. Len(q) : q[i].kind \in K
  <2>1. \A i \in 1 .. Len(q) : q[i] \in Thing
    OBVIOUS
  <2>2. \A e \in Thing : e.kind \in K
    BY DEF Thing
  <2>. QED  BY <2>1, <2>2
<1>2. Only(q, K) = q /\ Only(q, {}) = <<>>
  <2>. HIDE DEF K
  <2>1. Only(q, K) = q
    BY <1>1, OnlyAll
  <2>2. Only(q, {}) = <<>>
    BY OnlyNone
  <2>. QED  BY <2>1, <2>2
<1>3. [i \in 1 .. Len(q) |-> IF q[i].kind \in K THEN <<q[i]>> ELSE <<>>] = [i \in 1 .. Len(q) |-> <<q[i]>>]
  <2>. HIDE DEF K
  <2>. QED  BY <1>1
<1>4. [i \in 1 .. Len(q) |-> IF q[i].kind \in {} THEN <<q[i]>> ELSE <<>>] = [i \in 1 .. Len(q) |-> <<>>]
  OBVIOUS
<1>. QED  BY <1>2, <1>3, <1>4, Zenon DEF Only

\* What is shown of p followed by q, when q does not change what is seen of p and is
\* seen as a whole or not at all.
ShownAs(t, p, r) == Shown(t) = Shown(p) \o r

\* It is shown with p, or not at all.
LEMMA ShownJoin ==
  ASSUME NEW p \in Seq(Thing), NEW q \in Seq(Thing), NEW t, t = p \o q,
         \A i \in 1 .. Len(p) : Seen(t, i) <=> Seen(p, i)
  PROVE  /\ (\A i \in 1 .. Len(q) : Seen(t, Len(p) + i)) => ShownAs(t, p, q)
         /\ (\A i \in 1 .. Len(q) : ~Seen(t, Len(p) + i)) => Shown(t) = Shown(p)
<1>1. /\ t \in Seq(Thing) /\ Len(p) \in Nat /\ Len(q) \in Nat /\ Len(t) = Len(p) + Len(q)
      /\ \A i \in 1 .. Len(p) : t[i] = p[i]
      /\ \A i \in 1 .. Len(q) : t[Len(p) + i] = q[i]
  BY Joint
<1>. DEFINE mark(x) == [i \in 1 .. Len(x) |-> IF Seen(x, i) THEN <<x[i]>> ELSE <<>>]
<1>2. \A x \in Seq(Thing) : mark(x) \in Seq(Seq(Thing)) /\ Len(mark(x)) = Len(x)
  <2>. TAKE x \in Seq(Thing)
  <2>1. Len(x) \in Nat /\ \A i \in 1 .. Len(x) : <<x[i]>> \in Seq(Thing) /\ <<>> \in Seq(Thing)
    OBVIOUS
  <2>. QED  BY <2>1
<1>3. \A i \in 1 .. Len(t) : mark(t)[i] = IF Seen(t, i) THEN <<t[i]>> ELSE <<>>
  OBVIOUS
<1>4. \A i \in 1 .. Len(p) : mark(p)[i] = IF Seen(p, i) THEN <<p[i]>> ELSE <<>>
  OBVIOUS
<1>5. Shown(t) = FlattenSeq(mark(t)) /\ Shown(p) = FlattenSeq(mark(p))
  BY ShownIs
<1>6. PICK a \in Seq(Seq(Thing)) : /\ a = mark(t) /\ Len(a) = Len(t)
                                   /\ \A i \in 1 .. Len(t) : a[i] = IF Seen(t, i) THEN <<t[i]>> ELSE <<>>
  BY <1>1, <1>2, <1>3
<1>7. PICK b \in Seq(Seq(Thing)) : /\ b = mark(p) /\ Len(b) = Len(p)
                                   /\ \A i \in 1 .. Len(p) : b[i] = IF Seen(p, i) THEN <<p[i]>> ELSE <<>>
  BY <1>2, <1>4
<1>. HIDE DEF mark
<1>8. ASSUME NEW c \in Seq(Seq(Thing)), Len(c) = Len(q),
             \A i \in 1 .. Len(q) : c[i] = IF Seen(t, Len(p) + i) THEN <<q[i]>> ELSE <<>>
      PROVE  Shown(t) = Shown(p) \o FlattenSeq(c)
  <2>1. PICK d \in Seq(Seq(Thing)) : d = b \o c
    <3>1. b \o c \in Seq(Seq(Thing))
      BY Joint
    <3>. QED  BY <3>1
  <2>2. /\ Len(d) = Len(b) + Len(c) /\ \A i \in 1 .. Len(b) : d[i] = b[i]
        /\ \A i \in 1 .. Len(c) : d[Len(b) + i] = c[i]
    BY <2>1, Joint
  <2>3. \A i \in 1 .. Len(t) : a[i] = d[i]
    <3>. TAKE i \in 1 .. Len(t)
    <3>1. CASE i \in 1 .. Len(p)
      <4>1. a[i] = b[i]
        BY <1>1, <1>6, <1>7, <3>1
      <4>2. d[i] = b[i]
        BY <1>7, <2>2, <3>1
      <4>. QED  BY <4>1, <4>2
    <3>2. CASE i \notin 1 .. Len(p)
      <4>1. PICK j \in 1 .. Len(q) : Len(p) + j = i
        <5>1. i - Len(p) \in 1 .. Len(q) /\ Len(p) + (i - Len(p)) = i
          BY <1>1, <3>2
        <5>. QED  BY <5>1
      <4>2. a[i] = IF Seen(t, i) THEN <<t[i]>> ELSE <<>>
        BY <1>6
      <4>3. t[i] = q[j] /\ d[i] = c[j]
        BY <1>1, <1>7, <1>8, <2>2, <4>1
      <4>4. c[j] = IF Seen(t, i) THEN <<q[j]>> ELSE <<>>
        BY <1>8, <4>1
      <4>. QED  BY <4>2, <4>3, <4>4
    <3>. QED  BY <3>1, <3>2
  <2>4. a = d
    BY <1>1, <1>6, <1>7, <1>8, <2>2, <2>3, SeqEqual
  <2>5. FlattenSeq(d) = FlattenSeq(b) \o FlattenSeq(c)
    BY <2>1, FlattenConcat
  <2>. QED  BY <1>5, <1>6, <1>7, <2>4, <2>5, Zenon
<1>9. ASSUME \A i \in 1 .. Len(q) : Seen(t, Len(p) + i) PROVE ShownAs(t, p, q)
  <2>1. PICK c \in Seq(Seq(Thing)) : /\ c = [i \in 1 .. Len(q) |-> <<q[i]>>] /\ Len(c) = Len(q)
                                     /\ \A i \in 1 .. Len(q) : c[i] = <<q[i]>>
    <3>1. \A i \in 1 .. Len(q) : <<q[i]>> \in Seq(Thing)
      OBVIOUS
    <3>2. [i \in 1 .. Len(q) |-> <<q[i]>>] \in Seq(Seq(Thing))
      BY <1>1, <3>1
    <3>3. PICK c \in Seq(Seq(Thing)) : c = [i \in 1 .. Len(q) |-> <<q[i]>>]
      BY <3>2
    <3>4. Len(c) = Len(q) /\ \A i \in 1 .. Len(q) : c[i] = <<q[i]>>
      BY <1>1, <3>3
    <3>. QED  BY <3>3, <3>4
  <2>2. \A i \in 1 .. Len(q) : c[i] = IF Seen(t, Len(p) + i) THEN <<q[i]>> ELSE <<>>
    BY <1>9, <2>1
  <2>3. FlattenSeq(c) = q
    BY <2>1, AllOrNone
  <2>4. Shown(t) = Shown(p) \o FlattenSeq(c)
    BY <1>8, <2>1, <2>2
  <2>. QED  BY <2>3, <2>4, Zenon DEF ShownAs
<1>10. ASSUME \A i \in 1 .. Len(q) : ~Seen(t, Len(p) + i) PROVE Shown(t) = Shown(p)
  <2>1. PICK c \in Seq(Seq(Thing)) : /\ c = [i \in 1 .. Len(q) |-> <<>>] /\ Len(c) = Len(q)
                                     /\ \A i \in 1 .. Len(q) : c[i] = <<>>
    <3>1. <<>> \in Seq(Thing)
      OBVIOUS
    <3>2. [i \in 1 .. Len(q) |-> <<>>] \in Seq(Seq(Thing))
      BY <1>1, <3>1
    <3>3. PICK c \in Seq(Seq(Thing)) : c = [i \in 1 .. Len(q) |-> <<>>]
      BY <3>2
    <3>4. Len(c) = Len(q) /\ \A i \in 1 .. Len(q) : c[i] = <<>>
      BY <1>1, <3>3
    <3>. QED  BY <3>3, <3>4
  <2>2. \A i \in 1 .. Len(q) : c[i] = IF Seen(t, Len(p) + i) THEN <<q[i]>> ELSE <<>>
    BY <1>10, <2>1
  <2>3. FlattenSeq(c) = <<>>
    BY <2>1, AllOrNone
  <2>4. Shown(t) = Shown(p) \o FlattenSeq(c)
    BY <1>8, <2>1, <2>2
  <2>5. PICK s \in Seq(Thing) : s = Shown(p)
    BY <1>5, <1>7, FlattenType
  <2>6. s \o <<>> = s
    BY ConcatEmptySeq
  <2>. QED  BY <2>3, <2>4, <2>5, <2>6, Zenon
<1>. QED  BY <1>9, <1>10

\* It is things again.
LEMMA ShownType ==
  ASSUME NEW t \in Seq(Thing)
  PROVE  Shown(t) \in Seq(Thing)
<1>1. Len(t) \in Nat /\ \A i \in 1 .. Len(t) : <<t[i]>> \in Seq(Thing) /\ <<>> \in Seq(Thing)
  OBVIOUS
<1>2. [i \in 1 .. Len(t) |-> IF Seen(t, i) THEN <<t[i]>> ELSE <<>>] \in Seq(Seq(Thing))
  BY <1>1
<1>. QED  BY <1>2, ShownIs, FlattenType

\* Texts with something else between them are seen for themselves.
Apart(p, q) == \/ p = <<>> \/ p[Len(p)].kind # "text"
               \/ q # <<>> /\ q[1].kind # "text"

\* What is seen of each part is what is seen of it alone.
LEMMA SeenApart ==
  ASSUME NEW p \in Seq(Thing), NEW q \in Seq(Thing), NEW t, t = p \o q, Apart(p, q)
  PROVE  /\ \A i \in 1 .. Len(p) : Seen(t, i) <=> Seen(p, i)
         /\ \A i \in 1 .. Len(q) : Seen(t, Len(p) + i) <=> Seen(q, i)
<1>1. /\ t \in Seq(Thing) /\ Len(p) \in Nat /\ Len(q) \in Nat /\ Len(t) = Len(p) + Len(q)
      /\ \A i \in 1 .. Len(p) : t[i] = p[i]
      /\ \A i \in 1 .. Len(q) : t[Len(p) + i] = q[i]
  BY Joint
<1>2. PICK m \in Nat, n \in Nat : m = Len(p) /\ n = Len(q)
  BY <1>1
<1>3. /\ Len(t) = m + n /\ \A i \in 1 .. m : t[i] = p[i]
      /\ \A i \in 1 .. n : t[m + i] = q[i]
  BY <1>1, <1>2
<1>4. \A i \in 1 .. m, j \in 1 .. n : ~Joined(t, i, m + j) /\ ~Joined(t, m + j, i)
  <2>. TAKE i \in 1 .. m, j \in 1 .. n
  <2>1. /\ m \in i .. (m + j) /\ m + 1 \in i .. (m + j) /\ m \in 1 .. m /\ 1 \in 1 .. n
        /\ p # <<>> /\ q # <<>>
    BY <1>2
  <2>2. t[m] = p[m] /\ t[m + 1] = q[1]
    BY <1>3, <2>1
  <2>3. p[m].kind # "text" \/ q[1].kind # "text"
    BY <1>2, <2>1, Zenon DEF Apart
  <2>. QED  BY <2>1, <2>2, <2>3, Zenon DEF Joined
<1>5. \A i, j \in 1 .. m : Joined(t, i, j) <=> Joined(p, i, j)
  <2>. TAKE i, j \in 1 .. m
  <2>1. \A k \in (i .. j) \cup (j .. i) : k \in 1 .. m
    OBVIOUS
  <2>. QED  BY <1>3, <2>1, Zenon DEF Joined
<1>6. \A i, j \in 1 .. n : Joined(t, m + i, m + j) <=> Joined(q, i, j)
  <2>. TAKE i, j \in 1 .. n
  <2>1. \A k \in (i .. j) \cup (j .. i) : k \in 1 .. n /\ m + k \in ((m + i) .. (m + j)) \cup ((m + j) .. (m + i))
    OBVIOUS
  <2>2. \A l \in ((m + i) .. (m + j)) \cup ((m + j) .. (m + i)) :
          \E k \in (i .. j) \cup (j .. i) : l = m + k /\ k \in 1 .. n
    <3>. TAKE l \in ((m + i) .. (m + j)) \cup ((m + j) .. (m + i))
    <3>1. l - m \in (i .. j) \cup (j .. i) /\ l = m + (l - m) /\ l - m \in 1 .. n
      OBVIOUS
    <3>. QED  BY <3>1
  <2>3. ASSUME Joined(q, i, j), NEW l \in ((m + i) .. (m + j)) \cup ((m + j) .. (m + i)) PROVE t[l].kind = "text"
    <3>1. PICK k \in (i .. j) \cup (j .. i) : l = m + k /\ k \in 1 .. n
      BY <2>2
    <3>2. q[k].kind = "text"
      BY <2>3, <3>1, Zenon DEF Joined
    <3>. QED  BY <1>3, <3>1, <3>2, Zenon
  <2>4. ASSUME Joined(t, m + i, m + j), NEW k \in (i .. j) \cup (j .. i) PROVE q[k].kind = "text"
    <3>1. t[m + k].kind = "text"
      BY <2>1, <2>4, Zenon DEF Joined
    <3>. QED  BY <1>3, <2>1, <3>1, Zenon
  <2>. QED  BY <2>3, <2>4, Zenon DEF Joined
<1>7. \A i \in 1 .. m : Seen(t, i) <=> Seen(p, i)
  <2>. TAKE i \in 1 .. m
  <2>1. \A j \in 1 .. Len(t) : j \in 1 .. m \/ \E k \in 1 .. n : j = m + k
    <3>. TAKE j \in 1 .. Len(t)
    <3>1. j \notin 1 .. m => j - m \in 1 .. n /\ j = m + (j - m)
      BY <1>3
    <3>. QED  BY <3>1
  <2>2. \A j \in 1 .. m : j \in 1 .. Len(t)
    BY <1>3
  <2>3. ASSUME NEW j \in 1 .. Len(t), Joined(t, i, j) PROVE j \in 1 .. m /\ Joined(p, i, j) /\ t[j] = p[j]
    <3>1. j \in 1 .. m
      BY <1>4, <2>1, <2>3
    <3>. QED  BY <1>3, <1>5, <2>3, <3>1
  <2>4. \A j \in 1 .. m : Joined(p, i, j) => j \in 1 .. Len(t) /\ Joined(t, i, j) /\ t[j] = p[j]
    BY <1>3, <1>5, <2>2, Zenon
  <2>5. t[i] = p[i] /\ m = Len(p)
    BY <1>2, <1>3
  <2>. QED  BY <2>3, <2>4, <2>5, Zenon DEF Seen
<1>8. \A i \in 1 .. n : Seen(t, m + i) <=> Seen(q, i)
  <2>. TAKE i \in 1 .. n
  <2>1. \A j \in 1 .. Len(t) : j \in 1 .. m \/ \E k \in 1 .. n : j = m + k
    <3>. TAKE j \in 1 .. Len(t)
    <3>1. j \notin 1 .. m => j - m \in 1 .. n /\ j = m + (j - m)
      BY <1>3
    <3>. QED  BY <3>1
  <2>2. \A j \in 1 .. n : m + j \in 1 .. Len(t)
    BY <1>3
  <2>3. ASSUME NEW j \in 1 .. Len(t), Joined(t, m + i, j)
        PROVE  \E k \in 1 .. n : Joined(q, i, k) /\ t[j] = q[k]
    <3>1. PICK k \in 1 .. n : j = m + k
      BY <1>4, <2>1, <2>3
    <3>2. Joined(q, i, k)
      BY <1>6, <2>3, <3>1
    <3>. QED  BY <1>3, <3>1, <3>2
  <2>4. \A k \in 1 .. n : Joined(q, i, k) => m + k \in 1 .. Len(t) /\ Joined(t, m + i, m + k) /\ t[m + k] = q[k]
    BY <1>3, <1>6, <2>2, Zenon
  <2>5. t[m + i] = q[i] /\ n = Len(q)
    BY <1>2, <1>3
  <2>6. ASSUME Seen(t, m + i) PROVE Seen(q, i)
    <3>1. CASE t[m + i].kind # "text"
      BY <2>5, <3>1, Zenon DEF Seen
    <3>2. CASE t[m + i].kind = "text"
      <4>1. PICK j \in 1 .. Len(t) : Joined(t, m + i, j) /\ t[j].body # <<Blank>>
        BY <2>6, <3>2, Zenon DEF Seen
      <4>2. PICK k \in 1 .. n : Joined(q, i, k) /\ t[j] = q[k]
        BY <2>3, <4>1
      <4>. QED  BY <2>5, <4>1, <4>2, Zenon DEF Seen
    <3>. QED  BY <3>1, <3>2
  <2>7. ASSUME Seen(q, i) PROVE Seen(t, m + i)
    <3>1. CASE q[i].kind # "text"
      BY <2>5, <3>1, Zenon DEF Seen
    <3>2. CASE q[i].kind = "text"
      <4>1. PICK k \in 1 .. n : Joined(q, i, k) /\ q[k].body # <<Blank>>
        BY <2>5, <2>7, <3>2, Zenon DEF Seen
      <4>. QED  BY <2>4, <4>1, Zenon DEF Seen
    <3>. QED  BY <3>1, <3>2
  <2>. QED  BY <2>6, <2>7
<1>. QED  BY <1>2, <1>7, <1>8

\* Something of the text at the end is not blank.
Alive(p) == \E j \in 1 .. Len(p) : (\A k \in j .. Len(p) : p[k].kind = "text") /\ p[j].body # <<Blank>>

\* Text after it is seen.
LEMMA SeenAlive ==
  ASSUME NEW p \in Seq(Thing), NEW q \in Seq(Thing), NEW t, t = p \o q, Alive(p), AllText(q)
  PROVE  /\ \A i \in 1 .. Len(p) : Seen(t, i) <=> Seen(p, i)
         /\ \A i \in 1 .. Len(q) : Seen(t, Len(p) + i)
         /\ Alive(t)
<1>1. /\ t \in Seq(Thing) /\ Len(p) \in Nat /\ Len(q) \in Nat /\ Len(t) = Len(p) + Len(q)
      /\ \A i \in 1 .. Len(p) : t[i] = p[i]
      /\ \A i \in 1 .. Len(q) : t[Len(p) + i] = q[i]
  BY Joint
<1>2. PICK m \in Nat, n \in Nat : m = Len(p) /\ n = Len(q)
  BY <1>1
<1>3. /\ Len(t) = m + n /\ \A i \in 1 .. m : t[i] = p[i]
      /\ \A i \in 1 .. n : t[m + i] = q[i]
  BY <1>1, <1>2
<1>4. PICK a \in 1 .. m : (\A k \in a .. m : p[k].kind = "text") /\ p[a].body # <<Blank>>
  BY <1>2 DEF Alive
<1>5. \A k \in a .. (m + n) : t[k].kind = "text"
  <2>. TAKE k \in a .. (m + n)
  <2>1. CASE k \in 1 .. m
    <3>1. k \in a .. m
      BY <2>1
    <3>. QED  BY <1>3, <1>4, <2>1, <3>1
  <2>2. CASE k \notin 1 .. m
    <3>1. k - m \in 1 .. n /\ k = m + (k - m)
      BY <2>2
    <3>2. PICK l \in 1 .. n : k = m + l
      BY <3>1
    <3>. QED  BY <1>2, <1>3, <3>2 DEF AllText
  <2>. QED  BY <2>1, <2>2
<1>6. t[a].body # <<Blank>> /\ a \in 1 .. Len(t)
  BY <1>3, <1>4
<1>7. Alive(t)
  BY <1>3, <1>5, <1>6 DEF Alive
<1>8. \A i \in 1 .. n : Seen(t, m + i)
  <2>. TAKE i \in 1 .. n
  <2>1. \A k \in ((m + i) .. a) \cup (a .. (m + i)) : k \in a .. (m + n)
    OBVIOUS
  <2>2. Joined(t, m + i, a)
    BY <1>5, <2>1, Zenon DEF Joined
  <2>. QED  BY <1>6, <2>2, Zenon DEF Seen
<1>9. \A i, j \in 1 .. m : Joined(t, i, j) <=> Joined(p, i, j)
  <2>. TAKE i, j \in 1 .. m
  <2>1. \A k \in (i .. j) \cup (j .. i) : k \in 1 .. m
    OBVIOUS
  <2>. QED  BY <1>3, <2>1, Zenon DEF Joined
<1>10. ASSUME NEW i \in 1 .. m, NEW j \in 1 .. n, Joined(t, i, m + j) PROVE Joined(t, i, a)
  <2>1. \A k \in (i .. a) \cup (a .. i) : k \in i .. (m + j) \/ k \in a .. (m + n)
    OBVIOUS
  <2>. QED  BY <1>5, <1>10, <2>1, Zenon DEF Joined
<1>11. \A i \in 1 .. m : Seen(t, i) <=> Seen(p, i)
  <2>. TAKE i \in 1 .. m
  <2>1. \A j \in 1 .. Len(t) : j \in 1 .. m \/ \E k \in 1 .. n : j = m + k
    <3>. TAKE j \in 1 .. Len(t)
    <3>1. j \notin 1 .. m => j - m \in 1 .. n /\ j = m + (j - m)
      BY <1>3
    <3>. QED  BY <3>1
  <2>2. \A j \in 1 .. m : j \in 1 .. Len(t)
    BY <1>3
  <2>3. Seen(p, i) => Seen(t, i)
    BY <1>2, <1>3, <1>9, <2>2, Zenon DEF Seen
  <2>4. ASSUME Seen(t, i) PROVE Seen(p, i)
    <3>1. CASE t[i].kind # "text"
      BY <1>3, <3>1, Zenon DEF Seen
    <3>2. ASSUME NEW j \in 1 .. m, Joined(t, i, j), t[j].body # <<Blank>> PROVE Seen(p, i)
      BY <1>2, <1>3, <1>9, <3>2, Zenon DEF Seen
    <3>3. ASSUME NEW j \in 1 .. n, Joined(t, i, m + j) PROVE Seen(p, i)
      BY <1>6, <1>4, <1>10, <3>2, <3>3, Zenon
    <3>. QED  BY <2>1, <2>4, <3>1, <3>2, <3>3, Zenon DEF Seen
  <2>. QED  BY <2>3, <2>4
<1>. QED  BY <1>2, <1>7, <1>8, <1>11

-------------------------------------------------------------------------------
\* The three ways a message goes on: with something that is not text, with text
\* after text that is shown, with text at the start of a block.
LEMMA ShownOther ==
  ASSUME NEW p \in Seq(Thing), NEW e \in Thing, e.kind # "text"
  PROVE  ShownAs(p \o <<e>>, p, <<e>>)
<1>1. PICK q \in Seq(Thing) : q = <<e>> /\ Len(q) = 1 /\ q[1] = e
  <2>1. PICK q \in Seq(Thing) : q = <<e>>
    BY ThingAlone
  <2>2. Len(q) = 1 /\ q[1] = e
    BY <2>1
  <2>. QED  BY <2>1, <2>2
<1>2. PICK t : t = p \o q
  OBVIOUS
<1>3. Apart(p, q) /\ \A i \in 1 .. Len(q) : Seen(q, i)
  BY <1>1 DEF Apart, Seen
<1>4. /\ \A i \in 1 .. Len(p) : Seen(t, i) <=> Seen(p, i)
      /\ \A i \in 1 .. Len(q) : Seen(t, Len(p) + i) <=> Seen(q, i)
  BY <1>2, <1>3, SeenApart
<1>5. ShownAs(t, p, q)
  BY <1>2, <1>3, <1>4, ShownJoin
<1>. QED  BY <1>1, <1>2, <1>5, Zenon

\* With text after text that is shown.
LEMMA ShownText ==
  ASSUME NEW p \in Seq(Thing), NEW q \in Seq(Thing), Alive(p), AllText(q)
  PROVE  ShownAs(p \o q, p, q) /\ Alive(p \o q)
<1>1. PICK t : t = p \o q
  OBVIOUS
<1>2. /\ \A i \in 1 .. Len(p) : Seen(t, i) <=> Seen(p, i)
      /\ \A i \in 1 .. Len(q) : Seen(t, Len(p) + i)
      /\ Alive(t)
  BY <1>1, SeenAlive
<1>3. ShownAs(t, p, q)
  BY <1>1, <1>2, ShownJoin
<1>. QED  BY <1>1, <1>2, <1>3, Zenon

\* With text at the start of a block, which is shown unless all of it is blank.
LEMMA ShownFirst ==
  ASSUME NEW p \in Seq(Thing), NEW q \in Seq(Thing), AllText(q), p = <<>> \/ p[Len(p)].kind # "text"
  PROVE  /\ AllBlank(q) => Shown(p \o q) = Shown(p)
         /\ ~AllBlank(q) => ShownAs(p \o q, p, q) /\ Alive(p \o q)
<1>1. PICK t : t = p \o q
  OBVIOUS
<1>2. Apart(p, q)
  BY DEF Apart
<1>3. /\ \A i \in 1 .. Len(p) : Seen(t, i) <=> Seen(p, i)
      /\ \A i \in 1 .. Len(q) : Seen(t, Len(p) + i) <=> Seen(q, i)
  BY <1>1, <1>2, SeenApart
<1>4. Len(q) \in Nat /\ \A i, j \in 1 .. Len(q) : Joined(q, i, j)
  <2>1. Len(q) \in Nat
    OBVIOUS
  <2>2. \A i, j \in 1 .. Len(q) : \A k \in (i .. j) \cup (j .. i) : k \in 1 .. Len(q)
    BY <2>1
  <2>3. \A i, j \in 1 .. Len(q) : Joined(q, i, j)
    BY <2>2, Zenon DEF AllText, Joined
  <2>. QED  BY <2>1, <2>3
<1>5. CASE AllBlank(q)
  <2>1. \A i \in 1 .. Len(q) : ~Seen(q, i)
    BY <1>5, Zenon DEF AllBlank, AllText, Seen
  <2>2. Shown(t) = Shown(p)
    BY <1>1, <1>3, <2>1, ShownJoin
  <2>. QED  BY <1>1, <1>5, <2>2, Zenon
<1>6. CASE ~AllBlank(q)
  <2>1. PICK a \in 1 .. Len(q) : q[a].body # <<Blank>>
    BY <1>6 DEF AllBlank
  <2>2. \A i \in 1 .. Len(q) : Seen(q, i)
    BY <1>4, <2>1, Zenon DEF Seen
  <2>3. ShownAs(t, p, q)
    BY <1>1, <1>3, <2>2, ShownJoin
  <2>4. Alive(t)
    <3>1. /\ t \in Seq(Thing) /\ Len(p) \in Nat /\ Len(q) \in Nat /\ Len(t) = Len(p) + Len(q)
          /\ \A i \in 1 .. Len(q) : t[Len(p) + i] = q[i]
      BY <1>1, Joint, SMTT(60)
    <3>2. Len(p) + a \in 1 .. Len(t) /\ t[Len(p) + a].body # <<Blank>>
      BY <2>1, <3>1
    <3>3. ASSUME NEW k \in (Len(p) + a) .. Len(t) PROVE t[k].kind = "text"
      <4>1. k - Len(p) \in 1 .. Len(q) /\ Len(p) + (k - Len(p)) = k
        BY <3>1
      <4>2. PICK l \in 1 .. Len(q) : Len(p) + l = k
        BY <4>1
      <4>. QED  BY <3>1, <4>2 DEF AllText
    <3>. QED  BY <3>2, <3>3 DEF Alive
  <2>. QED  BY <1>1, <1>6, <2>3, <2>4, Zenon
<1>. QED  BY <1>5, <1>6

-------------------------------------------------------------------------------
(* ContentExact: what the blocks add up to.                                   *)

TextLetters(x) == [j \in 1 .. Len(x) |-> Text(<<x[j]>>)]
LettersAdd(x, y) == TextLetters(x \o y) = TextLetters(x) \o TextLetters(y)

\* The letters of a text.
LEMMA TextLettersAre ==
  ASSUME NEW x \in Txt
  PROVE  /\ TextLetters(x) \in Seq(Thing) /\ Len(TextLetters(x)) = Len(x) /\ AllText(TextLetters(x))
         /\ \A i \in 1 .. Len(x) : TextLetters(x)[i] = Text(<<x[i]>>) /\ TextLetters(x)[i].body = <<x[i]>>
         /\ Spelt(Text(x)) = TextLetters(x)
<1>1. Len(x) \in Nat /\ \A i \in 1 .. Len(x) : <<x[i]>> \in Txt
  BY DEF Txt
<1>2. \A i \in 1 .. Len(x) : /\ Text(<<x[i]>>) \in Thing /\ Text(<<x[i]>>).kind = "text"
                             /\ Text(<<x[i]>>).body = <<x[i]>>
  BY <1>1, ItemTypes, ThingTypes DEF Text
<1>3. TextLetters(x) \in Seq(Thing)
  BY <1>1, <1>2 DEF TextLetters
<1>4. Len(TextLetters(x)) = Len(x) /\ \A i \in 1 .. Len(x) : TextLetters(x)[i] = Text(<<x[i]>>)
  BY <1>1 DEF TextLetters
<1>5. AllText(TextLetters(x))
  BY <1>2, <1>4, Zenon DEF AllText
<1>6. Spelt(Text(x)) = TextLetters(x)
  BY DEF Spelt, Text, TextLetters
<1>. QED  BY <1>2, <1>3, <1>4, <1>5, <1>6, Zenon

\* The letters of two texts, one after the other.
LEMMA TextLettersJoin ==
  ASSUME NEW x \in Txt, NEW y \in Txt
  PROVE  LettersAdd(x, y)
<1>1. PICK z \in Txt : z = x \o y
  BY TxtJoin
<1>2. /\ Len(x) \in Nat /\ Len(y) \in Nat /\ Len(z) = Len(x) + Len(y)
      /\ \A i \in 1 .. Len(x) : z[i] = x[i]
      /\ \A i \in 1 .. Len(y) : z[Len(x) + i] = y[i]
  BY <1>1, Joint DEF Txt
<1>3. PICK a \in Seq(Thing), b \in Seq(Thing), c \in Seq(Thing) :
         /\ a = TextLetters(x) /\ b = TextLetters(y) /\ c = TextLetters(z)
         /\ Len(a) = Len(x) /\ Len(b) = Len(y) /\ Len(c) = Len(z)
         /\ \A i \in 1 .. Len(x) : a[i] = Text(<<x[i]>>)
         /\ \A i \in 1 .. Len(y) : b[i] = Text(<<y[i]>>)
         /\ \A i \in 1 .. Len(z) : c[i] = Text(<<z[i]>>)
  BY TextLettersAre
<1>4. PICK d \in Seq(Thing) :
         /\ d = a \o b /\ Len(d) = Len(a) + Len(b)
         /\ \A i \in 1 .. Len(a) : d[i] = a[i]
         /\ \A i \in 1 .. Len(b) : d[Len(a) + i] = b[i]
  <2>1. PICK d \in Seq(Thing) : d = a \o b
    BY Joint
  <2>2. /\ Len(d) = Len(a) + Len(b)
        /\ \A i \in 1 .. Len(a) : d[i] = a[i]
        /\ \A i \in 1 .. Len(b) : d[Len(a) + i] = b[i]
    BY <2>1, Joint
  <2>. QED  BY <2>1, <2>2
<1>5. \A i \in 1 .. Len(c) : c[i] = d[i]
  <2>. TAKE i \in 1 .. Len(c)
  <2>1. CASE i \in 1 .. Len(x)
    <3>1. c[i] = Text(<<z[i]>>) /\ z[i] = x[i] /\ d[i] = a[i] /\ a[i] = Text(<<x[i]>>)
      BY <1>2, <1>3, <1>4, <2>1
    <3>. QED  BY <3>1
  <2>2. CASE i \notin 1 .. Len(x)
    <3>1. i - Len(x) \in 1 .. Len(y) /\ Len(x) + (i - Len(x)) = i
      BY <1>2, <1>3, <2>2
    <3>2. PICK j \in 1 .. Len(y) : Len(x) + j = i
      BY <3>1
    <3>3. c[i] = Text(<<z[i]>>) /\ z[i] = y[j] /\ d[i] = b[j] /\ b[j] = Text(<<y[j]>>)
      BY <1>2, <1>3, <1>4, <3>2
    <3>. QED  BY <3>3
  <2>. QED  BY <2>1, <2>2
<1>6. c = d
  BY <1>2, <1>3, <1>4, <1>5, SeqEqual
<1>. QED  BY <1>1, <1>3, <1>4, <1>6, Zenon DEF LettersAdd

\* A blank text is one of blank letters.
LEMMA BlankIs ==
  ASSUME NEW x \in Txt
  PROVE  IsBlank(x) <=> AllBlank(TextLetters(x))
<1>. DEFINE solid == {i \in 1 .. Len(x) : x[i] # Blank}
<1>1. AllBlank(TextLetters(x)) <=> solid = {}
  <2>1. AllBlank(TextLetters(x)) <=> \A i \in 1 .. Len(x) : <<x[i]>> = <<Blank>>
    BY TextLettersAre, Zenon DEF AllBlank
  <2>2. \A i \in 1 .. Len(x) : <<x[i]>> = <<Blank>> <=> x[i] = Blank
    OBVIOUS
  <2>. QED  BY <2>1, <2>2
<1>2. CASE solid = {}
  BY <1>1, <1>2 DEF Trim, IsBlank
<1>3. CASE solid # {}
  <2>1. Len(x) \in Nat
    BY DEF Txt
  <2>2. solid \in SUBSET Nat /\ solid \in SUBSET (0 .. Len(x)) /\ solid \in SUBSET (1 .. Len(x))
    BY <2>1
  <2>. DEFINE a == CHOOSE i \in solid : \A j \in solid : i <= j
              b == CHOOSE i \in solid : \A j \in solid : j <= i
  <2>3. Trim(x) = SubSeq(x, a, b)
    BY <1>3 DEF Trim
  <2>4. \E i \in solid : \A j \in solid : i <= j
    <3>. HIDE DEF solid
    <3>. QED  BY <1>3, <2>2, LeastNumber
  <2>5. \E i \in solid : \A j \in solid : j <= i
    <3>. HIDE DEF solid
    <3>. QED  BY <1>3, <2>1, <2>2, GreatestNumber
  <2>6. a \in solid /\ b \in solid /\ a <= b
    <3>. HIDE DEF solid
    <3>. QED  BY <2>4, <2>5, Zenon
  <2>. HIDE DEF a, b
  <2>7. a \in 1 .. Len(x) /\ b \in 1 .. Len(x)
    BY <2>6
  <2>8. Len(SubSeq(x, a, b)) = b - a + 1 /\ b - a + 1 # 0
    BY <2>1, <2>6, <2>7 DEF Txt
  <2>9. SubSeq(x, a, b) # <<>>
    BY <2>8
  <2>10. ~IsBlank(x)
    BY <2>3, <2>9 DEF IsBlank
  <2>. QED  BY <1>1, <1>3, <2>10
<1>. QED  BY <1>2, <1>3

\* What a client is sent in deltas.
Delta == [e \in Event |-> IF e.ev = "delta" THEN <<[kind |-> e.kind, body |-> e.body]>> ELSE <<>>]
AddUp(E) == Letters(Each(Delta, E))

\* They are things.
LEMMA DeltaTypes ==
  /\ Delta \in [Event -> Seq(Thing)]
  /\ \A e \in Event : e.ev = "delta" => [kind |-> e.kind, body |-> e.body] \in Thing
<1>1. ASSUME NEW e \in Event PROVE [kind |-> e.kind, body |-> e.body] \in Thing
  BY DEF Event, Kinds, Thing
<1>2. \A e \in Event : <<[kind |-> e.kind, body |-> e.body]>> \in Seq(Thing) /\ <<>> \in Seq(Thing)
  <2>1. \A z \in Thing : <<z>> \in Seq(Thing) /\ <<>> \in Seq(Thing)
    OBVIOUS
  <2>. QED  BY <1>1, <2>1
<1>3. Delta \in [Event -> Seq(Thing)]
  BY <1>2 DEF Delta
<1>. QED  BY <1>1, <1>3

\* It is what Content takes from the events.
LEMMA AddUpIs ==
  ASSUME NEW E \in Seq(Event)
  PROVE  AddUp(E) = Letters(FlattenSeq([i \in 1 .. Len(E) |->
                      IF E[i].ev = "delta" THEN <<[kind |-> E[i].kind, body |-> E[i].body]>> ELSE <<>>]))
<1>1. \A i \in 1 .. Len(E) : E[i] \in Event
  OBVIOUS
<1>2. [i \in 1 .. Len(E) |-> IF E[i].ev = "delta" THEN <<[kind |-> E[i].kind, body |-> E[i].body]>> ELSE <<>>]
      = [i \in 1 .. Len(E) |-> Delta[E[i]]]
  BY <1>1 DEF Delta
<1>. QED  BY <1>2, Zenon DEF AddUp, Each

\* One event more.
SentAdds(E, e, w) == AddUp(Append(E, e)) = AddUp(E) \o w

\* Of the events only a delta adds something.
LEMMA SentOne ==
  ASSUME NEW E \in Seq(Event), NEW e \in Event
  PROVE  /\ AddUp(E) \in Seq(Thing) /\ AddUp(<<>>) = <<>>
         /\ e.ev # "delta" => AddUp(Append(E, e)) = AddUp(E)
         /\ e.ev = "delta" => SentAdds(E, e, Spelt([kind |-> e.kind, body |-> e.body]))
<1>1. Append(E, e) = E \o <<e>> /\ <<e>> \in Seq(Event)
  BY OneMore
<1>2. EachJoins(Delta, E, <<e>>)
  BY <1>1, DeltaTypes, EachConcat
<1>3. Each(Delta, <<e>>) = Delta[e] /\ Each(Delta, <<>>) = <<>>
  BY DeltaTypes, EachOne
<1>4. PICK a \in Seq(Thing), b \in Seq(Thing) : a = Each(Delta, E) /\ b = Delta[e]
  <2>1. Each(Delta, E) \in Seq(Thing)
    BY DeltaTypes, EachType
  <2>2. Delta[e] \in Seq(Thing)
    BY DeltaTypes
  <2>. QED  BY <2>1, <2>2
<1>5. Each(Delta, Append(E, e)) = a \o b
  BY <1>1, <1>2, <1>3, <1>4, Zenon DEF EachJoins
<1>6. LettersJoin(a, b) /\ Letters(a) \in Seq(Thing) /\ Letters(b) \in Seq(Thing)
  BY LettersConcat
<1>7. AddUp(Append(E, e)) = AddUp(E) \o Letters(b)
  BY <1>4, <1>5, <1>6, Zenon DEF LettersJoin, AddUp
<1>8. PICK s \in Seq(Thing) : s = AddUp(E)
  BY <1>4, <1>6 DEF AddUp
<1>9. AddUp(<<>>) = <<>> /\ Letters(<<>>) = <<>>
  <2>1. PICK z \in Thing : TRUE
    BY ThingTypes, ItemTypes, NothingTxt
  <2>2. Letters(<<>>) = <<>>
    BY <2>1, ThingAlone
  <2>. QED  BY <1>3, <2>2 DEF AddUp
<1>10. CASE e.ev # "delta"
  <2>1. b = <<>>
    BY <1>4, <1>10 DEF Delta
  <2>2. s \o <<>> = s
    BY ConcatEmptySeq
  <2>3. AddUp(Append(E, e)) = AddUp(E)
    BY <1>7, <1>8, <1>9, <2>1, <2>2, Zenon
  <2>. QED  BY <1>8, <1>9, <1>10, <2>3
<1>11. CASE e.ev = "delta"
  <2>1. PICK z \in Thing : z = [kind |-> e.kind, body |-> e.body]
    BY <1>11, DeltaTypes
  <2>2. b = <<z>>
    BY <1>4, <1>11, <2>1 DEF Delta
  <2>3. Letters(b) = Spelt(z)
    BY <2>2, ThingAlone
  <2>4. SentAdds(E, e, Spelt(z))
    BY <1>7, <2>3, Zenon DEF SentAdds
  <2>. QED  BY <1>8, <1>9, <1>11, <2>1, <2>4, Zenon
<1>. QED  BY <1>10, <1>11

-------------------------------------------------------------------------------
(* ContentExact: the emitter.                                                 *)

\* With E sent before, the emitter has sent what is to be shown of L.
AtStart(u) == u = <<>> \/ u[Len(u)].kind # "text"
Waits(em, L) == \E u \in Seq(Thing) : L = u \o TextLetters(em.blanks) /\ AtStart(u) /\ IsBlank(em.blanks)
Shows(E, em, L) ==
  /\ AddUp(E \o em.sent) = Shown(L)
  /\ em.open => Alive(L) /\ em.blanks = <<>>
  /\ ~em.open => Waits(em, L)

\* One event more after those sent before.
Sits(E, s, w) == w = E \o s
Adds(E, s, w, e, r, v) == r = Append(s, e) /\ v = Append(w, e) /\ Sits(E, r, v)

\* An event sent is one more of all events.
LEMMA SentThen ==
  ASSUME NEW E \in Seq(Event), NEW s \in Seq(Event), NEW e \in Event, NEW w \in Seq(Event), Sits(E, s, w)
  PROVE  \E r \in Seq(Event), v \in Seq(Event) : Adds(E, s, w, e, r, v)
<1>1. PICK r \in Seq(Event), v \in Seq(Event) : r = Append(s, e) /\ v = Append(w, e)
  BY AppendProperties
<1>2. E \o r = Append(w, e)
  BY <1>1, SentMore DEF Sits
<1>3. Sits(E, r, v)
  BY <1>1, <1>2, Zenon DEF Sits
<1>. QED  BY <1>1, <1>3, Zenon DEF Adds

\* Deltas of the two kinds of blocks.
LEMMA DeltaAdds ==
  ASSUME NEW w \in Seq(Event), NEW i \in Nat, NEW x \in Txt
  PROVE  /\ Append(w, BlockDelta(i, "text", x)) \in Seq(Event)
         /\ SentAdds(w, BlockDelta(i, "text", x), TextLetters(x))
         /\ Append(w, BlockDelta(i, "call", x)) \in Seq(Event)
         /\ SentAdds(w, BlockDelta(i, "call", x), <<ToolCall(x)>>)
<1>1. PICK e \in Event : e = BlockDelta(i, "text", x) /\ e.ev = "delta" /\ e.kind = "text" /\ e.body = x
  BY EventTypes DEF Kinds
<1>2. PICK f \in Event : f = BlockDelta(i, "call", x) /\ f.ev = "delta" /\ f.kind = "call" /\ f.body = x
  BY EventTypes DEF Kinds
<1>3. [kind |-> e.kind, body |-> e.body] = Text(x) /\ [kind |-> f.kind, body |-> f.body] = ToolCall(x)
  BY <1>1, <1>2 DEF Text, ToolCall
<1>4. Spelt(Text(x)) = TextLetters(x) /\ Spelt(ToolCall(x)) = <<ToolCall(x)>>
  BY TextLettersAre DEF Spelt, ToolCall
<1>5. Append(w, e) \in Seq(Event) /\ Append(w, f) \in Seq(Event)
  OBVIOUS
<1>6. SentAdds(w, e, Spelt([kind |-> e.kind, body |-> e.body]))
  BY <1>1, SentOne
<1>7. SentAdds(w, f, Spelt([kind |-> f.kind, body |-> f.body]))
  BY <1>2, SentOne
<1>. QED  BY <1>1, <1>2, <1>3, <1>4, <1>5, <1>6, <1>7, Zenon

\* The ends of blocks add nothing.
LEMMA EndsAdd ==
  ASSUME NEW w \in Seq(Event), NEW i \in Nat, NEW k \in Kinds
  PROVE  /\ Append(w, BlockStart(i, k)) \in Seq(Event) /\ AddUp(Append(w, BlockStart(i, k))) = AddUp(w)
         /\ Append(w, BlockStop(i)) \in Seq(Event) /\ AddUp(Append(w, BlockStop(i))) = AddUp(w)
<1>1. PICK e \in Event : e = BlockStart(i, k) /\ e.ev # "delta"
  <2>1. BlockStart(i, k) \in Event /\ BlockStart(i, k).ev = "start"
    BY EventTypes, NothingTxt
  <2>. QED  BY <2>1
<1>2. PICK f \in Event : f = BlockStop(i) /\ f.ev # "delta"
  <2>1. BlockStop(i) \in Event /\ BlockStop(i).ev = "stop"
    BY EventTypes, NothingTxt
  <2>. QED  BY <2>1
<1>3. Append(w, e) \in Seq(Event) /\ Append(w, f) \in Seq(Event)
  OBVIOUS
<1>. QED  BY <1>1, <1>2, <1>3, SentOne

\* A text is shown, or held back while all is blank.
LEMMA ShowsText ==
  ASSUME NEW E, NEW em, Blocks(E, em), NEW L \in Seq(Thing), Shows(E, em, L), NEW x \in Txt,
         NEW q \in Emitter, TextTo(em, x, q), NEW M, M = L \o TextLetters(x)
  PROVE  Shows(E, q, M)
<1>1. /\ E \in Seq(Event) /\ em \in Emitter /\ em.sent \in Seq(Event) /\ em.index \in Nat /\ em.blanks \in Txt
      /\ em.open \in BOOLEAN
  BY SentBefore
<1>2. PICK w \in Seq(Event) : w = E \o em.sent
  BY SentBefore
<1>3. PICK a \in Seq(Thing) : a = TextLetters(x) /\ AllText(a)
  BY TextLettersAre
<1>4. AddUp(w) = Shown(L)
  BY <1>2 DEF Shows
<1>5. CASE em.open
  <2>1. PICK e \in Event : e = BlockDelta(em.index, "text", x)
    BY <1>1, EventTypes DEF Kinds
  <2>2. q.open = TRUE /\ q.blanks = em.blanks /\ q.sent = Append(em.sent, e)
    BY <1>5, <2>1, Zenon DEF TextTo
  <2>3. E \o q.sent = Append(w, e)
    BY <1>1, <1>2, <2>1, <2>2, SentMore, SMTT(60)
  <2>4. Alive(L) /\ em.blanks = <<>>
    BY <1>5 DEF Shows
  <2>5. ShownAs(L \o a, L, a) /\ Alive(L \o a)
    BY <1>3, <2>4, ShownText
  <2>6. SentAdds(w, e, a)
    BY <1>1, <1>3, <2>1, DeltaAdds
  <2>7. AddUp(E \o q.sent) = Shown(M)
    BY <1>3, <1>4, <2>3, <2>5, <2>6, Zenon DEF ShownAs, SentAdds
  <2>8. Alive(M)
    BY <1>3, <2>5, Zenon
  <2>. QED  BY <2>2, <2>4, <2>7, <2>8 DEF Shows
<1>6. CASE ~em.open
  <2>1. PICK u \in Seq(Thing) : L = u \o TextLetters(em.blanks) /\ AtStart(u) /\ IsBlank(em.blanks)
    BY <1>6 DEF Shows, Waits
  <2>2. PICK y \in Txt : y = em.blanks \o x
    BY <1>1, TxtJoin
  <2>3. PICK b \in Seq(Thing) : b = TextLetters(em.blanks) /\ AllText(b) /\ AllBlank(b)
    BY <1>1, <2>1, TextLettersAre, BlankIs
  <2>4. PICK c \in Seq(Thing) : c = TextLetters(y) /\ AllText(c)
    BY TextLettersAre
  <2>5. c = b \o a
    <3>1. LettersAdd(em.blanks, x)
      BY <1>1, TextLettersJoin
    <3>. QED  BY <1>3, <2>2, <2>3, <2>4, <3>1, Zenon DEF LettersAdd
  <2>6. M = u \o c
    <3>1. (u \o b) \o a = u \o (b \o a)
      BY ConcatAssociative, SMTT(60)
    <3>. QED  BY <1>3, <2>1, <2>3, <2>5, <3>1, Zenon
  <2>7. Shown(L) = Shown(u)
    <3>1. Shown(u \o b) = Shown(u)
      BY <2>1, <2>3, ShownFirst DEF AtStart
    <3>. QED  BY <2>1, <2>3, <3>1, Zenon
  <2>8. AllBlank(c) <=> AllBlank(a)
    <3>1. /\ Len(b) \in Nat /\ Len(a) \in Nat /\ Len(c) = Len(b) + Len(a)
          /\ \A i \in 1 .. Len(b) : c[i] = b[i]
          /\ \A i \in 1 .. Len(a) : c[Len(b) + i] = a[i]
      BY <2>5, Joint
    <3>2. ASSUME AllBlank(c), NEW i \in 1 .. Len(a) PROVE a[i].body = <<Blank>>
      <4>1. Len(b) + i \in 1 .. Len(c)
        BY <3>1
      <4>. QED  BY <3>1, <3>2, <4>1, Zenon DEF AllBlank
    <3>3. ASSUME AllBlank(a), NEW i \in 1 .. Len(c) PROVE c[i].body = <<Blank>>
      <4>1. CASE i \in 1 .. Len(b)
        BY <2>3, <3>1, <4>1, Zenon DEF AllBlank
      <4>2. CASE i \notin 1 .. Len(b)
        <5>1. i - Len(b) \in 1 .. Len(a) /\ Len(b) + (i - Len(b)) = i
          BY <3>1, <4>2
        <5>2. PICK j \in 1 .. Len(a) : Len(b) + j = i
          BY <5>1
        <5>3. c[i] = a[j]
          BY <3>1, <5>2
        <5>. QED  BY <3>3, <5>3, Zenon DEF AllBlank
      <4>. QED  BY <4>1, <4>2
    <3>. QED  BY <3>2, <3>3, Zenon DEF AllBlank
  <2>9. IsBlank(x) <=> AllBlank(a)
    BY <1>3, BlankIs
  <2>10. CASE IsBlank(x)
    <3>1. q.open = FALSE /\ q.blanks = y /\ q.sent = em.sent
      BY <1>6, <2>2, <2>10, Zenon DEF TextTo
    <3>2. IsBlank(y)
      BY <2>4, <2>8, <2>9, <2>10, BlankIs
    <3>3. Shown(M) = Shown(u)
      <4>1. Shown(u \o c) = Shown(u)
        BY <2>1, <2>4, <2>8, <2>9, <2>10, ShownFirst DEF AtStart
      <4>. QED  BY <2>6, <4>1, Zenon
    <3>4. Waits(q, M)
      BY <2>1, <2>4, <2>6, <3>1, <3>2, Zenon DEF Waits
    <3>5. AddUp(E \o q.sent) = Shown(M)
      BY <1>2, <1>4, <2>7, <3>1, <3>3, Zenon
    <3>. QED  BY <3>1, <3>4, <3>5 DEF Shows
  <2>11. CASE ~IsBlank(x)
    <3>1. PICK s \in Event, e \in Event : s = BlockStart(em.index, "text") /\ e = BlockDelta(em.index, "text", y)
      BY <1>1, EventTypes DEF Kinds
    <3>2. q.open = TRUE /\ q.blanks = <<>> /\ q.sent = Append(Append(em.sent, s), e)
      BY <1>6, <2>2, <2>11, <3>1, Zenon DEF TextTo
    <3>0. PICK k \in Seq(Event) : k = em.sent /\ Sits(E, k, w)
      BY <1>1, <1>2, Zenon DEF Sits
    <3>3. PICK r \in Seq(Event), v \in Seq(Event) : r = Append(k, s) /\ v = Append(w, s) /\ Sits(E, r, v)
      <4>1. \E r \in Seq(Event), v \in Seq(Event) : Adds(E, k, w, s, r, v)
        BY <1>1, <3>0, SentThen
      <4>. QED  BY <4>1, Zenon DEF Adds
    <3>4. AddUp(v) = AddUp(w)
      BY <1>1, <3>1, <3>3, EndsAdd DEF Kinds
    <3>5. E \o q.sent = Append(v, e)
      <4>1. \E t \in Seq(Event), z \in Seq(Event) : Adds(E, r, v, e, t, z)
        BY <1>1, <3>3, SentThen
      <4>. QED  BY <3>0, <3>2, <3>3, <4>1, Zenon DEF Sits, Adds
    <3>6. SentAdds(v, e, c)
      BY <1>1, <2>4, <3>1, DeltaAdds
    <3>7. ShownAs(u \o c, u, c) /\ Alive(u \o c)
      BY <2>1, <2>4, <2>8, <2>9, <2>11, ShownFirst DEF AtStart
    <3>8. AddUp(E \o q.sent) = Shown(M)
      BY <1>4, <2>6, <2>7, <3>4, <3>5, <3>6, <3>7, Zenon DEF ShownAs, SentAdds
    <3>9. Alive(M)
      BY <2>6, <3>7, Zenon
    <3>. QED  BY <3>2, <3>8, <3>9 DEF Shows
  <2>. QED  BY <2>10, <2>11
<1>. QED  BY <1>1, <1>5, <1>6

\* What is held back is not shown at the end of a block.
LEMMA ShowsClosed ==
  ASSUME NEW E, NEW em, Blocks(E, em), NEW L \in Seq(Thing), Shows(E, em, L), NEW c \in Emitter, CloseTo(em, c)
  PROVE  E \o c.sent \in Seq(Event) /\ AddUp(E \o c.sent) = Shown(L) /\ c.open = FALSE
<1>1. E \in Seq(Event) /\ em \in Emitter /\ em.sent \in Seq(Event) /\ em.index \in Nat /\ em.open \in BOOLEAN
  BY SentBefore
<1>2. PICK w \in Seq(Event) : w = E \o em.sent
  BY SentBefore
<1>3. AddUp(w) = Shown(L)
  BY <1>2 DEF Shows
<1>4. c.open = FALSE
  BY Zenon DEF CloseTo
<1>5. CASE em.open
  <2>1. PICK e \in Event : e = BlockStop(em.index)
    BY <1>1, EventTypes, NothingTxt DEF Kinds
  <2>2. c.sent = Append(em.sent, e)
    BY <1>5, <2>1, Zenon DEF CloseTo
  <2>3. E \o c.sent = Append(w, e)
    BY <1>1, <1>2, <2>1, <2>2, SentMore, SMTT(60)
  <2>4. "text" \in Kinds
    BY DEF Kinds
  <2>5. Append(w, e) \in Seq(Event) /\ AddUp(Append(w, e)) = AddUp(w)
    BY <1>1, <2>1, <2>4, EndsAdd
  <2>. QED  BY <1>3, <1>4, <2>3, <2>5, Zenon
<1>6. CASE ~em.open
  <2>1. c.sent = em.sent
    BY <1>6, Zenon DEF CloseTo
  <2>. QED  BY <1>2, <1>3, <1>4, <2>1, Zenon
<1>. QED  BY <1>1, <1>5, <1>6

\* A call is shown in its place.
LEMMA ShowsCall ==
  ASSUME NEW E, NEW em, Blocks(E, em), NEW L \in Seq(Thing), Shows(E, em, L),
         NEW c \in Emitter, CloseTo(em, c), NEW x \in Txt, NEW q \in Emitter, CallTo(c, x, q),
         NEW M, M = L \o <<ToolCall(x)>>
  PROVE  Shows(E, q, M)
<1>1. PICK w \in Seq(Event) : w = E \o c.sent /\ AddUp(w) = Shown(L) /\ c.open = FALSE
  BY ShowsClosed
<1>2. E \in Seq(Event) /\ c.sent \in Seq(Event) /\ c.index \in Nat
  BY SentBefore, EmitterParts
<1>3. PICK s \in Event, e \in Event, z \in Event :
         s = BlockStart(c.index, "call") /\ e = BlockDelta(c.index, "call", x) /\ z = BlockStop(c.index)
  BY <1>2, EventTypes DEF Kinds
<1>4. q.open = FALSE /\ q.blanks = <<>> /\ q.sent = Append(Append(Append(c.sent, s), e), z)
  BY <1>1, <1>3, Zenon DEF CallTo
<1>5. "call" \in Kinds
  BY DEF Kinds
<1>0. PICK k \in Seq(Event) : k = c.sent /\ Sits(E, k, w)
  BY <1>1, <1>2, Zenon DEF Sits
<1>6. PICK t1 \in Seq(Event), w1 \in Seq(Event) :
         t1 = Append(k, s) /\ w1 = Append(w, s) /\ Sits(E, t1, w1) /\ AddUp(w1) = AddUp(w)
  <2>1. PICK t1 \in Seq(Event), w1 \in Seq(Event) : t1 = Append(k, s) /\ w1 = Append(w, s) /\ Sits(E, t1, w1)
    <3>1. \E t \in Seq(Event), v \in Seq(Event) : Adds(E, k, w, s, t, v)
      BY <1>0, <1>2, SentThen
    <3>. QED  BY <3>1, Zenon DEF Adds
  <2>2. AddUp(w1) = AddUp(w)
    BY <1>2, <1>3, <1>5, <2>1, EndsAdd
  <2>. QED  BY <2>1, <2>2
<1>7. PICK t2 \in Seq(Event), w2 \in Seq(Event) :
         t2 = Append(t1, e) /\ w2 = Append(w1, e) /\ Sits(E, t2, w2) /\ SentAdds(w1, e, <<ToolCall(x)>>)
  <2>1. PICK t2 \in Seq(Event), w2 \in Seq(Event) : t2 = Append(t1, e) /\ w2 = Append(w1, e) /\ Sits(E, t2, w2)
    <3>1. \E t \in Seq(Event), v \in Seq(Event) : Adds(E, t1, w1, e, t, v)
      BY <1>2, <1>6, SentThen
    <3>. QED  BY <3>1, Zenon DEF Adds
  <2>2. SentAdds(w1, e, <<ToolCall(x)>>)
    BY <1>2, <1>3, DeltaAdds
  <2>. QED  BY <2>1, <2>2
<1>8. PICK t3 \in Seq(Event), w3 \in Seq(Event) :
         t3 = Append(t2, z) /\ w3 = Append(w2, z) /\ Sits(E, t3, w3) /\ AddUp(w3) = AddUp(w2)
  <2>1. PICK t3 \in Seq(Event), w3 \in Seq(Event) : t3 = Append(t2, z) /\ w3 = Append(w2, z) /\ Sits(E, t3, w3)
    <3>1. \E t \in Seq(Event), v \in Seq(Event) : Adds(E, t2, w2, z, t, v)
      BY <1>2, <1>7, SentThen
    <3>. QED  BY <3>1, Zenon DEF Adds
  <2>2. AddUp(w3) = AddUp(w2)
    BY <1>2, <1>3, <1>5, <2>1, EndsAdd
  <2>. QED  BY <2>1, <2>2
<1>13. q.sent = t3
  BY <1>0, <1>4, <1>6, <1>7, <1>8, Zenon
<1>9. PICK t \in Thing : t = ToolCall(x) /\ t.kind # "text"
  <2>1. ToolCall(x) \in Thing /\ ToolCall(x).kind = "call"
    BY DEF ToolCall, Thing
  <2>. QED  BY <2>1
<1>10. ShownAs(L \o <<t>>, L, <<t>>)
  BY <1>9, ShownOther
<1>11. AddUp(E \o q.sent) = Shown(M)
  <2>1. AddUp(w2) = AddUp(w1) \o <<t>>
    BY <1>7, <1>9, Zenon DEF SentAdds
  <2>2. E \o q.sent = w3
    BY <1>8, <1>13, Zenon DEF Sits
  <2>. QED  BY <1>1, <1>6, <1>8, <1>9, <1>10, <2>1, <2>2, Zenon DEF ShownAs
<1>12. Waits(q, M)
  <2>1. PICK u \in Seq(Thing) : u = L \o <<t>>
    BY <1>9, OneMore
  <2>2. u # <<>> /\ u[Len(u)] = t
    BY <2>1, <1>9
  <2>3. TextLetters(<<>>) = <<>>
    BY DEF TextLetters
  <2>4. u \o <<>> = u
    BY ConcatEmptySeq
  <2>5. IsBlank(<<>>)
    <3>1. {i \in 1 .. Len(<<>>) : <<>>[i] # Blank} = {}
      OBVIOUS
    <3>. QED  BY <3>1 DEF IsBlank, Trim
  <2>6. AtStart(u)
    BY <1>9, <2>2 DEF AtStart
  <2>7. M = u \o TextLetters(q.blanks)
    BY <1>4, <1>9, <2>1, <2>3, <2>4, Zenon
  <2>. QED  BY <1>4, <2>5, <2>6, <2>7, Zenon DEF Waits
<1>. QED  BY <1>4, <1>11, <1>12 DEF Shows

Told == {"text", "call"}

\* Concatenation of things is associative.
LEMMA ThingsJoin ==
  ASSUME NEW a \in Seq(Thing), NEW b \in Seq(Thing), NEW c \in Seq(Thing)
  PROVE  (a \o b) \o c = a \o (b \o c)
BY ConcatAssociative, SMTT(60)

\* An item goes out, or is held back for the retry.
LEMMA ShowsItem ==
  ASSUME NEW E, NEW em, Blocks(E, em), NEW L \in Seq(Thing), Shows(E, em, L), NEW e \in Item,
         NEW q \in Emitter, q = OnEvent(em, e), NEW M, M = L \o Only(Spelt(e), Told)
  PROVE  Shows(E, q, M)
<1>1. em \in Emitter
  BY SentBefore
<1>2. PICK c \in Emitter : c = CloseText(em) /\ CloseTo(em, c)
  BY <1>1, CloseTextIs
<1>3. PICK x \in Txt : x = e.body
  BY DEF Item
<1>4. \/ e.kind = "text" /\ TextTo(em, x, q)
      \/ e.kind = "call" /\ CallTo(c, x, q)
      \/ e.kind = "malformed" /\ q = em
  BY <1>1, <1>2, <1>3, OnEventIs
<1>5. e \in Thing
  BY ThingTypes
<1>6. CASE e.kind = "text" /\ TextTo(em, x, q)
  <2>1. e = Text(x)
    BY <1>3, <1>6 DEF Item, Text
  <2>2. PICK a \in Seq(Thing) : a = TextLetters(x) /\ a = Spelt(e) /\ AllText(a)
    BY <2>1, TextLettersAre
  <2>3. \A i \in 1 .. Len(a) : a[i].kind \in Told
    BY <2>2 DEF AllText, Told
  <2>4. Only(a, Told) = a
    BY <2>3, OnlyAll
  <2>5. M = L \o TextLetters(x)
    BY <2>2, <2>4, Zenon
  <2>. QED  BY <1>6, <2>5, ShowsText
<1>7. CASE e.kind = "call" /\ CallTo(c, x, q)
  <2>1. e = ToolCall(x)
    BY <1>3, <1>7 DEF Item, ToolCall
  <2>2. Spelt(e) = <<e>> /\ e.kind \in Told
    BY <1>7 DEF Spelt, Told
  <2>3. Only(<<e>>, Told) = <<e>>
    BY <1>5, <2>2, ThingAlone
  <2>4. M = L \o <<ToolCall(x)>>
    BY <2>1, <2>2, <2>3, Zenon
  <2>. QED  BY <1>2, <1>7, <2>4, ShowsCall
<1>8. CASE e.kind = "malformed" /\ q = em
  <2>1. Spelt(e) = <<e>> /\ e.kind \notin Told
    BY <1>8 DEF Spelt, Told
  <2>2. Only(<<e>>, Told) = <<>>
    BY <1>5, <2>1, ThingAlone
  <2>3. L \o <<>> = L
    BY ConcatEmptySeq
  <2>4. M = L
    BY <2>1, <2>2, <2>3, Zenon
  <2>. QED  BY <1>8, <2>4, Zenon
<1>. QED  BY <1>4, <1>6, <1>7, <1>8

\* So do all items of a delivery.
Shares(L, p, M) == M = L \o Only(Letters(p), Told)
ShowsTo(E, em, L, p) == \E M \in Seq(Thing) : Shares(L, p, M) /\ Shows(E, Emitted(em, p), M)

\* All items of a delivery are taken in turn.
LEMMA ShowsAll ==
  ASSUME NEW E, NEW em, Blocks(E, em), NEW L \in Seq(Thing), Shows(E, em, L), NEW p \in Seq(Item)
  PROVE  ShowsTo(E, em, L, p)
<1>. DEFINE T == {u \in Seq(Item) : ShowsTo(E, em, L, u)}
<1>0. em \in Emitter
  BY SentBefore
<1>1. <<>> \in T
  <2>1. PICK z \in Thing : TRUE
    BY ThingTypes, ItemTypes, NothingTxt
  <2>2. Only(Letters(<<>>), Told) = <<>> /\ <<>> \in Seq(Item)
    <3>1. Letters(<<>>) = <<>> /\ Only(<<>>, Told) = <<>>
      BY <2>1, ThingAlone
    <3>. QED  BY <3>1, EmptySeq
  <2>3. L \o <<>> = L
    BY ConcatEmptySeq
  <2>4. Emitted(em, <<>>) = em
    BY <1>0, EmittedNone
  <2>5. Shares(L, <<>>, L)
    BY <2>2, <2>3, Zenon DEF Shares
  <2>6. ShowsTo(E, em, L, <<>>)
    BY <2>4, <2>5, Zenon DEF ShowsTo
  <2>. QED  BY <2>2, <2>6
<1>2. ASSUME NEW u \in T, NEW e \in Item PROVE Append(u, e) \in T
  <2>1. u \in Seq(Item) /\ ShowsTo(E, em, L, u)
    OBVIOUS
  <2>2. PICK w \in Seq(Item) : w = Append(u, e)
    <3>. HIDE DEF T
    <3>. QED  BY <2>1, AppendProperties
  <2>3. w = u \o <<e>> /\ <<e>> \in Seq(Item) /\ u \in Seq(Thing) /\ <<e>> \in Seq(Thing) /\ e \in Thing
    BY <2>1, <2>2, OneMore, ThingTypes
  <2>4. PICK a \in Emitter, q \in Emitter : a = Emitted(em, u) /\ q = OnEvent(a, e) /\ Emitted(em, w) = q
    <3>1. PICK a \in Emitter : a = Emitted(em, u)
      BY <1>0, <2>1, EmittedStep
    <3>2. PICK q \in Emitter : q = OnEvent(a, e)
      BY OnEventIs
    <3>3. Emitted(em, w) = q
      BY <1>0, <2>1, <2>2, <3>1, <3>2, EmittedStep
    <3>. QED  BY <3>1, <3>2, <3>3
  <2>5. Blocks(E, a)
    BY <2>1, <2>4, EmittedBlocks
  <2>6. PICK M \in Seq(Thing) : Shares(L, u, M) /\ Shows(E, a, M)
    BY <2>1, <2>4, Zenon DEF ShowsTo
  <2>7. PICK b \in Seq(Thing), c \in Seq(Thing) : b = Only(Letters(u), Told) /\ c = Only(Spelt(e), Told)
    <3>1. Letters(u) \in Seq(Thing) /\ Spelt(e) \in Seq(Thing)
      BY <2>3, EachLetter, ThingTypes
    <3>. QED  BY <3>1, EachKept
  <2>8. Only(Letters(w), Told) = b \o c
    <3>1. LettersJoin(u, <<e>>) /\ Letters(u) \in Seq(Thing) /\ Letters(<<e>>) \in Seq(Thing)
      BY <2>3, LettersConcat
    <3>2. Letters(<<e>>) = Spelt(e)
      BY <2>3, ThingAlone
    <3>3. OnlyJoins(Letters(u), Letters(<<e>>), Told)
      BY <3>1, OnlyConcat
    <3>. QED  BY <2>3, <2>7, <3>1, <3>2, <3>3, Zenon DEF LettersJoin, OnlyJoins
  <2>9. PICK N \in Seq(Thing) : N = M \o c
    BY Joint
  <2>10. Shares(L, w, N)
    <3>1. (L \o b) \o c = L \o (b \o c)
      BY ThingsJoin, ZenonT(100)
    <3>. QED  BY <2>6, <2>7, <2>8, <2>9, <3>1, Zenon DEF Shares
  <2>11. Shows(E, q, N)
    BY <2>4, <2>5, <2>6, <2>7, <2>9, ShowsItem
  <2>12. ShowsTo(E, em, L, w)
    BY <2>4, <2>10, <2>11, Zenon DEF ShowsTo
  <2>. QED  BY <2>2, <2>12
<1>3. T = Seq(Item)
  <2>1. T \in SUBSET Seq(Item)
    OBVIOUS
  <2>. HIDE DEF T
  <2>. QED  BY <1>1, <1>2, <2>1, SequencesByInduction
<1>. QED  BY <1>3

\* What was sent is among the events.
LEMMA ShowsSent ==
  ASSUME NEW E, NEW a, Blocks(E, a), NEW L, Shows(E, a, L), NEW b, b = [a EXCEPT !.sent = <<>>],
         NEW F, F = E \o a.sent
  PROVE  Shows(F, b, L)
<1>1. b.sent = <<>> /\ b.open = a.open /\ b.blanks = a.blanks
  BY SentOut
<1>2. PICK w \in Seq(Event) : w = F
  BY SentBefore
<1>3. w \o <<>> = w
  BY ConcatEmptySeq
<1>4. AddUp(F \o b.sent) = Shown(L)
  BY <1>1, <1>2, <1>3, Zenon DEF Shows
<1>5. b.open => Alive(L) /\ b.blanks = <<>>
  BY <1>1, Zenon DEF Shows
<1>6. ~b.open => Waits(b, L)
  BY <1>1, Zenon DEF Shows, Waits
<1>. QED  BY <1>4, <1>5, <1>6, Zenon DEF Shows

\* What a delivery shows.
LEMMA DeliverShows ==
  ASSUME BlockInv, NEW text \in Txt, NEW end \in BOOLEAN, Deliver(text, end), NEW L \in Seq(Thing),
         Shows(events, emitter, L), NEW p \in Seq(Item), p = ParsedOf(ParserPush(parser, text), end)
  PROVE  \E M \in Seq(Thing) : Shares(L, p, M) /\ Shows(events', emitter', M)
<1>1. PICK a : a = Emitted(emitter, p)
  OBVIOUS
<1>2. emitter' = [a EXCEPT !.sent = <<>>] /\ events' = events \o a.sent
  BY <1>1, Zenon DEF Deliver, ParsedOf
<1>3. Blocks(events, emitter)
  BY DEF BlockInv
<1>4. Blocks(events, a)
  BY <1>1, <1>3, EmittedBlocks
<1>5. ShowsTo(events, emitter, L, p)
  BY <1>3, ShowsAll
<1>6. PICK M \in Seq(Thing) : Shares(L, p, M) /\ Shows(events, a, M)
  BY <1>1, <1>5, Zenon DEF ShowsTo
<1>7. PICK E, b, F : E = events /\ b = emitter' /\ F = events'
  OBVIOUS
<1>8. Blocks(E, a) /\ Shows(E, a, M) /\ b = [a EXCEPT !.sent = <<>>] /\ F = E \o a.sent
  BY <1>2, <1>4, <1>6, <1>7, Zenon
<1>9. Shows(F, b, M)
  BY <1>8, ShowsSent
<1>. QED  BY <1>6, <1>7, <1>9, Zenon

\* The rounds before this one.
PastOf == [e \in Round |-> Parsed(e.raw)]
Past(R) == FlattenSeq([i \in 1 .. Len(R) |-> Parsed(R[i].raw)])
PastAdds(R, e) == Past(Append(R, e)) = Past(R) \o Parsed(e.raw)

\* It is made round by round.
LEMMA PastIs ==
  ASSUME NEW R \in Seq(Round)
  PROVE  Past(R) = Each(PastOf, R) /\ Past(R) \in Seq(Thing) /\ PastOf \in [Round -> Seq(Thing)]
<1>1. ASSUME NEW e \in Round PROVE Parsed(e.raw) \in Seq(Thing)
  <2>1. PICK x \in Txt : x = e.raw
    BY DEF Round
  <2>2. PICK p \in Seq(Thing) : p = Items(x)
    BY ItemsUnroll, ThingTypes
  <2>3. Letters(p) \in Seq(Thing)
    BY EachLetter
  <2>4. Only(Letters(p), {"text", "call"}) \in Seq(Thing)
    BY <2>3, EachKept
  <2>. QED  BY <2>1, <2>2, <2>4, Zenon DEF Parsed
<1>2. PastOf \in [Round -> Seq(Thing)]
  BY <1>1 DEF PastOf
<1>3. \A i \in 1 .. Len(R) : R[i] \in Round
  OBVIOUS
<1>4. [i \in 1 .. Len(R) |-> Parsed(R[i].raw)] = [i \in 1 .. Len(R) |-> PastOf[R[i]]]
  BY <1>3 DEF PastOf
<1>5. Past(R) = Each(PastOf, R)
  BY <1>4, Zenon DEF Past, Each
<1>6. Each(PastOf, R) \in Seq(Thing)
  BY <1>2, EachType
<1>. QED  BY <1>2, <1>5, <1>6, Zenon

\* One round more.
LEMMA PastMore ==
  ASSUME NEW R \in Seq(Round), NEW e \in Round
  PROVE  PastAdds(R, e)
<1>1. Append(R, e) = R \o <<e>> /\ <<e>> \in Seq(Round) /\ R \o <<e>> \in Seq(Round)
  BY OneMore
<1>2. PastOf \in [Round -> Seq(Thing)]
  BY PastIs
<1>3. EachJoins(PastOf, R, <<e>>)
  BY <1>1, <1>2, EachConcat
<1>4. Each(PastOf, <<e>>) = PastOf[e]
  BY <1>2, EachOne
<1>5. PastOf[e] = Parsed(e.raw)
  BY DEF PastOf
<1>6. Past(R) = Each(PastOf, R) /\ Past(R \o <<e>>) = Each(PastOf, R \o <<e>>)
  BY <1>1, PastIs
<1>. QED  BY <1>1, <1>3, <1>4, <1>5, <1>6, Zenon DEF EachJoins, PastAdds

\* Letters have the kinds of what they spell.
LEMMA LettersKept ==
  ASSUME NEW q \in Seq(Thing), NEW K, "text" \in K, \A i \in 1 .. Len(q) : q[i].kind \in K
  PROVE  Only(Letters(q), K) = Letters(q)
<1>. DEFINE T == {u \in Seq(Thing) : (\A i \in 1 .. Len(u) : u[i].kind \in K) => Only(Letters(u), K) = Letters(u)}
<1>1. PICK z \in Thing : TRUE
  BY ThingTypes, ItemTypes, NothingTxt
<1>2. <<>> \in T
  <2>1. Letters(<<>>) = <<>> /\ Only(<<>>, K) = <<>>
    BY <1>1, ThingAlone
  <2>. QED  BY <2>1, EmptySeq
<1>3. ASSUME NEW u \in T, NEW e \in Thing PROVE Append(u, e) \in T
  <2>1. u \in Seq(Thing) /\ ((\A i \in 1 .. Len(u) : u[i].kind \in K) => Only(Letters(u), K) = Letters(u))
    OBVIOUS
  <2>2. PICK w \in Seq(Thing) : w = Append(u, e)
    <3>. HIDE DEF T
    <3>. QED  BY <2>1, AppendProperties
  <2>3. /\ Len(u) \in Nat /\ Len(w) = Len(u) + 1 /\ w[Len(u) + 1] = e
        /\ \A i \in 1 .. Len(u) : w[i] = u[i]
    <3>. HIDE DEF T
    <3>. QED  BY <2>1, <2>2, AppendProperties
  <2>4. ASSUME \A i \in 1 .. Len(w) : w[i].kind \in K PROVE Only(Letters(w), K) = Letters(w)
    <3>1. e.kind \in K /\ \A i \in 1 .. Len(u) : u[i].kind \in K
      <4>1. Len(u) + 1 \in 1 .. Len(w) /\ \A i \in 1 .. Len(u) : i \in 1 .. Len(w)
        BY <2>3
      <4>. QED  BY <2>3, <2>4, <4>1, Zenon
    <3>2. PICK a \in Seq(Thing), b \in Seq(Thing) : a = Letters(u) /\ b = Spelt(e)
      BY <2>1, EachLetter, ThingTypes
    <3>3. w = u \o <<e>> /\ <<e>> \in Seq(Thing) /\ Letters(<<e>>) = b
      BY <2>1, <2>2, <3>2, OneMore, ThingAlone, ZenonT(100)
    <3>4. LettersJoin(u, <<e>>)
      BY <2>1, <3>3, LettersConcat
    <3>5. Letters(w) = a \o b
      BY <3>2, <3>3, <3>4, Zenon DEF LettersJoin
    <3>6. OnlyJoins(a, b, K)
      BY OnlyConcat
    <3>7. Only(b, K) = b
      <4>1. \A i \in 1 .. Len(b) : b[i].kind \in K
        <5>1. CASE e.kind = "text"
          <6>1. b = [j \in 1 .. Len(e.body) |-> Text(<<e.body[j]>>)] /\ Len(e.body) \in Nat
            BY <3>2, <5>1, ThingTypes DEF Spelt, Txt
          <6>2. \A i \in 1 .. Len(b) : b[i].kind = "text"
            BY <6>1 DEF Text
          <6>. QED  BY <6>2
        <5>2. CASE e.kind # "text"
          <6>1. b = <<e>>
            BY <3>2, <5>2 DEF Spelt
          <6>. QED  BY <3>1, <6>1
        <5>. QED  BY <5>1, <5>2
      <4>. QED  BY <4>1, OnlyAll
    <3>8. Only(a, K) = a
      BY <2>1, <3>1, <3>2
    <3>. QED  BY <3>5, <3>6, <3>7, <3>8, Zenon DEF OnlyJoins
  <2>. QED  BY <2>2, <2>4
<1>4. T = Seq(Thing)
  <2>1. T \in SUBSET Seq(Thing)
    OBVIOUS
  <2>. HIDE DEF T
  <2>. QED  BY <1>2, <1>3, <2>1, SequencesByInduction
<1>. QED  BY <1>4

\* What goes out at the end, which ContentExact allows.
LeftOf(r) ==
  IF Only(Items(r), {"call"}) # <<>> THEN <<>>
  ELSE LET bad == Only(Items(r), {"malformed"}) IN
       Letters([i \in 1 .. Len(bad) |-> Text(Fallback(bad[i].body))])

\* They are the malformed calls of the round, when it had no other.
LEMMA LeftIs ==
  ASSUME NEW r \in Txt, NEW P \in Seq(Item), AccountsAll(r, P), NEW q, q = Only(P, {"malformed"}),
         NEW n, n = Len(Only(P, {"call"}))
  PROVE  Letters(FallbackOf(q, n)) = LeftOf(r)
<1>1. Only(Items(r), {"call"}) = Only(P, {"call"}) /\ Only(Items(r), {"malformed"}) = q
  BY CallsOf
<1>2. PICK c \in Seq(Thing) : c = Only(P, {"call"})
  BY EachKept, ThingTypes
<1>3. CASE c = <<>>
  <2>1. n = 0
    BY <1>2, <1>3
  <2>. QED  BY <1>1, <1>2, <1>3, <2>1, Zenon DEF FallbackOf, LeftOf
<1>4. CASE c # <<>>
  <2>1. n # 0
    BY <1>2, <1>4
  <2>2. Letters(<<>>) = <<>>
    <3>1. PICK z \in Thing : TRUE
      BY ThingTypes, ItemTypes, NothingTxt
    <3>. QED  BY <3>1, ThingAlone
  <2>. QED  BY <1>1, <1>2, <1>4, <2>1, <2>2, Zenon DEF FallbackOf, LeftOf
<1>. QED  BY <1>3, <1>4

\* The client has been sent what the past rounds and this one's items show.
ContentOK(P) == \E L \in Seq(Thing) : Shares(Past(rounds), P, L) /\ Shows(events, emitter, L)
ContentInv ==
  IF phase = "ended" THEN ContentExact
  ELSE NoCallsYet /\ \E P \in Seq(Item) : RoundOK(P) /\ ContentOK(P)

\* It holds at the start.
LEMMA ContentInit ==
  ASSUME Init
  PROVE  ContentInv
<1>1. /\ phase = "reading" /\ parser = NewParser /\ malformed = <<>> /\ emitter = NewEmitter /\ raw = <<>>
      /\ rounds = <<>> /\ events = <<>>
  BY DEF Init
<1>2. PICK L \in Seq(Thing) : L = <<>>
  BY EmptySeq
<1>3. Past(rounds) = <<>>
  BY <1>1, FlattenEmpty DEF Past
<1>4. Only(Letters(<<>>), Told) = <<>>
  <2>1. PICK z \in Thing : TRUE
    BY ThingTypes, ItemTypes, NothingTxt
  <2>. QED  BY <2>1, ThingAlone
<1>5. L \o <<>> = L
  BY ConcatEmptySeq
<1>6. Shares(Past(rounds), <<>>, L)
  BY <1>2, <1>3, <1>4, <1>5, Zenon DEF Shares
<1>7. Shown(<<>>) = <<>> /\ AddUp(<<>>) = <<>>
  <2>1. Shown(<<>>) = <<>>
    <3>1. [i \in 1 .. Len(<<>>) |-> IF Seen(<<>>, i) THEN <<(<<>>)[i]>> ELSE <<>>] = <<>>
      OBVIOUS
    <3>2. Shown(<<>>) = FlattenSeq([i \in 1 .. Len(<<>>) |-> IF Seen(<<>>, i) THEN <<(<<>>)[i]>> ELSE <<>>])
      BY ShownIs
    <3>. QED  BY <3>1, <3>2, FlattenEmpty, Zenon
  <2>2. PICK e \in Event : TRUE
    BY EventTypes, NothingTxt DEF Kinds
  <2>3. PICK E \in Seq(Event) : E = <<>>
    BY EmptySeq
  <2>. QED  BY <2>1, <2>2, <2>3, SentOne
<1>8. NewEmitter.sent = <<>> /\ NewEmitter.open = FALSE /\ NewEmitter.blanks = <<>> /\ <<>> \o <<>> = <<>>
  BY DEF NewEmitter
<1>9. Waits(NewEmitter, L)
  <2>1. TextLetters(<<>>) = <<>>
    BY DEF TextLetters
  <2>2. IsBlank(<<>>)
    <3>1. {i \in 1 .. Len(<<>>) : <<>>[i] # Blank} = {}
      OBVIOUS
    <3>. QED  BY <3>1 DEF IsBlank, Trim
  <2>3. AtStart(L)
    BY <1>2 DEF AtStart
  <2>. QED  BY <1>2, <1>5, <1>8, <2>1, <2>2, <2>3, Zenon DEF Waits
<1>10. Shows(events, emitter, L)
  BY <1>1, <1>2, <1>7, <1>8, <1>9, Zenon DEF Shows
<1>11. ContentOK(<<>>)
  BY <1>6, <1>10, Zenon DEF ContentOK
<1>12. NoCallsYet
  BY <1>1 DEF NoCallsYet
<1>13. RoundOK(<<>>)
  <2>1. Accounts(raw, <<>>, parser.mode, parser.buf)
    BY <1>1, AccountsStart DEF NewParser
  <2>2. emitter.calls = Len(<<>>)
    BY <1>1 DEF NewEmitter
  <2>. QED  BY <1>1, <2>1, <2>2, FreshRound DEF RoundOK, Settled
<1>14. phase # "ended"
  BY <1>1
<1>. QED  BY <1>11, <1>12, <1>13, <1>14, FreshRound, Zenon DEF ContentInv

\* A delivery shows what it adds to the round.
LEMMA HandsShow ==
  ASSUME BlockInv, NoCallsYet, NEW P \in Seq(Item), ContentOK(P), Hands(P)
  PROVE  rounds' = rounds /\ phase' # "ended" /\ \E Q \in Seq(Item) : RoundOK(Q)' /\ ContentOK(Q)'
<1>1. PICK text \in Txt, end \in BOOLEAN, p \in Seq(Item) :
         /\ Deliver(text, end) /\ p = ParsedOf(ParserPush(parser, text), end)
         /\ P \o p \in Seq(Item) /\ RoundOK(P \o p)' /\ rounds' = rounds /\ phase' # "ended"
  BY DEF Hands
<1>2. PICK L \in Seq(Thing) : Shares(Past(rounds), P, L) /\ Shows(events, emitter, L)
  BY DEF ContentOK
<1>3. PICK M \in Seq(Thing) : Shares(L, p, M) /\ Shows(events', emitter', M)
  BY <1>1, <1>2, DeliverShows
<1>4. PICK Q \in Seq(Item) : Q = P \o p
  BY <1>1
<1>5. PICK a \in Seq(Thing), b \in Seq(Thing) : a = Letters(P) /\ b = Letters(p)
  BY EachLetter, ThingTypes
<1>6. LettersJoin(P, p)
  BY ThingTypes, LettersConcat
<1>7. PICK c \in Seq(Thing), d \in Seq(Thing) : c = Only(a, Told) /\ d = Only(b, Told)
  BY EachKept
<1>8. OnlyJoins(a, b, Told)
  BY OnlyConcat
<1>9. Only(Letters(Q), Told) = c \o d
  BY <1>4, <1>5, <1>6, <1>7, <1>8, Zenon DEF LettersJoin, OnlyJoins
<1>10. PICK k \in Seq(Thing) : k = Past(rounds)
  BY PastIs DEF NoCallsYet
<1>11. Shares(k, Q, M)
  <2>1. L = k \o c /\ M = L \o d
    BY <1>2, <1>3, <1>5, <1>7, <1>10, Zenon DEF Shares
  <2>2. (k \o c) \o d = k \o (c \o d)
    BY ThingsJoin, ZenonT(100)
  <2>. QED  BY <1>9, <2>1, <2>2, Zenon DEF Shares
<1>12. Past(rounds') = k
  BY <1>1, <1>10
<1>13. ContentOK(Q)'
  BY <1>3, <1>11, <1>12, Zenon DEF ContentOK
<1>. QED  BY <1>1, <1>4, <1>13, Zenon

\* A retry shows nothing by itself; the round's text is one of the past.
LEMMA RetryShows ==
  ASSUME StopInv, NoCallsYet, NEW P \in Seq(Item), RoundOK(P), ContentOK(P), Retry
  PROVE  ContentOK(<<>>)'
<1>1. /\ phase = "decide" /\ rounds' = Append(rounds, [ids |-> ids, raw |-> raw])
      /\ events' = events /\ emitter' = emitter
  BY DEF Retry
<1>2. PICK r \in Txt, k \in Seq(Pieces) : r = raw /\ k = ids
  BY DEF StopInv, StopType
<1>3. PICK e \in Round : e = [ids |-> k, raw |-> r] /\ e.raw = r
  <2>1. [ids |-> k, raw |-> r] \in Round
    BY DEF Round
  <2>. QED  BY <2>1
<1>4. PICK R \in Seq(Round) : R = rounds
  BY DEF NoCallsYet
<1>5. PICK W : W = Append(R, e)
  OBVIOUS
<1>6. rounds' = W
  BY <1>1, <1>2, <1>3, <1>4, <1>5, Zenon
<1>7. PICK L \in Seq(Thing) : Shares(Past(R), P, L) /\ Shows(events, emitter, L)
  BY <1>4 DEF ContentOK
<1>8. Parsed(r) = Only(Letters(P), Told)
  <2>1. AccountsAll(r, P)
    BY <1>1, <1>2 DEF RoundOK, Settled
  <2>. QED  BY <2>1, Zenon DEF AccountsAll, Parsed, Told
<1>9. Past(W) = L
  <2>1. PastAdds(R, e)
    BY PastMore
  <2>. QED  BY <1>3, <1>5, <1>7, <1>8, <2>1, Zenon DEF PastAdds, Shares
<1>10. Only(Letters(<<>>), Told) = <<>>
  <2>1. PICK z \in Thing : TRUE
    BY ThingTypes, ItemTypes, NothingTxt
  <2>. QED  BY <2>1, ThingAlone
<1>11. L \o <<>> = L
  BY ConcatEmptySeq
<1>12. Shares(Past(rounds'), <<>>, L)
  BY <1>6, <1>9, <1>10, <1>11, Zenon DEF Shares
<1>13. Shows(events', emitter', L)
  BY <1>1, <1>7, Zenon
<1>. QED  BY <1>12, <1>13, Zenon DEF ContentOK

\* At the end all there is to show is shown.
LEMMA EndShows ==
  ASSUME StopInv, BlockInv, NoCallsYet, NEW P \in Seq(Item), RoundOK(P), ContentOK(P), End
  PROVE  phase' = "ended" /\ ContentExact'
<1>1. PICK l \in Seq(Item), a \in Emitter, c \in Emitter :
           /\ phase = "decide" /\ phase' = "ended"
           /\ l = FallbackOf(malformed, emitter.calls) /\ a = Emitted(emitter, l) /\ c = CloseText(a)
           /\ emitter' = [c EXCEPT !.sent = <<>>] /\ events' = events \o c.sent
           /\ UNCHANGED <<parser, malformed, raw, rounds>>
  BY EndIs
<1>2. PICK r \in Txt : r = raw
  BY DEF StopInv, StopType
<1>3. PICK k \in Seq(Thing), R \in Seq(Round) : k = Past(R) /\ R = rounds
  BY PastIs DEF NoCallsYet
<1>4. PICK L \in Seq(Thing) : Shares(k, P, L) /\ Shows(events, emitter, L)
  BY <1>3 DEF ContentOK
<1>5. AccountsAll(r, P)
  BY <1>1, <1>2 DEF RoundOK, Settled
<1>6. L = k \o Parsed(r)
  BY <1>4, <1>5, Zenon DEF AccountsAll, Parsed, Told, Shares
<1>7. Blocks(events, emitter)
  BY DEF BlockInv
<1>8. Blocks(events, a)
  BY <1>1, <1>7, EmittedBlocks
<1>9. ShowsTo(events, emitter, L, l)
  BY <1>4, <1>7, ShowsAll
<1>10. PICK M \in Seq(Thing) : Shares(L, l, M) /\ Shows(events, a, M)
  BY <1>1, <1>9, Zenon DEF ShowsTo
<1>11. CloseTo(a, c)
  BY <1>1, CloseTextIs
<1>12. PICK F \in Seq(Event) : F = events \o c.sent /\ AddUp(F) = Shown(M)
  BY <1>8, <1>10, <1>11, ShowsClosed
<1>13. Letters(l) = LeftOf(r)
  <2>1. malformed = Only(P, {"malformed"}) /\ emitter.calls = Len(Only(P, {"call"}))
    BY DEF RoundOK
  <2>. QED  BY <1>1, <1>5, <2>1, LeftIs
<1>14. Only(Letters(l), Told) = Letters(l)
  <2>1. \A i \in 1 .. Len(l) : l[i].kind \in Told
    <3>1. \A i \in 1 .. Len(FallbackOf(malformed, emitter.calls)) :
            FallbackOf(malformed, emitter.calls)[i].kind = "text"
      BY FallbackIs DEF BlockInv
    <3>2. \A i \in 1 .. Len(l) : l[i].kind = "text"
      BY <1>1, <3>1, Zenon
    <3>. QED  BY <3>2 DEF Told
  <2>2. "text" \in Told /\ l \in Seq(Thing)
    BY ThingTypes DEF Told
  <2>. QED  BY <2>1, <2>2, LettersKept
<1>15. M = (k \o Parsed(r)) \o LeftOf(r)
  BY <1>6, <1>10, <1>13, <1>14, Zenon DEF Shares
<1>16. Content' = AddUp(F)
  <2>1. events' = F
    BY <1>1, <1>12, Zenon
  <2>2. AddUp(F) = Letters(FlattenSeq([i \in 1 .. Len(F) |->
                     IF F[i].ev = "delta" THEN <<[kind |-> F[i].kind, body |-> F[i].body]>> ELSE <<>>]))
    BY AddUpIs
  <2>. QED  BY <2>1, <2>2, Zenon DEF Content
<1>17. LeftOf(r) \in Leftovers' /\ raw' = r /\ rounds' = R
  <2>1. raw' = r /\ rounds' = R
    BY <1>1, <1>2, <1>3
  <2>2. LeftOf(raw') \in Leftovers'
    BY Zenon DEF Leftovers, LeftOf
  <2>. QED  BY <2>1, <2>2, Zenon
<1>18. Content' = Shown((Past(rounds') \o Parsed(raw')) \o LeftOf(r))
  BY <1>3, <1>12, <1>15, <1>16, <1>17, Zenon
<1>19. ContentExact'
  BY <1>17, <1>18, Zenon DEF ContentExact, Past
<1>. QED  BY <1>1, <1>19

\* It is kept by every step.
LEMMA ContentNext ==
  ASSUME StopInv, BlockInv, ContentInv, [Next]_vars
  PROVE  ContentInv'
<1>1. CASE phase = "ended"
  <2>1. UNCHANGED vars
    BY <1>1, ReceiveIs DEF Next, ReceiveDone, ReceiveError, ParseRest, Retry, End
  <2>2. phase' = "ended" /\ ContentExact
    BY <1>1, <2>1 DEF vars, ContentInv
  <2>3. ContentExact'
    <3>1. UNCHANGED <<phase, events, rounds, raw>>
      BY <2>1 DEF vars
    <3>. QED  BY <1>1, <2>2, <3>1 DEF ContentExact, Content, Leftovers
  <2>. QED  BY <2>2, <2>3 DEF ContentInv
<1>2. CASE phase # "ended"
  <2>1. PICK P \in Seq(Item) : NoCallsYet /\ RoundOK(P) /\ ContentOK(P)
    BY <1>2 DEF ContentInv
  <2>2. rounds' = rounds => NoCallsYet'
    BY <2>1 DEF NoCallsYet
  <2>3. CASE Stays(P)
    <3>1. RoundOK(P)' /\ UNCHANGED <<rounds, events, emitter>> /\ phase' # "ended"
      BY <1>2, <2>3 DEF Stays
    <3>2. ContentOK(P)'
      BY <2>1, <3>1 DEF ContentOK
    <3>. QED  BY <2>2, <3>1, <3>2, Zenon DEF ContentInv
  <2>4. CASE Hands(P)
    <3>1. rounds' = rounds /\ phase' # "ended" /\ \E Q \in Seq(Item) : RoundOK(Q)' /\ ContentOK(Q)'
      BY <2>1, <2>4, HandsShow
    <3>. QED  BY <2>2, <3>1, Zenon DEF ContentInv
  <2>5. CASE Retries
    <3>1. Retry /\ NoCallsYet' /\ RoundOK(<<>>)' /\ phase' # "ended"
      BY <2>5 DEF Retries
    <3>2. ContentOK(<<>>)'
      BY <2>1, <3>1, RetryShows
    <3>. QED  BY <3>1, <3>2, FreshRound, Zenon DEF ContentInv
  <2>6. CASE Ends(P)
    <3>1. phase' = "ended" /\ ContentExact'
      BY <2>1, <2>6, EndShows DEF Ends
    <3>. QED  BY <3>1, Zenon DEF ContentInv
  <2>. QED  BY <2>1, <2>3, <2>4, <2>5, <2>6, RoundSteps
<1>. QED  BY <1>1, <1>2

\* When a message has ended, its blocks add up to what parsing each round's text at
\* once gives, with blank text between blocks left out: OutputParser, BlockEmitter
\* and the retry together, however the model's output was divided and held back.
THEOREM ContentStaysExact == Spec => []ContentExact
<1>1. ContentInv => ContentExact
  BY DEF ContentInv, ContentExact
<1>. QED  BY <1>1, StopInit, StopNext, BlockInit, BlockNext, ContentInit, ContentNext, PTL DEF Spec
===============================================================================
