----------------------------- MODULE Upload_proofs -----------------------------
(* Proof that upload() leaves in every buffer what it was called with, for any  *)
(* buffers, lengths and size of the staging buffer.                             *)
EXTENDS Upload, TLAPS

\* Functions, and the ones on 1 .. n.
IsFun(f) == f = [x \in DOMAIN f |-> f[x]]
Holds(f, n) == IsFun(f) /\ DOMAIN f = 1 .. n

Shape ==
  /\ pc \in {"idle", "fill", "wait"} /\ size \in Nat /\ off \in Nat /\ off <= size
  /\ IsFun(src) /\ IsFun(dev) /\ DOMAIN src = DOMAIN dev
  /\ pc # "idle" => cur \in DOMAIN src /\ Holds(src[cur], size) /\ Holds(dev[cur], size)

\* The first n cells of the buffer being uploaded are there.
Prefix(n) == \A i \in 1 .. n : i <= size => dev[cur][i] = src[cur][i]

\* The one copy under way, and the staging buffer it reads.
Pending ==
  /\ gpu = {[dst |-> cur, at |-> off, len |-> ChunkLength]}
  /\ \A i \in 1 .. ChunkLength : stage[i] = src[cur][off + i]

\* The inductive invariant: a chunk is under way only between Fill and Wait, and
\* everything before it has arrived.
UploadInv ==
  /\ Shape
  /\ \A d \in DOMAIN src : pc = "idle" \/ d # cur => dev[d] = src[d]
  /\ pc # "idle" => Prefix(off)
  /\ pc # "wait" => gpu = {}
  /\ pc = "wait" => off < size /\ (Pending \/ (gpu = {} /\ Prefix(off + ChunkLength)))

\* The chunk is not empty and ends within the buffer.
LEMMA ChunkFits ==
  ASSUME Shape, off < size
  PROVE  /\ ChunkLength \in Nat /\ ChunkLength > 0 /\ off + ChunkLength <= size
         /\ ChunkLength <= StageCells
  BY UploadAssumption DEF Shape, ChunkLength

LEMMA UploadInit_Inv == ASSUME UploadInit PROVE UploadInv
  BY DEF UploadInit, UploadInv, Shape, IsFun

\* Call makes a new buffer; the others keep their contents.
LEMMA Call_Inv ==
  ASSUME UploadInv, NEW d, NEW n \in Nat, NEW cells \in [1 .. n -> Cell], Call(d, n, cells)
  PROVE  UploadInv'
  <1>1. /\ src' = [b \in DOMAIN src \cup {d} |-> IF b = d THEN cells ELSE src[b]]
        /\ dev' = [b \in DOMAIN dev \cup {d} |-> IF b = d THEN [i \in 1 .. n |-> Junk] ELSE dev[b]]
        /\ pc = "idle" /\ pc' = "fill" /\ cur' = d /\ size' = n /\ off' = 0 /\ gpu' = gpu
        /\ d \notin DOMAIN src
    BY DEF Call
  <1>2. DOMAIN src' = DOMAIN src \cup {d} /\ DOMAIN dev' = DOMAIN src' /\ IsFun(src') /\ IsFun(dev')
    BY <1>1 DEF UploadInv, Shape, IsFun
  <1>3. Holds(src'[d], n) /\ Holds(dev'[d], n)
    BY <1>1, <1>2 DEF Holds, IsFun
  <1>4. Shape'
    BY <1>1, <1>2, <1>3 DEF Shape
  <1>5. \A b \in DOMAIN src' : b # cur' => dev'[b] = src'[b]
    BY <1>1, <1>2 DEF UploadInv, Shape
  <1>6. Prefix(off)'
    BY <1>1 DEF Prefix
  <1> QED BY <1>1, <1>4, <1>5, <1>6 DEF UploadInv

LEMMA Fill_Inv == ASSUME UploadInv, Fill PROVE UploadInv'
  <1>1. /\ pc = "fill" /\ pc' = "wait" /\ off < size
        /\ src' = src /\ dev' = dev /\ cur' = cur /\ size' = size /\ off' = off
        /\ ChunkLength' = ChunkLength /\ gpu = {}
    BY DEF Fill, UploadInv, ChunkLength
  <1>2. Shape' BY <1>1 DEF UploadInv, Shape
  <1>3. gpu' = {[dst |-> cur', at |-> off', len |-> ChunkLength']}
    BY <1>1 DEF Fill, DstOffset
  <1>4. ChunkLength \in Nat /\ ChunkLength <= StageCells
    BY <1>1, ChunkFits DEF UploadInv
  <1>5. \A i \in 1 .. ChunkLength' : stage'[i] = src'[cur'][off' + i]
    BY <1>1, <1>4, UploadAssumption DEF Fill
  <1>6. Pending' BY <1>3, <1>5 DEF Pending
  <1> QED BY <1>1, <1>2, <1>6 DEF UploadInv, Prefix

\* The copy puts the staged chunk behind the cells that have arrived.
LEMMA Copy_Inv == ASSUME UploadInv, Copy PROVE UploadInv'
  <1>1. pc = "wait" /\ Pending /\ off < size
    BY DEF Copy, UploadInv
  <1>2. /\ src' = src /\ pc' = pc /\ cur' = cur /\ size' = size /\ off' = off /\ gpu' = {}
        /\ dev' = [dev EXCEPT ![cur] = [i \in DOMAIN dev[cur] |->
                     IF i - off \in 1 .. ChunkLength THEN stage[i - off] ELSE dev[cur][i]]]
        /\ ChunkLength' = ChunkLength
    <2> DEFINE c0 == [dst |-> cur, at |-> off, len |-> ChunkLength]
    <2>1. gpu = {c0} /\ c0.dst = cur /\ c0.at = off /\ c0.len = ChunkLength
      BY <1>1 DEF Pending
    <2> HIDE DEF c0
    <2>2. /\ dev' = [dev EXCEPT ![c0.dst] = [i \in DOMAIN dev[c0.dst] |->
                       IF i - c0.at \in 1 .. c0.len THEN stage[i - c0.at] ELSE dev[c0.dst][i]]]
          /\ gpu' = gpu \ {c0} /\ UNCHANGED <<src, pc, cur, size, off, stage>>
      BY <2>1 DEF Copy
    <2> QED BY <2>1, <2>2 DEF ChunkLength
  <1>3. ChunkLength \in Nat /\ off + ChunkLength <= size
    BY <1>1, ChunkFits DEF UploadInv
  <1>4. cur \in DOMAIN src /\ cur \in DOMAIN dev /\ DOMAIN dev[cur] = 1 .. size
    BY <1>1 DEF UploadInv, Shape, Holds
  <1>5. DOMAIN dev' = DOMAIN dev /\ IsFun(dev')
    BY <1>2 DEF UploadInv, Shape, IsFun
  <1>6. dev'[cur] = [i \in 1 .. size |->
                       IF i - off \in 1 .. ChunkLength THEN stage[i - off] ELSE dev[cur][i]]
    BY <1>2, <1>4
  <1>7. Holds(dev'[cur], size)
    BY <1>6 DEF Holds, IsFun
  <1>8. Shape'
    BY <1>2, <1>5, <1>7 DEF UploadInv, Shape
  <1>9. \A d \in DOMAIN src : d # cur => dev'[d] = dev[d]
    BY <1>2 DEF UploadInv, Shape
  <1>10. Prefix(off + ChunkLength)'
    <2>1. SUFFICES ASSUME NEW i \in 1 .. off + ChunkLength PROVE dev'[cur][i] = src[cur][i]
      BY <1>2 DEF Prefix
    <2>2. off \in Nat /\ size \in Nat /\ i \in 1 .. size
      BY <1>3 DEF UploadInv, Shape
    <2>3. CASE i <= off
      BY <1>6, <2>2, <2>3, <1>1, <1>3 DEF UploadInv, Prefix
    <2>4. CASE i > off
      <3>1. i - off \in 1 .. ChunkLength /\ off + (i - off) = i
        BY <2>2, <2>4, <1>3
      <3> QED BY <3>1, <1>6, <2>2, <1>1 DEF Pending
    <2> QED BY <2>2, <2>3, <2>4
  <1>11. Prefix(off)'
    BY <1>10, <1>2, <1>3 DEF Prefix, UploadInv, Shape
  <1> QED BY <1>1, <1>2, <1>8, <1>9, <1>10, <1>11 DEF UploadInv

LEMMA Wait_Inv == ASSUME UploadInv, Wait PROVE UploadInv'
  <1>1. /\ pc = "wait" /\ pc' = "fill" /\ gpu = {} /\ gpu' = {} /\ off < size
        /\ off' = off + ChunkLength
        /\ src' = src /\ dev' = dev /\ cur' = cur /\ size' = size
    BY DEF Wait, UploadInv, Drained
  <1>2. ChunkLength \in Nat /\ off + ChunkLength <= size
    BY <1>1, ChunkFits DEF UploadInv
  <1>3. Prefix(off + ChunkLength)
    BY <1>1 DEF UploadInv, Pending
  <1>4. Prefix(off)'
    BY <1>1, <1>3 DEF Prefix
  <1>5. Shape'
    BY <1>1, <1>2 DEF UploadInv, Shape
  <1> QED BY <1>1, <1>4, <1>5 DEF UploadInv

\* The last chunk has arrived: the buffer is complete.
LEMMA Return_Inv == ASSUME UploadInv, Return PROVE UploadInv'
  <1>1. /\ pc = "fill" /\ pc' = "idle" /\ off = size /\ gpu = {}
        /\ <<src, dev, cur, size, off, gpu>>' = <<src, dev, cur, size, off, gpu>>
    BY DEF Return, UploadInv, Shape
  <1>2. Holds(src[cur], size) /\ Holds(dev[cur], size)
    BY <1>1 DEF UploadInv, Shape
  <1>3. \A i \in 1 .. size : dev[cur][i] = src[cur][i]
    BY <1>1 DEF UploadInv, Prefix, Shape
  <1>4. dev[cur] = src[cur]
    BY <1>2, <1>3 DEF Holds, IsFun
  <1>5. Shape' BY <1>1 DEF UploadInv, Shape
  <1> QED BY <1>1, <1>4, <1>5 DEF UploadInv

\* upload() leaves in every buffer exactly what it was called with, when the
\* copies of the GPU are made at any time between their submission and the wait.
THEOREM UploadedAlways == UploadSpec => []Uploaded
  <1>1. ASSUME UploadInv, [UploadNext]_uploadVars PROVE UploadInv'
    <2>1. CASE Fill BY <2>1, <1>1, Fill_Inv
    <2>2. CASE Wait BY <2>2, <1>1, Wait_Inv
    <2>3. CASE Return BY <2>3, <1>1, Return_Inv
    <2>4. CASE Copy BY <2>4, <1>1, Copy_Inv
    <2>5. CASE \E d \in Buffer, n \in Nat : \E cells \in [1 .. n -> Cell] : Call(d, n, cells)
      <3>1. PICK d \in Buffer, n \in Nat : \E cells \in [1 .. n -> Cell] : Call(d, n, cells)
        BY <2>5
      <3>2. PICK cells \in [1 .. n -> Cell] : Call(d, n, cells)
        BY <3>1
      <3> QED BY <3>2, <1>1, Call_Inv
    <2>6. CASE UNCHANGED uploadVars
      BY <2>6, <1>1 DEF uploadVars, UploadInv, Shape, Prefix, Pending, ChunkLength
    <2> QED BY <1>1, <2>1, <2>2, <2>3, <2>4, <2>5, <2>6 DEF UploadNext, Uploading
  <1>2. ASSUME UploadInv PROVE Uploaded
    BY <1>2 DEF UploadInv, Uploaded, Shape, IsFun
  <1> QED BY <1>1, <1>2, UploadInit_Inv, PTL DEF UploadSpec
===============================================================================
