------------------------------- MODULE GpuChain -------------------------------
(* The command streams of qk_engine (src/main.cpp): the step CBs recorded by  *)
(* open(), one per dispatch depth, and the CB that prefillBatchLast records   *)
(* for every batch, with the host calls that submit them.  A stream is a      *)
(* sequence of epochs; barriers separate epochs, the dispatches of one epoch  *)
(* run in any order.  An activation is the quantity and the layer it was      *)
(* computed for, right for its own row, or Stale; a state stripe is the token *)
(* history folded into it, or Bad.  Arithmetic and the choice among kernels   *)
(* that compute the same quantity are left out.                               *)
EXTENDS Naturals, Sequences, FiniteSets, SequencesExt

CONSTANTS
  NSlots, NCtx, MaxB,
  Layers,       \* Layer.rec: a sequence of "rec" (DeltaNet) and "attn"
  HQ,           \* query heads
  Chunk,        \* attnChunk
  GqaThreshold, \* attnGqaThreshold
  QB, Budget,   \* kQB, attnBudget: how prefillBatchLast tiles attention
  NExp, NUsed,
  Configs,      \* the flags open() reads, and where the layers are cut in two
  MaxCalls      \* bound: host operations

ASSUME GpuChainAssumption ==
  /\ {NSlots, NCtx, MaxB, HQ, Chunk, QB, Budget, NExp, NUsed} \subseteq Nat \ {0}
  /\ GqaThreshold \in Nat /\ MaxCalls \in Nat
  /\ HQ % 8 = 0  \* hQ is 16: groups of 2, 4 or 8 heads cover it
  /\ Layers \in Seq({"rec", "attn"}) /\ Layers # <<>>
  /\ \A c \in Configs : c.cut \in 0 .. Len(Layers) - 1 /\ c.group \in {1, 2, 4, 8}

VARIABLES
  cfg,      \* the configuration, fixed by open()
  active,   \* slots with a request (Slot.active)
  fed,      \* history: tokens each slot's request has been fed
  conv, scan,  \* Layer.st1, st2 of a DeltaNet layer: stripe -> history
  kv,       \* of an attention layer: slot -> position -> history
  carry,    \* bbCarry: layer -> history
  logits,   \* bbLogits: row -> history
  lastRows, \* lastRunRows
  indirect, \* attnIndirectMap: grid of the plain and of the grouped kernel
  todo,     \* submissions of the host operation still to make
  run,      \* the one being executed
  cb,       \* its epochs left
  mem,      \* the activation buffers: buffer -> row -> value
  part,     \* bAttScratch: row -> chunk -> layer
  hid,      \* hidden rows between two stages: position -> value
  out,      \* history: is each requested result the one of its row's history?
  lastHist, \* history: of the last row that went through the head
  calls

vars == <<cfg, active, fed, conv, scan, kv, carry, logits, lastRows, indirect, todo, run, cb,
          mem, part, hid, out, lastHist, calls>>
state == <<conv, scan, kv, carry>>

NL == Len(Layers)
Slot == 0 .. NSlots - 1
Scratch == NSlots                    \* the verify stripe
Pos == 0 .. NCtx - 1
SplitMax == (NCtx + Chunk - 1) \div Chunk
Rows == 0 .. (IF MaxB > NSlots THEN MaxB ELSE NSlots) - 1
Bad == <<MaxCalls + 1>>              \* a history of no request
Stale == <<"stale", 0>>
Ceil(a, b) == (a + b - 1) \div b
Least(a, b) == IF a < b THEN a ELSE b
Most(a, b) == IF a > b THEN a ELSE b

-------------------------------------------------------------------------------
(* The descriptor sets: what each dispatch reads and writes.                  *)

Kern(ins, outs, next) == [ins |-> ins, outs |-> outs, next |-> next]

\* Layer.s* and BLayer.s*: the two families differ in their buffers' names only.
Mixer ==
  [Rms   |-> Kern([Xin |-> "x"], [Xn |-> "xn"], 0),
   RP1   |-> Kern([Xn |-> "xn"], [Big |-> "qkv"], 0),
   RP2   |-> Kern([Xn |-> "xn"], [Mid |-> "z"], 0),
   Ab    |-> Kern([Xn |-> "xn"], [Gb |-> "gb"], 0),
   Conv  |-> Kern([Big |-> "qkv"], [ConvOut |-> "c"], 0),
   Step  |-> Kern([ConvOut |-> "c", Gb |-> "gb"], [O |-> "o"], 0),
   Gate  |-> Kern([O |-> "o", Mid |-> "z"], [Att |-> "a"], 0),
   StepGate |-> Kern([ConvOut |-> "c", Gb |-> "gb", Mid |-> "z"], [Att |-> "a"], 0),
   AP1   |-> Kern([Xn |-> "xn"], [Big |-> "qg"], 0),
   AP2   |-> Kern([Xn |-> "xn"], [Kin |-> "k"], 0),
   AP3   |-> Kern([Xn |-> "xn"], [Vin |-> "v"], 0),
   Prep  |-> Kern([Big |-> "qg", Kin |-> "k", Vin |-> "v"], [Mid |-> "q"], 0),
   AttnS |-> Kern([Mid |-> "q"], <<>>, 0),
   Attn  |-> Kern([Mid |-> "q", Big |-> "qg"], [Att |-> "a"], 0),
   AttnR |-> Kern([Big |-> "qg"], [Att |-> "a"], 0),
   Wo    |-> Kern([Att |-> "a"], [AttnOut |-> "ao"], 0)]

Moe ==
  [AddN  |-> Kern([Xin |-> "x", AttnOut |-> "ao"], [Y |-> "y", Xn2 |-> "xn2"], 0),
   \* add_rmsnorm_route also clears routeDone, which arms the router's last group
   AddNRoute |-> Kern([Xin |-> "x", AttnOut |-> "ao"],
                      [Y |-> "y", Xn2 |-> "xn2", Sel |-> "armed"], 0),
   MoeL  |-> Kern([Xn2 |-> "xn2"], [ML |-> "l"], 0),
   MoeRS |-> Kern([Xn2 |-> "xn2", Sel |-> "armed"], [ML |-> "l", Sel |-> "sel"], 0),
   MoeS  |-> Kern([ML |-> "l", Xn2 |-> "xn2"], [Sel |-> "sel"], 0),
   \* bMH holds the routed experts' rows and, behind them, the shared expert's
   MoeGUs |-> Kern([Xn2 |-> "xn2"], [MHs |-> "hs"], 0),
   MoeGU |-> Kern([Xn2 |-> "xn2", Sel |-> "sel"], [MH |-> "h"], 0),
   MoeDn |-> Kern([MH |-> "h", Sel |-> "sel"], [MY |-> "y1"], 0),
   MoeDns |-> Kern([MHs |-> "hs", Sel |-> "sel"], [MY2 |-> "y2"], 0),
   Pairs |-> Kern([Sel |-> "sel"], [Pairs |-> "p"], 0),
   GUGroup |-> Kern([Xn2 |-> "xn2", Pairs |-> "p"], [MH |-> "h"], 0),
   DnGroup |-> Kern([MH |-> "h", Sel |-> "sel", Pairs |-> "p"], [Contrib |-> "y1"], 0)]

\* The tails: the sum and the next layer's norm, the head, the ends of a stage.
\* The last layer of a stage that is not the last norms with zeros.
Tails ==
  LET sum == [Y |-> "y", MY |-> "y1", MY2 |-> "y2"]
      sumGroup == [Y |-> "y", Contrib |-> "y1", MY2 |-> "y2"]
      next(q) == [Xin |-> "x", Xn |-> q] IN
  [Add3      |-> Kern(sum, next("xn"), 1),
   Add3Group |-> Kern(sumGroup, next("xn"), 1),
   Add3Cut      |-> Kern(sum, next("dead"), 1),
   Add3GroupCut |-> Kern(sumGroup, next("dead"), 1),
   Seed   |-> Kern(<<>>, <<>>, 0),
   Emb    |-> Kern(<<>>, [Xin |-> "x"], 0),
   HidIn  |-> Kern(<<>>, [Xin |-> "x"], 0),
   HidOut |-> Kern([Xin |-> "x"], <<>>, 0),
   Head |-> Kern([Xn |-> "xn"], [Logits |-> "lg"], 0),
   Am1  |-> Kern([Logits |-> "lg"], [AV |-> "av"], 0),
   Am2  |-> Kern([AV |-> "av"], [Tok |-> "t"], 0),
   Copy |-> Kern([Tok |-> "t"], [Samp |-> "t"], 0)]

Kernel == [k \in DOMAIN Mixer \cup DOMAIN Moe \cup DOMAIN Tails |->
            IF k \in DOMAIN Mixer THEN Mixer[k] ELSE IF k \in DOMAIN Moe THEN Moe[k] ELSE Tails[k]]
Buffers == UNION {DOMAIN Kernel[k].outs : k \in DOMAIN Kernel}
Fresh == [b \in Buffers |-> [i \in Rows |-> Stale]]

-------------------------------------------------------------------------------
(* The streams.                                                               *)

D(k, l, rows) == [k |-> k, l |-> l, rows |-> rows]
\* A split-K attention dispatch: its rows, its chunks and the heads it covers.
DSplit(l, rows, chunks, heads) ==
  [k |-> "AttnS", l |-> l, rows |-> rows, chunks |-> chunks, heads |-> heads]
DIndirect(l, grid, group) == [k |-> "Indirect", l |-> l, grid |-> grid, group |-> group]

RecLayer(l, rows, stepGate) ==
  <<{D("RP1", l, rows), D("RP2", l, rows), D("Ab", l, rows)}, {D("Conv", l, rows)}>>
  \o (IF stepGate THEN <<{D("StepGate", l, rows)}>>
      ELSE <<{D("Step", l, rows)}, {D("Gate", l, rows)}>>)
  \o <<{D("Wo", l, rows)}>>

\* Mutant of AttnProj: no barrier between the projections and the rope.
AttnProjNoBarrier(l, rows) ==
  <<{D("AP1", l, rows), D("AP2", l, rows), D("AP3", l, rows), D("Prep", l, rows)}>>

AttnProj(l, rows) ==
  <<{D("AP1", l, rows), D("AP2", l, rows), D("AP3", l, rows)}, {D("Prep", l, rows)}>>

\* Attention of a step CB: the grid of split-K is fixed, or read when it runs.
SerialAttn(l, rows) ==
  AttnProj(l, rows)
  \o (IF ~cfg.splitK THEN <<{D("Attn", l, rows)}>>
      ELSE << IF cfg.live /\ cfg.auto
              THEN {DIndirect(l, 1, 1), DIndirect(l, 2, 4)}
              ELSE IF cfg.live THEN {DIndirect(l, 1, cfg.group)}
              ELSE {DSplit(l, rows, 0 .. SplitMax - 1, (HQ \div cfg.group) * cfg.group)},
              {D("AttnR", l, rows)} >>)
  \o <<{D("Wo", l, rows)}>>

\* The tail of a layer of a step CB (never the last of an inner stage).
SerialMoe(l, rows) ==
  (IF cfg.fused
   THEN <<{D("AddNRoute", l, rows)}, {D("MoeRS", l, rows), D("MoeGUs", l, rows)}>>
   ELSE <<{D("AddN", l, rows)}, {D("MoeL", l, rows), D("MoeGUs", l, rows)},
          {D("MoeS", l, rows)}>>)
  \o <<{D("MoeGU", l, rows)}, {D("MoeDn", l, rows), D("MoeDns", l, rows)},
       {D("Add3", l, rows)}>>

HeadAndArgmax(rows) ==
  <<{D("Head", NL + 1, rows)}, {D("Am1", NL + 1, rows)}, {D("Am2", NL + 1, rows)},
    {D("Copy", NL + 1, rows)}>>

\* stepCBs[z - 1].
StepCB(z) ==
  LET rows == 0 .. z - 1
      layer(l) == (IF Layers[l] = "rec" THEN RecLayer(l, rows, cfg.stepGate)
                   ELSE SerialAttn(l, rows)) \o SerialMoe(l, rows) IN
  <<{D("Emb", 1, rows)}, {D("Rms", 1, rows)}>>
  \o FlattenSeq([l \in 1 .. NL |-> layer(l)]) \o HeadAndArgmax(rows)

\* Queries per attention dispatch of a batch.
QueryTile(base, n) ==
  LET qt == Least(Most(1, Budget \div (base + n)), n) IN Most(QB, qt - (qt % QB))

\* One flushed dispatch per tile; its z counts query blocks from qbase on.
Tiles(l, base, n) ==
  LET qt == QueryTile(base, n)
      tile(t) == LET qo == (t - 1) * qt
                     blocks == Ceil(Least(qt, n - qo), QB) IN
                 {D("Attn", l, qo .. Least(n, qo + blocks * QB) - 1)} IN
  [t \in 1 .. Ceil(n, qt) |-> tile(t)]

\* liveSplits: the chunks that hold any of len positions.
LiveSplits(len) == Least(SplitMax, Ceil(len, Chunk))

BatchAttn(l, base, n) ==
  AttnProj(l, 0 .. n - 1)
  \o (IF cfg.splitK /\ n = 1
      THEN LET group == IF cfg.auto /\ base + 1 >= GqaThreshold THEN 4 ELSE cfg.group
               splits == IF cfg.live THEN LiveSplits(base + 1) ELSE SplitMax IN
           <<{DSplit(l, {0}, 0 .. splits - 1, (HQ \div group) * group)},
             {D("AttnR", l, {0})}>>
      ELSE Tiles(l, base, n))
  \o <<{D("Wo", l, 0 .. n - 1)}>>

\* Which sum closes a batch layer: of bbMContrib or bbMY, before a norm or none.
SumOf(groupDown, cut) ==
  IF groupDown THEN IF cut THEN "Add3GroupCut" ELSE "Add3Group"
  ELSE IF cut THEN "Add3Cut" ELSE "Add3"

\* The MoE half of a batch layer.  Routing is fused for a single row only;
\* grouping by expert needs enough (row, expert) pairs.
BatchMoe(l, n, cut) ==
  LET rows == 0 .. n - 1
      fuse == cfg.fused /\ n = 1
      eligible == n * NUsed >= NExp
      groupGu == eligible /\ cfg.groupGu
      groupDown == eligible /\ cfg.groupDown IN
  (IF fuse THEN <<{D("AddNRoute", l, rows)}, {D("MoeRS", l, rows), D("MoeGUs", l, rows)}>>
   ELSE <<{D("AddN", l, rows)}, {D("MoeL", l, rows), D("MoeGUs", l, rows)},
          {D("MoeS", l, rows)}>>)
  \o (IF groupGu \/ groupDown THEN <<{D("Pairs", l, rows)}>> ELSE <<>>)
  \o <<{D(IF groupGu THEN "GUGroup" ELSE "MoeGU", l, rows)},
       {D(IF groupDown THEN "DnGroup" ELSE "MoeDn", l, rows), D("MoeDns", l, rows)},
       {D(SumOf(groupDown, cut), l, rows)}>>

\* The CB of prefillBatchLast for call r.
BatchCB(r) ==
  LET n == Cardinality(DOMAIN r.rows)
      rows == 0 .. n - 1
      base == Len(r.rows[0]) - 1
      seed == D("Seed", 0, {})
      layer(l) == (IF Layers[l] = "rec" THEN RecLayer(l, rows, cfg.stepGate /\ n = 1)
                   ELSE BatchAttn(l, base, n))
                  \o BatchMoe(l, n, l = r.last /\ l < NL) IN
  (IF r.first = 1 THEN <<{seed}, {D("Emb", 1, rows)}>>
   ELSE <<{seed, D("HidIn", r.first, rows)}>>)
  \o <<{D("Rms", r.first, rows)}>>
  \o FlattenSeq([j \in 1 .. r.last - r.first + 1 |-> layer(r.first + j - 1)])
  \o (IF r.last < NL THEN <<{D("HidOut", r.last + 1, rows)}>>
      ELSE CASE r.want = "ids"    -> HeadAndArgmax(rows)
             [] r.want = "logits" -> <<{D("Head", NL + 1, rows)}>>
             [] r.want = "none"   -> <<>>)

-------------------------------------------------------------------------------
(* Execution.                                                                 *)

Idle == [kind |-> "idle"]
Serial == run.kind = "serial"
R == run.rows                        \* row -> history, its own token included
At(i) == Len(R[i]) - 1               \* position
First(i) == IF Serial THEN i ELSE 0  \* first row of i's sequence
SlotOf(i) == IF Serial THEN i ELSE run.slot

\* Mutant of Stripe: the verify round runs on the live stripe.
StripeLive(i) == SlotOf(i)

\* The stripe the recurrent sets are bound to: dnStripe, or the lane's own.
Stripe(i) == IF Serial THEN i ELSE run.stripe

Inputs(d, i) == \A b \in DOMAIN Kernel[d.k].ins : mem[b][i] = <<Kernel[d.k].ins[b], d.l>>
\* The recurrence starts from the history before the first row and takes every row.
Folded(before, d, i) ==
  before = Front(R[First(i)]) /\ \A j \in First(i) .. i : Inputs(d, j)
Keys(l, i, ps) == \A p \in ps : kv[l][SlotOf(i)][p] = SubSeq(R[i], 1, p + 1)

\* Does dispatch d compute row i from what it should?
Good(d, i) ==
  CASE d.k = "Conv"  -> Folded(IF Serial THEN conv[d.l][i] ELSE carry[d.l], d, i)
    [] d.k \in {"Step", "StepGate"} -> Folded(scan[d.l][Stripe(i)], d, i)
    [] d.k = "Attn"  -> Inputs(d, i) /\ Keys(d.l, i, 0 .. At(i))
    [] d.k = "AttnR" -> Inputs(d, i) /\ \A p \in 0 .. At(i) : part[i][p \div Chunk] = d.l
    [] d.k = "HidIn" -> hid[At(i)] = <<"x", d.l>>
    [] OTHER -> Inputs(d, i)

\* What an indirect dispatch launches: the grid is read when it runs.
Resolve(d) ==
  IF d.k # "Indirect" THEN d
  ELSE LET g == indirect[d.grid] IN
       DSplit(d.l, (0 .. g.z - 1) \cap DOMAIN R, 0 .. g.x - 1, g.y * d.group)

Ran == {Resolve(d) : d \in Head(cb)}
RanOf(ks) == {d \in Ran : d.k \in ks}
NewMem ==
  [b \in Buffers |->
    LET writers == {d \in Ran : b \in DOMAIN Kernel[d.k].outs} IN
    IF writers = {} THEN mem[b]
    ELSE LET d == CHOOSE d \in writers : TRUE IN
         [i \in Rows |-> IF i \notin d.rows THEN mem[b][i]
                         ELSE IF Good(d, i)
                              THEN <<Kernel[d.k].outs[b], d.l + Kernel[d.k].next>> ELSE Stale]]

\* What is left of old where dispatch d stores the one of its rows that is in rs.
Stored(d, rs, old) ==
  IF rs = {} THEN old
  ELSE LET i == CHOOSE i \in rs : TRUE IN IF Good(d, i) THEN R[i] ELSE Bad

\* A stripe keeps the history of the last row folded into it, a position its row's.
LastInto(s) == {i \in DOMAIN R : (Serial \/ i + 1 \notin DOMAIN R) /\ Stripe(i) = s}
RowsAt(s, p) == {i \in DOMAIN R : SlotOf(i) = s /\ At(i) = p}
NewStripes(f, ks) ==
  IF RanOf(ks) = {} THEN f
  ELSE LET d == CHOOSE d \in RanOf(ks) : TRUE IN
       [f EXCEPT ![d.l] = [s \in 0 .. NSlots |-> Stored(d, LastInto(s), f[d.l][s])]]
NewKeys ==
  IF RanOf({"Prep"}) = {} THEN kv
  ELSE LET d == CHOOSE d \in RanOf({"Prep"}) : TRUE IN
       [kv EXCEPT ![d.l] = [s \in Slot |-> [p \in Pos |-> Stored(d, RowsAt(s, p), kv[d.l][s][p])]]]
NewPart ==
  IF RanOf({"AttnS"}) = {} THEN part
  ELSE [i \in Rows |-> [c \in 0 .. SplitMax - 1 |->
    LET by == {d \in RanOf({"AttnS"}) : i \in d.rows /\ c \in d.chunks} IN
    IF by = {} \/ c * Chunk > At(i) THEN part[i][c]
    ELSE LET d == CHOOSE d \in by : TRUE IN
         IF d.heads >= HQ /\ Good(d, i)
            /\ Keys(d.l, i, c * Chunk .. Least(At(i), (c + 1) * Chunk - 1))
         THEN d.l ELSE 0]]

\* Mutant of NewCarry: a continued batch convolves from an empty window as well.
NewCarryZero == [l \in 1 .. NL |-> <<>>]

\* bbCarry: zero, or the live conv window, of a batch's DeltaNet layers.
NewCarry ==
  [l \in 1 .. NL |-> IF Len(R[0]) = 1 THEN <<>>
                     ELSE IF Layers[l] = "rec" /\ l \in run.first .. run.last
                          THEN conv[l][run.slot] ELSE carry[l]]

\* The next epoch of the stream runs.
Epoch ==
  /\ run # Idle /\ cb # <<>>
  /\ mem' = NewMem /\ part' = NewPart
  /\ conv' = NewStripes(conv, {"Conv"}) /\ scan' = NewStripes(scan, {"Step", "StepGate"})
  /\ kv' = NewKeys
  /\ carry' = IF RanOf({"Seed"}) # {} THEN NewCarry ELSE carry
  /\ hid' = IF RanOf({"HidOut"}) # {}
            THEN [p \in Pos |-> IF \E i \in DOMAIN R : At(i) = p
                                THEN mem["Xin"][CHOOSE i \in DOMAIN R : At(i) = p] ELSE hid[p]]
            ELSE hid
  /\ cb' = Tail(cb)
  /\ UNCHANGED <<cfg, active, fed, logits, lastRows, indirect, todo, run, out, lastHist, calls>>

-------------------------------------------------------------------------------
(* Host calls.                                                                *)

Grid(x, y, z) == [x |-> x, y |-> y, z |-> z]
Zero == [s \in 0 .. NSlots |-> <<>>]
NoPart == [i \in Rows |-> [c \in 0 .. SplitMax - 1 |-> 0]]
NoHid == [p \in Pos |-> Stale]

ResetCall(s) == [kind |-> "reset", slot |-> s, first |-> 1, last |-> NL]
CopyCall(from, to) == [kind |-> "copy", from |-> from, to |-> to]
\* prefillBatchLast of toks after history h.
BatchCall(by, s, stripe, h, toks, want, first, last) ==
  [kind |-> "batch", by |-> by, slot |-> s, stripe |-> stripe, want |-> want,
   first |-> first, last |-> last,
   rows |-> [i \in 0 .. Len(toks) - 1 |-> h \o SubSeq(toks, 1, i + 1)]]
\* A step CB over the lanes of rows; fill: does the caller write the live grids?
StepCall(by, rows, asked, fill) ==
  [kind |-> "serial", by |-> by, rows |-> rows, asked |-> asked, fill |-> fill]

\* A run of toks in batches of at most MaxB.
Batches(by, s, h, toks, want, first, last) ==
  [k \in 1 .. Ceil(Len(toks), MaxB) |->
    LET off == (k - 1) * MaxB IN
    BatchCall(by, s, s, h \o SubSeq(toks, 1, off),
              SubSeq(toks, off + 1, Least(off + MaxB, Len(toks))), want, first, last)]

Stages == IF cfg.cut = 0 THEN <<<<1, NL>>>> ELSE <<<<1, cfg.cut>>, <<cfg.cut + 1, NL>>>>
\* Operation number k feeds token k, which tells their histories apart; idle
\* lanes are fed token 0.
Token == calls + 1
Run(n) == [j \in 1 .. n |-> Token]

\* resetSlot: the layers of call c are zeroed at its slot.
Reset(c) ==
  LET own(l) == l \in c.first .. c.last IN
  /\ conv' = [l \in 1 .. NL |-> IF own(l) THEN [conv[l] EXCEPT ![c.slot] = <<>>] ELSE conv[l]]
  /\ scan' = [l \in 1 .. NL |-> IF own(l) THEN [scan[l] EXCEPT ![c.slot] = <<>>] ELSE scan[l]]
  /\ kv' = [l \in 1 .. NL |-> IF own(l) THEN [kv[l] EXCEPT ![c.slot] = [p \in Pos |-> <<>>]]
                              ELSE kv[l]]
  /\ UNCHANGED carry

\* copyDnStripes: of the DeltaNet layers only.
CopyDnStripes(c) ==
  LET copied(f) == [l \in 1 .. NL |->
        IF Layers[l] = "rec" THEN [f[l] EXCEPT ![c.to] = f[l][c.from]] ELSE f[l]] IN
  /\ conv' = copied(conv) /\ scan' = copied(scan)
  /\ UNCHANGED <<kv, carry>>

\* attnIndirectMap as stepChunk writes it for z lanes, the longest of len positions.
LiveGrids(z, len) ==
  LET grouped == cfg.auto /\ len >= GqaThreshold
      splits == LiveSplits(len) IN
  <<Grid(IF grouped THEN 0 ELSE splits, HQ \div (IF cfg.auto THEN 1 ELSE cfg.group), z),
    Grid(IF grouped THEN splits ELSE 0, HQ \div 4, z)>>

\* The next submission: transfers run at once, a CB is recorded and submitted.
Submit ==
  /\ run = Idle /\ todo # <<>>
  /\ LET c == Head(todo) IN
     /\ CASE c.kind = "reset" -> Reset(c) /\ UNCHANGED <<run, cb, indirect>>
          [] c.kind = "copy"  -> CopyDnStripes(c) /\ UNCHANGED <<run, cb, indirect>>
          [] c.kind = "batch" ->
               /\ IF Len(c.rows[0]) = 1 THEN Reset(c) ELSE UNCHANGED state
               /\ run' = c /\ cb' = BatchCB(c) /\ UNCHANGED indirect
          [] c.kind = "serial" ->
               /\ run' = c /\ cb' = StepCB(Cardinality(DOMAIN c.rows)) /\ UNCHANGED state
               /\ indirect' = IF cfg.live /\ c.fill
                    THEN LiveGrids(Cardinality(DOMAIN c.rows),
                                   CHOOSE m \in {Len(c.rows[s]) : s \in c.asked} :
                                     \A s \in c.asked : Len(c.rows[s]) <= m)
                    ELSE indirect
  /\ todo' = Tail(todo)
  /\ UNCHANGED <<cfg, active, fed, logits, lastRows, mem, part, hid, out, lastHist, calls>>

\* waitIdle returned: the host reads the results it asked for.
Finish ==
  /\ run # Idle /\ cb = <<>>
  /\ LET n == Cardinality(DOMAIN R)
         batch == run.kind = "batch"
         head == batch /\ run.last = NL /\ run.want # "none"
         asked == IF ~batch THEN run.asked ELSE IF ~head THEN {}
                  ELSE IF run.want = "ids" THEN DOMAIN R ELSE {n - 1}
         exact == IF head /\ run.want = "logits" THEN mem["Logits"][n - 1] = <<"lg", NL + 1>>
                  ELSE \A i \in asked : mem["Samp"][i] = <<"t", NL + 1>> IN
     /\ out' = [by |-> run.by, exact |-> exact]
     /\ lastRows' = IF head THEN n ELSE lastRows
     /\ lastHist' = IF head THEN R[n - 1] ELSE lastHist
     /\ logits' = IF head THEN [i \in Rows |->
                    IF i \notin DOMAIN R THEN logits[i]
                    ELSE IF mem["Logits"][i] = <<"lg", NL + 1>> THEN R[i] ELSE Bad]
                  ELSE logits
  /\ run' = Idle /\ mem' = Fresh /\ part' = NoPart
  /\ UNCHANGED <<cfg, active, fed, state, indirect, todo, cb, hid, calls>>

Host == run = Idle /\ todo = <<>> /\ calls < MaxCalls
Op(cs, act, h) ==
  /\ todo' = cs /\ active' = act /\ fed' = h /\ hid' = NoHid /\ calls' = calls + 1
  /\ UNCHANGED <<cfg, state, logits, lastRows, indirect, run, cb, mem, part, out, lastHist>>

\* Mutant of Fits: the bound is looked at before the rows are added.
FitsLater(h, n) == Len(h) < NCtx

\* prefillBatchLast's bound on the positions of a slot.
Fits(h, n) == Len(h) + n <= NCtx

\* qk_slot_start without batching: a cleared slot, to be prefilled step by step.
Admit(s) ==
  /\ Host /\ cfg.cut = 0 /\ s \notin active
  /\ Op(<<ResetCall(s)>>, active \cup {s}, [fed EXCEPT ![s] = <<>>])

\* qk_slot_start's batch prefill, or a further piece of one; prefillcmp asks for
\* the logits of a whole prompt.
Prefill(s, n, want) ==
  LET h == IF s \in active THEN fed[s] ELSE <<>> IN
  /\ Host /\ cfg.cut = 0 /\ Fits(h, n)
  /\ want = "logits" => h = <<>>
  /\ Op(Batches("prefill", s, h, Run(n), want, 1, NL), active \cup {s},
        [fed EXCEPT ![s] = h \o Run(n)])

\* One submission of stepChunk: every active slot is fed a token, the lanes of
\* idle slots below the highest active one run on token 0 at position 0.
Step ==
  /\ Host /\ cfg.cut = 0 /\ active # {} /\ \A s \in active : Len(fed[s]) < NCtx
  /\ LET z == (CHOOSE s \in active : \A o \in active : o <= s) + 1
         row(s) == IF s \in active THEN Append(fed[s], Token) ELSE <<0>> IN
     Op(<<StepCall("step", [s \in 0 .. z - 1 |-> row(s)], active, TRUE)>>, active,
        [s \in Slot |-> IF s \in active THEN row(s) ELSE fed[s]])

\* A speculative round: verifyRound on n drafts of which k are accepted, then
\* promoteScratch or the commit pass.
Verify(s, n, k) ==
  LET h == fed[s]
      verify == BatchCall("verify", s, Scratch, h, Run(n), "ids", 1, NL)
      commit == BatchCall("commit", s, s, h, Run(k), "none", 1, NL) IN
  /\ Host /\ cfg.cut = 0 /\ active = {s} /\ h # <<>>
  /\ 2 <= n /\ n <= MaxB /\ 1 <= k /\ k <= n /\ Fits(h, n)
  /\ Op(<<CopyCall(s, Scratch), verify>>
          \o (IF k = n THEN <<CopyCall(Scratch, s)>> ELSE <<commit>>),
        active, [fed EXCEPT ![s] = h \o Run(k)])

\* qk_stage_run through all stages: the rows of one stage are the next one's input.
StageRun(s, fresh, n) ==
  LET h == IF fresh THEN <<>> ELSE fed[s] IN
  /\ Host /\ (fresh \/ s \in active) /\ Fits(h, n)
  /\ Op(FlattenSeq([k \in 1 .. Len(Stages) |->
          Batches("stage", s, h, Run(n), "ids", Stages[k][1], Stages[k][2])]),
        active \cup {s}, [fed EXCEPT ![s] = h \o Run(n)])

\* Mutant of TopKRow: the last row of the widest batch.
TopKRowWidest == MaxB - 1

TopKRow == lastRows - 1

\* stageTopK: candidates from the final row of the last run.
StageTopK ==
  /\ run = Idle /\ todo = <<>> /\ lastRows > 0
  /\ out' = [by |-> "topk", exact |-> logits[TopKRow] = lastHist]
  /\ UNCHANGED <<cfg, active, fed, state, logits, lastRows, indirect, todo, run, cb, mem, part,
                 hid, lastHist, calls>>

\* serialPrefillLogits: n single steps of slot s, every other lane on token 0.
SerialPrefillLogits(s, n) ==
  LET rows(j) == [x \in 0 .. s |-> IF x = s THEN Run(j) ELSE <<0>>] IN
  /\ Host /\ cfg.cut = 0 /\ n <= NCtx /\ s \notin active /\ \A x \in active : x > s
  /\ Op(<<ResetCall(s)>> \o [j \in 1 .. n |-> StepCall("serialPrefillLogits", rows(j), {s}, FALSE)],
        active, fed)

\* The request of slot s ends.
Release(s) ==
  /\ Host /\ s \in active
  /\ active' = active \ {s}
  /\ UNCHANGED <<cfg, fed, state, logits, lastRows, indirect, todo, run, cb, mem, part, hid, out,
                 lastHist, calls>>

Init ==
  /\ cfg \in Configs
  /\ active = {} /\ fed = [s \in Slot |-> <<>>]
  /\ conv = [l \in 1 .. NL |-> Zero] /\ scan = [l \in 1 .. NL |-> Zero]
  /\ kv = [l \in 1 .. NL |-> [s \in Slot |-> [p \in Pos |-> <<>>]]]
  /\ carry = [l \in 1 .. NL |-> <<>>]
  /\ logits = [i \in Rows |-> Bad] /\ lastRows = 0 /\ lastHist = <<>>
  /\ indirect = <<Grid(SplitMax, HQ, 1), Grid(0, HQ \div 4, 1)>>
  /\ todo = <<>> /\ run = Idle /\ cb = <<>> /\ mem = Fresh /\ part = NoPart /\ hid = NoHid
  /\ out = [by |-> "none", exact |-> TRUE] /\ calls = 0

Next ==
  \/ Submit \/ Epoch \/ Finish \/ StageTopK \/ Step
  \/ \E s \in Slot : Admit(s) \/ Release(s)
  \/ \E s \in Slot, n \in 1 .. NCtx :
       \/ \E want \in {"none", "logits"} : Prefill(s, n, want)
       \/ \E k \in 1 .. n : Verify(s, n, k)
       \/ \E fresh \in BOOLEAN : StageRun(s, fresh, n)
       \/ SerialPrefillLogits(s, n)

Spec == Init /\ [][Next]_vars

-------------------------------------------------------------------------------
(* Properties.                                                                *)

\* Type invariant of the host's view and of the state stripes.
TypeOK ==
  /\ cfg \in Configs /\ active \subseteq Slot /\ calls \in 0 .. MaxCalls
  /\ \A l \in 1 .. NL : DOMAIN conv[l] = 0 .. NSlots /\ DOMAIN kv[l] = Slot
  /\ \A s \in Slot : Len(fed[s]) <= NCtx
  /\ lastRows \in 0 .. MaxB /\ run.kind \in {"idle", "batch", "serial"}
  /\ out.exact \in BOOLEAN /\ DOMAIN mem = Buffers

StateReads(d) ==
  CASE d.k = "Conv" -> {IF Serial THEN "conv" ELSE "carry"}
    [] d.k \in {"Step", "StepGate"} -> {"scan"}
    [] d.k = "Seed" -> {"conv"}
    [] d.k = "Attn" -> {"kv"}
    [] d.k = "AttnS" -> IF d.chunks = {} THEN {} ELSE {"kv"}
    [] d.k = "AttnR" -> {"part"}
    [] OTHER -> {}
StateWrites(d) ==
  CASE d.k = "Conv" -> {"conv"}
    [] d.k \in {"Step", "StepGate"} -> {"scan"}
    [] d.k = "Seed" -> {"carry"}
    [] d.k = "Prep" -> {"kv"}
    [] d.k = "AttnS" -> IF d.chunks = {} THEN {} ELSE {"part"}
    [] OTHER -> {}
Reads(d) == DOMAIN Kernel[d.k].ins \cup StateReads(d)
Writes(d) == DOMAIN Kernel[d.k].outs \cup StateWrites(d)

\* What is between two barriers may run in any order: no dispatch touches what
\* another one of its epoch writes.  open() and prefillBatchLast place the
\* barriers by hand, differently for every combination of the flags.
RaceFree ==
  run # Idle /\ cb # <<>> =>
    \A d, e \in Ran : d # e => Writes(d) \cap (Reads(e) \cup Writes(e)) = {}

Holds(s, h) ==
  \A l \in 1 .. NL :
    IF Layers[l] = "rec" THEN conv[l][s] = h /\ scan[l][s] = h
    ELSE \A p \in 0 .. Len(h) - 1 : kv[l][s][p] = SubSeq(h, 1, p + 1)

\* "Leaves the slot's state exactly as n serial steps would" (prefillBatchLast):
\* whatever mix of batches, verify rounds, steps and stages fed a request, and
\* whatever ran on the other slots, every layer holds that request's history.
StateAsSerial == run = Idle /\ todo = <<>> => \A s \in active : Holds(s, fed[s])

\* A verify round leaves the live state at its base until it is promoted or
\* committed, so that rejected drafts leave no trace in it.
VerifyKeepsLive ==
  run # Idle /\ run.kind = "batch" /\ run.stripe = Scratch =>
    Holds(run.slot, Front(run.rows[0]))

\* Every id or logit row handed to the host was computed from the whole history
\* of its row, layer by layer, under every combination of the flags, in one
\* engine or through two stages.  serialPrefillLogits under live dispatch is
\* the exception: it does not write the grids.
OutputsExact == out.exact \/ (out.by = "serialPrefillLogits" /\ cfg.live)
===============================================================================
