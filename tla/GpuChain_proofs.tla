---------------------------- MODULE GpuChain_proofs ----------------------------
(* Proofs about GpuChain: no two dispatches between two barriers touch what    *)
(* the other writes; whichever calls fed a request, the state is the one that  *)
(* single steps leave; and every result is of its row's whole history: for any *)
(* layers, slots, batches and flags.                                           *)
EXTENDS GpuChain, SequenceLemmas, FiniteSetTheorems, TLAPS

-------------------------------------------------------------------------------
(* The kernels and what they touch.                                           *)

MixerNames == {"Rms", "RP1", "RP2", "Ab", "Conv", "Step", "Gate", "StepGate", "AP1", "AP2",
               "AP3", "Prep", "AttnS", "Attn", "AttnR", "Wo"}
MoeNames == {"AddN", "AddNRoute", "MoeL", "MoeRS", "MoeS", "MoeGUs", "MoeGU", "MoeDn",
             "MoeDns", "Pairs", "GUGroup", "DnGroup"}
TailNames == {"Add3", "Add3Group", "Add3Cut", "Add3GroupCut", "Seed", "Emb", "HidIn",
              "HidOut", "Head", "Am1", "Am2", "Copy"}
Names == MixerNames \cup MoeNames \cup TailNames

\* Each kernel is found in its part of the table.
LEMMA KernelFound ==
  /\ \A k \in MixerNames : Kernel[k] = Mixer[k]
  /\ \A k \in MoeNames : Kernel[k] = Moe[k]
  /\ \A k \in TailNames : Kernel[k] = Tails[k]
  /\ DOMAIN Kernel = Names
<1>1. DOMAIN Mixer = MixerNames /\ DOMAIN Moe = MoeNames /\ DOMAIN Tails = TailNames
  BY DEF Mixer, Moe, Tails, MixerNames, MoeNames, TailNames
<1>2. \A k \in MoeNames : k \notin MixerNames
  BY DEF MixerNames, MoeNames
<1>3. \A k \in TailNames : k \notin MixerNames /\ k \notin MoeNames
  BY DEF MixerNames, MoeNames, TailNames
<1>. QED  BY <1>1, <1>2, <1>3 DEF Kernel, Names

LEMMA MixerTable ==
  /\ Kernel["Rms"] = Kern([Xin |-> "x"], [Xn |-> "xn"], 0)
  /\ Kernel["RP1"] = Kern([Xn |-> "xn"], [Big |-> "qkv"], 0)
  /\ Kernel["RP2"] = Kern([Xn |-> "xn"], [Mid |-> "z"], 0)
  /\ Kernel["Ab"] = Kern([Xn |-> "xn"], [Gb |-> "gb"], 0)
  /\ Kernel["Conv"] = Kern([Big |-> "qkv"], [ConvOut |-> "c"], 0)
  /\ Kernel["Step"] = Kern([ConvOut |-> "c", Gb |-> "gb"], [O |-> "o"], 0)
  /\ Kernel["Gate"] = Kern([O |-> "o", Mid |-> "z"], [Att |-> "a"], 0)
  /\ Kernel["StepGate"] = Kern([ConvOut |-> "c", Gb |-> "gb", Mid |-> "z"],
                               [Att |-> "a"], 0)
  /\ Kernel["AP1"] = Kern([Xn |-> "xn"], [Big |-> "qg"], 0)
  /\ Kernel["AP2"] = Kern([Xn |-> "xn"], [Kin |-> "k"], 0)
  /\ Kernel["AP3"] = Kern([Xn |-> "xn"], [Vin |-> "v"], 0)
  /\ Kernel["Prep"] = Kern([Big |-> "qg", Kin |-> "k", Vin |-> "v"],
                           [Mid |-> "q"], 0)
  /\ Kernel["AttnS"] = Kern([Mid |-> "q"], <<>>, 0)
  /\ Kernel["Attn"] = Kern([Mid |-> "q", Big |-> "qg"], [Att |-> "a"], 0)
  /\ Kernel["AttnR"] = Kern([Big |-> "qg"], [Att |-> "a"], 0)
  /\ Kernel["Wo"] = Kern([Att |-> "a"], [AttnOut |-> "ao"], 0)
BY KernelFound DEF MixerNames, Mixer

LEMMA MoeTable ==
  /\ Kernel["AddN"] = Kern([Xin |-> "x", AttnOut |-> "ao"],
                           [Y |-> "y", Xn2 |-> "xn2"], 0)
  /\ Kernel["AddNRoute"] = Kern([Xin |-> "x", AttnOut |-> "ao"],
                                [Y |-> "y", Xn2 |-> "xn2", Sel |-> "armed"], 0)
  /\ Kernel["MoeL"] = Kern([Xn2 |-> "xn2"], [ML |-> "l"], 0)
  /\ Kernel["MoeRS"] = Kern([Xn2 |-> "xn2", Sel |-> "armed"],
                            [ML |-> "l", Sel |-> "sel"], 0)
  /\ Kernel["MoeS"] = Kern([ML |-> "l", Xn2 |-> "xn2"], [Sel |-> "sel"], 0)
  /\ Kernel["MoeGUs"] = Kern([Xn2 |-> "xn2"], [MHs |-> "hs"], 0)
  /\ Kernel["MoeGU"] = Kern([Xn2 |-> "xn2", Sel |-> "sel"], [MH |-> "h"], 0)
  /\ Kernel["MoeDn"] = Kern([MH |-> "h", Sel |-> "sel"], [MY |-> "y1"], 0)
  /\ Kernel["MoeDns"] = Kern([MHs |-> "hs", Sel |-> "sel"], [MY2 |-> "y2"], 0)
  /\ Kernel["Pairs"] = Kern([Sel |-> "sel"], [Pairs |-> "p"], 0)
  /\ Kernel["GUGroup"] = Kern([Xn2 |-> "xn2", Pairs |-> "p"], [MH |-> "h"], 0)
  /\ Kernel["DnGroup"] = Kern([MH |-> "h", Sel |-> "sel", Pairs |-> "p"],
                              [Contrib |-> "y1"], 0)
BY KernelFound DEF MoeNames, Moe

LEMMA TailsTable ==
  /\ Kernel["Add3"] = Kern([Y |-> "y", MY |-> "y1", MY2 |-> "y2"],
                           [Xin |-> "x", Xn |-> "xn"], 1)
  /\ Kernel["Add3Group"] = Kern([Y |-> "y", Contrib |-> "y1", MY2 |-> "y2"],
                                [Xin |-> "x", Xn |-> "xn"], 1)
  /\ Kernel["Add3Cut"] = Kern([Y |-> "y", MY |-> "y1", MY2 |-> "y2"],
                              [Xin |-> "x", Xn |-> "dead"], 1)
  /\ Kernel["Add3GroupCut"] = Kern([Y |-> "y", Contrib |-> "y1", MY2 |-> "y2"],
                                   [Xin |-> "x", Xn |-> "dead"], 1)
  /\ Kernel["Seed"] = Kern(<<>>, <<>>, 0)
  /\ Kernel["Emb"] = Kern(<<>>, [Xin |-> "x"], 0)
  /\ Kernel["HidIn"] = Kern(<<>>, [Xin |-> "x"], 0)
  /\ Kernel["HidOut"] = Kern([Xin |-> "x"], <<>>, 0)
  /\ Kernel["Head"] = Kern([Xn |-> "xn"], [Logits |-> "lg"], 0)
  /\ Kernel["Am1"] = Kern([Logits |-> "lg"], [AV |-> "av"], 0)
  /\ Kernel["Am2"] = Kern([AV |-> "av"], [Tok |-> "t"], 0)
  /\ Kernel["Copy"] = Kern([Tok |-> "t"], [Samp |-> "t"], 0)
BY KernelFound DEF TailNames, Tails

\* The buffers a dispatch of kernel k reads, and those it writes.
InsOf(k) == DOMAIN Kernel[k].ins
OutsOf(k) == DOMAIN Kernel[k].outs

\* Which kernels may share an epoch.
Groups == {{"RP1", "RP2", "Ab"}, {"AP1", "AP2", "AP3"}, {"MoeRS", "MoeGUs"},
           {"MoeL", "MoeGUs"}, {"MoeDn", "MoeDns"}, {"DnGroup", "MoeDns"}, {"Seed", "HidIn"}}

\* No two kernels of a group touch a buffer that one of them writes.
LEMMA GroupsApart ==
  ASSUME NEW G \in Groups, NEW j \in G, NEW k \in G, j # k
  PROVE  OutsOf(j) \cap (InsOf(k) \cup OutsOf(k)) = {}
<1>1. CASE G = {"RP1", "RP2", "Ab"}
  <2>1. /\ InsOf("RP1") = {"Xn"} /\ OutsOf("RP1") = {"Big"}
        /\ InsOf("RP2") = {"Xn"} /\ OutsOf("RP2") = {"Mid"}
        /\ InsOf("Ab") = {"Xn"} /\ OutsOf("Ab") = {"Gb"}
    BY MixerTable DEF Kern, InsOf, OutsOf
  <2>. QED  BY <1>1, <2>1
<1>2. CASE G = {"AP1", "AP2", "AP3"}
  <2>1. /\ InsOf("AP1") = {"Xn"} /\ OutsOf("AP1") = {"Big"}
        /\ InsOf("AP2") = {"Xn"} /\ OutsOf("AP2") = {"Kin"}
        /\ InsOf("AP3") = {"Xn"} /\ OutsOf("AP3") = {"Vin"}
    BY MixerTable DEF Kern, InsOf, OutsOf
  <2>. QED  BY <1>2, <2>1
<1>3. CASE G \in {{"MoeRS", "MoeGUs"}, {"MoeL", "MoeGUs"}}
  <2>1. /\ InsOf("MoeRS") = {"Xn2", "Sel"} /\ OutsOf("MoeRS") = {"ML", "Sel"}
        /\ InsOf("MoeL") = {"Xn2"} /\ OutsOf("MoeL") = {"ML"}
        /\ InsOf("MoeGUs") = {"Xn2"} /\ OutsOf("MoeGUs") = {"MHs"}
    BY MoeTable DEF Kern, InsOf, OutsOf
  <2>. QED  BY <1>3, <2>1
<1>4. CASE G \in {{"MoeDn", "MoeDns"}, {"DnGroup", "MoeDns"}}
  <2>1. /\ InsOf("MoeDn") = {"MH", "Sel"} /\ OutsOf("MoeDn") = {"MY"}
        /\ InsOf("DnGroup") = {"MH", "Sel", "Pairs"} /\ OutsOf("DnGroup") = {"Contrib"}
        /\ InsOf("MoeDns") = {"MHs", "Sel"} /\ OutsOf("MoeDns") = {"MY2"}
    BY MoeTable DEF Kern, InsOf, OutsOf
  <2>. QED  BY <1>4, <2>1
<1>5. CASE G = {"Seed", "HidIn"}
  <2>1. /\ InsOf("Seed") = {} /\ OutsOf("Seed") = {}
        /\ InsOf("HidIn") = {} /\ OutsOf("HidIn") = {"Xin"}
    BY TailsTable DEF Kern, InsOf, OutsOf
  <2>. QED  BY <1>5, <2>1
<1>. QED  BY <1>1, <1>2, <1>3, <1>4, <1>5 DEF Groups

-------------------------------------------------------------------------------
(* The shapes of the epochs open() and prefillBatchLast record.               *)

\* One dispatch, dispatches of a group, or the two indirect ones.
Shape(ep) ==
  \/ \E d : ep = {d}
  \/ \E G \in Groups : \A d, e \in ep : d.k \in G /\ (d.k = e.k => d = e)
  \/ \E l : ep = {DIndirect(l, 1, 1), DIndirect(l, 2, 4)}

\* A sequence of such epochs.
Shaped(s) == \E T : s \in Seq(T) /\ \A ep \in T : Shape(ep)

LEMMA ShapedIf ==
  ASSUME NEW T, NEW s \in Seq(T), \A ep \in T : Shape(ep)
  PROVE  Shaped(s)
BY Zenon DEF Shaped

LEMMA ShapedNone == Shaped(<<>>)
<1>. DEFINE T == {}
<1>1. <<>> \in Seq(T) /\ \A e \in T : Shape(e)
  OBVIOUS
<1>. HIDE DEF T
<1>. QED  BY <1>1, ShapedIf

LEMMA ShapedOne == ASSUME NEW x, Shape(x) PROVE Shaped(<<x>>)
<1>. DEFINE T == {x}
<1>1. <<x>> \in Seq(T) /\ \A e \in T : Shape(e)
  OBVIOUS
<1>. HIDE DEF T
<1>. QED  BY <1>1, ShapedIf

LEMMA ShapedTwo == ASSUME NEW x, NEW y, Shape(x), Shape(y) PROVE Shaped(<<x, y>>)
<1>. DEFINE T == {x, y}
<1>1. <<x, y>> \in Seq(T) /\ \A e \in T : Shape(e)
  OBVIOUS
<1>. HIDE DEF T
<1>. QED  BY <1>1, ShapedIf

LEMMA ShapedThree ==
  ASSUME NEW x, NEW y, NEW z, Shape(x), Shape(y), Shape(z) PROVE Shaped(<<x, y, z>>)
<1>. DEFINE T == {x, y, z}
<1>1. <<x, y, z>> \in Seq(T) /\ \A e \in T : Shape(e)
  OBVIOUS
<1>. HIDE DEF T
<1>. QED  BY <1>1, ShapedIf

LEMMA ShapedFour ==
  ASSUME NEW w, NEW x, NEW y, NEW z, Shape(w), Shape(x), Shape(y), Shape(z)
  PROVE  Shaped(<<w, x, y, z>>)
<1>. DEFINE T == {w, x, y, z}
<1>1. <<w, x, y, z>> \in Seq(T) /\ \A e \in T : Shape(e)
  OBVIOUS
<1>. HIDE DEF T
<1>. QED  BY <1>1, ShapedIf

LEMMA ShapedConcat == ASSUME NEW s, NEW t, Shaped(s), Shaped(t) PROVE Shaped(s \o t)
<1>1. PICK S : s \in Seq(S) /\ \A ep \in S : Shape(ep)
  BY DEF Shaped
<1>2. PICK T : t \in Seq(T) /\ \A ep \in T : Shape(ep)
  BY DEF Shaped
<1>3. s \in Seq(S \cup T) /\ t \in Seq(S \cup T)
  BY <1>1, <1>2
<1>4. s \o t \in Seq(S \cup T)
  BY <1>3, ConcatProperties
<1>. QED  BY <1>1, <1>2, <1>4 DEF Shaped

\* The next epoch has one of the shapes, and so have those after it.
LEMMA ShapedHead ==
  ASSUME NEW s, Shaped(s), s # <<>>
  PROVE  Shape(Head(s)) /\ Shaped(Tail(s))
<1>1. PICK S : s \in Seq(S) /\ \A ep \in S : Shape(ep)
  BY DEF Shaped
<1>2. Head(s) \in S /\ Tail(s) \in Seq(S)
  BY <1>1
<1>. QED  BY <1>1, <1>2 DEF Shaped

\* A stream put together from n shaped parts.
LEMMA ShapedFlatten ==
  ASSUME NEW n \in Nat, NEW f, f = [j \in 1 .. n |-> f[j]], \A j \in 1 .. n : Shaped(f[j])
  PROVE  Shaped(FlattenSeq(f))
<1>. DEFINE E(j) == CHOOSE T : f[j] \in Seq(T) /\ \A ep \in T : Shape(ep)
            T == UNION {E(j) : j \in 1 .. n}
<1>1. \A j \in 1 .. n : f[j] \in Seq(E(j)) /\ \A ep \in E(j) : Shape(ep)
  BY DEF Shaped
<1>2. \A j \in 1 .. n : E(j) \subseteq T
  OBVIOUS
<1>3. \A ep \in T : Shape(ep)
  BY <1>1
<1>. HIDE DEF E, T
<1>4. \A j \in 1 .. n : f[j] \in Seq(T)
  BY <1>1, <1>2
<1>5. f \in Seq(Seq(T))
  BY <1>4
<1>6. FlattenSeq(f) \in Seq(T)
  BY <1>5, FlattenType
<1>. QED  BY <1>3, <1>6 DEF Shaped

\* One dispatch is a shape, and so are the dispatches of a group on the same rows.
LEMMA SingleShape == \A d : Shape({d})
BY DEF Shape

LEMMA GroupShape ==
  ASSUME NEW l, NEW rows
  PROVE  /\ Shape({D("RP1", l, rows), D("RP2", l, rows), D("Ab", l, rows)})
         /\ Shape({D("AP1", l, rows), D("AP2", l, rows), D("AP3", l, rows)})
         /\ Shape({D("MoeRS", l, rows), D("MoeGUs", l, rows)})
         /\ Shape({D("MoeL", l, rows), D("MoeGUs", l, rows)})
         /\ Shape({D("MoeDn", l, rows), D("MoeDns", l, rows)})
         /\ Shape({D("DnGroup", l, rows), D("MoeDns", l, rows)})
         /\ Shape({D("Seed", 0, {}), D("HidIn", l, rows)})
BY DEF Shape, Groups, D

LEMMA RecShaped == ASSUME NEW l, NEW rows, NEW sg PROVE Shaped(RecLayer(l, rows, sg))
<1>. DEFINE ep == {D("RP1", l, rows), D("RP2", l, rows), D("Ab", l, rows)}
<1>1. Shaped(<<ep, {D("Conv", l, rows)}>>)
  BY ShapedTwo, SingleShape, GroupShape
<1>2. /\ Shaped(<<{D("StepGate", l, rows)}>>) /\ Shaped(<<{D("Wo", l, rows)}>>)
      /\ Shaped(<<{D("Step", l, rows)}, {D("Gate", l, rows)}>>)
  BY ShapedOne, ShapedTwo, SingleShape
<1>. DEFINE mid == IF sg THEN <<{D("StepGate", l, rows)}>>
                   ELSE <<{D("Step", l, rows)}, {D("Gate", l, rows)}>>
<1>3. Shaped(mid)
  BY <1>2
<1>. HIDE DEF ep, mid
<1>4. Shaped((<<ep, {D("Conv", l, rows)}>> \o mid) \o <<{D("Wo", l, rows)}>>)
  BY <1>1, <1>2, <1>3, ShapedConcat
<1>. QED  BY <1>4, Zenon DEF RecLayer, ep, mid

LEMMA AttnShaped ==
  ASSUME NEW l, NEW rows PROVE Shaped(AttnProj(l, rows)) /\ Shaped(SerialAttn(l, rows))
<1>1. Shaped(AttnProj(l, rows)) /\ Shaped(<<{D("Wo", l, rows)}>>)
  BY ShapedOne, ShapedTwo, SingleShape, GroupShape DEF AttnProj
<1>. DEFINE ep == IF cfg.live /\ cfg.auto THEN {DIndirect(l, 1, 1), DIndirect(l, 2, 4)}
                  ELSE IF cfg.live THEN {DIndirect(l, 1, cfg.group)}
                  ELSE {DSplit(l, rows, 0 .. SplitMax - 1, (HQ \div cfg.group) * cfg.group)}
            mid == IF ~cfg.splitK THEN <<{D("Attn", l, rows)}>>
                   ELSE <<ep, {D("AttnR", l, rows)}>>
<1>2. Shape({DIndirect(l, 1, 1), DIndirect(l, 2, 4)})
  BY DEF Shape
<1>3. Shape(ep)
  BY <1>2, SingleShape, Zenon
<1>. HIDE DEF ep
<1>4. Shaped(<<{D("Attn", l, rows)}>>) /\ Shaped(<<ep, {D("AttnR", l, rows)}>>)
  BY <1>3, SingleShape, ShapedOne, ShapedTwo
<1>5. Shaped(mid)
  BY <1>4
<1>. HIDE DEF mid
<1>6. Shaped((AttnProj(l, rows) \o mid) \o <<{D("Wo", l, rows)}>>)
  BY <1>1, <1>5, ShapedConcat
<1>. QED  BY <1>1, <1>6, Zenon DEF SerialAttn, ep, mid

LEMMA RouteShaped ==
  ASSUME NEW l, NEW rows
  PROVE  /\ Shaped(<<{D("AddNRoute", l, rows)}, {D("MoeRS", l, rows), D("MoeGUs", l, rows)}>>)
         /\ Shaped(<<{D("AddN", l, rows)}, {D("MoeL", l, rows), D("MoeGUs", l, rows)},
                     {D("MoeS", l, rows)}>>)
BY ShapedTwo, ShapedThree, SingleShape, GroupShape

LEMMA SerialMoeShaped == ASSUME NEW l, NEW rows PROVE Shaped(SerialMoe(l, rows))
<1>. DEFINE a == IF cfg.fused
                 THEN <<{D("AddNRoute", l, rows)}, {D("MoeRS", l, rows), D("MoeGUs", l, rows)}>>
                 ELSE <<{D("AddN", l, rows)}, {D("MoeL", l, rows), D("MoeGUs", l, rows)},
                        {D("MoeS", l, rows)}>>
            b == <<{D("MoeGU", l, rows)}, {D("MoeDn", l, rows), D("MoeDns", l, rows)},
                   {D("Add3", l, rows)}>>
<1>1. Shaped(a)
  BY RouteShaped
<1>2. Shaped(b)
  BY ShapedThree, SingleShape, GroupShape
<1>. HIDE DEF a, b
<1>3. Shaped(a \o b)
  BY <1>1, <1>2, ShapedConcat
<1>. QED  BY <1>3, Zenon DEF SerialMoe, a, b

LEMMA BatchMoeShaped == ASSUME NEW l, NEW n, NEW cut PROVE Shaped(BatchMoe(l, n, cut))
<1>. DEFINE rows == 0 .. n - 1
            fuse == cfg.fused /\ n = 1
            eligible == n * NUsed >= NExp
            gu == eligible /\ cfg.groupGu
            down == eligible /\ cfg.groupDown
            a == IF fuse
                 THEN <<{D("AddNRoute", l, rows)}, {D("MoeRS", l, rows), D("MoeGUs", l, rows)}>>
                 ELSE <<{D("AddN", l, rows)}, {D("MoeL", l, rows), D("MoeGUs", l, rows)},
                        {D("MoeS", l, rows)}>>
            p == IF gu \/ down THEN <<{D("Pairs", l, rows)}>> ELSE <<>>
            dn == {D(IF down THEN "DnGroup" ELSE "MoeDn", l, rows), D("MoeDns", l, rows)}
            b == <<{D(IF gu THEN "GUGroup" ELSE "MoeGU", l, rows)}, dn,
                   {D(SumOf(down, cut), l, rows)}>>
<1>1. Shaped(a)
  BY RouteShaped
<1>2. Shaped(p)
  BY ShapedOne, ShapedNone, SingleShape
<1>3. Shape(dn)
  <2>. HIDE DEF rows, down
  <2>1. CASE down
    <3>1. dn = {D("DnGroup", l, rows), D("MoeDns", l, rows)}
      BY <2>1, Zenon
    <3>. QED  BY <3>1, GroupShape
  <2>2. CASE ~down
    <3>1. dn = {D("MoeDn", l, rows), D("MoeDns", l, rows)}
      BY <2>2, Zenon
    <3>. QED  BY <3>1, GroupShape
  <2>. QED  BY <2>1, <2>2
<1>4. Shaped(b)
  <2>. HIDE DEF dn, down, gu, rows
  <2>. QED  BY <1>3, ShapedThree, SingleShape
<1>. HIDE DEF a, p, b
<1>5. Shaped((a \o p) \o b)
  BY <1>1, <1>2, <1>4, ShapedConcat
<1>. QED  BY <1>5, Zenon DEF BatchMoe, a, p, b

LEMMA HeadShaped == ASSUME NEW rows PROVE Shaped(HeadAndArgmax(rows))
<1>. DEFINE d(k) == {D(k, NL + 1, rows)}
<1>1. \A k : Shape(d(k))
  BY SingleShape
<1>. HIDE DEF d
<1>2. Shaped(<<d("Head"), d("Am1"), d("Am2"), d("Copy")>>)
  BY <1>1, ShapedFour
<1>. QED  BY <1>2, Zenon DEF HeadAndArgmax, d

\* Tiles of a batch: at least one query each, so finitely many.
LEMMA TileSize ==
  ASSUME NEW base \in Nat, NEW n \in Nat \ {0}
  PROVE  /\ QueryTile(base, n) \in Nat \ {0}
         /\ Ceil(n, QueryTile(base, n)) \in Nat
<1>1. QB \in Nat \ {0} /\ Budget \in Nat \ {0}
  BY GpuChainAssumption
<1>2. Budget \div (base + n) \in Nat
  BY <1>1
<1>. DEFINE qt == Least(Most(1, Budget \div (base + n)), n)
<1>3. qt \in Nat
  BY <1>2 DEF Least, Most
<1>4. QueryTile(base, n) = Most(QB, qt - (qt % QB))
  BY DEF QueryTile
<1>. HIDE DEF qt
<1>5. qt % QB \in Int /\ QueryTile(base, n) \in Nat \ {0}
  BY <1>1, <1>3, <1>4 DEF Most
<1>. QED  BY <1>5 DEF Ceil

LEMMA TilesShaped ==
  ASSUME NEW l, NEW base \in Nat, NEW n \in Nat \ {0}
  PROVE  Shaped(Tiles(l, base, n))
<1>. DEFINE m == Ceil(n, QueryTile(base, n))
<1>1. m \in Nat
  BY TileSize
<1>2. PICK f : Tiles(l, base, n) = [t \in 1 .. m |-> f[t]] /\ \A t \in 1 .. m : Shape(f[t])
  <2>. DEFINE e(t) == LET qo == (t - 1) * QueryTile(base, n)
                          blocks == Ceil(Least(QueryTile(base, n), n - qo), QB) IN
                      {D("Attn", l, qo .. Least(n, qo + blocks * QB) - 1)}
              g == [t \in 1 .. m |-> e(t)]
  <2>1. \A t : Shape(e(t))
    BY SingleShape
  <2>2. Tiles(l, base, n) = g
    BY DEF Tiles
  <2>. HIDE DEF e
  <2>3. g = [t \in 1 .. m |-> g[t]] /\ \A t \in 1 .. m : Shape(g[t])
    BY <2>1
  <2>. QED  BY <2>2, <2>3
<1>. HIDE DEF m
<1>. DEFINE T == {f[t] : t \in 1 .. m}
<1>3. Tiles(l, base, n) \in Seq(T) /\ \A e \in T : Shape(e)
  BY <1>1, <1>2
<1>. HIDE DEF T
<1>. QED  BY <1>3, ShapedIf

LEMMA BatchAttnShaped ==
  ASSUME NEW l, NEW base \in Nat, NEW n \in Nat \ {0}
  PROVE  Shaped(BatchAttn(l, base, n))
<1>. DEFINE group == IF cfg.auto /\ base + 1 >= GqaThreshold THEN 4 ELSE cfg.group
            splits == IF cfg.live THEN LiveSplits(base + 1) ELSE SplitMax
            mid == IF cfg.splitK /\ n = 1
                   THEN <<{DSplit(l, {0}, 0 .. splits - 1, (HQ \div group) * group)},
                          {D("AttnR", l, {0})}>>
                   ELSE Tiles(l, base, n)
            w == <<{D("Wo", l, 0 .. n - 1)}>>
<1>1. Shaped(<<{DSplit(l, {0}, 0 .. splits - 1, (HQ \div group) * group)},
               {D("AttnR", l, {0})}>>)
  BY ShapedTwo, SingleShape
<1>2. Shaped(mid)
  BY <1>1, TilesShaped
<1>3. Shaped(w) /\ Shaped(AttnProj(l, 0 .. n - 1))
  BY ShapedOne, SingleShape, AttnShaped
<1>. HIDE DEF mid, w
<1>4. Shaped((AttnProj(l, 0 .. n - 1) \o mid) \o w)
  BY <1>2, <1>3, ShapedConcat
<1>. QED  BY <1>4, Zenon DEF BatchAttn, mid, w

LEMMA StepShaped == ASSUME NEW z PROVE Shaped(StepCB(z))
<1>. DEFINE rows == 0 .. z - 1
            layer(l) == (IF Layers[l] = "rec" THEN RecLayer(l, rows, cfg.stepGate)
                         ELSE SerialAttn(l, rows)) \o SerialMoe(l, rows)
            f == [l \in 1 .. NL |-> layer(l)]
            a == <<{D("Emb", 1, rows)}, {D("Rms", 1, rows)}>>
<1>. HIDE DEF rows
<1>1. \A l : Shaped(layer(l))
  BY RecShaped, AttnShaped, SerialMoeShaped, ShapedConcat
<1>. HIDE DEF layer
<1>2. NL \in Nat /\ f = [l \in 1 .. NL |-> f[l]] /\ \A l \in 1 .. NL : Shaped(f[l])
  BY <1>1, GpuChainAssumption DEF NL
<1>. HIDE DEF f
<1>3. Shaped(FlattenSeq(f))
  BY <1>2, ShapedFlatten
<1>4. Shaped(a) /\ Shaped(HeadAndArgmax(rows))
  BY ShapedTwo, SingleShape, HeadShaped
<1>. HIDE DEF a
<1>5. Shaped((a \o FlattenSeq(f)) \o HeadAndArgmax(rows))
  BY <1>3, <1>4, ShapedConcat
<1>. QED  BY <1>5, Zenon DEF StepCB, a, f, layer, rows

\* What prefillBatchLast is called with, as far as its stream depends on it.
BatchArgs(c) ==
  /\ Cardinality(DOMAIN c.rows) \in Nat \ {0} /\ Len(c.rows[0]) \in Nat \ {0}
  /\ c.first \in 1 .. NL /\ c.last \in c.first .. NL
  /\ c.want \in {"ids", "logits", "none"}

LEMMA BatchShaped == ASSUME NEW c, BatchArgs(c) PROVE Shaped(BatchCB(c))
<1>. DEFINE n == Cardinality(DOMAIN c.rows)
            rows == 0 .. n - 1
            base == Len(c.rows[0]) - 1
            seed == D("Seed", 0, {})
            layer(l) == (IF Layers[l] = "rec" THEN RecLayer(l, rows, cfg.stepGate /\ n = 1)
                         ELSE BatchAttn(l, base, n))
                        \o BatchMoe(l, n, l = c.last /\ l < NL)
            m == c.last - c.first + 1
            f == [j \in 1 .. m |-> layer(c.first + j - 1)]
            a == IF c.first = 1 THEN <<{seed}, {D("Emb", 1, rows)}>>
                 ELSE <<{seed, D("HidIn", c.first, rows)}>>
            b == <<{D("Rms", c.first, rows)}>>
            z == IF c.last < NL THEN <<{D("HidOut", c.last + 1, rows)}>>
                 ELSE CASE c.want = "ids"    -> HeadAndArgmax(rows)
                        [] c.want = "logits" -> <<{D("Head", NL + 1, rows)}>>
                        [] c.want = "none"   -> <<>>
<1>1. n \in Nat \ {0} /\ base \in Nat /\ m \in Nat
  <2>1. NL \in Nat
    BY GpuChainAssumption DEF NL
  <2>. QED  BY <2>1 DEF BatchArgs
<1>2. Shaped(a)
  BY ShapedTwo, ShapedOne, SingleShape, GroupShape
<1>3. Shaped(b)
  BY ShapedOne, SingleShape
<1>4. Shaped(z)
  <2>1. /\ Shaped(<<{D("HidOut", c.last + 1, rows)}>>) /\ Shaped(HeadAndArgmax(rows))
        /\ Shaped(<<{D("Head", NL + 1, rows)}>>) /\ Shaped(<<>>)
    BY ShapedOne, ShapedNone, SingleShape, HeadShaped
  <2>. HIDE DEF rows
  <2>. QED  BY <2>1 DEF BatchArgs
<1>. HIDE DEF rows, n, base
<1>5. \A l : Shaped(layer(l))
  BY <1>1, RecShaped, BatchAttnShaped, BatchMoeShaped, ShapedConcat
<1>. HIDE DEF layer
<1>6. f = [j \in 1 .. m |-> f[j]] /\ \A j \in 1 .. m : Shaped(f[j])
  BY <1>5
<1>. HIDE DEF f, m
<1>7. Shaped(FlattenSeq(f))
  BY <1>1, <1>6, ShapedFlatten
<1>. HIDE DEF a, b, z
<1>8. Shaped(((a \o b) \o FlattenSeq(f)) \o z)
  BY <1>2, <1>3, <1>4, <1>7, ShapedConcat
<1>. QED  BY <1>8, Zenon DEF BatchCB, a, b, z, f, m, layer, base, rows, n

-------------------------------------------------------------------------------
(* The calls the host makes.                                                  *)

IsSeq(s) == \E T : s \in Seq(T)

LEMMA SeqConcat ==
  ASSUME NEW s, NEW t, IsSeq(s), IsSeq(t)
  PROVE  /\ IsSeq(s \o t) /\ Len(s) \in Nat /\ Len(t) \in Nat
         /\ Len(s \o t) = Len(s) + Len(t)
         /\ \A i \in 1 .. Len(s) + Len(t) :
              (s \o t)[i] = IF i <= Len(s) THEN s[i] ELSE t[i - Len(s)]
<1>1. PICK S, T : s \in Seq(S) /\ t \in Seq(T)
  BY DEF IsSeq
<1>2. s \in Seq(S \cup T) /\ t \in Seq(S \cup T)
  BY <1>1
<1>. QED  BY <1>2, ConcatProperties DEF IsSeq

LEMMA SeqTail ==
  ASSUME NEW s, IsSeq(s), s # <<>>
  PROVE  /\ IsSeq(Tail(s)) /\ Len(s) \in Nat \ {0} /\ Len(Tail(s)) = Len(s) - 1
         /\ Head(s) = s[1] /\ \A i \in 1 .. Len(s) - 1 : Tail(s)[i] = s[i + 1]
<1>1. PICK S : s \in Seq(S)
  BY DEF IsSeq
<1>. QED  BY <1>1 DEF IsSeq

LEMMA SeqIf == ASSUME NEW T, NEW s \in Seq(T) PROVE IsSeq(s)
BY Zenon DEF IsSeq

LEMMA SeqMade ==
  ASSUME NEW n \in Nat, NEW f, f = [k \in 1 .. n |-> f[k]]
  PROVE  IsSeq(f) /\ Len(f) = n
<1>1. PICK T : T = {f[k] : k \in 1 .. n}
  OBVIOUS
<1>2. f \in [1 .. n -> T]
  BY <1>1
<1>3. f \in Seq(T) /\ Len(f) = n
  BY <1>2
<1>. QED  BY <1>3, SeqIf

LEMMA SeqOne == \A x : IsSeq(<<x>>) /\ Len(<<x>>) = 1 /\ <<x>>[1] = x
<1>1. \A x : <<x>> \in Seq({x})
  OBVIOUS
<1>. QED  BY <1>1, Zenon DEF IsSeq

LEMMA SeqTwo ==
  \A x, y : IsSeq(<<x, y>>) /\ Len(<<x, y>>) = 2 /\ <<x, y>>[1] = x /\ <<x, y>>[2] = y
<1>1. \A x, y : <<x, y>> \in Seq({x, y})
  OBVIOUS
<1>. QED  BY <1>1 DEF IsSeq

LEMMA SeqNone == IsSeq(<<>>) /\ Len(<<>>) = 0
<1>1. <<>> \in Seq({})
  OBVIOUS
<1>. QED  BY <1>1 DEF IsSeq

History == Seq(Nat)

\* A batch of t on slot s after history h.
BatchOf(c, h, t) ==
  /\ h \in History /\ t \in History /\ Len(t) \in 1 .. MaxB /\ Len(h) + Len(t) <= NCtx
  /\ c = BatchCall(c.by, c.slot, c.stripe, h, t, c.want, c.first, c.last)
  /\ c.slot \in Slot /\ c.stripe \in {c.slot, Scratch}
  /\ c.want \in {"ids", "logits", "none"} /\ c.first \in 1 .. NL /\ c.last \in c.first .. NL

\* A step CB over lanes 0 .. z - 1.
SerialOf(c, z) ==
  /\ z \in 1 .. NSlots
  /\ c = StepCall(c.by, c.rows, c.asked, c.fill)
  /\ c.rows \in [0 .. z - 1 -> History] /\ c.asked \subseteq 0 .. z - 1 /\ c.asked # {}
  /\ \A i \in 0 .. z - 1 : Len(c.rows[i]) \in 1 .. NCtx

IsBatch(c) == \E h, t : BatchOf(c, h, t)
IsSerial(c) == \E z : SerialOf(c, z)
IsCall(c) ==
  \/ \E s \in Slot : c = ResetCall(s)
  \/ \E a, b \in 0 .. NSlots : c = CopyCall(a, b)
  \/ IsBatch(c) \/ IsSerial(c)

\* The positive parameters.
LEMMA Sizes ==
  /\ NSlots \in Nat \ {0} /\ NCtx \in Nat \ {0} /\ MaxB \in Nat \ {0} /\ HQ \in Nat \ {0}
  /\ Chunk \in Nat \ {0} /\ QB \in Nat \ {0} /\ MaxCalls \in Nat /\ NL \in Nat \ {0}
BY GpuChainAssumption DEF NL

RowOf(c, i) == c.rows[i]
Lanes(c) == DOMAIN c.rows

\* Row i of a batch: h and i + 1 tokens of t.
LEMMA BatchRow ==
  ASSUME NEW c, NEW h, NEW t, BatchOf(c, h, t), NEW i \in 0 .. Len(t) - 1
  PROVE  /\ RowOf(c, i) \in History /\ Len(RowOf(c, i)) = Len(h) + i + 1
         /\ \A j \in 1 .. Len(h) : RowOf(c, i)[j] = h[j]
         /\ \A j \in 1 .. i + 1 : RowOf(c, i)[Len(h) + j] = t[j]
<1>. DEFINE u == SubSeq(t, 1, i + 1)  m == Len(h)
<1>1. h \in History /\ t \in History /\ Len(t) \in 1 .. MaxB
  BY DEF BatchOf
<1>2. RowOf(c, i) = h \o u
  <2>. DEFINE r(k) == h \o SubSeq(t, 1, k + 1)
  <2>1. c.rows = [k \in 0 .. Len(t) - 1 |-> r(k)]
    BY SMTT(60) DEF BatchOf, BatchCall
  <2>. HIDE DEF r
  <2>2. c.rows[i] = r(i)
    BY <2>1
  <2>. QED  BY <2>2, Zenon DEF r, u, RowOf
<1>3. /\ u \in Seq(Nat) /\ Len(u) = i + 1 /\ \A j \in 1 .. i + 1 : u[j] = t[j]
  BY <1>1, Sizes DEF History
<1>. HIDE DEF u
<1>4. /\ h \o u \in Seq(Nat) /\ Len(h \o u) = m + (i + 1)
      /\ \A j \in 1 .. m + (i + 1) : (h \o u)[j] = IF j <= m THEN h[j] ELSE u[j - m]
  <2>1. h \in Seq(Nat) /\ u \in Seq(Nat)
    BY <1>1, <1>3 DEF History
  <2>2. /\ h \o u \in Seq(Nat) /\ Len(h \o u) = Len(h) + Len(u)
        /\ \A j \in 1 .. Len(h) + Len(u) : (h \o u)[j] = IF j <= Len(h) THEN h[j] ELSE u[j - Len(h)]
    BY <2>1, ConcatProperties
  <2>. QED  BY <1>3, <2>2
<1>5. m \in Nat /\ i \in Nat
  BY <1>1, Sizes DEF History
<1>. HIDE DEF m
<1>6. \A j \in 1 .. i + 1 : m + j \in 1 .. m + (i + 1) /\ ~(m + j <= m) /\ (m + j) - m = j
  BY <1>5
<1>7. \A j \in 1 .. i + 1 : (h \o u)[m + j] = t[j]
  BY <1>3, <1>4, <1>6
<1>8. \A j \in 1 .. m : (h \o u)[j] = h[j]
  BY <1>4, <1>5
<1>9. m + (i + 1) = m + i + 1
  BY <1>5
<1>. QED  BY <1>2, <1>4, <1>7, <1>8, <1>9 DEF m, History

\* As many rows as tokens.
LEMMA BatchRows ==
  ASSUME NEW c, NEW h, NEW t, BatchOf(c, h, t)
  PROVE  /\ c.kind = "batch" /\ DOMAIN c.rows = 0 .. Len(t) - 1
         /\ Cardinality(DOMAIN c.rows) = Len(t) /\ Len(t) \in 1 .. MaxB
         /\ Len(t) \in Nat \ {0} /\ Len(h) \in Nat
<1>1. /\ c.kind = "batch" /\ c.rows = [i \in 0 .. Len(t) - 1 |-> h \o SubSeq(t, 1, i + 1)]
      /\ h \in History /\ t \in History /\ Len(t) \in 1 .. MaxB
  BY SMTT(60) DEF BatchOf, BatchCall
<1>2. Len(t) \in Nat \ {0} /\ Len(h) \in Nat
  BY <1>1, Sizes DEF History
<1>. DEFINE n == Len(t)
<1>3. Cardinality(0 .. n - 1) = n
  <2>. HIDE DEF n
  <2>1. n \in Nat \ {0}
    BY <1>2 DEF n
  <2>. QED  BY <2>1, FS_Interval
<1>. QED  BY <1>1, <1>2, <1>3

LEMMA SerialRows ==
  ASSUME NEW c, NEW z, SerialOf(c, z)
  PROVE  /\ c.kind = "serial" /\ DOMAIN c.rows = 0 .. z - 1 /\ Cardinality(DOMAIN c.rows) = z
         /\ z \in Nat \ {0} /\ \A i \in 0 .. z - 1 : c.rows[i] \in History
<1>1. c.kind = "serial" /\ DOMAIN c.rows = 0 .. z - 1
  BY DEF SerialOf, StepCall
<1>2. z \in Nat \ {0}
  BY Sizes DEF SerialOf
<1>3. Cardinality(0 .. z - 1) = z
  BY <1>2, FS_Interval
<1>. QED  BY <1>1, <1>2, <1>3 DEF SerialOf

LEMMA BatchArgsOf ==
  ASSUME NEW c, IsBatch(c) PROVE BatchArgs(c)
<1>1. PICK h, t : BatchOf(c, h, t)
  BY DEF IsBatch
<1>2. /\ 0 \in 0 .. Len(t) - 1 /\ Len(t) \in Nat \ {0} /\ Len(h) \in Nat
      /\ Cardinality(DOMAIN c.rows) = Len(t)
  BY <1>1, BatchRows, Sizes
<1>3. Len(c.rows[0]) = Len(h) + 0 + 1
  BY <1>1, <1>2, BatchRow DEF RowOf
<1>4. /\ c.first \in 1 .. NL /\ c.last \in c.first .. NL
      /\ c.want \in {"ids", "logits", "none"}
  BY <1>1 DEF BatchOf
<1>. QED  BY <1>2, <1>3, <1>4 DEF BatchArgs

-------------------------------------------------------------------------------
(* Types.                                                                     *)

StateType ==
  /\ conv \in [1 .. NL -> [0 .. NSlots -> History]]
  /\ scan \in [1 .. NL -> [0 .. NSlots -> History]]
  /\ kv \in [1 .. NL -> [Slot -> [Pos -> History]]]

CallsOK(cs) == IsSeq(cs) /\ \A k \in 1 .. Len(cs) : IsCall(cs[k])

TypeInv ==
  /\ TypeOK /\ StateType
  /\ fed \in [Slot -> History] /\ logits \in [Rows -> History]
  /\ CallsOK(todo) /\ (run = Idle \/ IsBatch(run) \/ IsSerial(run))
  /\ Shaped(cb) /\ (run = Idle => cb = <<>>)
  /\ indirect[1].x = 0 \/ indirect[2].x = 0

\* A state stripe, a row or a window that is not right is no request's history.
LEMMA BadType == Bad \in History /\ <<>> \in History
BY Sizes DEF Bad, History

LEMMA SlotStripe == Slot \subseteq 0 .. NSlots /\ Scratch \in 0 .. NSlots /\ Slot \subseteq Nat
BY Sizes DEF Slot, Scratch

LEMMA ResetTypes ==
  ASSUME StateType, NEW c, c.slot \in Slot, Reset(c)
  PROVE  StateType'
BY SlotStripe, BadType DEF StateType, Reset

LEMMA CopyTypes ==
  ASSUME StateType, NEW c, c.from \in 0 .. NSlots, c.to \in 0 .. NSlots, CopyDnStripes(c)
  PROVE  StateType'
BY DEF StateType, CopyDnStripes

\* What is stored is a history.
LEMMA StoredType ==
  ASSUME NEW d, NEW rs, NEW old \in History, rs \subseteq DOMAIN R, \A i \in DOMAIN R : R[i] \in History
  PROVE  Stored(d, rs, old) \in History
BY BadType DEF Stored

LEMMA StripesType ==
  ASSUME NEW f \in [1 .. NL -> [0 .. NSlots -> History]], NEW ks,
         \A i \in DOMAIN R : R[i] \in History
  PROVE  NewStripes(f, ks) \in [1 .. NL -> [0 .. NSlots -> History]]
<1>. DEFINE g(d) == [s \in 0 .. NSlots |-> Stored(d, LastInto(s), f[d.l][s])]
<1>1. ASSUME NEW d, d.l \in 1 .. NL PROVE g(d) \in [0 .. NSlots -> History]
  <2>1. \A s \in 0 .. NSlots : f[d.l][s] \in History /\ LastInto(s) \subseteq DOMAIN R
    BY <1>1 DEF LastInto
  <2>2. \A s \in 0 .. NSlots : Stored(d, LastInto(s), f[d.l][s]) \in History
    BY <2>1, StoredType
  <2>. QED  BY <2>2
<1>2. ASSUME NEW d PROVE [f EXCEPT ![d.l] = g(d)] \in [1 .. NL -> [0 .. NSlots -> History]]
  <2>. HIDE DEF g
  <2>. QED  BY <1>1
<1>3. NewStripes(f, ks) = f \/ \E d : NewStripes(f, ks) = [f EXCEPT ![d.l] = g(d)]
  <2>. DEFINE e == CHOOSE d \in RanOf(ks) : TRUE
  <2>1. NewStripes(f, ks) = f \/ NewStripes(f, ks) = [f EXCEPT ![e.l] = g(e)]
    BY DEF NewStripes
  <2>. HIDE DEF e, g
  <2>. QED  BY <2>1
<1>. HIDE DEF g
<1>. QED  BY <1>2, <1>3

LEMMA KeysType ==
  ASSUME kv \in [1 .. NL -> [Slot -> [Pos -> History]]], \A i \in DOMAIN R : R[i] \in History
  PROVE  NewKeys \in [1 .. NL -> [Slot -> [Pos -> History]]]
<1>. DEFINE g(d) == [s \in Slot |-> [p \in Pos |-> Stored(d, RowsAt(s, p), kv[d.l][s][p])]]
<1>1. ASSUME NEW d, d.l \in 1 .. NL PROVE g(d) \in [Slot -> [Pos -> History]]
  <2>1. \A s \in Slot, p \in Pos : kv[d.l][s][p] \in History /\ RowsAt(s, p) \subseteq DOMAIN R
    BY <1>1 DEF RowsAt
  <2>2. \A s \in Slot, p \in Pos : Stored(d, RowsAt(s, p), kv[d.l][s][p]) \in History
    BY <2>1, StoredType
  <2>. QED  BY <2>2
<1>2. ASSUME NEW d PROVE [kv EXCEPT ![d.l] = g(d)] \in [1 .. NL -> [Slot -> [Pos -> History]]]
  <2>. HIDE DEF g
  <2>. QED  BY <1>1
<1>3. NewKeys = kv \/ \E d : NewKeys = [kv EXCEPT ![d.l] = g(d)]
  <2>. DEFINE e == CHOOSE d \in RanOf({"Prep"}) : TRUE
  <2>1. NewKeys = kv \/ NewKeys = [kv EXCEPT ![e.l] = g(e)]
    BY DEF NewKeys
  <2>. HIDE DEF e, g
  <2>. QED  BY <2>1
<1>. HIDE DEF g
<1>. QED  BY <1>2, <1>3

\* The rows of what runs.
LEMMA RunRows ==
  ASSUME IsBatch(run) \/ IsSerial(run)
  PROVE  /\ \A i \in DOMAIN R : R[i] \in History
         /\ \E n \in Nat \ {0} : DOMAIN R = 0 .. n - 1 /\ Cardinality(DOMAIN R) = n
         /\ run.kind = "batch" => Cardinality(DOMAIN R) \in 1 .. MaxB
         /\ run.kind \in {"batch", "serial"} /\ run # Idle
<1>1. CASE IsBatch(run)
  <2>1. PICK h, t : BatchOf(run, h, t)
    BY <1>1 DEF IsBatch
  <2>2. Len(t) \in Nat \ {0}
    BY <2>1, BatchRows, Sizes
  <2>3. /\ run.kind = "batch" /\ DOMAIN R = 0 .. Len(t) - 1 /\ Cardinality(DOMAIN R) = Len(t)
        /\ Len(t) \in 1 .. MaxB /\ \A i \in 0 .. Len(t) - 1 : R[i] \in History
    BY <2>1, BatchRows, BatchRow DEF R, RowOf
  <2>. QED  BY <2>2, <2>3 DEF Idle
<1>2. CASE IsSerial(run)
  <2>1. PICK z : SerialOf(run, z)
    BY <1>2 DEF IsSerial
  <2>. QED  BY <2>1, SerialRows DEF R, Idle
<1>. QED  BY <1>1, <1>2

LEMMA EpochTypes == TypeInv /\ Epoch => TypeInv'
<1>. SUFFICES ASSUME TypeInv, Epoch PROVE TypeInv'
  OBVIOUS
<1>0. IsBatch(run) \/ IsSerial(run)
  BY DEF TypeInv, Epoch
<1>1. \A i \in DOMAIN R : R[i] \in History
  BY <1>0, RunRows
<1>2. conv' \in [1 .. NL -> [0 .. NSlots -> History]] /\ scan' \in [1 .. NL -> [0 .. NSlots -> History]]
  BY <1>1, StripesType DEF Epoch, TypeInv, StateType
<1>3. kv' \in [1 .. NL -> [Slot -> [Pos -> History]]]
  BY <1>1, KeysType DEF Epoch, TypeInv, StateType
<1>4. StateType'
  BY <1>2, <1>3 DEF StateType
<1>5. Shaped(cb')
  BY ShapedHead DEF TypeInv, Epoch
<1>6. DOMAIN mem' = Buffers
  BY DEF Epoch, NewMem
<1>7. \A l \in 1 .. NL : DOMAIN conv'[l] = 0 .. NSlots /\ DOMAIN kv'[l] = Slot
  BY <1>2, <1>3
<1>8. TypeOK'
  BY <1>6, <1>7 DEF TypeInv, TypeOK, Epoch
<1>. QED  BY <1>4, <1>5, <1>8 DEF TypeInv, Epoch, CallsOK

LEMMA FinishTypes == TypeInv /\ Finish => TypeInv'
<1>. SUFFICES ASSUME TypeInv, Finish PROVE TypeInv'
  OBVIOUS
<1>0. IsBatch(run) \/ IsSerial(run)
  BY DEF TypeInv, Finish
<1>. DEFINE n == Cardinality(DOMAIN R)
<1>1. /\ \A i \in DOMAIN R : R[i] \in History
      /\ run.kind = "batch" => n \in 1 .. MaxB
  BY <1>0, RunRows
<1>. HIDE DEF n
<1>2. logits' \in [Rows -> History]
  BY <1>1, BadType DEF Finish, TypeInv
<1>3. lastRows' \in 0 .. MaxB
  BY <1>1, Sizes DEF Finish, TypeInv, TypeOK, n
<1>4. out'.exact \in BOOLEAN
  BY DEF Finish
<1>5. run'.kind = "idle" /\ DOMAIN mem' = Buffers
  BY DEF Finish, Idle, Fresh
<1>6. TypeOK'
  BY <1>3, <1>4, <1>5 DEF TypeInv, TypeOK, Finish, state
<1>. QED  BY <1>2, <1>6 DEF TypeInv, Finish, state, StateType, CallsOK

LEMMA TopKTypes == TypeInv /\ StageTopK => TypeInv'
<1>. SUFFICES ASSUME TypeInv, StageTopK PROVE TypeInv'
  OBVIOUS
<1>1. TypeOK'
  BY DEF TypeInv, TypeOK, StageTopK, state
<1>. QED  BY <1>1 DEF TypeInv, StageTopK, state, StateType, CallsOK

LEMMA ReleaseTypes == ASSUME TypeInv, NEW s \in Slot, Release(s) PROVE TypeInv'
<1>1. TypeOK'
  BY DEF TypeInv, TypeOK, Release, state
<1>. QED  BY <1>1 DEF TypeInv, Release, state, StateType, CallsOK

LEMMA SubmitTypes == TypeInv /\ Submit => TypeInv'
<1>. SUFFICES ASSUME TypeInv, Submit PROVE TypeInv'
  OBVIOUS
<1>1. PICK c : c = Head(todo)
  OBVIOUS
<1>2. CallsOK(todo') /\ IsCall(c)
  <2>1. /\ IsSeq(todo') /\ Len(todo) \in Nat \ {0} /\ Len(todo') = Len(todo) - 1
        /\ Head(todo) = todo[1] /\ \A i \in 1 .. Len(todo) - 1 : todo'[i] = todo[i + 1]
    BY SeqTail DEF TypeInv, CallsOK, Submit
  <2>2. \A k \in 1 .. Len(todo) : IsCall(todo[k])
    BY DEF TypeInv, CallsOK
  <2>. QED  BY <1>1, <2>1, <2>2 DEF CallsOK
<1>3. CASE \E s \in Slot : c = ResetCall(s)
  <2>1. c.kind = "reset" /\ c.slot \in Slot
    BY <1>3 DEF ResetCall
  <2>2. Reset(c) /\ UNCHANGED <<run, cb, indirect>>
    BY <1>1, <2>1 DEF Submit
  <2>3. StateType'
    BY <2>1, <2>2, ResetTypes DEF TypeInv
  <2>4. TypeOK'
    BY <2>2, <2>3 DEF TypeInv, TypeOK, Submit, StateType
  <2>. QED  BY <1>2, <2>2, <2>3, <2>4 DEF TypeInv, Submit
<1>4. CASE \E a, b \in 0 .. NSlots : c = CopyCall(a, b)
  <2>1. c.kind = "copy" /\ c.from \in 0 .. NSlots /\ c.to \in 0 .. NSlots
    BY <1>4 DEF CopyCall
  <2>2. CopyDnStripes(c) /\ UNCHANGED <<run, cb, indirect>>
    BY <1>1, <2>1 DEF Submit
  <2>3. StateType'
    BY <2>1, <2>2, CopyTypes DEF TypeInv
  <2>4. TypeOK'
    BY <2>2, <2>3 DEF TypeInv, TypeOK, Submit, StateType
  <2>. QED  BY <1>2, <2>2, <2>3, <2>4 DEF TypeInv, Submit
<1>5. CASE IsBatch(c)
  <2>1. c.kind = "batch" /\ c.slot \in Slot
    BY <1>5, BatchRows DEF IsBatch, BatchOf
  <2>2. /\ IF Len(c.rows[0]) = 1 THEN Reset(c) ELSE UNCHANGED state
        /\ run' = c /\ cb' = BatchCB(c) /\ UNCHANGED indirect
    BY <1>1, <2>1 DEF Submit
  <2>3. StateType'
    BY <2>1, <2>2, ResetTypes DEF TypeInv, state, StateType
  <2>4. Shaped(cb')
    BY <1>5, <2>2, BatchArgsOf, BatchShaped
  <2>5. TypeOK'
    BY <2>1, <2>2, <2>3 DEF TypeInv, TypeOK, Submit, StateType
  <2>6. run' # Idle
    BY <2>1, <2>2 DEF Idle
  <2>. QED  BY <1>2, <1>5, <2>2, <2>3, <2>4, <2>5, <2>6 DEF TypeInv, Submit
<1>6. CASE IsSerial(c)
  <2>1. c.kind = "serial"
    BY <1>6, SerialRows DEF IsSerial
  <2>. DEFINE z == Cardinality(DOMAIN c.rows)
              m == CHOOSE m \in {Len(c.rows[s]) : s \in c.asked} :
                     \A s \in c.asked : Len(c.rows[s]) <= m
  <2>2. /\ run' = c /\ cb' = StepCB(z) /\ UNCHANGED state
        /\ indirect' = LiveGrids(z, m) \/ indirect' = indirect
    BY <1>1, <2>1 DEF Submit
  <2>. HIDE DEF z, m
  <2>3. indirect'[1].x = 0 \/ indirect'[2].x = 0
    BY <2>2 DEF LiveGrids, Grid, TypeInv
  <2>4. Shaped(cb')
    BY <2>2, StepShaped
  <2>5. StateType'
    BY <2>2 DEF TypeInv, state, StateType
  <2>6. TypeOK'
    BY <2>1, <2>2, <2>5 DEF TypeInv, TypeOK, Submit, StateType
  <2>7. run' # Idle
    BY <2>1, <2>2 DEF Idle
  <2>. QED  BY <1>2, <1>6, <2>2, <2>3, <2>4, <2>5, <2>6, <2>7 DEF TypeInv, Submit
<1>. QED  BY <1>2, <1>3, <1>4, <1>5, <1>6 DEF IsCall

\* A run of tokens is cut into batches that fit.
LEMMA BatchesOK ==
  ASSUME NEW by, NEW s \in Slot, NEW h \in History, NEW toks \in History,
         Len(h) + Len(toks) <= NCtx, NEW want \in {"ids", "logits", "none"},
         NEW first \in 1 .. NL, NEW last \in first .. NL
  PROVE  CallsOK(Batches(by, s, h, toks, want, first, last))
<1>. DEFINE n == Len(toks)
            N == Ceil(n, MaxB)
            off(k) == (k - 1) * MaxB
            h1(k) == h \o SubSeq(toks, 1, off(k))
            t1(k) == SubSeq(toks, off(k) + 1, Least(off(k) + MaxB, n))
            f == [k \in 1 .. N |-> BatchCall(by, s, s, h1(k), t1(k), want, first, last)]
<1>0. n \in Nat /\ MaxB \in Nat \ {0} /\ NCtx \in Nat /\ Len(h) \in Nat
  BY Sizes DEF History
<1>1. N \in Nat /\ \A k \in 1 .. N : off(k) \in Nat /\ off(k) < n
  <2>1. N = (n + MaxB - 1) \div MaxB
    BY DEF Ceil
  <2>. HIDE DEF N, n
  <2>2. N \in Nat
    BY <1>0, <2>1
  <2>3. ASSUME NEW k \in 1 .. N PROVE off(k) \in Nat /\ off(k) < n
    <3>1. k * MaxB <= n + MaxB - 1
      BY <1>0, <2>1, <2>2
    <3>2. (k - 1) * MaxB = k * MaxB - MaxB /\ k * MaxB \in Int /\ (k - 1) * MaxB \in Nat
      BY <1>0, <2>2
    <3>. QED  BY <1>0, <3>1, <3>2
  <2>. QED  BY <2>2, <2>3
<1>2. ASSUME NEW k \in 1 .. N PROVE IsCall(f[k])
  <2>. DEFINE o == off(k)
              m == Least(o + MaxB, n)
  <2>1. o \in Nat /\ o < n /\ m \in Nat /\ m <= n /\ o + 1 <= m /\ m - o <= MaxB
    <3>1. o \in Nat /\ o < n
      BY <1>1
    <3>. HIDE DEF o, n
    <3>. QED  BY <1>0, <3>1 DEF Least
  <2>2. f[k] = BatchCall(by, s, s, h1(k), t1(k), want, first, last)
    OBVIOUS
  <2>3. h1(k) = h \o SubSeq(toks, 1, o) /\ t1(k) = SubSeq(toks, o + 1, m)
    OBVIOUS
  <2>. HIDE DEF f, N, h1, t1, o, m, off
  <2>4. SubSeq(toks, 1, o) \in Seq(Nat) /\ Len(SubSeq(toks, 1, o)) = o
    BY <2>1 DEF History
  <2>5. h1(k) \in Seq(Nat) /\ Len(h1(k)) = Len(h) + o
    BY <2>3, <2>4, ConcatProperties DEF History
  <2>6. t1(k) \in Seq(Nat) /\ Len(t1(k)) = m - o
    BY <2>1, <2>3, SMTT(60) DEF History
  <2>7. Len(t1(k)) \in 1 .. MaxB /\ Len(h1(k)) + Len(t1(k)) <= NCtx
    <3>. HIDE DEF n
    <3>. QED  BY <1>0, <2>1, <2>5, <2>6 DEF n
  <2>. DEFINE c == f[k]
  <2>8. /\ c.by = by /\ c.slot = s /\ c.stripe = s /\ c.want = want /\ c.first = first
        /\ c.last = last
    BY <2>2 DEF BatchCall
  <2>9. BatchOf(c, h1(k), t1(k))
    <3>1. c = BatchCall(c.by, c.slot, c.stripe, h1(k), t1(k), c.want, c.first, c.last)
      BY <2>2, <2>8
    <3>. HIDE DEF c
    <3>. QED  BY <2>5, <2>6, <2>7, <2>8, <3>1 DEF BatchOf, History
  <2>. QED  BY <2>9 DEF IsCall, IsBatch
<1>3. Batches(by, s, h, toks, want, first, last) = f
  BY Zenon DEF Batches
<1>4. f = [k \in 1 .. N |-> f[k]]
  OBVIOUS
<1>. HIDE DEF f, N
<1>5. IsSeq(f) /\ Len(f) = N
  BY <1>1, <1>4, SeqMade
<1>. QED  BY <1>2, <1>3, <1>5 DEF CallsOK

\* Calls one after the other.
LEMMA CallsConcat == ASSUME NEW a, NEW b, CallsOK(a), CallsOK(b) PROVE CallsOK(a \o b)
<1>1. /\ IsSeq(a \o b) /\ Len(a) \in Nat /\ Len(b) \in Nat /\ Len(a \o b) = Len(a) + Len(b)
      /\ \A i \in 1 .. Len(a) + Len(b) :
           (a \o b)[i] = IF i <= Len(a) THEN a[i] ELSE b[i - Len(a)]
  BY SeqConcat DEF CallsOK
<1>2. ASSUME NEW i \in 1 .. Len(a \o b) PROVE IsCall((a \o b)[i])
  <2>1. CASE i <= Len(a)
    BY <1>1, <2>1 DEF CallsOK
  <2>2. CASE ~(i <= Len(a))
    <3>1. i - Len(a) \in 1 .. Len(b)
      BY <1>1, <2>2
    <3>. QED  BY <1>1, <2>2, <3>1 DEF CallsOK
  <2>. QED  BY <2>1, <2>2
<1>. QED  BY <1>1, <1>2 DEF CallsOK

LEMMA CallsOne == ASSUME NEW c, IsCall(c) PROVE CallsOK(<<c>>)
BY SeqOne DEF CallsOK

LEMMA CallsTwo == ASSUME NEW c, NEW d, IsCall(c), IsCall(d) PROVE CallsOK(<<c, d>>)
<1>1. IsSeq(<<c, d>>) /\ Len(<<c, d>>) = 2 /\ <<c, d>>[1] = c /\ <<c, d>>[2] = d
  BY SeqTwo
<1>. DEFINE q == <<c, d>>
<1>. HIDE DEF q
<1>2. \A i \in 1 .. Len(q) : IsCall(q[i])
  BY <1>1 DEF q
<1>. QED  BY <1>1, <1>2 DEF CallsOK, q

LEMMA CallsMade ==
  ASSUME NEW n \in Nat, NEW f, f = [k \in 1 .. n |-> f[k]], \A k \in 1 .. n : IsCall(f[k])
  PROVE  CallsOK(f)
BY SeqMade DEF CallsOK

\* A host operation with proper calls keeps the types.
LEMMA OpTypes ==
  ASSUME TypeInv, Host, NEW cs, NEW act, NEW h, Op(cs, act, h), act \subseteq Slot,
         h \in [Slot -> History], \A s \in Slot : Len(h[s]) <= NCtx, CallsOK(cs)
  PROVE  TypeInv'
<1>1. CallsOK(todo') /\ calls' \in 0 .. MaxCalls
  BY Sizes DEF Op, Host, TypeInv, TypeOK
<1>2. TypeOK'
  BY <1>1 DEF Op, TypeInv, TypeOK, state
<1>. QED  BY <1>1, <1>2 DEF Op, TypeInv, StateType, state

\* The tokens of an operation, and a history they are appended to.
LEMMA RunType ==
  ASSUME TypeInv, NEW h \in History, NEW n \in Nat
  PROVE  /\ Run(n) \in History /\ Len(Run(n)) = n /\ Token \in Nat \ {0}
         /\ h \o Run(n) \in History /\ Len(h \o Run(n)) = Len(h) + n /\ Len(h) \in Nat
<1>1. Token \in Nat \ {0}
  BY Sizes DEF TypeInv, TypeOK, Token
<1>2. Run(n) \in Seq(Nat) /\ Len(Run(n)) = n
  BY <1>1 DEF Run
<1>. PICK u : u = Run(n)
  OBVIOUS
<1>3. u \in Seq(Nat) /\ Len(u) = n /\ h \in Seq(Nat)
  BY <1>2 DEF History
<1>4. h \o u \in Seq(Nat) /\ Len(h \o u) = Len(h) + Len(u) /\ Len(h) \in Nat
  BY <1>3, ConcatProperties
<1>. QED  BY <1>1, <1>3, <1>4 DEF History

LEMMA AdmitTypes == ASSUME TypeInv, NEW s \in Slot, Admit(s) PROVE TypeInv'
<1>. PICK cs, act, h : cs = <<ResetCall(s)>> /\ act = active \cup {s} /\ h = [fed EXCEPT ![s] = <<>>]
  OBVIOUS
<1>1. Op(cs, act, h) /\ Host
  BY DEF Admit
<1>2. CallsOK(cs)
  BY CallsOne DEF IsCall
<1>3. act \subseteq Slot /\ h \in [Slot -> History] /\ \A q \in Slot : Len(h[q]) <= NCtx
  BY BadType, Sizes DEF TypeInv, TypeOK
<1>. QED  BY <1>1, <1>2, <1>3, OpTypes

\* What a slot has been fed, or the empty history of a new request.
LEMMA FedMore ==
  ASSUME TypeInv, NEW s \in Slot, NEW h \in {fed[s], <<>>}, NEW n \in Nat, NEW k \in Nat,
         Fits(h, n), k <= n
  PROVE  /\ h \in History /\ Len(h) + n <= NCtx
         /\ [fed EXCEPT ![s] = h \o Run(k)] \in [Slot -> History]
         /\ \A q \in Slot : Len([fed EXCEPT ![s] = h \o Run(k)][q]) <= NCtx
<1>1. h \in History
  BY BadType DEF TypeInv
<1>2. Len(h) + n <= NCtx /\ Len(h) \in Nat
  BY <1>1, RunType DEF Fits
<1>. PICK g : g = h \o Run(k)
  OBVIOUS
<1>3. g \in History /\ Len(g) = Len(h) + k
  BY <1>1, RunType
<1>4. Len(g) <= NCtx
  BY <1>2, <1>3, Sizes
<1>. QED  BY <1>1, <1>2, <1>3, <1>4 DEF TypeInv, TypeOK

LEMMA PrefillTypes ==
  ASSUME TypeInv, NEW s \in Slot, NEW n \in 1 .. NCtx, NEW want \in {"none", "logits"},
         Prefill(s, n, want)
  PROVE  TypeInv'
<1>. PICK h : h = IF s \in active THEN fed[s] ELSE <<>>
  OBVIOUS
<1>. PICK toks : toks = Run(n)
  OBVIOUS
<1>. PICK cs, act, g : /\ cs = Batches("prefill", s, h, toks, want, 1, NL)
                       /\ act = active \cup {s} /\ g = [fed EXCEPT ![s] = h \o toks]
  OBVIOUS
<1>1. Op(cs, act, g) /\ Host /\ Fits(h, n)
  BY DEF Prefill
<1>2. /\ h \in History /\ Len(h) + n <= NCtx
      /\ g \in [Slot -> History] /\ \A q \in Slot : Len(g[q]) <= NCtx
  <2>1. h \in {fed[s], <<>>} /\ n \in Nat /\ n <= n
    BY Sizes
  <2>. QED  BY <1>1, <2>1, FedMore
<1>3. toks \in History /\ Len(toks) = n
  BY <1>2, RunType, Sizes
<1>4. CallsOK(cs)
  <2>1. 1 \in 1 .. NL /\ NL \in 1 .. NL /\ want \in {"ids", "logits", "none"}
    BY Sizes
  <2>2. Len(h) + Len(toks) <= NCtx
    BY <1>2, <1>3
  <2>. QED  BY <1>2, <1>3, <2>1, <2>2, BatchesOK
<1>5. act \subseteq Slot
  BY DEF TypeInv, TypeOK
<1>. QED  BY <1>1, <1>2, <1>4, <1>5, OpTypes

\* The highest of the slots with a request.
LEMMA Highest ==
  ASSUME active \subseteq Slot, active # {}
  PROVE  \E s \in active : \A o \in active : o <= s
<1>. DEFINE T == {n \in Nat : \A o \in active : o <= n}
<1>0. active \subseteq Nat /\ \A o \in active : o <= NSlots
  BY Sizes DEF Slot
<1>1. NSlots \in T
  BY <1>0, Sizes
<1>2. PICK x \in T : \A y \in T : x <= y
  BY <1>1, LeastNumber
<1>3. CASE x \in active
  BY <1>2, <1>3
<1>4. CASE x \notin active
  <2>1. \A o \in active : o <= x - 1
    BY <1>0, <1>2, <1>4
  <2>2. x - 1 \in Nat
    <3>1. PICK o \in active : o \in Nat
      BY <1>0
    <3>2. x \in Nat /\ o <= x - 1
      BY <2>1, <3>1
    <3>. QED  BY <3>1, <3>2
  <2>3. x - 1 \in T
    BY <2>1, <2>2
  <2>. QED  BY <1>2, <2>3
<1>. QED  BY <1>3, <1>4

LEMMA StepTypes == TypeInv /\ Step => TypeInv'
<1>. SUFFICES ASSUME TypeInv, Step PROVE TypeInv'
  OBVIOUS
<1>. DEFINE m == CHOOSE s \in active : \A o \in active : o <= s
<1>. PICK z, row : z = m + 1 /\ row = [s \in Slot |-> IF s \in active THEN Append(fed[s], Token) ELSE <<0>>]
  OBVIOUS
<1>. DEFINE c == StepCall("step", [s \in 0 .. z - 1 |-> row[s]], active, TRUE)
            g == [s \in Slot |-> IF s \in active THEN row[s] ELSE fed[s]]
<1>0. Host /\ active # {} /\ active \subseteq Slot /\ \A s \in active : Len(fed[s]) < NCtx
  BY DEF Step, TypeInv, TypeOK
<1>1. m \in active /\ \A o \in active : o <= m
  BY <1>0, Highest
<1>. HIDE DEF m
<1>2. z \in 1 .. NSlots /\ active \subseteq 0 .. z - 1 /\ 0 .. z - 1 \subseteq Slot
  BY <1>0, <1>1, Sizes DEF Slot
<1>3. Op(<<c>>, active, g)
  <2>1. \A s \in Slot : row[s] = IF s \in active THEN Append(fed[s], Token) ELSE <<0>>
    OBVIOUS
  <2>2. c = StepCall("step", [s \in 0 .. z - 1 |-> IF s \in active THEN Append(fed[s], Token) ELSE <<0>>], active, TRUE)
    BY <1>2, <2>1
  <2>3. g = [s \in Slot |-> IF s \in active THEN (IF s \in active THEN Append(fed[s], Token) ELSE <<0>>) ELSE fed[s]]
    BY <2>1
  <2>. HIDE DEF c, g
  <2>. QED  BY <2>2, <2>3, Zenon DEF Step, m
<1>4. ASSUME NEW s \in Slot
      PROVE  row[s] \in History /\ Len(row[s]) \in 1 .. NCtx
  <2>1. CASE s \in active
    <3>1. fed[s] \in Seq(Nat) /\ Token \in Nat /\ Len(fed[s]) < NCtx
      BY <1>0, <2>1, Sizes DEF TypeInv, TypeOK, History, Token
    <3>2. Append(fed[s], Token) \in Seq(Nat) /\ Len(Append(fed[s], Token)) = Len(fed[s]) + 1
          /\ Len(fed[s]) \in Nat
      BY <3>1
    <3>3. row[s] = Append(fed[s], Token)
      BY <2>1
    <3>. QED  BY <3>1, <3>2, <3>3, Sizes DEF History
  <2>2. CASE s \notin active
    BY <2>2, Sizes DEF History
  <2>. QED  BY <2>1, <2>2
<1>5. IsCall(c)
  <2>1. /\ c.by = "step" /\ c.rows = [s \in 0 .. z - 1 |-> row[s]] /\ c.asked = active /\ c.fill = TRUE
        /\ c = StepCall(c.by, c.rows, c.asked, c.fill)
    BY DEF StepCall
  <2>. HIDE DEF c
  <2>2. SerialOf(c, z)
    BY <1>0, <1>2, <1>4, <2>1, ZenonT(60) DEF SerialOf
  <2>. QED  BY <2>2 DEF IsCall, IsSerial
<1>6. g \in [Slot -> History] /\ \A s \in Slot : Len(g[s]) <= NCtx
  BY <1>4, Sizes DEF TypeInv, TypeOK
<1>7. PICK cs, act, h : cs = <<c>> /\ act = active /\ h = g
  OBVIOUS
<1>. HIDE DEF c, g
<1>8. CallsOK(cs)
  BY <1>5, <1>7, CallsOne
<1>. QED  BY <1>0, <1>3, <1>6, <1>7, <1>8, OpTypes

LEMMA BatchIsCall ==
  ASSUME NEW by, NEW s \in Slot, NEW stripe \in {s, Scratch}, NEW h \in History,
         NEW toks \in History, Len(toks) \in 1 .. MaxB, Len(h) + Len(toks) <= NCtx,
         NEW want \in {"ids", "logits", "none"}
  PROVE  IsCall(BatchCall(by, s, stripe, h, toks, want, 1, NL))
<1>. DEFINE c == BatchCall(by, s, stripe, h, toks, want, 1, NL)
<1>1. /\ c.by = by /\ c.slot = s /\ c.stripe = stripe /\ c.want = want /\ c.first = 1
      /\ c.last = NL
  BY DEF BatchCall
<1>2. c = BatchCall(c.by, c.slot, c.stripe, h, toks, c.want, c.first, c.last)
  BY <1>1
<1>. HIDE DEF c
<1>3. BatchOf(c, h, toks)
  BY <1>1, <1>2, Sizes DEF BatchOf
<1>. QED  BY <1>3 DEF IsCall, IsBatch, c

LEMMA VerifyTypes ==
  ASSUME TypeInv, NEW s \in Slot, NEW n \in 1 .. NCtx, NEW k \in 1 .. n, Verify(s, n, k)
  PROVE  TypeInv'
<1>. PICK h, tn, tk : h = fed[s] /\ tn = Run(n) /\ tk = Run(k)
  OBVIOUS
<1>. DEFINE verify == BatchCall("verify", s, Scratch, h, tn, "ids", 1, NL)
            commit == BatchCall("commit", s, s, h, tk, "none", 1, NL)
            end == IF k = n THEN <<CopyCall(Scratch, s)>> ELSE <<commit>>
<1>. PICK cs, act, g : /\ cs = <<CopyCall(s, Scratch), verify>> \o end
                       /\ act = active /\ g = [fed EXCEPT ![s] = h \o tk]
  OBVIOUS
<1>1. Op(cs, act, g) /\ Host /\ Fits(h, n) /\ n <= MaxB
  <2>. HIDE DEF end, verify, commit
  <2>1. Op(<<CopyCall(s, Scratch), verify>> \o end, active, [fed EXCEPT ![s] = h \o tk])
    BY Zenon DEF Verify, end, verify, commit
  <2>. QED  BY <2>1 DEF Verify
<1>2. h \in {fed[s], <<>>} /\ n \in Nat /\ k \in Nat /\ k <= n /\ 1 <= k
  BY Sizes
<1>3. /\ h \in History /\ Len(h) + n <= NCtx
      /\ g \in [Slot -> History] /\ \A q \in Slot : Len(g[q]) <= NCtx
  BY <1>1, <1>2, FedMore
<1>4. tn \in History /\ Len(tn) = n /\ tk \in History /\ Len(tk) = k /\ Len(h) \in Nat
  BY <1>2, <1>3, RunType
<1>5. /\ Len(tn) \in 1 .. MaxB /\ Len(tk) \in 1 .. MaxB
      /\ Len(h) + Len(tn) <= NCtx /\ Len(h) + Len(tk) <= NCtx
  <2>1. n <= MaxB /\ MaxB \in Nat
    BY <1>1, Sizes
  <2>2. n \in Nat /\ k \in Nat /\ k <= n /\ 1 <= k /\ Len(h) + n <= NCtx /\ NCtx \in Nat
    BY <1>2, <1>3, Sizes
  <2>3. Len(tn) = n /\ Len(tk) = k /\ Len(h) \in Nat
    BY <1>4
  <2>. QED  BY <2>1, <2>2, <2>3
<1>6. IsCall(verify) /\ IsCall(commit)
  BY <1>3, <1>4, <1>5, BatchIsCall
<1>7. IsCall(CopyCall(s, Scratch)) /\ IsCall(CopyCall(Scratch, s))
  BY SlotStripe DEF IsCall
<1>. HIDE DEF verify, commit
<1>8. CallsOK(<<CopyCall(s, Scratch), verify>>) /\ CallsOK(end)
  BY <1>6, <1>7, CallsOne, CallsTwo
<1>. HIDE DEF end
<1>9. CallsOK(cs)
  BY <1>8, CallsConcat
<1>10. act \subseteq Slot
  BY DEF TypeInv, TypeOK
<1>. QED  BY <1>1, <1>3, <1>9, <1>10, OpTypes

\* The calls of n parts, one part after the other.
LEMMA CallsFlatten ==
  ASSUME NEW n \in Nat, NEW f, f = [j \in 1 .. n |-> f[j]], \A j \in 1 .. n : CallsOK(f[j])
  PROVE  CallsOK(FlattenSeq(f))
<1>. DEFINE E(j) == {f[j][i] : i \in 1 .. Len(f[j])}
            T == UNION {E(j) : j \in 1 .. n}
<1>1. \A c \in T : IsCall(c)
  BY DEF CallsOK
<1>2. ASSUME NEW j \in 1 .. n PROVE f[j] \in Seq(T)
  <2>1. PICK S : f[j] \in Seq(S)
    BY <1>2 DEF CallsOK, IsSeq
  <2>2. f[j] \in [1 .. Len(f[j]) -> S] /\ Len(f[j]) \in Nat
    BY <2>1
  <2>3. \A i \in 1 .. Len(f[j]) : f[j][i] \in T
    BY <1>2
  <2>. HIDE DEF T
  <2>. QED  BY <2>2, <2>3
<1>. HIDE DEF T
<1>3. f \in Seq(Seq(T))
  BY <1>2
<1>4. FlattenSeq(f) \in Seq(T)
  BY <1>3, FlattenType
<1>. DEFINE q == FlattenSeq(f)
<1>. HIDE DEF q
<1>5. q \in Seq(T) /\ \A i \in 1 .. Len(q) : q[i] \in T
  BY <1>4, SMTT(60) DEF q
<1>6. IsSeq(q) /\ \A i \in 1 .. Len(q) : IsCall(q[i])
  BY <1>1, <1>5, SeqIf
<1>. QED  BY <1>6 DEF CallsOK, q

\* One stage, or two: layers first .. last of each.
LEMMA StageBounds ==
  ASSUME TypeInv
  PROVE  /\ Len(Stages) \in Nat
         /\ \A k \in 1 .. Len(Stages) : Stages[k][1] \in 1 .. NL /\ Stages[k][2] \in Stages[k][1] .. NL
<1>1. cfg.cut \in 0 .. NL - 1 /\ NL \in Nat \ {0}
  BY GpuChainAssumption, Sizes DEF TypeInv, TypeOK, NL
<1>2. CASE cfg.cut = 0
  BY <1>1, <1>2 DEF Stages
<1>3. CASE cfg.cut # 0
  <2>1. Stages = <<<<1, cfg.cut>>, <<cfg.cut + 1, NL>>>>
    BY <1>3 DEF Stages
  <2>. QED  BY <1>1, <1>3, <2>1
<1>. QED  BY <1>2, <1>3

LEMMA StageRunTypes ==
  ASSUME TypeInv, NEW s \in Slot, NEW fresh \in BOOLEAN, NEW n \in 1 .. NCtx,
         StageRun(s, fresh, n)
  PROVE  TypeInv'
<1>. PICK h, toks, st : h = (IF fresh THEN <<>> ELSE fed[s]) /\ toks = Run(n) /\ st = Stages
  OBVIOUS
<1>. DEFINE f == [k \in 1 .. Len(st) |-> Batches("stage", s, h, toks, "ids", st[k][1], st[k][2])]
<1>. PICK cs, act, g : /\ cs = FlattenSeq(f) /\ act = active \cup {s}
                       /\ g = [fed EXCEPT ![s] = h \o toks]
  OBVIOUS
<1>1. Op(cs, act, g) /\ Host /\ Fits(h, n)
  BY DEF StageRun
<1>2. /\ h \in History /\ Len(h) + n <= NCtx
      /\ g \in [Slot -> History] /\ \A q \in Slot : Len(g[q]) <= NCtx
  <2>1. h \in {fed[s], <<>>} /\ n \in Nat /\ n <= n
    BY Sizes
  <2>. QED  BY <1>1, <2>1, FedMore
<1>3. toks \in History /\ Len(toks) = n
  <2>1. h \in History /\ n \in Nat /\ toks = Run(n)
    BY <1>2, Sizes
  <2>. HIDE DEF f
  <2>. QED  BY <2>1, RunType
<1>4. Len(h) + Len(toks) <= NCtx
  BY <1>2, <1>3
<1>5. Len(st) \in Nat /\ \A k \in 1 .. Len(st) : st[k][1] \in 1 .. NL /\ st[k][2] \in st[k][1] .. NL
  BY StageBounds
<1>6. \A k \in 1 .. Len(st) : CallsOK(f[k])
  BY <1>2, <1>3, <1>4, <1>5, BatchesOK
<1>7. f = [k \in 1 .. Len(st) |-> f[k]]
  OBVIOUS
<1>. HIDE DEF f
<1>8. CallsOK(cs)
  BY <1>5, <1>6, <1>7, CallsFlatten
<1>9. act \subseteq Slot
  BY DEF TypeInv, TypeOK
<1>. QED  BY <1>1, <1>2, <1>8, <1>9, OpTypes

LEMMA SerialPrefillTypes ==
  ASSUME TypeInv, NEW s \in Slot, NEW n \in 1 .. NCtx, SerialPrefillLogits(s, n)
  PROVE  TypeInv'
<1>. PICK toks : toks = [j \in 1 .. n |-> Run(j)]
  OBVIOUS
<1>. DEFINE rows(j) == [x \in 0 .. s |-> IF x = s THEN toks[j] ELSE <<0>>]
            f == [j \in 1 .. n |-> StepCall("serialPrefillLogits", rows(j), {s}, FALSE)]
<1>. PICK cs, act, g : cs = <<ResetCall(s)>> \o f /\ act = active /\ g = fed
  OBVIOUS
<1>0. n \in Nat /\ s \in 0 .. NSlots - 1 /\ NSlots \in Nat
  BY Sizes DEF Slot
<1>1. Op(cs, act, g) /\ Host
  <2>1. f = [j \in 1 .. n |-> StepCall("serialPrefillLogits", [x \in 0 .. s |-> IF x = s THEN Run(j) ELSE <<0>>], {s}, FALSE)]
    OBVIOUS
  <2>. HIDE DEF f
  <2>. QED  BY <2>1, Zenon DEF SerialPrefillLogits
<1>2. ASSUME NEW j \in 1 .. n PROVE IsCall(f[j])
  <2>. DEFINE c == f[j]
  <2>1. toks[j] = Run(j) /\ j \in Nat
    BY <1>0
  <2>2. toks[j] \in History /\ Len(toks[j]) = j
    BY <2>1, BadType, RunType
  <2>3. \A x \in 0 .. s : rows(j)[x] \in History /\ Len(rows(j)[x]) \in 1 .. NCtx
    BY <2>2, Sizes DEF History
  <2>4. rows(j) \in [0 .. s -> History]
    BY <2>3
  <2>5. c = StepCall("serialPrefillLogits", rows(j), {s}, FALSE)
    OBVIOUS
  <2>. HIDE DEF c, rows, f
  <2>6. /\ c.by = "serialPrefillLogits" /\ c.rows = rows(j) /\ c.asked = {s} /\ c.fill = FALSE
        /\ c = StepCall(c.by, c.rows, c.asked, c.fill)
    BY <2>5 DEF StepCall
  <2>7. (s + 1) - 1 = s /\ s + 1 \in 1 .. NSlots
    BY <1>0
  <2>8. SerialOf(c, s + 1)
    BY <1>0, <2>3, <2>4, <2>6, <2>7 DEF SerialOf
  <2>. QED  BY <2>8 DEF IsCall, IsSerial, c
<1>3. f = [j \in 1 .. n |-> f[j]]
  OBVIOUS
<1>. HIDE DEF f
<1>4. CallsOK(f)
  BY <1>0, <1>2, <1>3, CallsMade
<1>5. CallsOK(<<ResetCall(s)>>)
  BY CallsOne DEF IsCall
<1>6. CallsOK(cs)
  BY <1>4, <1>5, CallsConcat
<1>7. act \subseteq Slot /\ g \in [Slot -> History] /\ \A q \in Slot : Len(g[q]) <= NCtx
  BY DEF TypeInv, TypeOK
<1>. QED  BY <1>1, <1>6, <1>7, OpTypes

LEMMA InitTypes == Init => TypeInv
<1>. SUFFICES ASSUME Init PROVE TypeInv
  OBVIOUS
<1>1. StateType
  BY BadType DEF Init, StateType, Zero
<1>2. TypeOK
  <2>1. \A l \in 1 .. NL : DOMAIN conv[l] = 0 .. NSlots /\ DOMAIN kv[l] = Slot
    BY <1>1 DEF StateType
  <2>2. \A s \in Slot : Len(fed[s]) <= NCtx
    BY Sizes DEF Init
  <2>3. run.kind = "idle" /\ DOMAIN mem = Buffers /\ out.exact = TRUE
    BY DEF Init, Idle, Fresh
  <2>4. cfg \in Configs /\ active = {} /\ calls = 0 /\ lastRows = 0
    BY DEF Init
  <2>5. calls \in 0 .. MaxCalls /\ lastRows \in 0 .. MaxB /\ active \subseteq Slot
    BY <2>4, Sizes
  <2>. QED  BY <2>1, <2>2, <2>3, <2>4, <2>5 DEF TypeOK
<1>3. CallsOK(todo) /\ Shaped(cb)
  BY SeqNone, ShapedNone DEF Init, CallsOK
<1>4. indirect[2].x = 0
  BY DEF Init, Grid
<1>. QED  BY <1>1, <1>2, <1>3, <1>4, BadType DEF TypeInv, Init

LEMMA NextTypes == TypeInv /\ [Next]_vars => TypeInv'
<1>. SUFFICES ASSUME TypeInv, [Next]_vars PROVE TypeInv'
  OBVIOUS
<1>1. CASE Submit \/ Epoch \/ Finish \/ StageTopK \/ Step
  BY <1>1, SubmitTypes, EpochTypes, FinishTypes, TopKTypes, StepTypes
<1>2. CASE \E s \in Slot : Admit(s) \/ Release(s)
  BY <1>2, AdmitTypes, ReleaseTypes
<1>3. ASSUME NEW s \in Slot, NEW n \in 1 .. NCtx,
             \/ \E want \in {"none", "logits"} : Prefill(s, n, want)
             \/ \E k \in 1 .. n : Verify(s, n, k)
             \/ \E fresh \in BOOLEAN : StageRun(s, fresh, n)
             \/ SerialPrefillLogits(s, n)
      PROVE  TypeInv'
  BY <1>3, PrefillTypes, VerifyTypes, StageRunTypes, SerialPrefillTypes
<1>4. CASE UNCHANGED vars
  BY <1>4 DEF TypeInv, TypeOK, StateType, CallsOK, vars
<1>. QED  BY <1>1, <1>2, <1>3, <1>4 DEF Next

LEMMA AlwaysTyped == Spec => []TypeInv
<1>. QED  BY InitTypes, NextTypes, PTL DEF Spec

\* The host's view and the state stripes stay well-typed: every slot's history fits in the
\* context window, every batch in the batch buffers.
THEOREM TypesHold == Spec => []TypeOK
<1>1. TypeInv => TypeOK
  BY DEF TypeInv
<1>. QED  BY <1>1, AlwaysTyped, PTL

-------------------------------------------------------------------------------
(* No races.                                                                  *)

\* The state the kernels of a group touch: none, but for the seed of a stage.
LEMMA GroupState ==
  ASSUME NEW G \in Groups, NEW d, d.k \in G, d.k \notin {"Seed", "HidIn"}
  PROVE  /\ d.k # "Indirect" /\ StateReads(d) = {} /\ StateWrites(d) = {}
         /\ Reads(d) = InsOf(d.k) /\ Writes(d) = OutsOf(d.k)
<1>1. d.k \in {"RP1", "RP2", "Ab", "AP1", "AP2", "AP3", "MoeRS", "MoeGUs", "MoeL", "MoeDn",
               "MoeDns", "DnGroup"}
  BY DEF Groups
<1>. PICK k : k = d.k
  OBVIOUS
<1>2. /\ k # "Conv" /\ k \notin {"Step", "StepGate"} /\ k # "Seed" /\ k # "Attn"
      /\ k # "AttnS" /\ k # "AttnR" /\ k # "Prep" /\ k # "Indirect"
  BY <1>1
<1>3. StateReads(d) = {} /\ StateWrites(d) = {}
  BY <1>2 DEF StateReads, StateWrites
<1>. QED  BY <1>2, <1>3 DEF Reads, Writes, InsOf, OutsOf

LEMMA SeedState ==
  ASSUME NEW d
  PROVE  /\ d.k = "Seed" => Reads(d) = {"conv"} /\ Writes(d) = {"carry"}
         /\ d.k = "HidIn" => Reads(d) = {} /\ Writes(d) = {"Xin"}
<1>1. /\ InsOf("Seed") = {} /\ OutsOf("Seed") = {}
      /\ InsOf("HidIn") = {} /\ OutsOf("HidIn") = {"Xin"}
  BY TailsTable DEF Kern, InsOf, OutsOf
<1>2. d.k = "Seed" => StateReads(d) = {"conv"} /\ StateWrites(d) = {"carry"}
  BY DEF StateReads, StateWrites
<1>3. d.k = "HidIn" => StateReads(d) = {} /\ StateWrites(d) = {}
  BY DEF StateReads, StateWrites
<1>. QED  BY <1>1, <1>2, <1>3 DEF Reads, Writes, InsOf, OutsOf

\* A split-K dispatch of no chunk touches nothing but its query.
LEMMA SplitState ==
  ASSUME NEW d, d.k = "AttnS"
  PROVE  /\ Writes(d) \subseteq {"part"} /\ Reads(d) \subseteq {"Mid", "kv"}
         /\ d.chunks = {} => Writes(d) = {}
<1>1. InsOf("AttnS") = {"Mid"} /\ OutsOf("AttnS") = {}
  BY MixerTable DEF Kern, InsOf, OutsOf
<1>2. /\ StateReads(d) = IF d.chunks = {} THEN {} ELSE {"kv"}
      /\ StateWrites(d) = IF d.chunks = {} THEN {} ELSE {"part"}
  BY DEF StateReads, StateWrites
<1>. QED  BY <1>1, <1>2 DEF Reads, Writes, InsOf, OutsOf

LEMMA EpochApart ==
  ASSUME NEW ep, Shape(ep), indirect[1].x = 0 \/ indirect[2].x = 0,
         NEW p \in ep, NEW q \in ep, NEW d, NEW e, d = Resolve(p), e = Resolve(q), d # e
  PROVE  Writes(d) \cap (Reads(e) \cup Writes(e)) = {}
<1>1. CASE \E x : ep = {x}
  BY <1>1
<1>2. CASE \E G \in Groups : \A x, y \in ep : x.k \in G /\ (x.k = y.k => x = y)
  <2>1. PICK G \in Groups : \A x, y \in ep : x.k \in G /\ (x.k = y.k => x = y)
    BY <1>2
  <2>2. p.k \in G /\ q.k \in G /\ p.k # q.k
    BY <2>1
  <2>3. p.k # "Indirect" /\ q.k # "Indirect"
    BY <2>2 DEF Groups
  <2>4. d = p /\ e = q
    BY <2>3 DEF Resolve
  <2>5. OutsOf(d.k) \cap (InsOf(e.k) \cup OutsOf(e.k)) = {}
    BY <2>2, <2>4, GroupsApart
  <2>6. CASE G = {"Seed", "HidIn"}
    BY <2>2, <2>4, <2>6, SeedState
  <2>7. CASE G # {"Seed", "HidIn"}
    <3>1. d.k \notin {"Seed", "HidIn"} /\ e.k \notin {"Seed", "HidIn"}
      BY <2>2, <2>4, <2>7 DEF Groups
    <3>. QED  BY <2>2, <2>4, <2>5, <3>1, GroupState
  <2>. QED  BY <2>6, <2>7
<1>3. CASE \E l : ep = {DIndirect(l, 1, 1), DIndirect(l, 2, 4)}
  <2>1. PICK l : ep = {DIndirect(l, 1, 1), DIndirect(l, 2, 4)}
    BY <1>3
  <2>. DEFINE a == Resolve(DIndirect(l, 1, 1))
              b == Resolve(DIndirect(l, 2, 4))
  <2>2. /\ a.k = "AttnS" /\ a.chunks = 0 .. indirect[1].x - 1
        /\ b.k = "AttnS" /\ b.chunks = 0 .. indirect[2].x - 1
    BY DEF Resolve, DIndirect, DSplit
  <2>3. d \in {a, b} /\ e \in {a, b}
    BY <2>1
  <2>. HIDE DEF a, b
  <2>4. 0 .. 0 - 1 = {}
    OBVIOUS
  <2>5. a.chunks = {} \/ b.chunks = {}
    BY <2>2, <2>4
  <2>6. /\ Writes(a) \subseteq {"part"} /\ Reads(a) \subseteq {"Mid", "kv"}
        /\ Writes(b) \subseteq {"part"} /\ Reads(b) \subseteq {"Mid", "kv"}
        /\ Writes(a) = {} \/ Writes(b) = {}
    BY <2>2, <2>5, SplitState
  <2>. QED  BY <2>3, <2>6
<1>. QED  BY <1>1, <1>2, <1>3 DEF Shape

\* No dispatch of an epoch touches what another one of it writes, whatever the flags, the
\* layers, the lengths and the batches: the barriers open() and prefillBatchLast place are
\* enough, and of the two live grids of the split-K attention one is always empty.
THEOREM NoRaces == Spec => []RaceFree
<1>1. TypeInv => RaceFree
  <2>. SUFFICES ASSUME TypeInv, run # Idle, cb # <<>>, NEW d \in Ran, NEW e \in Ran, d # e
                PROVE  Writes(d) \cap (Reads(e) \cup Writes(e)) = {}
    BY DEF RaceFree
  <2>1. PICK ep : ep = Head(cb)
    OBVIOUS
  <2>2. Shape(ep) /\ (indirect[1].x = 0 \/ indirect[2].x = 0)
    BY <2>1, ShapedHead DEF TypeInv
  <2>3. PICK p, q : p \in ep /\ q \in ep /\ d = Resolve(p) /\ e = Resolve(q)
    BY <2>1 DEF Ran
  <2>. QED  BY <2>2, <2>3, EpochApart
<1>. QED  BY <1>1, AlwaysTyped, PTL

-------------------------------------------------------------------------------
(* What a stream does, step by step.                                          *)

\* What is known of the activations between two epochs: which buffer holds which
\* quantity of which layer in every row that counts (f), on how many rows the tiles of
\* a layer have run (tl, tr), the layers whose convolution, recurrence and keys are
\* done (cv, sc, ks), whether the window is seeded (sd), the layer the partial results
\* are of (pt), and whether the hidden rows were handed on (ho).
Know(f, tl, tr, cv, sc, ks, sd, pt, ho) ==
  [f |-> f, tl |-> tl, tr |-> tr, cv |-> cv, sc |-> sc, ks |-> ks, sd |-> sd, pt |-> pt, ho |-> ho]

\* e: the configuration (c), the call (r) and the grids (g) of a stream.
Batched(e) == e.r.kind = "batch"
AllRows(e) == DOMAIN e.r.rows

\* The rows a host reads: under live dispatch the grids must have been written.
Live(e) == IF Batched(e) THEN AllRows(e) ELSE IF e.c.live /\ ~e.r.fill THEN {} ELSE e.r.asked
AtOf(e, i) == Len(e.r.rows[i]) - 1

FirstOf(e) == IF Batched(e) THEN e.r.first ELSE 1
LastOf(e) == IF Batched(e) THEN e.r.last ELSE NL
RangeOf(e) == FirstOf(e) .. LastOf(e)

\* The facts a dispatch of kernel k needs, and those it leaves.
Wants(k, l) == {<<b, Kernel[k].ins[b], l>> : b \in InsOf(k)}
Gives(k, l) == {<<b, Kernel[k].outs[b], l + Kernel[k].next>> : b \in OutsOf(k)}

\* The kernels that touch no state.
Special == {"Conv", "Step", "StepGate", "Prep", "Attn", "AttnS", "AttnR", "Seed", "HidIn", "HidOut"}
PureNames == Names \ Special

\* The facts after kernels ks of layer l.
After(ks, l, f, g) ==
  g \subseteq {x \in f : \A k \in ks : x[1] \notin OutsOf(k)} \cup UNION {Gives(k, l) : k \in ks}

\* The same apart from the facts, or less.
SameBut(K, L) == L.cv = K.cv /\ L.sc = K.sc /\ L.ks = K.ks /\ L.sd = K.sd /\ L.ho = K.ho
Same(K, L) == SameBut(K, L) /\ L.tl = 0 /\ L.pt \in {K.pt, 0}
\* One more layer or step done.
Adds(K, cv, sc, ks, sd, ho) ==
  Know(K.f, 0, 0, K.cv \cup cv, K.sc \cup sc, K.ks \cup ks, IF sd THEN TRUE ELSE K.sd, K.pt, IF ho THEN TRUE ELSE K.ho)

\* One epoch: kernels ks that touch no state ...
PureRule(e, ep, K, L) ==
  \E ks \in SUBSET PureNames, l \in Nat :
    /\ ep = {D(k, l, AllRows(e)) : k \in ks}
    /\ \A j, k \in ks : j # k => OutsOf(j) \cap OutsOf(k) = {}
    /\ \A k \in ks : Wants(k, l) \subseteq K.f
    /\ After(ks, l, K.f, L.f) /\ Same(K, L)
\* ... or one that does.
ConvRule(e, ep, K, L) ==
  \E l \in RangeOf(e) :
    /\ ep = {D("Conv", l, AllRows(e))} /\ Layers[l] = "rec"
    /\ l \notin K.cv /\ (Batched(e) => K.sd)
    /\ Wants("Conv", l) \subseteq K.f /\ After({"Conv"}, l, K.f, L.f)
    /\ Same(Adds(K, {l}, {}, {}, FALSE, FALSE), L)
StepRule(e, ep, K, L) ==
  \E l \in RangeOf(e), k \in {"Step", "StepGate"} :
    /\ ep = {D(k, l, AllRows(e))} /\ Layers[l] = "rec"
    /\ l \notin K.sc
    /\ Wants(k, l) \subseteq K.f /\ After({k}, l, K.f, L.f)
    /\ Same(Adds(K, {}, {l}, {}, FALSE, FALSE), L)
PrepRule(e, ep, K, L) ==
  \E l \in RangeOf(e) :
    /\ ep = {D("Prep", l, AllRows(e))} /\ Layers[l] = "attn"
    /\ l \notin K.ks
    /\ Wants("Prep", l) \subseteq K.f /\ After({"Prep"}, l, K.f, L.f)
    /\ Same(Adds(K, {}, {}, {l}, FALSE, FALSE), L)
\* A tile takes the rows known from K.tl on to L.tl.
TileRule(e, ep, K, L) ==
  \E l \in RangeOf(e), rows \in SUBSET AllRows(e) :
    /\ ep = {D("Attn", l, rows)} /\ Layers[l] = "attn" /\ l \in K.ks
    /\ Wants("Attn", l) \subseteq K.f
    /\ K.tl \in Nat /\ (K.tl # 0 => K.tr = l)
    /\ L.tl \in Nat /\ L.tr = l /\ \A i \in AllRows(e) : K.tl <= i /\ i < L.tl => i \in rows
    /\ \A x \in L.f : \/ x \in K.f /\ x[1] # "Att"
                      \/ x = <<"Att", "a", l>> /\ \A i \in AllRows(e) : i < L.tl
    /\ SameBut(K, L) /\ L.pt \in {K.pt, 0}
\* A split-K dispatch: what it launches covers the keys of every row.
Launched(e, d) ==
  IF d.k # "Indirect" THEN d
  ELSE LET g == e.g[d.grid] IN
       DSplit(d.l, (0 .. g.z - 1) \cap AllRows(e), 0 .. g.x - 1, g.y * d.group)
SplitRule(e, ep, K, L) ==
  \E l \in RangeOf(e) :
    /\ Layers[l] = "attn" /\ l \in K.ks /\ Wants("AttnS", l) \subseteq K.f
    /\ \A d \in ep : /\ d.k \in {"AttnS", "Indirect"} /\ d.l = l
                     /\ Launched(e, d).k = "AttnS" /\ Launched(e, d).l = l
                     /\ Launched(e, d).heads >= HQ \/ Live(e) = {}
    /\ \A i \in Live(e), p \in 0 .. NCtx - 1 : p <= AtOf(e, i) =>
         \E d \in ep : i \in Launched(e, d).rows /\ p \div Chunk \in Launched(e, d).chunks
    /\ L.f \subseteq K.f /\ L.pt = l
    /\ SameBut(K, L) /\ L.tl = 0
ReduceRule(e, ep, K, L) ==
  \E l \in RangeOf(e) :
    /\ ep = {D("AttnR", l, AllRows(e))} /\ K.pt = l
    /\ Wants("AttnR", l) \subseteq K.f /\ After({"AttnR"}, l, K.f, L.f) /\ Same(K, L)
SeedRule(e, ep, K, L) ==
  /\ Batched(e) /\ K.cv = {} /\ ~K.ho
  /\ \/ ep = {D("Seed", 0, {})} /\ L.f = {}
     \/ /\ ep = {D("Seed", 0, {}), D("HidIn", e.r.first, AllRows(e))}
        /\ e.r.first # 1 /\ L.f \subseteq Gives("HidIn", e.r.first)
  /\ Same(Adds(K, {}, {}, {}, TRUE, FALSE), L)
HidOutRule(e, ep, K, L) ==
  /\ Batched(e) /\ e.r.last < NL
  /\ ep = {D("HidOut", e.r.last + 1, AllRows(e))}
  /\ Wants("HidOut", e.r.last + 1) \subseteq K.f /\ L.f \subseteq K.f
  /\ Same(Adds(K, {}, {}, {}, FALSE, TRUE), L)

Rule(e, ep, K, L) ==
  \/ PureRule(e, ep, K, L) \/ ConvRule(e, ep, K, L) \/ StepRule(e, ep, K, L)
  \/ PrepRule(e, ep, K, L) \/ TileRule(e, ep, K, L) \/ SplitRule(e, ep, K, L)
  \/ ReduceRule(e, ep, K, L) \/ SeedRule(e, ep, K, L) \/ HidOutRule(e, ep, K, L)

\* A stream that takes what is known from K to L.
Through(e, s, k) == \A i \in 1 .. Len(s) : Rule(e, s[i], k[i], k[i + 1])
Fine(e, s, K, L) == IsSeq(s) /\ \E k : k[1] = K /\ k[Len(s) + 1] = L /\ Through(e, s, k)

LEMMA FineNone == ASSUME NEW e, NEW K PROVE Fine(e, <<>>, K, K)
<1>. DEFINE k == [i \in {1} |-> K]
<1>1. k[1] = K /\ k[Len(<<>>) + 1] = K /\ IsSeq(<<>>) /\ Len(<<>>) = 0
  BY SeqNone
<1>. HIDE DEF k
<1>2. Through(e, <<>>, k)
  BY <1>1 DEF Through
<1>. QED  BY <1>1, <1>2, Zenon DEF Fine

LEMMA FineOne == ASSUME NEW e, NEW x, NEW K, NEW L, Rule(e, x, K, L) PROVE Fine(e, <<x>>, K, L)
<1>. DEFINE k == [i \in {1, 2} |-> IF i = 1 THEN K ELSE L]
<1>1. k[1] = K /\ k[2] = L
  OBVIOUS
<1>2. IsSeq(<<x>>) /\ Len(<<x>>) = 1 /\ <<x>>[1] = x
  BY SeqOne
<1>. HIDE DEF k
<1>. DEFINE s == <<x>>
<1>. HIDE DEF s
<1>3. \A i \in 1 .. Len(s) : i = 1 /\ s[i] = x
  BY <1>2 DEF s
<1>4. Through(e, s, k)
  BY <1>1, <1>3 DEF Through
<1>5. k[Len(s) + 1] = L /\ IsSeq(s)
  BY <1>1, <1>2 DEF s
<1>. QED  BY <1>1, <1>4, <1>5, Zenon DEF Fine, s

LEMMA FineConcat ==
  ASSUME NEW e, NEW s, NEW t, NEW K, NEW L, NEW M, Fine(e, s, K, L), Fine(e, t, L, M)
  PROVE  Fine(e, s \o t, K, M)
<1>1. PICK j : IsSeq(s) /\ j[1] = K /\ j[Len(s) + 1] = L /\ Through(e, s, j)
  BY Zenon DEF Fine
<1>2. PICK k : IsSeq(t) /\ k[1] = L /\ k[Len(t) + 1] = M /\ Through(e, t, k)
  BY Zenon DEF Fine
<1>. DEFINE a == Len(s)  b == Len(t)  u == s \o t
<1>3. /\ IsSeq(u) /\ a \in Nat /\ b \in Nat /\ Len(u) = a + b
      /\ \A i \in 1 .. a + b : u[i] = IF i <= a THEN s[i] ELSE t[i - a]
  BY <1>1, <1>2, SeqConcat
<1>. DEFINE h == [i \in 1 .. a + b + 1 |-> IF i <= a THEN j[i] ELSE k[i - a]]
<1>. HIDE DEF a, b, u
<1>4. \A i \in 1 .. a + b + 1 : h[i] = IF i <= a THEN j[i] ELSE k[i - a]
  OBVIOUS
<1>. HIDE DEF h
<1>5. h[a + 1] = L /\ j[a + 1] = L
  <2>1. a + 1 \in 1 .. a + b + 1 /\ ~(a + 1 <= a) /\ (a + 1) - a = 1
    BY <1>3
  <2>2. h[a + 1] = k[(a + 1) - a]
    BY <1>4, <2>1
  <2>. QED  BY <1>1, <1>2, <2>1, <2>2 DEF a
<1>6. h[1] = K
  <2>1. CASE a = 0
    BY <1>1, <1>5, <2>1 DEF a
  <2>2. CASE a # 0
    BY <1>1, <1>3, <1>4, <2>2
  <2>. QED  BY <2>1, <2>2
<1>7. h[Len(u) + 1] = M
  <2>1. a + b + 1 \in 1 .. a + b + 1 /\ ~(a + b + 1 <= a) /\ (a + b + 1) - a = b + 1
    BY <1>3
  <2>2. h[a + b + 1] = k[(a + b + 1) - a]
    BY <1>4, <2>1
  <2>. QED  BY <1>2, <1>3, <2>1, <2>2 DEF b
<1>8. ASSUME NEW i \in 1 .. Len(u) PROVE Rule(e, u[i], h[i], h[i + 1])
  <2>0. i \in 1 .. a + b /\ i + 1 \in 1 .. a + b + 1 /\ i \in 1 .. a + b + 1
    BY <1>3
  <2>1. CASE i <= a
    <3>1. i \in 1 .. Len(s)
      BY <1>3, <2>0, <2>1 DEF a
    <3>2. u[i] = s[i] /\ h[i] = j[i]
      BY <1>3, <1>4, <2>0, <2>1
    <3>3. h[i + 1] = j[i + 1]
      <4>1. CASE i = a
        BY <1>5, <4>1
      <4>2. CASE i # a
        BY <1>3, <1>4, <2>0, <2>1, <4>2
      <4>. QED  BY <4>1, <4>2
    <3>. QED  BY <1>1, <3>1, <3>2, <3>3 DEF Through
  <2>2. CASE ~(i <= a)
    <3>1. i - a \in 1 .. b /\ (i + 1) - a = (i - a) + 1 /\ ~(i + 1 <= a)
      BY <1>3, <2>0, <2>2
    <3>2. u[i] = t[i - a] /\ h[i] = k[i - a] /\ h[i + 1] = k[(i + 1) - a]
      BY <1>3, <1>4, <2>0, <2>2, <3>1
    <3>3. Rule(e, t[i - a], k[i - a], k[(i - a) + 1])
      BY <1>2, <3>1 DEF Through, b
    <3>. QED  BY <3>1, <3>2, <3>3
  <2>. QED  BY <2>1, <2>2
<1>. QED  BY <1>3, <1>6, <1>7, <1>8, Zenon DEF Fine, Through, u

LEMMA FineHead ==
  ASSUME NEW e, NEW s, NEW K, NEW L, Fine(e, s, K, L), s # <<>>
  PROVE  \E M : Rule(e, Head(s), K, M) /\ Fine(e, Tail(s), M, L)
<1>1. PICK k : IsSeq(s) /\ k[1] = K /\ k[Len(s) + 1] = L /\ Through(e, s, k)
  BY Zenon DEF Fine
<1>2. /\ IsSeq(Tail(s)) /\ Len(s) \in Nat \ {0} /\ Len(Tail(s)) = Len(s) - 1
      /\ Head(s) = s[1] /\ \A i \in 1 .. Len(s) - 1 : Tail(s)[i] = s[i + 1]
  BY <1>1, SeqTail
<1>. DEFINE n == Len(s)  u == Tail(s)  j == [i \in 1 .. n |-> k[i + 1]]
<1>3. Rule(e, Head(s), K, k[2])
  <2>1. 1 \in 1 .. Len(s) /\ 1 + 1 = 2
    BY <1>2
  <2>. QED  BY <1>1, <1>2, <2>1 DEF Through
<1>. HIDE DEF n, u
<1>4. \A i \in 1 .. n : j[i] = k[i + 1]
  OBVIOUS
<1>. HIDE DEF j
<1>5. j[1] = k[2] /\ j[Len(u) + 1] = L
  <2>1. n \in Nat \ {0} /\ Len(u) = n - 1
    BY <1>2 DEF n, u
  <2>2. 1 \in 1 .. n /\ n \in 1 .. n /\ Len(u) + 1 = n
    BY <2>1
  <2>. QED  BY <1>1, <1>4, <2>2 DEF n
<1>6. Through(e, u, j)
  <2>. SUFFICES ASSUME NEW i \in 1 .. Len(u) PROVE Rule(e, u[i], j[i], j[i + 1])
    BY DEF Through
  <2>1. n \in Nat \ {0} /\ Len(u) = n - 1
    BY <1>2 DEF n, u
  <2>2. i + 1 \in 1 .. n /\ i \in 1 .. n /\ i \in 1 .. n - 1
    BY <2>1
  <2>3. u[i] = s[i + 1] /\ j[i] = k[i + 1] /\ j[i + 1] = k[(i + 1) + 1]
    BY <1>2, <1>4, <2>2 DEF u, n
  <2>4. Rule(e, s[i + 1], k[i + 1], k[(i + 1) + 1])
    BY <1>1, <2>2 DEF Through, n
  <2>. QED  BY <2>3, <2>4
<1>7. Fine(e, u, k[2], L)
  BY <1>2, <1>5, <1>6, Zenon DEF Fine, u
<1>. QED  BY <1>3, <1>7 DEF u

LEMMA FineEnd == ASSUME NEW e, NEW K, NEW L, Fine(e, <<>>, K, L) PROVE K = L
<1>1. PICK k : k[1] = K /\ k[Len(<<>>) + 1] = L
  BY Zenon DEF Fine
<1>. QED  BY <1>1, SeqNone

\* Sequences that are sequences over some set are sequences over one set.
LEMMA OneSet ==
  ASSUME NEW n \in Nat, NEW f, \A j \in 1 .. n : IsSeq(f[j])
  PROVE  \E T : \A j \in 1 .. n : f[j] \in Seq(T)
<1>. DEFINE E(j) == CHOOSE T : f[j] \in Seq(T)
            T == UNION {E(j) : j \in 1 .. n}
<1>1. \A j \in 1 .. n : f[j] \in Seq(E(j))
  BY DEF IsSeq
<1>2. \A j \in 1 .. n : E(j) \subseteq T
  OBVIOUS
<1>. HIDE DEF E, T
<1>3. \A j \in 1 .. n : f[j] \in Seq(T)
  BY <1>1, <1>2
<1>. QED  BY <1>3

\* The first m of n parts, and one more.
Parts(f, m) == [j \in 1 .. m |-> f[j]]
LEMMA PartsType ==
  ASSUME NEW X, NEW n \in Nat, NEW f, \A j \in 1 .. n : f[j] \in X, NEW m \in 0 .. n
  PROVE  Parts(f, m) \in Seq(X) /\ Len(Parts(f, m)) = m
BY DEF Parts

LEMMA PartsIs == ASSUME NEW f, NEW m, NEW i \in 1 .. m PROVE Parts(f, m)[i] = f[i]
BY DEF Parts

LEMMA OneMorePart ==
  ASSUME NEW X, NEW n \in Nat, NEW f, \A j \in 1 .. n : f[j] \in X, NEW m \in 0 .. n - 1,
         NEW a \in Seq(X), a = Parts(f, m)
  PROVE  Parts(f, m + 1) = Append(a, f[m + 1])
<1>. DEFINE b == Parts(f, m + 1)  c == Append(a, f[m + 1])
<1>0. m \in Nat /\ m + 1 \in 0 .. n /\ m \in 0 .. n /\ m + 1 \in 1 .. n
  OBVIOUS
<1>1. Len(a) = m /\ \A i \in 1 .. m : a[i] = f[i]
  BY <1>0, PartsType, PartsIs
<1>2. b \in Seq(X) /\ Len(b) = m + 1 /\ \A i \in 1 .. m + 1 : b[i] = f[i]
  BY <1>0, PartsType, PartsIs
<1>3. f[m + 1] \in X
  BY <1>0
<1>. HIDE DEF b
<1>4. c \in Seq(X) /\ Len(c) = m + 1 /\ \A i \in 1 .. m + 1 : c[i] = IF i = m + 1 THEN f[m + 1] ELSE a[i]
  BY <1>0, <1>1, <1>3
<1>. HIDE DEF c
<1>5. \A i \in 1 .. m + 1 : b[i] = c[i]
  BY <1>0, <1>1, <1>2, <1>4
<1>6. b = c
  BY <1>2, <1>4, <1>5, SeqEqual
<1>. QED  BY <1>6 DEF b, c

\* Streams one after the other.
LEMMA FineFlatten ==
  ASSUME NEW e, NEW n \in Nat, NEW f, NEW q, \A j \in 1 .. n : Fine(e, f[j], q[j], q[j + 1])
  PROVE  Fine(e, FlattenSeq(Parts(f, n)), q[1], q[n + 1])
<1>1. \A j \in 1 .. n : IsSeq(f[j])
  BY Zenon DEF Fine
<1>2. PICK S : \A j \in 1 .. n : f[j] \in Seq(S)
  BY <1>1, OneSet
<1>. DEFINE T == {m \in Nat : m <= n => Fine(e, FlattenSeq(Parts(f, m)), q[1], q[m + 1])}
<1>3. 0 \in T
  <2>1. Parts(f, 0) = <<>>
    BY DEF Parts
  <2>2. Fine(e, FlattenSeq(Parts(f, 0)), q[1], q[1])
    BY <2>1, FlattenEmpty, FineNone
  <2>. QED  BY <2>2
<1>4. ASSUME NEW m \in T PROVE m + 1 \in T
  <2>. SUFFICES ASSUME m + 1 <= n PROVE Fine(e, FlattenSeq(Parts(f, m + 1)), q[1], q[(m + 1) + 1])
    OBVIOUS
  <2>1. m \in Nat /\ m <= n /\ m + 1 \in 1 .. n
    OBVIOUS
  <2>2. Fine(e, FlattenSeq(Parts(f, m)), q[1], q[m + 1])
    BY <2>1
  <2>3. Fine(e, f[m + 1], q[m + 1], q[(m + 1) + 1])
    BY <2>1
  <2>. DEFINE a == Parts(f, m)  b == Parts(f, m + 1)
  <2>4. f[m + 1] \in Seq(S)
    BY <1>2, <2>1
  <2>5. a \in Seq(Seq(S)) /\ b = Append(a, f[m + 1])
    <3>. PICK X : X = Seq(S)
      OBVIOUS
    <3>1. \A j \in 1 .. n : f[j] \in X
      BY <1>2
    <3>2. m \in 0 .. n /\ m \in 0 .. n - 1
      BY <2>1
    <3>. HIDE DEF T
    <3>3. a \in Seq(X)
      BY <3>1, <3>2, PartsType
    <3>4. b = Append(a, f[m + 1])
      <4>. PICK d : d = a
        OBVIOUS
      <4>1. d \in Seq(X) /\ d = Parts(f, m)
        BY <3>3
      <4>2. Parts(f, m + 1) = Append(d, f[m + 1])
        BY <3>1, <3>2, <4>1, OneMorePart
      <4>. QED  BY <4>2
    <3>. QED  BY <3>3, <3>4
  <2>. HIDE DEF a, b, T
  <2>8. FlattenSeq(b) = FlattenSeq(a) \o f[m + 1]
    BY <2>4, <2>5, FlattenAppend
  <2>9. Fine(e, FlattenSeq(a), q[1], q[m + 1])
    BY <2>2 DEF a
  <2>10. Fine(e, FlattenSeq(a) \o f[m + 1], q[1], q[(m + 1) + 1])
    BY <2>3, <2>9, FineConcat
  <2>11. Fine(e, FlattenSeq(b), q[1], q[(m + 1) + 1])
    BY <2>8, <2>10
  <2>. QED  BY <2>11 DEF b
<1>5. T \in SUBSET Nat
  OBVIOUS
<1>. HIDE DEF T
<1>6. T = Nat
  BY <1>3, <1>4, <1>5, NumbersByInduction
<1>. QED  BY <1>6 DEF T

-------------------------------------------------------------------------------
(* The kernels, by the buffers they write and the facts they need and leave.  *)

Does(k, l, outs, wants, gives) ==
  OutsOf(k) = outs /\ Wants(k, l) = wants /\ Gives(k, l) = gives

LEMMA DoesRms ==
  ASSUME NEW l \in Nat
  PROVE  Does("Rms", l, {"Xn"}, {<<"Xin", "x", l>>}, {<<"Xn", "xn", l>>})
BY MixerTable, SMT DEF Kern, InsOf, OutsOf, Wants, Gives, Does

LEMMA DoesRP1 ==
  ASSUME NEW l \in Nat
  PROVE  Does("RP1", l, {"Big"}, {<<"Xn", "xn", l>>}, {<<"Big", "qkv", l>>})
BY MixerTable, SMT DEF Kern, InsOf, OutsOf, Wants, Gives, Does

LEMMA DoesRP2 ==
  ASSUME NEW l \in Nat
  PROVE  Does("RP2", l, {"Mid"}, {<<"Xn", "xn", l>>}, {<<"Mid", "z", l>>})
BY MixerTable, SMT DEF Kern, InsOf, OutsOf, Wants, Gives, Does

LEMMA DoesAb ==
  ASSUME NEW l \in Nat
  PROVE  Does("Ab", l, {"Gb"}, {<<"Xn", "xn", l>>}, {<<"Gb", "gb", l>>})
BY MixerTable, SMT DEF Kern, InsOf, OutsOf, Wants, Gives, Does

LEMMA DoesConv ==
  ASSUME NEW l \in Nat
  PROVE  Does("Conv", l, {"ConvOut"}, {<<"Big", "qkv", l>>}, {<<"ConvOut", "c", l>>})
BY MixerTable, SMT DEF Kern, InsOf, OutsOf, Wants, Gives, Does

LEMMA DoesStep ==
  ASSUME NEW l \in Nat
  PROVE  Does("Step", l, {"O"}, {<<"ConvOut", "c", l>>, <<"Gb", "gb", l>>}, {<<"O", "o", l>>})
BY MixerTable, SMT DEF Kern, InsOf, OutsOf, Wants, Gives, Does

LEMMA DoesGate ==
  ASSUME NEW l \in Nat
  PROVE  Does("Gate", l, {"Att"}, {<<"O", "o", l>>, <<"Mid", "z", l>>}, {<<"Att", "a", l>>})
BY MixerTable, SMT DEF Kern, InsOf, OutsOf, Wants, Gives, Does

LEMMA DoesStepGate ==
  ASSUME NEW l \in Nat
  PROVE  Does("StepGate", l, {"Att"}, {<<"ConvOut", "c", l>>, <<"Gb", "gb", l>>, <<"Mid", "z", l>>},
              {<<"Att", "a", l>>})
BY MixerTable, SMT DEF Kern, InsOf, OutsOf, Wants, Gives, Does

LEMMA DoesAP1 ==
  ASSUME NEW l \in Nat
  PROVE  Does("AP1", l, {"Big"}, {<<"Xn", "xn", l>>}, {<<"Big", "qg", l>>})
BY MixerTable, SMT DEF Kern, InsOf, OutsOf, Wants, Gives, Does

LEMMA DoesAP2 ==
  ASSUME NEW l \in Nat
  PROVE  Does("AP2", l, {"Kin"}, {<<"Xn", "xn", l>>}, {<<"Kin", "k", l>>})
BY MixerTable, SMT DEF Kern, InsOf, OutsOf, Wants, Gives, Does

LEMMA DoesAP3 ==
  ASSUME NEW l \in Nat
  PROVE  Does("AP3", l, {"Vin"}, {<<"Xn", "xn", l>>}, {<<"Vin", "v", l>>})
BY MixerTable, SMT DEF Kern, InsOf, OutsOf, Wants, Gives, Does

LEMMA DoesPrep ==
  ASSUME NEW l \in Nat
  PROVE  Does("Prep", l, {"Mid"}, {<<"Big", "qg", l>>, <<"Kin", "k", l>>, <<"Vin", "v", l>>},
              {<<"Mid", "q", l>>})
BY MixerTable, SMT DEF Kern, InsOf, OutsOf, Wants, Gives, Does

LEMMA DoesAttnS ==
  ASSUME NEW l \in Nat
  PROVE  Does("AttnS", l, {}, {<<"Mid", "q", l>>}, {})
BY MixerTable, SMT DEF Kern, InsOf, OutsOf, Wants, Gives, Does

LEMMA DoesAttn ==
  ASSUME NEW l \in Nat
  PROVE  Does("Attn", l, {"Att"}, {<<"Mid", "q", l>>, <<"Big", "qg", l>>}, {<<"Att", "a", l>>})
BY MixerTable, SMT DEF Kern, InsOf, OutsOf, Wants, Gives, Does

LEMMA DoesAttnR ==
  ASSUME NEW l \in Nat
  PROVE  Does("AttnR", l, {"Att"}, {<<"Big", "qg", l>>}, {<<"Att", "a", l>>})
BY MixerTable, SMT DEF Kern, InsOf, OutsOf, Wants, Gives, Does

LEMMA DoesWo ==
  ASSUME NEW l \in Nat
  PROVE  Does("Wo", l, {"AttnOut"}, {<<"Att", "a", l>>}, {<<"AttnOut", "ao", l>>})
BY MixerTable, SMT DEF Kern, InsOf, OutsOf, Wants, Gives, Does

LEMMA DoesAddN ==
  ASSUME NEW l \in Nat
  PROVE  Does("AddN", l, {"Y", "Xn2"}, {<<"Xin", "x", l>>, <<"AttnOut", "ao", l>>},
              {<<"Y", "y", l>>, <<"Xn2", "xn2", l>>})
BY MoeTable, SMT DEF Kern, InsOf, OutsOf, Wants, Gives, Does

LEMMA DoesAddNRoute ==
  ASSUME NEW l \in Nat
  PROVE  Does("AddNRoute", l, {"Y", "Xn2", "Sel"}, {<<"Xin", "x", l>>, <<"AttnOut", "ao", l>>},
              {<<"Y", "y", l>>, <<"Xn2", "xn2", l>>, <<"Sel", "armed", l>>})
BY MoeTable, SMT DEF Kern, InsOf, OutsOf, Wants, Gives, Does

LEMMA DoesMoeL ==
  ASSUME NEW l \in Nat
  PROVE  Does("MoeL", l, {"ML"}, {<<"Xn2", "xn2", l>>}, {<<"ML", "l", l>>})
BY MoeTable, SMT DEF Kern, InsOf, OutsOf, Wants, Gives, Does

LEMMA DoesMoeRS ==
  ASSUME NEW l \in Nat
  PROVE  Does("MoeRS", l, {"ML", "Sel"}, {<<"Xn2", "xn2", l>>, <<"Sel", "armed", l>>},
              {<<"ML", "l", l>>, <<"Sel", "sel", l>>})
BY MoeTable, SMT DEF Kern, InsOf, OutsOf, Wants, Gives, Does

LEMMA DoesMoeS ==
  ASSUME NEW l \in Nat
  PROVE  Does("MoeS", l, {"Sel"}, {<<"ML", "l", l>>, <<"Xn2", "xn2", l>>},
              {<<"Sel", "sel", l>>})
BY MoeTable, SMT DEF Kern, InsOf, OutsOf, Wants, Gives, Does

LEMMA DoesMoeGUs ==
  ASSUME NEW l \in Nat
  PROVE  Does("MoeGUs", l, {"MHs"}, {<<"Xn2", "xn2", l>>}, {<<"MHs", "hs", l>>})
BY MoeTable, SMT DEF Kern, InsOf, OutsOf, Wants, Gives, Does

LEMMA DoesMoeGU ==
  ASSUME NEW l \in Nat
  PROVE  Does("MoeGU", l, {"MH"}, {<<"Xn2", "xn2", l>>, <<"Sel", "sel", l>>},
              {<<"MH", "h", l>>})
BY MoeTable, SMT DEF Kern, InsOf, OutsOf, Wants, Gives, Does

LEMMA DoesMoeDn ==
  ASSUME NEW l \in Nat
  PROVE  Does("MoeDn", l, {"MY"}, {<<"MH", "h", l>>, <<"Sel", "sel", l>>}, {<<"MY", "y1", l>>})
BY MoeTable, SMT DEF Kern, InsOf, OutsOf, Wants, Gives, Does

LEMMA DoesMoeDns ==
  ASSUME NEW l \in Nat
  PROVE  Does("MoeDns", l, {"MY2"}, {<<"MHs", "hs", l>>, <<"Sel", "sel", l>>},
              {<<"MY2", "y2", l>>})
BY MoeTable, SMT DEF Kern, InsOf, OutsOf, Wants, Gives, Does

LEMMA DoesPairs ==
  ASSUME NEW l \in Nat
  PROVE  Does("Pairs", l, {"Pairs"}, {<<"Sel", "sel", l>>}, {<<"Pairs", "p", l>>})
BY MoeTable, SMT DEF Kern, InsOf, OutsOf, Wants, Gives, Does

LEMMA DoesGUGroup ==
  ASSUME NEW l \in Nat
  PROVE  Does("GUGroup", l, {"MH"}, {<<"Xn2", "xn2", l>>, <<"Pairs", "p", l>>},
              {<<"MH", "h", l>>})
BY MoeTable, SMT DEF Kern, InsOf, OutsOf, Wants, Gives, Does

LEMMA DoesDnGroup ==
  ASSUME NEW l \in Nat
  PROVE  Does("DnGroup", l, {"Contrib"}, {<<"MH", "h", l>>, <<"Sel", "sel", l>>, <<"Pairs", "p", l>>},
              {<<"Contrib", "y1", l>>})
BY MoeTable, SMT DEF Kern, InsOf, OutsOf, Wants, Gives, Does

LEMMA DoesAdd3 ==
  ASSUME NEW l \in Nat
  PROVE  Does("Add3", l, {"Xin", "Xn"}, {<<"Y", "y", l>>, <<"MY", "y1", l>>, <<"MY2", "y2", l>>},
              {<<"Xin", "x", l + 1>>, <<"Xn", "xn", l + 1>>})
BY TailsTable, SMT DEF Kern, InsOf, OutsOf, Wants, Gives, Does

LEMMA DoesAdd3Group ==
  ASSUME NEW l \in Nat
  PROVE  Does("Add3Group", l, {"Xin", "Xn"}, {<<"Y", "y", l>>, <<"Contrib", "y1", l>>, <<"MY2", "y2", l>>},
              {<<"Xin", "x", l + 1>>, <<"Xn", "xn", l + 1>>})
BY TailsTable, SMT DEF Kern, InsOf, OutsOf, Wants, Gives, Does

LEMMA DoesAdd3Cut ==
  ASSUME NEW l \in Nat
  PROVE  Does("Add3Cut", l, {"Xin", "Xn"}, {<<"Y", "y", l>>, <<"MY", "y1", l>>, <<"MY2", "y2", l>>},
              {<<"Xin", "x", l + 1>>, <<"Xn", "dead", l + 1>>})
BY TailsTable, SMT DEF Kern, InsOf, OutsOf, Wants, Gives, Does

LEMMA DoesAdd3GroupCut ==
  ASSUME NEW l \in Nat
  PROVE  Does("Add3GroupCut", l, {"Xin", "Xn"}, {<<"Y", "y", l>>, <<"Contrib", "y1", l>>, <<"MY2", "y2", l>>},
              {<<"Xin", "x", l + 1>>, <<"Xn", "dead", l + 1>>})
BY TailsTable, SMT DEF Kern, InsOf, OutsOf, Wants, Gives, Does

LEMMA DoesEmb ==
  ASSUME NEW l \in Nat
  PROVE  Does("Emb", l, {"Xin"}, {}, {<<"Xin", "x", l>>})
BY TailsTable, SMT DEF Kern, InsOf, OutsOf, Wants, Gives, Does

LEMMA DoesHidIn ==
  ASSUME NEW l \in Nat
  PROVE  Does("HidIn", l, {"Xin"}, {}, {<<"Xin", "x", l>>})
BY TailsTable, SMT DEF Kern, InsOf, OutsOf, Wants, Gives, Does

LEMMA DoesHidOut ==
  ASSUME NEW l \in Nat
  PROVE  Does("HidOut", l, {}, {<<"Xin", "x", l>>}, {})
BY TailsTable, SMT DEF Kern, InsOf, OutsOf, Wants, Gives, Does

LEMMA DoesHead ==
  ASSUME NEW l \in Nat
  PROVE  Does("Head", l, {"Logits"}, {<<"Xn", "xn", l>>}, {<<"Logits", "lg", l>>})
BY TailsTable, SMT DEF Kern, InsOf, OutsOf, Wants, Gives, Does

LEMMA DoesAm1 ==
  ASSUME NEW l \in Nat
  PROVE  Does("Am1", l, {"AV"}, {<<"Logits", "lg", l>>}, {<<"AV", "av", l>>})
BY TailsTable, SMT DEF Kern, InsOf, OutsOf, Wants, Gives, Does

LEMMA DoesAm2 ==
  ASSUME NEW l \in Nat
  PROVE  Does("Am2", l, {"Tok"}, {<<"AV", "av", l>>}, {<<"Tok", "t", l>>})
BY TailsTable, SMT DEF Kern, InsOf, OutsOf, Wants, Gives, Does

LEMMA DoesCopy ==
  ASSUME NEW l \in Nat
  PROVE  Does("Copy", l, {"Samp"}, {<<"Tok", "t", l>>}, {<<"Samp", "t", l>>})
BY TailsTable, SMT DEF Kern, InsOf, OutsOf, Wants, Gives, Does

-------------------------------------------------------------------------------
(* The parts of the streams.                                                  *)

\* What is known between two dispatches that are no tiles.
Kn(f, cv, sc, ks, sd) == Know(f, 0, 0, cv, sc, ks, sd, 0, FALSE)

\* Streams of one epoch after the other.
LEMMA FineTwo ==
  ASSUME NEW e, NEW x, NEW y, NEW K, NEW L, NEW M,
         Rule(e, x, K, L), Rule(e, y, L, M)
  PROVE  Fine(e, <<x, y>>, K, M)
<1>. DEFINE s == <<x, y>>
            k == [i \in 1 .. 3 |-> IF i = 1 THEN K ELSE IF i = 2 THEN L ELSE M]
<1>1. k[1] = K /\ k[2] = L /\ k[3] = M
  OBVIOUS
<1>2. s \in Seq({x, y}) /\ Len(s) = 2 /\ s[1] = x /\ s[2] = y
  OBVIOUS
<1>. HIDE DEF s, k
<1>3. \A i \in 1 .. Len(s) : i = 1 \/ i = 2
  BY <1>2
<1>4. Through(e, s, k)
  BY <1>1, <1>2, <1>3 DEF Through
<1>5. k[Len(s) + 1] = M /\ IsSeq(s)
  BY <1>1, <1>2 DEF IsSeq
<1>. QED  BY <1>1, <1>4, <1>5, Zenon DEF Fine, s

LEMMA FineThree ==
  ASSUME NEW e, NEW x, NEW y, NEW z, NEW K, NEW L, NEW M, NEW N,
         Rule(e, x, K, L), Rule(e, y, L, M), Rule(e, z, M, N)
  PROVE  Fine(e, <<x, y, z>>, K, N)
<1>. DEFINE s == <<x, y, z>>
            k == [i \in 1 .. 4 |-> IF i = 1 THEN K ELSE IF i = 2 THEN L ELSE IF i = 3 THEN M ELSE N]
<1>1. k[1] = K /\ k[2] = L /\ k[3] = M /\ k[4] = N
  OBVIOUS
<1>2. s \in Seq({x, y, z}) /\ Len(s) = 3 /\ s[1] = x /\ s[2] = y /\ s[3] = z
  OBVIOUS
<1>. HIDE DEF s, k
<1>3. \A i \in 1 .. Len(s) : i = 1 \/ i = 2 \/ i = 3
  BY <1>2
<1>4. Through(e, s, k)
  BY <1>1, <1>2, <1>3 DEF Through
<1>5. k[Len(s) + 1] = N /\ IsSeq(s)
  BY <1>1, <1>2 DEF IsSeq
<1>. QED  BY <1>1, <1>4, <1>5, Zenon DEF Fine, s

LEMMA FineFour ==
  ASSUME NEW e, NEW w, NEW x, NEW y, NEW z, NEW K, NEW L, NEW M, NEW N, NEW O,
         Rule(e, w, K, L), Rule(e, x, L, M), Rule(e, y, M, N), Rule(e, z, N, O)
  PROVE  Fine(e, <<w, x, y, z>>, K, O)
<1>. DEFINE s == <<w, x, y, z>>
            k == [i \in 1 .. 5 |-> IF i = 1 THEN K ELSE IF i = 2 THEN L ELSE IF i = 3 THEN M ELSE IF i = 4 THEN N ELSE O]
<1>1. k[1] = K /\ k[2] = L /\ k[3] = M /\ k[4] = N /\ k[5] = O
  OBVIOUS
<1>2. s \in Seq({w, x, y, z}) /\ Len(s) = 4 /\ s[1] = w /\ s[2] = x /\ s[3] = y /\ s[4] = z
  OBVIOUS
<1>. HIDE DEF s, k
<1>3. \A i \in 1 .. Len(s) : i = 1 \/ i = 2 \/ i = 3 \/ i = 4
  BY <1>2
<1>4. Through(e, s, k)
  BY <1>1, <1>2, <1>3 DEF Through
<1>5. k[Len(s) + 1] = O /\ IsSeq(s)
  BY <1>1, <1>2 DEF IsSeq
<1>. QED  BY <1>1, <1>4, <1>5, Zenon DEF Fine, s

\* Kernels that touch no state, alone and in groups.
LEMMA PureOne ==
  ASSUME NEW e, NEW l \in Nat, NEW f, NEW g, NEW cv, NEW sc, NEW ks, NEW sd,
         NEW a \in PureNames, Wants(a, l) \subseteq f,
         g \subseteq {x \in f : x[1] \notin OutsOf(a)}
                       \cup Gives(a, l)
  PROVE  Rule(e, {D(a, l, AllRows(e))},
              Kn(f, cv, sc, ks, sd), Kn(g, cv, sc, ks, sd))
<1>. DEFINE ns == {a}  ep == {D(a, l, AllRows(e))}
            K == Kn(f, cv, sc, ks, sd)  L == Kn(g, cv, sc, ks, sd)
<1>1. ep = {D(i, l, AllRows(e)) : i \in ns} /\ ns \in SUBSET PureNames
  OBVIOUS
<1>2. After(ns, l, f, g) /\ \A i \in ns : Wants(i, l) \subseteq f
  BY DEF After
<1>3. \A i, j \in ns : j # i => OutsOf(j) \cap OutsOf(i) = {}
  OBVIOUS
<1>4. K.f = f /\ L.f = g /\ Same(K, L)
  BY DEF Kn, Know, Same, SameBut, Adds
<1>. HIDE DEF ns, ep, K, L
<1>5. PureRule(e, ep, K, L)
  BY <1>1, <1>2, <1>3, <1>4, Zenon DEF PureRule
<1>. QED  BY <1>5 DEF Rule, ep, K, L

LEMMA PureTwo ==
  ASSUME NEW e, NEW l \in Nat, NEW f, NEW g, NEW cv, NEW sc, NEW ks, NEW sd,
         NEW G \in Groups, NEW a \in G, NEW b \in G, a \in PureNames, b \in PureNames,
         a # b,
         Wants(a, l) \subseteq f, Wants(b, l) \subseteq f,
         g \subseteq {x \in f : x[1] \notin OutsOf(a) /\ x[1] \notin OutsOf(b)}
                       \cup Gives(a, l) \cup Gives(b, l)
  PROVE  Rule(e, {D(a, l, AllRows(e)), D(b, l, AllRows(e))},
              Kn(f, cv, sc, ks, sd), Kn(g, cv, sc, ks, sd))
<1>. DEFINE ns == {a, b}  ep == {D(a, l, AllRows(e)), D(b, l, AllRows(e))}
            K == Kn(f, cv, sc, ks, sd)  L == Kn(g, cv, sc, ks, sd)
<1>1. ep = {D(i, l, AllRows(e)) : i \in ns} /\ ns \in SUBSET PureNames
  OBVIOUS
<1>2. After(ns, l, f, g) /\ \A i \in ns : Wants(i, l) \subseteq f
  BY DEF After
<1>3. \A i, j \in ns : j # i => OutsOf(j) \cap OutsOf(i) = {}
  BY GroupsApart
<1>4. K.f = f /\ L.f = g /\ Same(K, L)
  BY DEF Kn, Know, Same, SameBut, Adds
<1>. HIDE DEF ns, ep, K, L
<1>5. PureRule(e, ep, K, L)
  BY <1>1, <1>2, <1>3, <1>4, Zenon DEF PureRule
<1>. QED  BY <1>5 DEF Rule, ep, K, L

LEMMA PureThree ==
  ASSUME NEW e, NEW l \in Nat, NEW f, NEW g, NEW cv, NEW sc, NEW ks, NEW sd,
         NEW G \in Groups, NEW a \in G, NEW b \in G, NEW c \in G, a \in PureNames, b \in PureNames, c \in PureNames,
         a # b, a # c, b # c,
         Wants(a, l) \subseteq f, Wants(b, l) \subseteq f, Wants(c, l) \subseteq f,
         g \subseteq {x \in f : x[1] \notin OutsOf(a) /\ x[1] \notin OutsOf(b) /\ x[1] \notin OutsOf(c)}
                       \cup Gives(a, l) \cup Gives(b, l) \cup Gives(c, l)
  PROVE  Rule(e, {D(a, l, AllRows(e)), D(b, l, AllRows(e)), D(c, l, AllRows(e))},
              Kn(f, cv, sc, ks, sd), Kn(g, cv, sc, ks, sd))
<1>. DEFINE ns == {a, b, c}  ep == {D(a, l, AllRows(e)), D(b, l, AllRows(e)), D(c, l, AllRows(e))}
            K == Kn(f, cv, sc, ks, sd)  L == Kn(g, cv, sc, ks, sd)
<1>1. ep = {D(i, l, AllRows(e)) : i \in ns} /\ ns \in SUBSET PureNames
  OBVIOUS
<1>2. After(ns, l, f, g) /\ \A i \in ns : Wants(i, l) \subseteq f
  BY DEF After
<1>3. \A i, j \in ns : j # i => OutsOf(j) \cap OutsOf(i) = {}
  BY GroupsApart
<1>4. K.f = f /\ L.f = g /\ Same(K, L)
  BY DEF Kn, Know, Same, SameBut, Adds
<1>. HIDE DEF ns, ep, K, L
<1>5. PureRule(e, ep, K, L)
  BY <1>1, <1>2, <1>3, <1>4, Zenon DEF PureRule
<1>. QED  BY <1>5 DEF Rule, ep, K, L

\* Kernels that write the state.
LEMMA ConvOne ==
  ASSUME NEW e, NEW l \in RangeOf(e), Layers[l] = "rec", NEW f, NEW g, NEW cv, NEW sc, NEW ks, NEW sd,
         l \notin cv, Batched(e) => sd, Wants("Conv", l) \subseteq f, After({"Conv"}, l, f, g)
  PROVE  Rule(e, {D("Conv", l, AllRows(e))}, Kn(f, cv, sc, ks, sd), Kn(g, cv \cup {l}, sc, ks, sd))
<1>. DEFINE ep == {D("Conv", l, AllRows(e))}  K == Kn(f, cv, sc, ks, sd)  L == Kn(g, cv \cup {l}, sc, ks, sd)
<1>1. Same(Adds(K, {l}, {}, {}, FALSE, FALSE), L)
  BY DEF Same, SameBut, Adds, Kn, Know
<1>2. K.f = f /\ L.f = g /\ K.cv = cv /\ K.sd = sd
  BY DEF Kn, Know
<1>. HIDE DEF K, L
<1>3. ConvRule(e, ep, K, L)
  BY <1>1, <1>2, Zenon DEF ConvRule
<1>. QED  BY <1>3 DEF Rule, K, L

LEMMA StepOne ==
  ASSUME NEW e, NEW l \in RangeOf(e), Layers[l] = "rec", NEW f, NEW g, NEW cv, NEW sc, NEW ks, NEW sd,
         NEW k \in {"Step", "StepGate"},
         l \notin sc, Wants(k, l) \subseteq f, After({k}, l, f, g)
  PROVE  Rule(e, {D(k, l, AllRows(e))}, Kn(f, cv, sc, ks, sd), Kn(g, cv, sc \cup {l}, ks, sd))
<1>. DEFINE ep == {D(k, l, AllRows(e))}  K == Kn(f, cv, sc, ks, sd)  L == Kn(g, cv, sc \cup {l}, ks, sd)
<1>1. Same(Adds(K, {}, {l}, {}, FALSE, FALSE), L)
  BY DEF Same, SameBut, Adds, Kn, Know
<1>2. K.f = f /\ L.f = g /\ K.sc = sc /\ K.sd = sd
  BY DEF Kn, Know
<1>. HIDE DEF K, L
<1>3. StepRule(e, ep, K, L)
  BY <1>1, <1>2, Zenon DEF StepRule
<1>. QED  BY <1>3 DEF Rule, K, L

LEMMA PrepOne ==
  ASSUME NEW e, NEW l \in RangeOf(e), Layers[l] = "attn", NEW f, NEW g, NEW cv, NEW sc, NEW ks, NEW sd,
         l \notin ks, Wants("Prep", l) \subseteq f, After({"Prep"}, l, f, g)
  PROVE  Rule(e, {D("Prep", l, AllRows(e))}, Kn(f, cv, sc, ks, sd), Kn(g, cv, sc, ks \cup {l}, sd))
<1>. DEFINE ep == {D("Prep", l, AllRows(e))}  K == Kn(f, cv, sc, ks, sd)  L == Kn(g, cv, sc, ks \cup {l}, sd)
<1>1. Same(Adds(K, {}, {}, {l}, FALSE, FALSE), L)
  BY DEF Same, SameBut, Adds, Kn, Know
<1>2. K.f = f /\ L.f = g /\ K.ks = ks /\ K.sd = sd
  BY DEF Kn, Know
<1>. HIDE DEF K, L
<1>3. PrepRule(e, ep, K, L)
  BY <1>1, <1>2, Zenon DEF PrepRule
<1>. QED  BY <1>3 DEF Rule, K, L

\* What a layer starts from, what its mixer leaves, and what a whole layer leaves.
Start(l) == {<<"Xin", "x", l>>, <<"Xn", "xn", l>>}
Mixed(l) == {<<"Xin", "x", l>>, <<"AttnOut", "ao", l>>}

\* A DeltaNet layer's mixer.
LEMMA RecFine ==
  ASSUME NEW e, NEW l \in RangeOf(e), l \in Nat, Layers[l] = "rec", NEW sg,
         NEW cv, NEW sc, NEW ks, NEW sd, l \notin cv, l \notin sc, Batched(e) => sd
  PROVE  Fine(e, RecLayer(l, AllRows(e), sg), Kn(Start(l), cv, sc, ks, sd),
              Kn(Mixed(l), cv \cup {l}, sc \cup {l}, ks, sd))
<1>. DEFINE rows == AllRows(e)
            f1 == {<<"Xin", "x", l>>, <<"Big", "qkv", l>>, <<"Mid", "z", l>>, <<"Gb", "gb", l>>}
            f2 == {<<"Xin", "x", l>>, <<"ConvOut", "c", l>>, <<"Mid", "z", l>>, <<"Gb", "gb", l>>}
            f3 == {<<"Xin", "x", l>>, <<"O", "o", l>>, <<"Mid", "z", l>>}
            f4 == {<<"Xin", "x", l>>, <<"Att", "a", l>>}
            K0 == Kn(Start(l), cv, sc, ks, sd)
            K1 == Kn(f1, cv, sc, ks, sd)
            K2 == Kn(f2, cv \cup {l}, sc, ks, sd)
            K3 == Kn(f3, cv \cup {l}, sc \cup {l}, ks, sd)
            K4 == Kn(f4, cv \cup {l}, sc \cup {l}, ks, sd)
            K5 == Kn(Mixed(l), cv \cup {l}, sc \cup {l}, ks, sd)
<1>0. {"RP1", "RP2", "Ab", "Gate", "Wo"} \subseteq PureNames /\ {"RP1", "RP2", "Ab"} \in Groups
  BY DEF PureNames, Names, MixerNames, Special, Groups
<1>1. Rule(e, {D("RP1", l, rows), D("RP2", l, rows), D("Ab", l, rows)}, K0, K1)
  <2>1. /\ Wants("RP1", l) \subseteq Start(l) /\ Wants("RP2", l) \subseteq Start(l)
        /\ Wants("Ab", l) \subseteq Start(l)
        /\ f1 \subseteq {x \in Start(l) : x[1] \notin OutsOf("RP1") /\ x[1] \notin OutsOf("RP2")
                                          /\ x[1] \notin OutsOf("Ab")}
                       \cup Gives("RP1", l) \cup Gives("RP2", l) \cup Gives("Ab", l)
    BY DoesRP1, DoesRP2, DoesAb, SMT DEF Start, Does
  <2>. HIDE DEF f1
  <2>. QED  BY <1>0, <2>1, PureThree
<1>2. Rule(e, {D("Conv", l, rows)}, K1, K2)
  <2>1. Wants("Conv", l) \subseteq f1 /\ After({"Conv"}, l, f1, f2)
    BY DoesConv, SMT DEF After, Does
  <2>. HIDE DEF f1, f2
  <2>. QED  BY <2>1, ConvOne
<1>3. Fine(e, IF sg THEN <<{D("StepGate", l, rows)}>>
              ELSE <<{D("Step", l, rows)}, {D("Gate", l, rows)}>>, K2, K4)
  <2>1. CASE sg
    <3>1. Wants("StepGate", l) \subseteq f2 /\ After({"StepGate"}, l, f2, f4)
      BY DoesStepGate, SMT DEF After, Does
    <3>. HIDE DEF f2, f4
    <3>2. Rule(e, {D("StepGate", l, rows)}, K2, K4)
      BY <3>1, StepOne
    <3>. HIDE DEF K2, K4
    <3>. QED  BY <2>1, <3>2, FineOne
  <2>2. CASE ~sg
    <3>1. Wants("Step", l) \subseteq f2 /\ After({"Step"}, l, f2, f3)
      BY DoesStep, SMT DEF After, Does
    <3>2. /\ Wants("Gate", l) \subseteq f3
          /\ f4 \subseteq {x \in f3 : x[1] \notin OutsOf("Gate")} \cup Gives("Gate", l)
      BY DoesGate, SMT DEF Does
    <3>. HIDE DEF f2, f3, f4
    <3>3. Rule(e, {D("Step", l, rows)}, K2, K3)
      BY <3>1, StepOne
    <3>4. Rule(e, {D("Gate", l, rows)}, K3, K4)
      BY <1>0, <3>2, PureOne
    <3>. HIDE DEF K2, K3, K4
    <3>. QED  BY <2>2, <3>3, <3>4, FineTwo
  <2>. QED  BY <2>1, <2>2
<1>4. Rule(e, {D("Wo", l, rows)}, K4, K5)
  <2>1. /\ Wants("Wo", l) \subseteq f4
        /\ Mixed(l) \subseteq {x \in f4 : x[1] \notin OutsOf("Wo")} \cup Gives("Wo", l)
    BY DoesWo, SMT DEF Mixed, Does
  <2>. HIDE DEF f4
  <2>. QED  BY <1>0, <2>1, PureOne
<1>. DEFINE a == <<{D("RP1", l, rows), D("RP2", l, rows), D("Ab", l, rows)}, {D("Conv", l, rows)}>>
            b == IF sg THEN <<{D("StepGate", l, rows)}>>
                 ELSE <<{D("Step", l, rows)}, {D("Gate", l, rows)}>>
            c == <<{D("Wo", l, rows)}>>
<1>5. RecLayer(l, rows, sg) = a \o b \o c
  BY DEF RecLayer
<1>. HIDE DEF K0, K1, K2, K3, K4, K5, rows
<1>6. Fine(e, a, K0, K2) /\ Fine(e, c, K4, K5) /\ Fine(e, b, K2, K4)
  BY <1>1, <1>2, <1>3, <1>4, FineTwo, FineOne
<1>. HIDE DEF a, b, c
<1>7. Fine(e, a \o b, K0, K4)
  BY <1>6, FineConcat
<1>8. Fine(e, (a \o b) \o c, K0, K5)
  BY <1>6, <1>7, FineConcat
<1>. QED  BY <1>5, <1>8 DEF rows, K0, K5

\* What routing leaves, with the pairs of a grouped dispatch, and what a layer leaves.
Routed(l, pairs) ==
  {<<"Y", "y", l>>, <<"Xn2", "xn2", l>>, <<"Sel", "sel", l>>, <<"MHs", "hs", l>>}
  \cup (IF pairs THEN {<<"Pairs", "p", l>>} ELSE {})
Closed(l, cut) == IF cut THEN {<<"Xin", "x", l + 1>>} ELSE Start(l + 1)

LEMMA MoeNamesPure ==
  /\ MoeNames \cup {"Add3", "Add3Group", "Add3Cut", "Add3GroupCut"} \subseteq PureNames
  /\ {"MoeRS", "MoeGUs"} \in Groups /\ {"MoeL", "MoeGUs"} \in Groups
  /\ {"MoeDn", "MoeDns"} \in Groups /\ {"DnGroup", "MoeDns"} \in Groups
BY DEF PureNames, Names, MoeNames, TailNames, Special, Groups

\* Routing, fused or not.
LEMMA RouteFine ==
  ASSUME NEW e, NEW l \in Nat, NEW cv, NEW sc, NEW ks, NEW sd, NEW fuse, NEW rows, rows = AllRows(e)
  PROVE  Fine(e, IF fuse
                 THEN <<{D("AddNRoute", l, rows)}, {D("MoeRS", l, rows), D("MoeGUs", l, rows)}>>
                 ELSE <<{D("AddN", l, rows)}, {D("MoeL", l, rows), D("MoeGUs", l, rows)},
                        {D("MoeS", l, rows)}>>,
              Kn(Mixed(l), cv, sc, ks, sd), Kn(Routed(l, FALSE), cv, sc, ks, sd))
<1>. DEFINE f1 == {<<"Y", "y", l>>, <<"Xn2", "xn2", l>>, <<"Sel", "armed", l>>}
            f2 == {<<"Y", "y", l>>, <<"Xn2", "xn2", l>>}
            f3 == {<<"Y", "y", l>>, <<"Xn2", "xn2", l>>, <<"ML", "l", l>>, <<"MHs", "hs", l>>}
            K0 == Kn(Mixed(l), cv, sc, ks, sd)
            K4 == Kn(Routed(l, FALSE), cv, sc, ks, sd)
<1>0. {"AddN", "AddNRoute", "MoeL", "MoeRS", "MoeS", "MoeGUs"} \subseteq PureNames
  BY MoeNamesPure DEF MoeNames
<1>1. CASE fuse
  <2>1. /\ Wants("AddNRoute", l) \subseteq Mixed(l)
        /\ f1 \subseteq {x \in Mixed(l) : x[1] \notin OutsOf("AddNRoute")} \cup Gives("AddNRoute", l)
    BY DoesAddNRoute, SMT DEF Mixed, Does
  <2>2. /\ Wants("MoeRS", l) \subseteq f1 /\ Wants("MoeGUs", l) \subseteq f1
        /\ Routed(l, FALSE)
             \subseteq {x \in f1 : x[1] \notin OutsOf("MoeRS") /\ x[1] \notin OutsOf("MoeGUs")}
                       \cup Gives("MoeRS", l) \cup Gives("MoeGUs", l)
    BY DoesMoeRS, DoesMoeGUs, SMT DEF Routed, Does
  <2>. HIDE DEF f1
  <2>. DEFINE K1 == Kn(f1, cv, sc, ks, sd)
  <2>3. Rule(e, {D("AddNRoute", l, rows)}, K0, K1)
    BY <1>0, <2>1, PureOne
  <2>4. Rule(e, {D("MoeRS", l, rows), D("MoeGUs", l, rows)}, K1, K4)
    BY <1>0, <2>2, PureTwo, MoeNamesPure
  <2>. HIDE DEF K0, K1, K4
  <2>. QED  BY <1>1, <2>3, <2>4, FineTwo DEF K0, K4
<1>2. CASE ~fuse
  <2>1. /\ Wants("AddN", l) \subseteq Mixed(l)
        /\ f2 \subseteq {x \in Mixed(l) : x[1] \notin OutsOf("AddN")} \cup Gives("AddN", l)
    BY DoesAddN, SMT DEF Mixed, Does
  <2>2. /\ Wants("MoeL", l) \subseteq f2 /\ Wants("MoeGUs", l) \subseteq f2
        /\ f3 \subseteq {x \in f2 : x[1] \notin OutsOf("MoeL") /\ x[1] \notin OutsOf("MoeGUs")}
                       \cup Gives("MoeL", l) \cup Gives("MoeGUs", l)
    BY DoesMoeL, DoesMoeGUs, SMT DEF Does
  <2>3. /\ Wants("MoeS", l) \subseteq f3
        /\ Routed(l, FALSE) \subseteq {x \in f3 : x[1] \notin OutsOf("MoeS")} \cup Gives("MoeS", l)
    BY DoesMoeS, SMT DEF Routed, Does
  <2>. HIDE DEF f2, f3
  <2>. DEFINE K2 == Kn(f2, cv, sc, ks, sd)  K3 == Kn(f3, cv, sc, ks, sd)
  <2>4. Rule(e, {D("AddN", l, rows)}, K0, K2)
    BY <1>0, <2>1, PureOne
  <2>5. Rule(e, {D("MoeL", l, rows), D("MoeGUs", l, rows)}, K2, K3)
    BY <1>0, <2>2, PureTwo, MoeNamesPure
  <2>6. Rule(e, {D("MoeS", l, rows)}, K3, K4)
    BY <1>0, <2>3, PureOne
  <2>. HIDE DEF K0, K2, K3, K4
  <2>. QED  BY <1>2, <2>4, <2>5, <2>6, FineThree DEF K0, K4
<1>. QED  BY <1>1, <1>2

\* The experts and the sum that closes a layer.
LEMMA ExpertsFine ==
  ASSUME NEW e, NEW l \in Nat, NEW cv, NEW sc, NEW ks, NEW sd, NEW gu, NEW down, NEW cut,
         NEW rows, rows = AllRows(e)
  PROVE  Fine(e, <<{D(IF gu THEN "GUGroup" ELSE "MoeGU", l, rows)},
                   {D(IF down THEN "DnGroup" ELSE "MoeDn", l, rows), D("MoeDns", l, rows)},
                   {D(SumOf(down, cut), l, rows)}>>,
              Kn(Routed(l, gu \/ down), cv, sc, ks, sd), Kn(Closed(l, cut), cv, sc, ks, sd))
<1>. DEFINE a == IF gu THEN "GUGroup" ELSE "MoeGU"
            b == IF down THEN "DnGroup" ELSE "MoeDn"
            c == SumOf(down, cut)
            f0 == Routed(l, gu \/ down)
            f1 == {<<"Y", "y", l>>, <<"Sel", "sel", l>>, <<"MHs", "hs", l>>, <<"MH", "h", l>>}
                  \cup (IF down THEN {<<"Pairs", "p", l>>} ELSE {})
            f2 == {<<"Y", "y", l>>, <<"MY2", "y2", l>>, <<IF down THEN "Contrib" ELSE "MY", "y1", l>>}
            f3 == Closed(l, cut)
<1>0. /\ a \in PureNames /\ b \in PureNames /\ c \in PureNames /\ "MoeDns" \in PureNames
      /\ {b, "MoeDns"} \in Groups /\ b # "MoeDns"
  BY MoeNamesPure DEF MoeNames, SumOf
<1>1. Wants(a, l) \subseteq f0 /\ f1 \subseteq {x \in f0 : x[1] \notin OutsOf(a)} \cup Gives(a, l)
  <2>1. CASE gu
    BY <2>1, DoesGUGroup, SMT DEF Does, Routed
  <2>2. CASE ~gu
    BY <2>2, DoesMoeGU, SMT DEF Does, Routed
  <2>. QED  BY <2>1, <2>2
<1>2. /\ Wants(b, l) \subseteq f1 /\ Wants("MoeDns", l) \subseteq f1
      /\ f2 \subseteq {x \in f1 : x[1] \notin OutsOf(b) /\ x[1] \notin OutsOf("MoeDns")}
                      \cup Gives(b, l) \cup Gives("MoeDns", l)
  <2>1. CASE down
    BY <2>1, DoesDnGroup, DoesMoeDns, SMT DEF Does
  <2>2. CASE ~down
    BY <2>2, DoesMoeDn, DoesMoeDns, SMT DEF Does
  <2>. QED  BY <2>1, <2>2
<1>3. Wants(c, l) \subseteq f2 /\ f3 \subseteq {x \in f2 : x[1] \notin OutsOf(c)} \cup Gives(c, l)
  <2>1. CASE down /\ cut
    BY <2>1, DoesAdd3GroupCut, SMT DEF Does, SumOf, Closed, Start
  <2>2. CASE down /\ ~cut
    BY <2>2, DoesAdd3Group, SMT DEF Does, SumOf, Closed, Start
  <2>3. CASE ~down /\ cut
    BY <2>3, DoesAdd3Cut, SMT DEF Does, SumOf, Closed, Start
  <2>4. CASE ~down /\ ~cut
    BY <2>4, DoesAdd3, SMT DEF Does, SumOf, Closed, Start
  <2>. QED  BY <2>1, <2>2, <2>3, <2>4
<1>. HIDE DEF a, b, c, f0, f1, f2, f3
<1>. DEFINE K0 == Kn(f0, cv, sc, ks, sd)  K1 == Kn(f1, cv, sc, ks, sd)
            K2 == Kn(f2, cv, sc, ks, sd)  K3 == Kn(f3, cv, sc, ks, sd)
<1>4. Rule(e, {D(a, l, rows)}, K0, K1) /\ Rule(e, {D(c, l, rows)}, K2, K3)
  BY <1>0, <1>1, <1>3, PureOne
<1>5. Rule(e, {D(b, l, rows), D("MoeDns", l, rows)}, K1, K2)
  BY <1>0, <1>2, PureTwo
<1>. HIDE DEF K0, K1, K2, K3
<1>6. Fine(e, <<{D(a, l, rows)}, {D(b, l, rows), D("MoeDns", l, rows)}, {D(c, l, rows)}>>, K0, K3)
  BY <1>4, <1>5, FineThree
<1>. QED  BY <1>6 DEF K0, K3, f0, f3, a, b, c

\* Pairing by expert, where an expert kernel is grouped.
LEMMA PairsFine ==
  ASSUME NEW e, NEW l \in Nat, NEW cv, NEW sc, NEW ks, NEW sd, NEW pairs, NEW rows, rows = AllRows(e)
  PROVE  Fine(e, IF pairs THEN <<{D("Pairs", l, rows)}>> ELSE <<>>,
              Kn(Routed(l, FALSE), cv, sc, ks, sd), Kn(Routed(l, pairs), cv, sc, ks, sd))
<1>1. CASE pairs
  <2>1. /\ Wants("Pairs", l) \subseteq Routed(l, FALSE)
        /\ Routed(l, TRUE) \subseteq {x \in Routed(l, FALSE) : x[1] \notin OutsOf("Pairs")}
                                    \cup Gives("Pairs", l)
    BY DoesPairs, SMT DEF Does, Routed
  <2>2. "Pairs" \in PureNames
    BY MoeNamesPure DEF MoeNames
  <2>3. Rule(e, {D("Pairs", l, rows)}, Kn(Routed(l, FALSE), cv, sc, ks, sd),
             Kn(Routed(l, TRUE), cv, sc, ks, sd))
    BY <2>1, <2>2, PureOne
  <2>4. Routed(l, pairs) = Routed(l, TRUE)
    BY <1>1 DEF Routed
  <2>. QED  BY <1>1, <2>3, <2>4, FineOne
<1>2. CASE ~pairs
  <2>1. Routed(l, pairs) = Routed(l, FALSE)
    BY <1>2 DEF Routed
  <2>. QED  BY <1>2, <2>1, FineNone
<1>. QED  BY <1>1, <1>2

\* The MoE half of a layer.
LEMMA SerialMoeFine ==
  ASSUME NEW e, NEW l \in Nat, NEW cv, NEW sc, NEW ks, NEW sd, NEW rows, rows = AllRows(e)
  PROVE  Fine(e, SerialMoe(l, rows), Kn(Mixed(l), cv, sc, ks, sd), Kn(Start(l + 1), cv, sc, ks, sd))
<1>. DEFINE a == IF cfg.fused
                 THEN <<{D("AddNRoute", l, rows)}, {D("MoeRS", l, rows), D("MoeGUs", l, rows)}>>
                 ELSE <<{D("AddN", l, rows)}, {D("MoeL", l, rows), D("MoeGUs", l, rows)},
                        {D("MoeS", l, rows)}>>
            b == <<{D("MoeGU", l, rows)}, {D("MoeDn", l, rows), D("MoeDns", l, rows)},
                   {D("Add3", l, rows)}>>
            K == Kn(Mixed(l), cv, sc, ks, sd)  L == Kn(Routed(l, FALSE), cv, sc, ks, sd)
            M == Kn(Start(l + 1), cv, sc, ks, sd)
<1>1. SerialMoe(l, rows) = a \o b
  BY DEF SerialMoe
<1>2. Fine(e, a, K, L)
  BY RouteFine
<1>3. SumOf(FALSE, FALSE) = "Add3" /\ Closed(l, FALSE) = Start(l + 1)
  BY DEF SumOf, Closed
<1>4. Fine(e, b, L, M)
  <2>1. Fine(e, <<{D(IF FALSE THEN "GUGroup" ELSE "MoeGU", l, rows)},
                  {D(IF FALSE THEN "DnGroup" ELSE "MoeDn", l, rows), D("MoeDns", l, rows)},
                  {D(SumOf(FALSE, FALSE), l, rows)}>>,
             Kn(Routed(l, FALSE \/ FALSE), cv, sc, ks, sd), Kn(Closed(l, FALSE), cv, sc, ks, sd))
    BY ExpertsFine
  <2>. QED  BY <1>3, <2>1
<1>. HIDE DEF a, b, K, L, M
<1>5. Fine(e, a \o b, K, M)
  BY <1>2, <1>4, FineConcat
<1>. QED  BY <1>1, <1>5 DEF K, M

LEMMA BatchMoeFine ==
  ASSUME NEW e, NEW l \in Nat, NEW cv, NEW sc, NEW ks, NEW sd, NEW n, 0 .. n - 1 = AllRows(e), NEW cut
  PROVE  Fine(e, BatchMoe(l, n, cut), Kn(Mixed(l), cv, sc, ks, sd), Kn(Closed(l, cut), cv, sc, ks, sd))
<1>. DEFINE rows == 0 .. n - 1
            fuse == cfg.fused /\ n = 1
            eligible == n * NUsed >= NExp
            gu == eligible /\ cfg.groupGu
            down == eligible /\ cfg.groupDown
            a == IF fuse
                 THEN <<{D("AddNRoute", l, rows)}, {D("MoeRS", l, rows), D("MoeGUs", l, rows)}>>
                 ELSE <<{D("AddN", l, rows)}, {D("MoeL", l, rows), D("MoeGUs", l, rows)},
                        {D("MoeS", l, rows)}>>
            b == IF gu \/ down THEN <<{D("Pairs", l, rows)}>> ELSE <<>>
            c == <<{D(IF gu THEN "GUGroup" ELSE "MoeGU", l, rows)},
                   {D(IF down THEN "DnGroup" ELSE "MoeDn", l, rows), D("MoeDns", l, rows)},
                   {D(SumOf(down, cut), l, rows)}>>
            K == Kn(Mixed(l), cv, sc, ks, sd)  L == Kn(Routed(l, FALSE), cv, sc, ks, sd)
            M == Kn(Routed(l, gu \/ down), cv, sc, ks, sd)  N == Kn(Closed(l, cut), cv, sc, ks, sd)
<1>1. BatchMoe(l, n, cut) = a \o b \o c
  BY DEF BatchMoe
<1>0. rows = AllRows(e)
  OBVIOUS
<1>. HIDE DEF rows, fuse, gu, down
<1>2. Fine(e, a, K, L) /\ Fine(e, b, L, M) /\ Fine(e, c, M, N)
  <2>1. Fine(e, a, K, L)
    BY <1>0, RouteFine
  <2>2. Fine(e, b, L, M)
    BY <1>0, PairsFine
  <2>3. Fine(e, c, M, N)
    BY <1>0, ExpertsFine
  <2>. QED  BY <2>1, <2>2, <2>3
<1>. HIDE DEF a, b, c, K, L, M, N
<1>3. Fine(e, a \o b, K, M)
  BY <1>2, FineConcat
<1>4. Fine(e, (a \o b) \o c, K, N)
  BY <1>2, <1>3, FineConcat
<1>. QED  BY <1>1, <1>4 DEF K, N

-------------------------------------------------------------------------------
(* Attention.                                                                 *)
\* Division.
LEMMA DivFacts ==
  ASSUME NEW a \in Nat, NEW b \in Nat \ {0}
  PROVE  a \div b \in Nat /\ b * (a \div b) <= a /\ a < b * (a \div b) + b
OBVIOUS

LEMMA CeilFacts ==
  ASSUME NEW a \in Nat, NEW b \in Nat \ {0}
  PROVE  Ceil(a, b) \in Nat /\ b * Ceil(a, b) >= a
<1>. DEFINE c == a + b - 1
<1>1. c \in Nat
  OBVIOUS
<1>. HIDE DEF c
<1>2. c \div b \in Nat /\ c < b * (c \div b) + b
  BY <1>1, DivFacts
<1>3. b * (c \div b) \in Int
  BY <1>2
<1>. QED  BY <1>1, <1>2, <1>3 DEF Ceil, c

\* A position below a lies in one of the first Ceil(a, b) chunks of b.
LEMMA ChunkBelow ==
  ASSUME NEW a \in Nat, NEW b \in Nat \ {0}, NEW p \in Nat, p < a
  PROVE  p \div b \in 0 .. Ceil(a, b) - 1
<1>1. p \div b \in Nat /\ b * (p \div b) <= p /\ Ceil(a, b) \in Nat /\ b * Ceil(a, b) >= a
  BY DivFacts, CeilFacts
<1>2. ASSUME p \div b >= Ceil(a, b) PROVE FALSE
  <2>1. b * (p \div b) >= b * Ceil(a, b)
    BY <1>1, <1>2
  <2>. QED  BY <1>1, <2>1
<1>. QED  BY <1>1, <1>2

\* A grouped split-K dispatch covers all heads, ...
LEMMA Heads == ASSUME NEW g \in {1, 2, 4, 8} PROVE (HQ \div g) * g = HQ /\ HQ \div g \in Nat
<1>. PICK x : x = HQ
  OBVIOUS
<1>1. x \in Nat /\ x % 8 = 0
  BY GpuChainAssumption
<1>2. PICK y : y \in Nat /\ x = 8 * y
  <2>1. x \div 8 \in Nat /\ x = 8 * (x \div 8)
    BY <1>1
  <2>. QED  BY <2>1
<1>3. CASE g = 1
  BY <1>2, <1>3
<1>4. CASE g = 2
  <2>1. x \div 2 = 4 * y
    BY <1>2
  <2>. QED  BY <1>2, <1>4, <2>1
<1>5. CASE g = 4
  <2>1. x \div 4 = 2 * y
    BY <1>2
  <2>. QED  BY <1>2, <1>5, <2>1
<1>6. CASE g = 8
  <2>1. x \div 8 = y
    BY <1>2
  <2>. QED  BY <1>2, <1>6, <2>1
<1>. QED  BY <1>3, <1>4, <1>5, <1>6

\* ... and the chunks of all positions below len.
LEMMA SplitsCover ==
  ASSUME NEW len \in Nat, NEW p \in Nat, p < len, p < NCtx
  PROVE  p \div Chunk \in 0 .. LiveSplits(len) - 1 /\ p \div Chunk \in 0 .. SplitMax - 1
<1>1. p \div Chunk \in 0 .. Ceil(len, Chunk) - 1 /\ p \div Chunk \in 0 .. Ceil(NCtx, Chunk) - 1
  BY Sizes, ChunkBelow
<1>2. SplitMax = Ceil(NCtx, Chunk)
  BY DEF SplitMax, Ceil
<1>3. Ceil(len, Chunk) \in Nat /\ Ceil(NCtx, Chunk) \in Nat
  BY Sizes, CeilFacts
<1>. QED  BY <1>1, <1>2, <1>3 DEF LiveSplits, Least

\* The facts around attention.
Queried(l) == {<<"Xin", "x", l>>, <<"Mid", "q", l>>, <<"Big", "qg", l>>}
Attended(l) == {<<"Xin", "x", l>>, <<"Att", "a", l>>}

LEMMA AttnNamesPure == {"AP1", "AP2", "AP3", "Wo"} \subseteq PureNames /\ {"AP1", "AP2", "AP3"} \in Groups
BY DEF PureNames, Names, MixerNames, Special, Groups

LEMMA ProjFine ==
  ASSUME NEW e, NEW l \in RangeOf(e), l \in Nat, Layers[l] = "attn",
         NEW cv, NEW sc, NEW ks, NEW sd, l \notin ks, NEW rows, rows = AllRows(e)
  PROVE  Fine(e, AttnProj(l, rows), Kn(Start(l), cv, sc, ks, sd), Kn(Queried(l), cv, sc, ks \cup {l}, sd))
<1>. DEFINE f == {<<"Xin", "x", l>>, <<"Big", "qg", l>>, <<"Kin", "k", l>>, <<"Vin", "v", l>>}
            K0 == Kn(Start(l), cv, sc, ks, sd)
            K1 == Kn(f, cv, sc, ks, sd)
            K2 == Kn(Queried(l), cv, sc, ks \cup {l}, sd)
<1>1. /\ Wants("AP1", l) \subseteq Start(l) /\ Wants("AP2", l) \subseteq Start(l)
      /\ Wants("AP3", l) \subseteq Start(l)
      /\ f \subseteq {x \in Start(l) : x[1] \notin OutsOf("AP1") /\ x[1] \notin OutsOf("AP2")
                                       /\ x[1] \notin OutsOf("AP3")}
                     \cup Gives("AP1", l) \cup Gives("AP2", l) \cup Gives("AP3", l)
  BY DoesAP1, DoesAP2, DoesAP3, SMT DEF Start, Does
<1>2. Wants("Prep", l) \subseteq f /\ After({"Prep"}, l, f, Queried(l))
  BY DoesPrep, SMT DEF After, Does, Queried
<1>. HIDE DEF f
<1>3. Rule(e, {D("AP1", l, rows), D("AP2", l, rows), D("AP3", l, rows)}, K0, K1)
  BY <1>1, AttnNamesPure, PureThree
<1>4. Rule(e, {D("Prep", l, rows)}, K1, K2)
  BY <1>2, PrepOne
<1>. HIDE DEF K0, K1, K2
<1>5. Fine(e, <<{D("AP1", l, rows), D("AP2", l, rows), D("AP3", l, rows)}, {D("Prep", l, rows)}>>,
           K0, K2)
  BY <1>3, <1>4, FineTwo
<1>. QED  BY <1>5 DEF AttnProj, K0, K2

\* The output projection, after tiles or after a reduction.
LEMMA WoFine ==
  ASSUME NEW e, NEW l \in Nat, NEW tl, NEW tr, NEW cv, NEW sc, NEW ks, NEW sd, NEW rows, rows = AllRows(e)
  PROVE  Fine(e, <<{D("Wo", l, rows)}>>, Know(Attended(l), tl, tr, cv, sc, ks, sd, 0, FALSE),
              Kn(Mixed(l), cv, sc, ks, sd))
<1>. DEFINE K == Know(Attended(l), tl, tr, cv, sc, ks, sd, 0, FALSE)  L == Kn(Mixed(l), cv, sc, ks, sd)
            ns == {"Wo"}
<1>1. /\ Wants("Wo", l) \subseteq Attended(l)
      /\ Mixed(l) \subseteq {x \in Attended(l) : x[1] \notin OutsOf("Wo")} \cup Gives("Wo", l)
  BY DoesWo, SMT DEF Mixed, Does, Attended
<1>2. K.f = Attended(l) /\ L.f = Mixed(l) /\ Same(K, L)
  BY DEF Kn, Know, Same, SameBut, Adds
<1>3. After(ns, l, Attended(l), Mixed(l)) /\ \A k \in ns : Wants(k, l) \subseteq Attended(l)
  BY <1>1 DEF After
<1>4. {D("Wo", l, rows)} = {D(k, l, AllRows(e)) : k \in ns} /\ ns \in SUBSET PureNames
  BY AttnNamesPure
<1>5. \A j, k \in ns : j # k => OutsOf(j) \cap OutsOf(k) = {}
  OBVIOUS
<1>. HIDE DEF K, L, ns
<1>6. After(ns, l, K.f, L.f) /\ \A k \in ns : Wants(k, l) \subseteq K.f
  BY <1>2, <1>3
<1>7. PureRule(e, {D("Wo", l, rows)}, K, L)
  BY <1>2, <1>4, <1>5, <1>6, Zenon DEF PureRule
<1>. QED  BY <1>7, FineOne DEF Rule, K, L

\* What attention starts from and what it leaves.
AttnFrom(l, cv, sc, ks, sd) == Kn(Queried(l), cv, sc, ks, sd)
AttnTo(l, n, cv, sc, ks, sd) == Know(Attended(l), n, l, cv, sc, ks, sd, 0, FALSE)

\* The tiles of a batch.
LEMMA TilesFine ==
  ASSUME NEW e, NEW l \in RangeOf(e), l \in Nat, Layers[l] = "attn", NEW base \in Nat,
         NEW n \in Nat \ {0}, AllRows(e) = 0 .. n - 1, NEW cv, NEW sc, NEW ks, NEW sd, l \in ks
  PROVE  Fine(e, Tiles(l, base, n), AttnFrom(l, cv, sc, ks, sd), AttnTo(l, n, cv, sc, ks, sd))
<1>. DEFINE qt == QueryTile(base, n)
            m == Ceil(n, qt)
            blocks(t) == Ceil(Least(qt, n - (t - 1) * qt), QB)
            rows(t) == (t - 1) * qt .. Least(n, (t - 1) * qt + blocks(t) * QB) - 1
            ep(t) == {D("Attn", l, rows(t))}
            s == [t \in 1 .. m |-> ep(t)]
            facts(t) == IF t = m + 1 THEN Attended(l) ELSE Queried(l)
            from(t) == Least(n, (t - 1) * qt)
            of(t) == IF t = 1 THEN 0 ELSE l
            known(t) == Know(facts(t), from(t), of(t), cv, sc, ks, sd, 0, FALSE)
            k == [t \in 1 .. m + 1 |-> known(t)]
<1>1. qt \in Nat \ {0} /\ m \in Nat \ {0} /\ qt * m >= n
  <2>1. qt \in Nat \ {0}
    BY TileSize
  <2>. HIDE DEF qt
  <2>2. m \in Nat /\ qt * m >= n
    BY <2>1, CeilFacts
  <2>. HIDE DEF m
  <2>3. m # 0
    BY <2>1, <2>2
  <2>. QED  BY <2>1, <2>2, <2>3
<1>2. Tiles(l, base, n) = s
  BY DEF Tiles
<1>. HIDE DEF qt, m
<1>k. \A t \in 1 .. m + 1 : k[t] = known(t)
  <2>. HIDE DEF known
  <2>. QED  OBVIOUS
<1>. HIDE DEF k
<1>3. ASSUME NEW t \in 1 .. m PROVE Rule(e, ep(t), k[t], k[t + 1])
  <2>. DEFINE q == (t - 1) * qt  w == Least(qt, n - q)  K == k[t]  L == k[t + 1]
  <2>1. q \in Nat /\ (t + 1 - 1) * qt = q + qt /\ t \in 1 .. m + 1 /\ t + 1 \in 1 .. m + 1
        /\ t # m + 1 /\ t + 1 # 1 /\ (t = 1 => q = 0)
    BY <1>1
  <2>2. /\ K = Know(Queried(l), Least(n, q), IF t = 1 THEN 0 ELSE l, cv, sc, ks, sd, 0, FALSE)
        /\ L = Know(IF t = m THEN Attended(l) ELSE Queried(l), Least(n, q + qt), l, cv, sc, ks, sd, 0, FALSE)
    <3>1. K = known(t) /\ L = known(t + 1)
      BY <1>k, <2>1
    <3>2. t + 1 = m + 1 <=> t = m
      BY <1>1
    <3>. HIDE DEF K, L, q
    <3>3. known(t) = Know(Queried(l), Least(n, q), IF t = 1 THEN 0 ELSE l, cv, sc, ks, sd, 0, FALSE)
      BY <2>1 DEF q
    <3>4. known(t + 1) = Know(IF t = m THEN Attended(l) ELSE Queried(l), Least(n, q + qt), l,
                              cv, sc, ks, sd, 0, FALSE)
      <4>1. facts(t + 1) = (IF t = m THEN Attended(l) ELSE Queried(l))
        BY <3>2
      <4>2. from(t + 1) = Least(n, q + qt) /\ of(t + 1) = l
        BY <2>1
      <4>. HIDE DEF facts, from, of
      <4>. QED  BY <4>1, <4>2
    <3>. QED  BY <3>1, <3>3, <3>4
  <2>3. t = m => q + qt >= n
    BY <1>1, <2>1
  <2>4. ASSUME NEW i \in AllRows(e), Least(n, q) <= i, i < Least(n, q + qt) PROVE i \in rows(t)
    <3>1. q < n /\ q <= i /\ i < n /\ i < q + qt /\ i \in Nat
      BY <1>1, <2>1, <2>4 DEF Least
    <3>2. w \in Nat /\ w >= 1 /\ i < q + w /\ w = Least(qt, n - q)
      BY <1>1, <2>1, <3>1 DEF Least
    <3>. HIDE DEF w, q
    <3>3. Ceil(w, QB) \in Nat /\ QB * Ceil(w, QB) >= w /\ QB \in Nat
      BY <3>2, Sizes, CeilFacts
    <3>4. Ceil(w, QB) * QB >= w /\ Ceil(w, QB) * QB \in Nat
      BY <3>2, <3>3
    <3>. DEFINE b == Ceil(w, QB) * QB
    <3>. HIDE DEF b
    <3>5. i \in q .. Least(n, q + b) - 1
      BY <2>1, <3>1, <3>2, <3>4 DEF Least, b
    <3>. QED  BY <3>5 DEF b, w, q
  <2>5. rows(t) \in SUBSET AllRows(e)
    <3>1. blocks(t) * QB \in Int \/ TRUE
      OBVIOUS
    <3>. SUFFICES ASSUME NEW i \in rows(t) PROVE i \in 0 .. n - 1
      OBVIOUS
    <3>. DEFINE u == Least(n, q + blocks(t) * QB)
    <3>2. i \in q .. u - 1
      OBVIOUS
    <3>3. u = n \/ (u = q + blocks(t) * QB /\ ~(n < u))
      BY DEF Least
    <3>4. blocks(t) * QB \in Int
      <4>1. w \in Int
        BY <1>1, <2>1 DEF Least
      <4>. HIDE DEF w
      <4>2. (w + QB - 1) \div QB \in Int /\ QB \in Int
        BY <4>1, Sizes
      <4>. QED  BY <4>2 DEF Ceil, w
    <3>. HIDE DEF q, u
    <3>5. u \in Int /\ u <= n
      BY <2>1, <3>3, <3>4
    <3>. QED  BY <2>1, <3>2, <3>5
  <2>6. Wants("Attn", l) \subseteq Queried(l)
    BY DoesAttn, SMT DEF Does, Queried
  <2>. DEFINE lq == Least(n, q)  lr == Least(n, q + qt)
  <2>7. lq \in Nat /\ lr \in Nat /\ (lq # 0 => t # 1)
    BY <1>1, <2>1 DEF Least
  <2>8. \A x \in Queried(l) : x[1] # "Att"
    BY DEF Queried
  <2>9. \A x \in Attended(l) : (x \in Queried(l) /\ x[1] # "Att") \/ x = <<"Att", "a", l>>
    BY DEF Attended, Queried
  <2>10. t = m => lr = n
    BY <1>1, <2>1, <2>3 DEF Least
  <2>. HIDE DEF lq, lr, q, K, L, rows
  <2>11. /\ K.f = Queried(l) /\ K.tl = lq /\ K.tr = (IF t = 1 THEN 0 ELSE l) /\ L.tl = lr /\ L.tr = l
         /\ K.ks = ks /\ L.f = (IF t = m THEN Attended(l) ELSE Queried(l))
         /\ SameBut(K, L) /\ L.pt \in {K.pt, 0}
    <3>1. /\ K = Know(Queried(l), lq, IF t = 1 THEN 0 ELSE l, cv, sc, ks, sd, 0, FALSE)
          /\ L = Know(IF t = m THEN Attended(l) ELSE Queried(l), lr, l, cv, sc, ks, sd, 0, FALSE)
      BY <2>2 DEF lq, lr
    <3>. QED  BY <3>1 DEF Know, Same, SameBut, Adds
  <2>12. \A x \in L.f : \/ x \in K.f /\ x[1] # "Att"
                        \/ x = <<"Att", "a", l>> /\ \A i \in AllRows(e) : i < L.tl
    <3>1. CASE t = m
      <4>1. \A i \in AllRows(e) : i < L.tl
        <5>1. L.tl = n
          BY <2>10, <2>11, <3>1
        <5>. QED  BY <5>1
      <4>. QED  BY <2>9, <2>11, <3>1, <4>1
    <3>2. CASE t # m
      BY <2>8, <2>11, <3>2
    <3>. QED  BY <3>1, <3>2
  <2>13. \A i \in AllRows(e) : K.tl <= i /\ i < L.tl => i \in rows(t)
    BY <2>4, <2>11 DEF lq, lr, q
  <2>. DEFINE r == rows(t)
  <2>14. /\ r \in SUBSET AllRows(e) /\ l \in K.ks /\ Wants("Attn", l) \subseteq K.f
         /\ K.tl \in Nat /\ (K.tl # 0 => K.tr = l) /\ L.tl \in Nat /\ L.tr = l
         /\ \A i \in AllRows(e) : K.tl <= i /\ i < L.tl => i \in r
    BY <2>5, <2>6, <2>7, <2>11, <2>13
  <2>. HIDE DEF r
  <2>15. TileRule(e, {D("Attn", l, r)}, K, L)
    BY <2>11, <2>12, <2>14, Zenon DEF TileRule
  <2>16. Rule(e, ep(t), K, L)
    BY <2>15 DEF Rule, r
  <2>. QED  BY <2>16 DEF K, L
<1>4. IsSeq(s) /\ Len(s) = m
  <2>. DEFINE T == {ep(t) : t \in 1 .. m}
  <2>. HIDE DEF ep
  <2>1. s \in Seq(T) /\ Len(s) = m
    BY <1>1
  <2>. QED  BY <2>1, SeqIf
<1>5. \A t \in 1 .. m : s[t] = ep(t)
  OBVIOUS
<1>6. k[1] = AttnFrom(l, cv, sc, ks, sd) /\ k[m + 1] = AttnTo(l, n, cv, sc, ks, sd)
  <2>1. 1 \in 1 .. m + 1 /\ m + 1 \in 1 .. m + 1 /\ 1 # m + 1 /\ (1 - 1) * qt = 0 /\ (m + 1 - 1) * qt >= n
        /\ (m + 1 - 1) * qt \in Nat
    BY <1>1
  <2>2. Least(n, 0) = 0 /\ Least(n, (m + 1 - 1) * qt) = n
    BY <2>1 DEF Least
  <2>3. known(1) = AttnFrom(l, cv, sc, ks, sd)
    BY <2>1, <2>2 DEF AttnFrom, Kn
  <2>4. known(m + 1) = AttnTo(l, n, cv, sc, ks, sd)
    <3>1. m + 1 # 1
      BY <1>1
    <3>2. of(m + 1) = l
      BY <3>1
    <3>3. facts(m + 1) = Attended(l)
      OBVIOUS
    <3>4. from(m + 1) = n
      <4>1. m + 1 - 1 = m /\ m * qt \in Nat /\ m * qt >= n
        BY <1>1
      <4>2. from(m + 1) = Least(n, m * qt)
        BY <1>1, <4>1, SMT DEF Least
      <4>. HIDE DEF from
      <4>. QED  BY <4>1, <4>2 DEF Least
    <3>. HIDE DEF facts, from, of
    <3>. QED  BY <3>2, <3>3, <3>4 DEF AttnTo
  <2>. QED  BY <1>k, <2>1, <2>3, <2>4
<1>. HIDE DEF s, k, ep, known
<1>7. Through(e, s, k)
  BY <1>3, <1>4, <1>5 DEF Through
<1>. QED  BY <1>2, <1>4, <1>6, <1>7, Zenon DEF Fine

\* Split-K attention: dispatches that cover every key of every row that counts, and the
\* reduction.
LEMMA SplitFine ==
  ASSUME NEW e, NEW l \in RangeOf(e), l \in Nat, Layers[l] = "attn", NEW cv, NEW sc, NEW ks, NEW sd,
         l \in ks, NEW ep, NEW rows, rows = AllRows(e),
         \A d \in ep : /\ d.k \in {"AttnS", "Indirect"} /\ d.l = l
                       /\ Launched(e, d).k = "AttnS" /\ Launched(e, d).l = l
                       /\ Launched(e, d).heads >= HQ \/ Live(e) = {},
         \A i \in Live(e), p \in 0 .. NCtx - 1 : p <= AtOf(e, i) =>
           \E d \in ep : i \in Launched(e, d).rows /\ p \div Chunk \in Launched(e, d).chunks
  PROVE  Fine(e, <<ep, {D("AttnR", l, rows)}>>, AttnFrom(l, cv, sc, ks, sd),
              Kn(Attended(l), cv, sc, ks, sd))
<1>. DEFINE K == AttnFrom(l, cv, sc, ks, sd)
            L == Know(Queried(l), 0, 0, cv, sc, ks, sd, l, FALSE)
            M == Kn(Attended(l), cv, sc, ks, sd)
<1>1. Wants("AttnS", l) \subseteq Queried(l)
  BY DoesAttnS, SMT DEF Does, Queried
<1>2. Wants("AttnR", l) \subseteq Queried(l) /\ After({"AttnR"}, l, Queried(l), Attended(l))
  BY DoesAttnR, SMT DEF After, Does, Queried, Attended
<1>3. /\ K.f = Queried(l) /\ K.ks = ks /\ L.f = Queried(l) /\ L.pt = l /\ M.f = Attended(l)
      /\ SameBut(K, L) /\ L.tl = 0 /\ Same(L, M)
  BY DEF AttnFrom, Kn, Know, Same, SameBut, Adds
<1>. HIDE DEF K, L, M
<1>4. Wants("AttnS", l) \subseteq K.f /\ L.f \subseteq K.f /\ l \in K.ks
  BY <1>1, <1>3
<1>5. SplitRule(e, ep, K, L)
  BY <1>3, <1>4, Zenon DEF SplitRule
<1>6. ReduceRule(e, {D("AttnR", l, rows)}, L, M)
  <2>1. Wants("AttnR", l) \subseteq L.f /\ After({"AttnR"}, l, L.f, M.f)
    BY <1>2, <1>3
  <2>. QED  BY <1>3, <2>1, Zenon DEF ReduceRule
<1>7. Rule(e, ep, K, L) /\ Rule(e, {D("AttnR", l, rows)}, L, M)
  BY <1>5, <1>6 DEF Rule
<1>. QED  BY <1>7, FineTwo DEF K, M

\* Attention in one dispatch.
LEMMA WholeFine ==
  ASSUME NEW e, NEW l \in RangeOf(e), l \in Nat, Layers[l] = "attn",
         NEW n \in Nat, NEW cv, NEW sc, NEW ks, NEW sd, l \in ks, NEW rows, rows = AllRows(e),
         rows = 0 .. n - 1
  PROVE  Fine(e, <<{D("Attn", l, rows)}>>, AttnFrom(l, cv, sc, ks, sd), AttnTo(l, n, cv, sc, ks, sd))
<1>. DEFINE K == AttnFrom(l, cv, sc, ks, sd)  L == AttnTo(l, n, cv, sc, ks, sd)
<1>1. Wants("Attn", l) \subseteq Queried(l)
  BY DoesAttn, SMT DEF Does, Queried
<1>2. \A x \in Attended(l) : (x \in Queried(l) /\ x[1] # "Att") \/ x = <<"Att", "a", l>>
  BY DEF Attended, Queried
<1>3. /\ K.f = Queried(l) /\ K.ks = ks /\ L.f = Attended(l) /\ K.tl = 0 /\ L.tl = n /\ L.tr = l
      /\ SameBut(K, L) /\ L.pt \in {K.pt, 0}
  BY DEF AttnFrom, AttnTo, Kn, Know, Same, SameBut, Adds
<1>. HIDE DEF K, L
<1>4. \A i \in AllRows(e) : i < L.tl
  BY <1>3
<1>5. /\ Wants("Attn", l) \subseteq K.f /\ l \in K.ks
      /\ K.tl \in Nat /\ (K.tl # 0 => K.tr = l) /\ L.tl \in Nat
      /\ rows \in SUBSET AllRows(e)
      /\ \A i \in AllRows(e) : K.tl <= i /\ i < L.tl => i \in rows
      /\ \A x \in L.f : \/ x \in K.f /\ x[1] # "Att"
                        \/ x = <<"Att", "a", l>> /\ \A i \in AllRows(e) : i < L.tl
  BY <1>1, <1>2, <1>3, <1>4
<1>6. TileRule(e, {D("Attn", l, rows)}, K, L)
  BY <1>3, <1>5, Zenon DEF TileRule
<1>7. Rule(e, {D("Attn", l, rows)}, K, L)
  BY <1>6 DEF Rule
<1>. QED  BY <1>7, FineOne DEF K, L

\* What a step CB is executed in: under live dispatch the grids cover the longest lane.
SerialEnv(e, z) ==
  /\ e.c = cfg /\ cfg \in Configs /\ SerialOf(e.r, z)
  /\ cfg.live /\ e.r.fill =>
       \E len \in Nat : e.g = LiveGrids(z, len) /\ \A i \in e.r.asked : Len(e.r.rows[i]) <= len

LEMMA SerialEnvRows ==
  ASSUME NEW e, NEW z, SerialEnv(e, z)
  PROVE  /\ ~Batched(e) /\ z \in Nat \ {0} /\ AllRows(e) = 0 .. z - 1 /\ RangeOf(e) = 1 .. NL
         /\ Live(e) \subseteq AllRows(e) /\ Live(e) \subseteq e.r.asked
         /\ \A i \in AllRows(e) : Len(e.r.rows[i]) \in 1 .. NCtx /\ AtOf(e, i) = Len(e.r.rows[i]) - 1
         /\ cfg.live /\ ~e.r.fill => Live(e) = {}
         /\ cfg.group \in {1, 2, 4, 8}
<1>1. SerialOf(e.r, z) /\ e.c = cfg /\ cfg \in Configs
  BY DEF SerialEnv
<1>2. e.r.kind = "serial" /\ DOMAIN e.r.rows = 0 .. z - 1 /\ z \in Nat \ {0}
  BY <1>1, SerialRows
<1>3. e.r.asked \subseteq 0 .. z - 1 /\ \A i \in 0 .. z - 1 : Len(e.r.rows[i]) \in 1 .. NCtx
  BY <1>1 DEF SerialOf
<1>4. cfg.group \in {1, 2, 4, 8}
  BY <1>1, GpuChainAssumption
<1>. QED  BY <1>1, <1>2, <1>3, <1>4 DEF Batched, AllRows, RangeOf, FirstOf, LastOf, Live, AtOf

\* The split-K dispatches of a step CB.
SerialSplit(l, rows) ==
  IF cfg.live /\ cfg.auto THEN {DIndirect(l, 1, 1), DIndirect(l, 2, 4)}
  ELSE IF cfg.live THEN {DIndirect(l, 1, cfg.group)}
  ELSE {DSplit(l, rows, 0 .. SplitMax - 1, (HQ \div cfg.group) * cfg.group)}

LEMMA SerialSplitCovers ==
  ASSUME NEW e, NEW z, SerialEnv(e, z), NEW l, NEW d \in SerialSplit(l, AllRows(e))
  PROVE  /\ d.k \in {"AttnS", "Indirect"} /\ d.l = l
         /\ Launched(e, d).k = "AttnS" /\ Launched(e, d).l = l
         /\ Launched(e, d).heads >= HQ \/ Live(e) = {}
<1>1. CASE ~cfg.live
  <2>1. d = DSplit(l, AllRows(e), 0 .. SplitMax - 1, (HQ \div cfg.group) * cfg.group)
    BY <1>1 DEF SerialSplit
  <2>2. d.k = "AttnS" /\ d.l = l /\ d.heads = (HQ \div cfg.group) * cfg.group
    BY <2>1 DEF DSplit
  <2>3. d.heads = HQ
    BY <2>2, Heads, SerialEnvRows
  <2>. QED  BY <2>2, <2>3, Sizes DEF Launched
<1>2. CASE cfg.live
  <2>1. PICK grid, group : /\ d = DIndirect(l, grid, group)
                           /\ \/ cfg.auto /\ grid = 1 /\ group = 1
                              \/ cfg.auto /\ grid = 2 /\ group = 4
                              \/ ~cfg.auto /\ grid = 1 /\ group = cfg.group
    BY <1>2 DEF SerialSplit
  <2>. DEFINE g == e.g[grid]
  <2>2. d.k = "Indirect" /\ d.l = l /\ d.grid = grid /\ d.group = group
    BY <2>1 DEF DIndirect
  <2>3. Launched(e, d) = DSplit(l, (0 .. g.z - 1) \cap AllRows(e), 0 .. g.x - 1, g.y * group)
    BY <2>2 DEF Launched
  <2>. HIDE DEF g
  <2>4. /\ Launched(e, d).k = "AttnS" /\ Launched(e, d).l = l /\ Launched(e, d).heads = g.y * group
    BY <2>3 DEF DSplit
  <2>5. CASE e.r.fill
    <3>1. PICK len \in Nat : e.g = LiveGrids(z, len)
      BY <1>2, <2>5 DEF SerialEnv
    <3>2. g.y = HQ \div group /\ group \in {1, 2, 4, 8}
      <4>1. e.g[1].y = HQ \div (IF cfg.auto THEN 1 ELSE cfg.group) /\ e.g[2].y = HQ \div 4
        BY <3>1 DEF LiveGrids, Grid
      <4>. QED  BY <2>1, <4>1, SerialEnvRows DEF g
    <3>3. g.y * group = HQ
      BY <3>2, Heads
    <3>. QED  BY <2>2, <2>4, <3>3, Sizes
  <2>6. CASE ~e.r.fill
    BY <1>2, <2>2, <2>4, <2>6, SerialEnvRows
  <2>. QED  BY <2>5, <2>6
<1>. QED  BY <1>1, <1>2

LEMMA SerialSplitKeys ==
  ASSUME NEW e, NEW z, SerialEnv(e, z), NEW l, NEW i \in Live(e), NEW p \in 0 .. NCtx - 1, p <= AtOf(e, i)
  PROVE  \E d \in SerialSplit(l, AllRows(e)) :
           i \in Launched(e, d).rows /\ p \div Chunk \in Launched(e, d).chunks
<1>0. /\ i \in AllRows(e) /\ i \in e.r.asked /\ AllRows(e) = 0 .. z - 1 /\ Len(e.r.rows[i]) \in 1 .. NCtx
      /\ p \in Nat /\ p < Len(e.r.rows[i]) /\ p < NCtx /\ NCtx \in Nat
  BY SerialEnvRows, Sizes
<1>1. CASE ~cfg.live
  <2>. DEFINE d == DSplit(l, AllRows(e), 0 .. SplitMax - 1, (HQ \div cfg.group) * cfg.group)
  <2>1. d \in SerialSplit(l, AllRows(e))
    BY <1>1 DEF SerialSplit
  <2>2. Launched(e, d) = d /\ d.rows = AllRows(e) /\ d.chunks = 0 .. SplitMax - 1
    BY DEF DSplit, Launched
  <2>3. p \div Chunk \in 0 .. SplitMax - 1
    BY <1>0, SplitsCover
  <2>. HIDE DEF d
  <2>. QED  BY <1>0, <2>1, <2>2, <2>3
<1>2. CASE cfg.live
  <2>1. e.r.fill
    BY <1>2, SerialEnvRows
  <2>2. PICK len \in Nat : e.g = LiveGrids(z, len) /\ \A j \in e.r.asked : Len(e.r.rows[j]) <= len
    BY <1>2, <2>1 DEF SerialEnv
  <2>. DEFINE grouped == cfg.auto /\ len >= GqaThreshold
              grid == IF grouped THEN 2 ELSE 1
              group == IF grouped THEN 4 ELSE IF cfg.auto THEN 1 ELSE cfg.group
              d == DIndirect(l, grid, group)
  <2>3. d \in SerialSplit(l, AllRows(e))
    BY <1>2 DEF SerialSplit
  <2>4. e.g[grid].x = LiveSplits(len) /\ e.g[grid].z = z
    BY <2>2 DEF LiveGrids, Grid
  <2>5. d.k = "Indirect" /\ d.grid = grid /\ d.l = l /\ d.group = group
    BY DEF DIndirect
  <2>. HIDE DEF grid, group, d
  <2>6. /\ Launched(e, d).rows = (0 .. e.g[grid].z - 1) \cap AllRows(e)
        /\ Launched(e, d).chunks = 0 .. e.g[grid].x - 1
    BY <2>5 DEF Launched, DSplit
  <2>7. p < len
    BY <1>0, <2>2
  <2>8. p \div Chunk \in 0 .. LiveSplits(len) - 1
    BY <1>0, <2>7, SplitsCover
  <2>. QED  BY <1>0, <2>3, <2>4, <2>6, <2>8
<1>. QED  BY <1>1, <1>2

\* The mixer of an attention layer of a step CB.
LEMMA SerialAttnFine ==
  ASSUME NEW e, NEW z, SerialEnv(e, z), NEW l \in RangeOf(e), l \in Nat, Layers[l] = "attn",
         NEW cv, NEW sc, NEW ks, NEW sd, l \notin ks
  PROVE  Fine(e, SerialAttn(l, AllRows(e)), Kn(Start(l), cv, sc, ks, sd),
              Kn(Mixed(l), cv, sc, ks \cup {l}, sd))
<1>. DEFINE rows == AllRows(e)
            a == AttnProj(l, rows)
            b == IF ~cfg.splitK THEN <<{D("Attn", l, rows)}>>
                 ELSE <<SerialSplit(l, rows), {D("AttnR", l, rows)}>>
            c == <<{D("Wo", l, rows)}>>
            kt == ks \cup {l}
            K == Kn(Start(l), cv, sc, ks, sd)  L == AttnFrom(l, cv, sc, kt, sd)
            M == IF ~cfg.splitK THEN AttnTo(l, z, cv, sc, kt, sd) ELSE Kn(Attended(l), cv, sc, kt, sd)
            N == Kn(Mixed(l), cv, sc, kt, sd)
<1>1. SerialAttn(l, rows) = a \o b \o c
  BY DEF SerialAttn, SerialSplit
<1>2. Fine(e, a, K, L)
  BY ProjFine DEF AttnFrom
<1>3. Fine(e, b, L, M)
  <2>0. l \in kt
    OBVIOUS
  <2>. HIDE DEF kt
  <2>1. CASE ~cfg.splitK
    BY <2>0, <2>1, SerialEnvRows, WholeFine
  <2>2. CASE cfg.splitK
    <3>1. \A d \in SerialSplit(l, rows) :
            /\ d.k \in {"AttnS", "Indirect"} /\ d.l = l
            /\ Launched(e, d).k = "AttnS" /\ Launched(e, d).l = l
            /\ Launched(e, d).heads >= HQ \/ Live(e) = {}
      BY SerialSplitCovers
    <3>2. \A i \in Live(e), p \in 0 .. NCtx - 1 : p <= AtOf(e, i) =>
            \E d \in SerialSplit(l, rows) : i \in Launched(e, d).rows /\ p \div Chunk \in Launched(e, d).chunks
      BY SerialSplitKeys
    <3>3. rows = AllRows(e)
      OBVIOUS
    <3>. DEFINE ep == SerialSplit(l, rows)
    <3>. HIDE DEF ep, rows
    <3>4. Fine(e, <<ep, {D("AttnR", l, rows)}>>, L, Kn(Attended(l), cv, sc, kt, sd))
      BY <2>0, <3>1, <3>2, <3>3, SplitFine DEF ep
    <3>. QED  BY <2>2, <3>4 DEF ep
  <2>. QED  BY <2>1, <2>2
<1>4. Fine(e, c, M, N)
  <2>. HIDE DEF kt
  <2>1. CASE ~cfg.splitK
    BY <2>1, WoFine DEF AttnTo
  <2>2. CASE cfg.splitK
    BY <2>2, WoFine DEF Kn
  <2>. QED  BY <2>1, <2>2
<1>. HIDE DEF a, b, c, K, L, M, N
<1>5. Fine(e, a \o b, K, M)
  BY <1>2, <1>3, FineConcat
<1>6. Fine(e, (a \o b) \o c, K, N)
  BY <1>4, <1>5, FineConcat
<1>. QED  BY <1>1, <1>6 DEF K, N, rows

\* What the CB of a batch is executed in.
BatchEnv(e) == e.c = cfg /\ cfg \in Configs /\ IsBatch(e.r)

LEMMA BatchEnvRows ==
  ASSUME NEW e, BatchEnv(e)
  PROVE  \E n \in Nat \ {0}, base \in Nat :
           /\ Batched(e) /\ AllRows(e) = 0 .. n - 1 /\ Cardinality(AllRows(e)) = n
           /\ base + n <= NCtx /\ Live(e) = AllRows(e) /\ Len(e.r.rows[0]) = base + 1
           /\ \A i \in AllRows(e) : Len(e.r.rows[i]) = base + i + 1 /\ AtOf(e, i) = base + i
           /\ FirstOf(e) = e.r.first /\ LastOf(e) = e.r.last
           /\ e.r.first \in 1 .. NL /\ e.r.last \in e.r.first .. NL
           /\ e.r.want \in {"ids", "logits", "none"} /\ cfg.group \in {1, 2, 4, 8}
<1>1. PICK h, t : BatchOf(e.r, h, t)
  BY DEF BatchEnv, IsBatch
<1>. DEFINE n == Len(t)  base == Len(h)
<1>2. /\ e.r.kind = "batch" /\ DOMAIN e.r.rows = 0 .. n - 1 /\ Cardinality(DOMAIN e.r.rows) = n
      /\ n \in Nat \ {0} /\ base \in Nat
  BY <1>1, BatchRows
<1>3. /\ base + n <= NCtx /\ e.r.first \in 1 .. NL /\ e.r.last \in e.r.first .. NL
      /\ e.r.want \in {"ids", "logits", "none"}
  BY <1>1 DEF BatchOf
<1>4. \A i \in 0 .. n - 1 : Len(e.r.rows[i]) = base + i + 1
  <2>. HIDE DEF n, base
  <2>. SUFFICES ASSUME NEW i \in 0 .. n - 1 PROVE Len(e.r.rows[i]) = base + i + 1
    OBVIOUS
  <2>1. Len(RowOf(e.r, i)) = Len(h) + i + 1
    BY <1>1, BatchRow DEF n
  <2>. QED  BY <2>1 DEF RowOf, base
<1>5. cfg.group \in {1, 2, 4, 8}
  BY GpuChainAssumption DEF BatchEnv
<1>. HIDE DEF n, base
<1>6. \A i \in 0 .. n - 1 : AtOf(e, i) = base + i
  BY <1>2, <1>4 DEF AtOf
<1>7. Len(e.r.rows[0]) = base + 1
  BY <1>2, <1>4
<1>. QED  BY <1>2, <1>3, <1>4, <1>5, <1>6, <1>7 DEF Batched, AllRows, Live, FirstOf, LastOf

\* The mixer of an attention layer of a batch.
LEMMA BatchAttnFine ==
  ASSUME NEW e, BatchEnv(e), NEW n, AllRows(e) = 0 .. n - 1, n \in Nat \ {0},
         NEW base \in Nat, Len(e.r.rows[0]) = base + 1,
         NEW l \in RangeOf(e), l \in Nat, Layers[l] = "attn", NEW cv, NEW sc, NEW ks, NEW sd, l \notin ks
  PROVE  Fine(e, BatchAttn(l, base, n), Kn(Start(l), cv, sc, ks, sd),
              Kn(Mixed(l), cv, sc, ks \cup {l}, sd))
<1>. DEFINE rows == 0 .. n - 1
            group == IF cfg.auto /\ base + 1 >= GqaThreshold THEN 4 ELSE cfg.group
            splits == IF cfg.live THEN LiveSplits(base + 1) ELSE SplitMax
            d == DSplit(l, {0}, 0 .. splits - 1, (HQ \div group) * group)
            split == cfg.splitK /\ n = 1
            a == AttnProj(l, rows)
            b == IF split THEN <<{d}, {D("AttnR", l, {0})}>> ELSE Tiles(l, base, n)
            c == <<{D("Wo", l, rows)}>>
            kt == ks \cup {l}
            K == Kn(Start(l), cv, sc, ks, sd)  L == AttnFrom(l, cv, sc, kt, sd)
            M == IF split THEN Kn(Attended(l), cv, sc, kt, sd) ELSE AttnTo(l, n, cv, sc, kt, sd)
            N == Kn(Mixed(l), cv, sc, kt, sd)
<1>1. BatchAttn(l, base, n) = a \o b \o c
  BY Zenon DEF BatchAttn
<1>2. Fine(e, a, K, L)
  BY ProjFine DEF AttnFrom
<1>3. Fine(e, b, L, M)
  <2>0. l \in kt
    OBVIOUS
  <2>. HIDE DEF kt
  <2>1. CASE ~split
    <3>1. Fine(e, Tiles(l, base, n), L, AttnTo(l, n, cv, sc, kt, sd))
      BY <2>0, TilesFine
    <3>. QED  BY <2>1, <3>1
  <2>2. CASE split
    <3>0. n = 1 /\ AllRows(e) = {0}
      BY <2>2
    <3>1. group \in {1, 2, 4, 8} /\ (\A i \in AllRows(e) : i = 0 /\ AtOf(e, i) = base) /\ Live(e) = AllRows(e)
      BY <3>0, BatchEnvRows DEF AtOf
    <3>2. /\ d.k = "AttnS" /\ d.l = l /\ d.rows = {0} /\ d.chunks = 0 .. splits - 1
          /\ d.heads = (HQ \div group) * group
      BY DEF DSplit
    <3>3. Launched(e, d) = d
      BY <3>2 DEF Launched
    <3>4. d.heads = HQ /\ HQ \in Nat
      BY <3>1, <3>2, Heads, Sizes
    <3>5. \A p \in 0 .. NCtx - 1 : p <= base => p \div Chunk \in 0 .. splits - 1
      <4>. SUFFICES ASSUME NEW p \in 0 .. NCtx - 1, p <= base PROVE p \div Chunk \in 0 .. splits - 1
        OBVIOUS
      <4>1. p \in Nat /\ p < base + 1 /\ base + 1 \in Nat /\ p < NCtx
        BY Sizes
      <4>2. p \div Chunk \in 0 .. LiveSplits(base + 1) - 1 /\ p \div Chunk \in 0 .. SplitMax - 1
        BY <4>1, SplitsCover
      <4>. QED  BY <4>2
    <3>. HIDE DEF d, splits, group
    <3>6. \A x \in {d} : /\ x.k \in {"AttnS", "Indirect"} /\ x.l = l
                         /\ Launched(e, x).k = "AttnS" /\ Launched(e, x).l = l
                         /\ Launched(e, x).heads >= HQ \/ Live(e) = {}
      BY <3>2, <3>3, <3>4
    <3>7. \A i \in Live(e), p \in 0 .. NCtx - 1 : p <= AtOf(e, i) =>
            \E x \in {d} : i \in Launched(e, x).rows /\ p \div Chunk \in Launched(e, x).chunks
      <4>. SUFFICES ASSUME NEW i \in Live(e), NEW p \in 0 .. NCtx - 1, p <= AtOf(e, i)
                    PROVE  \E x \in {d} : i \in Launched(e, x).rows /\ p \div Chunk \in Launched(e, x).chunks
        OBVIOUS
      <4>1. i = 0 /\ AtOf(e, i) = base
        BY <3>1
      <4>2. p \div Chunk \in d.chunks
        BY <3>2, <3>5, <4>1
      <4>. QED  BY <3>2, <3>3, <4>1, <4>2
    <3>. DEFINE ep == {d}
    <3>. HIDE DEF ep
    <3>8. Fine(e, <<ep, {D("AttnR", l, {0})}>>, L, Kn(Attended(l), cv, sc, kt, sd))
      BY <2>0, <3>0, <3>6, <3>7, SplitFine DEF ep
    <3>. QED  BY <2>2, <3>8 DEF ep
  <2>. QED  BY <2>1, <2>2
<1>4. Fine(e, c, M, N)
  <2>. HIDE DEF kt, split
  <2>1. CASE ~split
    BY <2>1, WoFine DEF AttnTo
  <2>2. CASE split
    BY <2>2, WoFine DEF Kn
  <2>. QED  BY <2>1, <2>2
<1>. HIDE DEF a, b, c, K, L, M, N
<1>5. Fine(e, a \o b, K, M)
  BY <1>2, <1>3, FineConcat
<1>6. Fine(e, (a \o b) \o c, K, N)
  BY <1>4, <1>5, FineConcat
<1>. QED  BY <1>1, <1>6 DEF K, N

\* What is known before layer l of a stream.
Done(t, first, l) == {j \in first .. l - 1 : Layers[j] = t}
Entering(e, l) == IF Batched(e) /\ l = e.r.last + 1 /\ e.r.last < NL THEN {<<"Xin", "x", l>>} ELSE Start(l)
Known(e, l) ==
  Kn(Entering(e, l), Done("rec", FirstOf(e), l), Done("rec", FirstOf(e), l), Done("attn", FirstOf(e), l),
     Batched(e))

\* A layer is recurrent or attention.
LEMMA LayerKinds == \A l \in 1 .. NL : Layers[l] \in {"rec", "attn"} /\ l \in Nat
BY GpuChainAssumption DEF NL

\* One more layer of its kind is done.
LEMMA DoneMore ==
  ASSUME NEW first \in Nat, NEW l \in Nat, first <= l,
         NEW r, NEW k, NEW rr, NEW kk, r = Done("rec", first, l), k = Done("attn", first, l),
         rr = Done("rec", first, l + 1), kk = Done("attn", first, l + 1)
  PROVE  /\ l \notin r /\ l \notin k
         /\ Layers[l] = "rec" => rr = r \cup {l} /\ kk = k
         /\ Layers[l] = "attn" => rr = r /\ kk = k \cup {l}
<1>1. first .. (l + 1) - 1 = (first .. l - 1) \cup {l} /\ l \notin first .. l - 1
  OBVIOUS
<1>. QED  BY <1>1 DEF Done

\* One layer of a step CB.
LEMMA SerialLayerFine ==
  ASSUME NEW e, NEW z, SerialEnv(e, z), NEW l \in 1 .. NL, NEW sg
  PROVE  Fine(e, (IF Layers[l] = "rec" THEN RecLayer(l, AllRows(e), sg) ELSE SerialAttn(l, AllRows(e)))
                 \o SerialMoe(l, AllRows(e)), Known(e, l), Known(e, l + 1))
<1>. DEFINE a == IF Layers[l] = "rec" THEN RecLayer(l, AllRows(e), sg) ELSE SerialAttn(l, AllRows(e))
            b == SerialMoe(l, AllRows(e))
            r == Done("rec", 1, l)  k == Done("attn", 1, l)
            rr == Done("rec", 1, l + 1)  kk == Done("attn", 1, l + 1)
            L == Kn(Mixed(l), rr, rr, kk, FALSE)
<1>0. /\ ~Batched(e) /\ RangeOf(e) = 1 .. NL /\ FirstOf(e) = 1 /\ l \in Nat /\ l \in RangeOf(e)
      /\ Layers[l] \in {"rec", "attn"} /\ Batched(e) = FALSE
  <2>1. ~Batched(e) /\ RangeOf(e) = 1 .. NL
    BY SerialEnvRows
  <2>. QED  BY <2>1, LayerKinds DEF FirstOf, Batched
<1>1. Known(e, l) = Kn(Start(l), r, r, k, FALSE) /\ Known(e, l + 1) = Kn(Start(l + 1), rr, rr, kk, FALSE)
  BY <1>0 DEF Known, Entering
<1>2. /\ l \notin r /\ l \notin k
      /\ Layers[l] = "rec" => rr = r \cup {l} /\ kk = k
      /\ Layers[l] = "attn" => rr = r /\ kk = k \cup {l}
  <2>1. 1 \in Nat /\ 1 <= l
    BY <1>0
  <2>2. /\ r = Done("rec", 1, l) /\ k = Done("attn", 1, l)
        /\ rr = Done("rec", 1, l + 1) /\ kk = Done("attn", 1, l + 1)
    OBVIOUS
  <2>. HIDE DEF r, k, rr, kk
  <2>. QED  BY <1>0, <2>1, <2>2, DoneMore
<1>. HIDE DEF r, k, rr, kk
<1>3. Fine(e, a, Kn(Start(l), r, r, k, FALSE), L)
  <2>1. CASE Layers[l] = "rec"
    BY <1>0, <1>2, <2>1, RecFine
  <2>2. CASE Layers[l] # "rec"
    <3>1. Fine(e, SerialAttn(l, AllRows(e)), Kn(Start(l), r, r, k, FALSE), Kn(Mixed(l), r, r, k \cup {l}, FALSE))
      BY <1>0, <1>2, <2>2, SerialAttnFine
    <3>. QED  BY <1>0, <1>2, <2>2, <3>1
  <2>. QED  BY <2>1, <2>2
<1>4. Fine(e, b, L, Kn(Start(l + 1), rr, rr, kk, FALSE))
  BY <1>0, SerialMoeFine
<1>. HIDE DEF a, b, L
<1>5. Fine(e, a \o b, Kn(Start(l), r, r, k, FALSE), Kn(Start(l + 1), rr, rr, kk, FALSE))
  BY <1>3, <1>4, FineConcat
<1>. QED  BY <1>1, <1>5 DEF a, b

\* One layer of a batch.
LEMMA BatchLayerFine ==
  ASSUME NEW e, BatchEnv(e), NEW n, AllRows(e) = 0 .. n - 1, n \in Nat \ {0},
         NEW base \in Nat, Len(e.r.rows[0]) = base + 1, NEW l \in RangeOf(e), NEW sg
  PROVE  Fine(e, (IF Layers[l] = "rec" THEN RecLayer(l, 0 .. n - 1, sg) ELSE BatchAttn(l, base, n))
                 \o BatchMoe(l, n, l = e.r.last /\ l < NL), Known(e, l), Known(e, l + 1))
<1>. DEFINE cut == l = e.r.last /\ l < NL
            a == IF Layers[l] = "rec" THEN RecLayer(l, AllRows(e), sg) ELSE BatchAttn(l, base, n)
            b == BatchMoe(l, n, cut)
            f == FirstOf(e)
            r == Done("rec", f, l)  k == Done("attn", f, l)
            rr == Done("rec", f, l + 1)  kk == Done("attn", f, l + 1)
            L == Kn(Mixed(l), rr, rr, kk, TRUE)
<1>0. /\ Batched(e) = TRUE /\ f = e.r.first /\ l \in Nat /\ l \in e.r.first .. e.r.last
      /\ e.r.first \in Nat /\ e.r.last \in Nat /\ e.r.last <= NL
      /\ Layers[l] \in {"rec", "attn"}
  <2>1. /\ Batched(e) /\ f = e.r.first /\ LastOf(e) = e.r.last
        /\ e.r.first \in 1 .. NL /\ e.r.last \in e.r.first .. NL
    BY BatchEnvRows
  <2>2. l \in e.r.first .. e.r.last
    BY <2>1 DEF RangeOf
  <2>3. l \in 1 .. NL
    BY <2>1, <2>2, Sizes
  <2>. QED  BY <2>1, <2>2, <2>3, LayerKinds, Sizes DEF Batched
<1>1. Known(e, l) = Kn(Start(l), r, r, k, TRUE) /\ Known(e, l + 1) = Kn(Closed(l, cut), rr, rr, kk, TRUE)
  <2>1. l # e.r.last + 1 /\ (l + 1 = e.r.last + 1 <=> l = e.r.last)
    BY <1>0
  <2>. DEFINE m == l + 1
  <2>2. m = e.r.last + 1 /\ e.r.last < NL <=> cut
    BY <2>1
  <2>3. Entering(e, l) = Start(l)
    BY <2>1 DEF Entering
  <2>4. Entering(e, m) = Closed(l, cut)
    <3>1. Closed(l, cut) = IF cut THEN {<<"Xin", "x", m>>} ELSE Start(m)
      BY DEF Closed
    <3>. HIDE DEF m, cut
    <3>. QED  BY <1>0, <2>2, <3>1 DEF Entering
  <2>. QED  BY <1>0, <2>3, <2>4 DEF Known
<1>2. /\ l \notin r /\ l \notin k
      /\ Layers[l] = "rec" => rr = r \cup {l} /\ kk = k
      /\ Layers[l] = "attn" => rr = r /\ kk = k \cup {l}
  <2>1. f \in Nat /\ f <= l
    BY <1>0
  <2>. HIDE DEF f
  <2>2. /\ r = Done("rec", f, l) /\ k = Done("attn", f, l)
        /\ rr = Done("rec", f, l + 1) /\ kk = Done("attn", f, l + 1)
    OBVIOUS
  <2>. HIDE DEF r, k, rr, kk
  <2>. QED  BY <1>0, <2>1, <2>2, DoneMore
<1>. HIDE DEF r, k, rr, kk, cut, f
<1>3. Fine(e, a, Kn(Start(l), r, r, k, TRUE), L)
  <2>1. CASE Layers[l] = "rec"
    BY <1>0, <1>2, <2>1, RecFine
  <2>2. CASE Layers[l] # "rec"
    <3>1. Fine(e, BatchAttn(l, base, n), Kn(Start(l), r, r, k, TRUE), Kn(Mixed(l), r, r, k \cup {l}, TRUE))
      BY <1>0, <1>2, <2>2, BatchAttnFine
    <3>. QED  BY <1>0, <1>2, <2>2, <3>1
  <2>. QED  BY <2>1, <2>2
<1>4. Fine(e, b, L, Kn(Closed(l, cut), rr, rr, kk, TRUE))
  BY <1>0, BatchMoeFine
<1>. HIDE DEF a, b, L
<1>5. Fine(e, a \o b, Kn(Start(l), r, r, k, TRUE), Kn(Closed(l, cut), rr, rr, kk, TRUE))
  BY <1>3, <1>4, FineConcat
<1>6. a \o b = (IF Layers[l] = "rec" THEN RecLayer(l, 0 .. n - 1, sg) ELSE BatchAttn(l, base, n))
               \o BatchMoe(l, n, l = e.r.last /\ l < NL)
  BY DEF a, b, cut
<1>. QED  BY <1>1, <1>5, <1>6

-------------------------------------------------------------------------------
(* The whole streams.                                                         *)
Begin == Kn({}, {}, {}, {}, FALSE)
\* What a CB must leave: sampled tokens with their logits, the logits alone, or nothing.
Sampled == {<<"Logits", "lg", NL + 1>>, <<"Samp", "t", NL + 1>>}
Scored == {<<"Logits", "lg", NL + 1>>}
Cut(e) == Batched(e) /\ e.r.last < NL
Results(e) ==
  IF Cut(e) THEN {}
  ELSE IF ~Batched(e) \/ e.r.want = "ids" THEN Sampled
  ELSE IF e.r.want = "logits" THEN Scored ELSE {}

\* What is known when a stream has run.
Ended(e, K) ==
  /\ Results(e) \subseteq K.f
  /\ K.cv = Done("rec", FirstOf(e), LastOf(e) + 1) /\ K.sc = K.cv
  /\ K.ks = Done("attn", FirstOf(e), LastOf(e) + 1)
  /\ Cut(e) => K.ho

LEMMA TailNamesPure == {"Rms", "Emb", "Head", "Am1", "Am2", "Copy"} \subseteq PureNames
BY DEF PureNames, Names, MixerNames, TailNames, Special

\* The head, and the argmax.
LEMMA HeadFine ==
  ASSUME NEW e, NEW cv, NEW sc, NEW ks, NEW sd, NEW rows, rows = AllRows(e)
  PROVE  Fine(e, <<{D("Head", NL + 1, rows)}>>, Kn(Start(NL + 1), cv, sc, ks, sd),
              Kn(Scored, cv, sc, ks, sd))
<1>. DEFINE l == NL + 1
<1>0. l \in Nat /\ "Head" \in PureNames
  BY Sizes, TailNamesPure
<1>. HIDE DEF l
<1>1. /\ Wants("Head", l) \subseteq Start(l)
      /\ {<<"Logits", "lg", l>>} \subseteq {x \in Start(l) : x[1] \notin OutsOf("Head")} \cup Gives("Head", l)
  BY <1>0, DoesHead, SMT DEF Start, Does
<1>2. Rule(e, {D("Head", l, rows)}, Kn(Start(l), cv, sc, ks, sd), Kn({<<"Logits", "lg", l>>}, cv, sc, ks, sd))
  BY <1>0, <1>1, PureOne
<1>. QED  BY <1>2, FineOne DEF l, Scored

LEMMA ArgmaxFine ==
  ASSUME NEW e, NEW cv, NEW sc, NEW ks, NEW sd, NEW rows, rows = AllRows(e)
  PROVE  Fine(e, HeadAndArgmax(rows), Kn(Start(NL + 1), cv, sc, ks, sd), Kn(Sampled, cv, sc, ks, sd))
<1>. DEFINE l == NL + 1
            f1 == {<<"Logits", "lg", l>>}
            f2 == {<<"Logits", "lg", l>>, <<"AV", "av", l>>}
            f3 == {<<"Logits", "lg", l>>, <<"Tok", "t", l>>}
            f4 == {<<"Logits", "lg", l>>, <<"Samp", "t", l>>}
<1>0. l \in Nat /\ {"Rms", "Emb", "Head", "Am1", "Am2", "Copy"} \subseteq PureNames
  BY Sizes, TailNamesPure
<1>. HIDE DEF l
<1>1. /\ Wants("Head", l) \subseteq Start(l)
      /\ f1 \subseteq {x \in Start(l) : x[1] \notin OutsOf("Head")} \cup Gives("Head", l)
  BY <1>0, DoesHead, SMT DEF Start, Does
<1>2. Wants("Am1", l) \subseteq f1 /\ f2 \subseteq {x \in f1 : x[1] \notin OutsOf("Am1")} \cup Gives("Am1", l)
  BY <1>0, DoesAm1, SMT DEF Does
<1>3. Wants("Am2", l) \subseteq f2 /\ f3 \subseteq {x \in f2 : x[1] \notin OutsOf("Am2")} \cup Gives("Am2", l)
  BY <1>0, DoesAm2, SMT DEF Does
<1>4. Wants("Copy", l) \subseteq f3 /\ f4 \subseteq {x \in f3 : x[1] \notin OutsOf("Copy")} \cup Gives("Copy", l)
  BY <1>0, DoesCopy, SMT DEF Does
<1>5. f4 = Sampled
  BY DEF Sampled, l
<1>. HIDE DEF f1, f2, f3, f4
<1>. DEFINE K0 == Kn(Start(l), cv, sc, ks, sd)  K1 == Kn(f1, cv, sc, ks, sd)
            K2 == Kn(f2, cv, sc, ks, sd)  K3 == Kn(f3, cv, sc, ks, sd)  K4 == Kn(f4, cv, sc, ks, sd)
<1>6. /\ Rule(e, {D("Head", l, rows)}, K0, K1) /\ Rule(e, {D("Am1", l, rows)}, K1, K2)
      /\ Rule(e, {D("Am2", l, rows)}, K2, K3) /\ Rule(e, {D("Copy", l, rows)}, K3, K4)
  BY <1>0, <1>1, <1>2, <1>3, <1>4, PureOne
<1>. HIDE DEF K0, K1, K2, K3, K4
<1>7. Fine(e, <<{D("Head", l, rows)}, {D("Am1", l, rows)}, {D("Am2", l, rows)}, {D("Copy", l, rows)}>>, K0, K4)
  BY <1>6, FineFour
<1>. QED  BY <1>5, <1>7 DEF K0, K4, HeadAndArgmax, l

\* The norm before the first layer.
LEMMA RmsRule ==
  ASSUME NEW e, NEW l \in Nat, NEW cv, NEW sc, NEW ks, NEW sd, NEW rows, rows = AllRows(e)
  PROVE  Rule(e, {D("Rms", l, rows)}, Kn({<<"Xin", "x", l>>}, cv, sc, ks, sd), Kn(Start(l), cv, sc, ks, sd))
<1>. DEFINE f == {<<"Xin", "x", l>>}
<1>1. Wants("Rms", l) \subseteq f /\ Start(l) \subseteq {x \in f : x[1] \notin OutsOf("Rms")} \cup Gives("Rms", l)
  BY DoesRms, SMT DEF Start, Does
<1>. HIDE DEF f
<1>2. Rule(e, {D("Rms", l, rows)}, Kn(f, cv, sc, ks, sd), Kn(Start(l), cv, sc, ks, sd))
  BY <1>1, TailNamesPure, PureOne
<1>. QED  BY <1>2 DEF f

\* The embedding of the tokens.
LEMMA EmbRule ==
  ASSUME NEW e, NEW cv, NEW sc, NEW ks, NEW sd, NEW rows, rows = AllRows(e)
  PROVE  Rule(e, {D("Emb", 1, rows)}, Kn({}, cv, sc, ks, sd), Kn({<<"Xin", "x", 1>>}, cv, sc, ks, sd))
<1>. DEFINE f == {<<"Xin", "x", 1>>}  g == {}  l == 1
<1>0. l \in Nat /\ f = {<<"Xin", "x", l>>}
  OBVIOUS
<1>. HIDE DEF l
<1>1. Wants("Emb", l) \subseteq g /\ f \subseteq {x \in g : x[1] \notin OutsOf("Emb")} \cup Gives("Emb", l)
  BY <1>0, DoesEmb, SMT DEF Does
<1>. HIDE DEF f, g
<1>2. Rule(e, {D("Emb", l, rows)}, Kn(g, cv, sc, ks, sd), Kn(f, cv, sc, ks, sd))
  BY <1>0, <1>1, TailNamesPure, PureOne
<1>. QED  BY <1>2 DEF f, g, l

\* Before the first layer none is done.
LEMMA DoneNone == ASSUME NEW first \in Nat, NEW t PROVE Done(t, first, first) = {}
<1>1. first .. first - 1 = {}
  OBVIOUS
<1>. QED  BY <1>1 DEF Done

\* A step CB computes the sampled tokens and runs every layer.
LEMMA StepFine ==
  ASSUME NEW e, NEW z, SerialEnv(e, z)
  PROVE  \E K : Fine(e, StepCB(z), Begin, K) /\ Ended(e, K)
<1>. DEFINE rows == 0 .. z - 1
            layer(l) == (IF Layers[l] = "rec" THEN RecLayer(l, rows, cfg.stepGate)
                         ELSE SerialAttn(l, rows)) \o SerialMoe(l, rows)
            f == [l \in 1 .. NL |-> layer(l)]
            q == [l \in 1 .. NL + 1 |-> Known(e, l)]
            a == <<{D("Emb", 1, rows)}, {D("Rms", 1, rows)}>>
            r == Done("rec", 1, NL + 1)  k == Done("attn", 1, NL + 1)
            L == Kn(Sampled, r, r, k, FALSE)
<1>0. rows = AllRows(e) /\ ~Batched(e) /\ Batched(e) = FALSE /\ FirstOf(e) = 1 /\ LastOf(e) = NL /\ NL \in Nat \ {0}
  BY SerialEnvRows, Sizes DEF Batched, FirstOf, LastOf
<1>. HIDE DEF rows
<1>1. Known(e, 1) = Kn(Start(1), {}, {}, {}, FALSE) /\ Known(e, NL + 1) = Kn(Start(NL + 1), r, r, k, FALSE)
  <2>1. Done("rec", 1, 1) = {} /\ Done("attn", 1, 1) = {}
    BY DoneNone
  <2>2. Entering(e, 1) = Start(1) /\ Entering(e, NL + 1) = Start(NL + 1)
    BY <1>0 DEF Entering
  <2>3. r = Done("rec", 1, NL + 1) /\ k = Done("attn", 1, NL + 1)
    OBVIOUS
  <2>. HIDE DEF r, k
  <2>. QED  BY <1>0, <2>1, <2>2, <2>3 DEF Known
<1>2. Fine(e, a, Begin, Known(e, 1))
  <2>1. Rule(e, {D("Emb", 1, rows)}, Begin, Kn({<<"Xin", "x", 1>>}, {}, {}, {}, FALSE))
    BY <1>0, EmbRule DEF Begin
  <2>2. Rule(e, {D("Rms", 1, rows)}, Kn({<<"Xin", "x", 1>>}, {}, {}, {}, FALSE), Known(e, 1))
    <3>. DEFINE l == 1
    <3>1. l \in Nat
      OBVIOUS
    <3>. HIDE DEF l
    <3>2. Rule(e, {D("Rms", l, rows)}, Kn({<<"Xin", "x", l>>}, {}, {}, {}, FALSE), Kn(Start(l), {}, {}, {}, FALSE))
      BY <1>0, <3>1, RmsRule
    <3>. QED  BY <1>1, <3>2 DEF l
  <2>. QED  BY <2>1, <2>2, FineTwo
<1>3. Fine(e, FlattenSeq(f), Known(e, 1), Known(e, NL + 1))
  <2>1. \A l \in 1 .. NL : Fine(e, layer(l), Known(e, l), Known(e, l + 1))
    BY <1>0, SerialLayerFine
  <2>. HIDE DEF layer
  <2>2. \A l \in 1 .. NL : f[l] = layer(l) /\ q[l] = Known(e, l) /\ q[l + 1] = Known(e, l + 1)
    BY <1>0
  <2>3. f = Parts(f, NL)
    BY DEF Parts
  <2>4. q[1] = Known(e, 1) /\ q[NL + 1] = Known(e, NL + 1)
    BY <1>0
  <2>. HIDE DEF f, q
  <2>5. \A l \in 1 .. NL : Fine(e, f[l], q[l], q[l + 1])
    BY <2>1, <2>2
  <2>6. Fine(e, FlattenSeq(Parts(f, NL)), q[1], q[NL + 1])
    BY <1>0, <2>5, FineFlatten
  <2>. QED  BY <2>3, <2>4, <2>6
<1>4. Fine(e, HeadAndArgmax(rows), Known(e, NL + 1), L)
  BY <1>0, <1>1, ArgmaxFine
<1>5. StepCB(z) = a \o FlattenSeq(f) \o HeadAndArgmax(rows)
  BY Zenon DEF StepCB, rows
<1>6. Ended(e, L)
  <2>1. L.f = Sampled /\ L.cv = r /\ L.sc = r /\ L.ks = k
    BY DEF Kn, Know
  <2>. HIDE DEF L, r, k
  <2>2. r = Done("rec", FirstOf(e), LastOf(e) + 1) /\ k = Done("attn", FirstOf(e), LastOf(e) + 1)
    BY <1>0 DEF r, k
  <2>3. ~Cut(e) /\ Results(e) = Sampled
    BY <1>0 DEF Cut, Results
  <2>. QED  BY <2>1, <2>2, <2>3 DEF Ended
<1>. HIDE DEF a, f, L
<1>7. Fine(e, a \o FlattenSeq(f), Begin, Known(e, NL + 1))
  BY <1>2, <1>3, FineConcat
<1>8. Fine(e, (a \o FlattenSeq(f)) \o HeadAndArgmax(rows), Begin, L)
  BY <1>4, <1>7, FineConcat
<1>. QED  BY <1>5, <1>6, <1>8

\* The start of a batch: the window is seeded and the rows are read.
LEMMA BatchBegins ==
  ASSUME NEW e, BatchEnv(e), NEW rows, rows = AllRows(e)
  PROVE  Fine(e, (IF e.r.first = 1 THEN <<{D("Seed", 0, {})}, {D("Emb", 1, rows)}>>
                  ELSE <<{D("Seed", 0, {}), D("HidIn", e.r.first, rows)}>>) \o <<{D("Rms", e.r.first, rows)}>>,
              Begin, Known(e, e.r.first))
<1>. DEFINE l == e.r.first
            a == IF l = 1 THEN <<{D("Seed", 0, {})}, {D("Emb", 1, rows)}>>
                 ELSE <<{D("Seed", 0, {}), D("HidIn", l, rows)}>>
            b == <<{D("Rms", l, rows)}>>
            g == {<<"Xin", "x", l>>}
            M == Kn(g, {}, {}, {}, TRUE)
            S == Kn({}, {}, {}, {}, TRUE)
<1>0. Batched(e) = TRUE /\ FirstOf(e) = l /\ l \in Nat \ {0} /\ e.r.last \in l .. NL /\ NL \in Nat
  BY BatchEnvRows, Sizes DEF Batched
<1>1. Known(e, l) = Kn(Start(l), {}, {}, {}, TRUE)
  <2>1. Done("rec", l, l) = {} /\ Done("attn", l, l) = {}
    BY <1>0, DoneNone
  <2>2. l # e.r.last + 1
    BY <1>0
  <2>3. Entering(e, l) = Start(l)
    BY <2>2 DEF Entering
  <2>. HIDE DEF l
  <2>. QED  BY <1>0, <2>1, <2>3 DEF Known
<1>2. Rule(e, {D("Rms", l, rows)}, M, Kn(Start(l), {}, {}, {}, TRUE))
  BY <1>0, RmsRule
<1>3. Fine(e, a, Begin, M)
  <2>0. Begin = Kn({}, {}, {}, {}, FALSE)
    BY DEF Begin
  <2>1. CASE l = 1
    <3>1. Rule(e, {D("Seed", 0, {})}, Begin, S)
      <4>1. SeedRule(e, {D("Seed", 0, {})}, Begin, S)
        BY <1>0, <2>0 DEF SeedRule, Kn, Know, Same, SameBut, Adds
      <4>. QED  BY <4>1 DEF Rule
    <3>2. Rule(e, {D("Emb", 1, rows)}, S, M)
      BY <2>1, EmbRule
    <3>. HIDE DEF S, M
    <3>. QED  BY <2>1, <3>1, <3>2, FineTwo
  <2>2. CASE l # 1
    <3>1. g \subseteq Gives("HidIn", l)
      BY <1>0, TailsTable DEF Gives, OutsOf, Kern
    <3>2. Rule(e, {D("Seed", 0, {}), D("HidIn", l, rows)}, Begin, M)
      <4>. HIDE DEF g
      <4>1. SeedRule(e, {D("Seed", 0, {}), D("HidIn", l, rows)}, Begin, M)
        BY <1>0, <2>0, <2>2, <3>1 DEF SeedRule, Kn, Know, Same, SameBut, Adds
      <4>. QED  BY <4>1 DEF Rule
    <3>. HIDE DEF M
    <3>. QED  BY <2>2, <3>2, FineOne
  <2>. QED  BY <2>1, <2>2
<1>4. Fine(e, b, M, Known(e, l))
  <2>. HIDE DEF M
  <2>. QED  BY <1>1, <1>2, FineOne
<1>. HIDE DEF a, b, M
<1>5. Fine(e, a \o b, Begin, Known(e, l))
  BY <1>3, <1>4, FineConcat
<1>. QED  BY <1>5 DEF a, b, l

\* Its end: the rows are handed on, or go through the head.
Closing(r, rows) ==
  IF r.last < NL THEN <<{D("HidOut", r.last + 1, rows)}>>
  ELSE CASE r.want = "ids"    -> HeadAndArgmax(rows)
         [] r.want = "logits" -> <<{D("Head", NL + 1, rows)}>>
         [] r.want = "none"   -> <<>>

\* The end of a batch: its results, or the rows the next range of layers reads.
LEMMA BatchCloses ==
  ASSUME NEW e, BatchEnv(e), NEW rows, rows = AllRows(e)
  PROVE  \E K : Fine(e, Closing(e.r, rows), Known(e, e.r.last + 1), K) /\ Ended(e, K)
<1>. DEFINE m == e.r.last + 1
            r == Done("rec", FirstOf(e), m)  k == Done("attn", FirstOf(e), m)
<1>0. /\ Batched(e) = TRUE /\ FirstOf(e) = e.r.first /\ LastOf(e) = e.r.last /\ e.r.last \in Nat
      /\ e.r.last <= NL /\ NL \in Nat /\ e.r.want \in {"ids", "logits", "none"}
  BY BatchEnvRows, Sizes DEF Batched
<1>1. Known(e, m) = Kn(IF e.r.last < NL THEN {<<"Xin", "x", m>>} ELSE Start(m), r, r, k, TRUE)
  <2>1. Entering(e, m) = IF e.r.last < NL THEN {<<"Xin", "x", m>>} ELSE Start(m)
    BY <1>0 DEF Entering
  <2>2. r = Done("rec", FirstOf(e), m) /\ k = Done("attn", FirstOf(e), m)
    OBVIOUS
  <2>. HIDE DEF r, k, m
  <2>. QED  BY <1>0, <2>1, <2>2 DEF Known
<1>2. r = Done("rec", FirstOf(e), LastOf(e) + 1) /\ k = Done("attn", FirstOf(e), LastOf(e) + 1)
  BY <1>0
<1>. HIDE DEF r, k
<1>3. CASE e.r.last < NL
  <2>. DEFINE g == {<<"Xin", "x", m>>}
              K == Kn(g, r, r, k, TRUE)
              L == Know(g, 0, 0, r, r, k, TRUE, 0, TRUE)
  <2>1. Wants("HidOut", m) \subseteq g
    BY <1>0, TailsTable DEF Wants, InsOf, Kern
  <2>2. Known(e, m) = K
    BY <1>1, <1>3
  <2>. HIDE DEF g
  <2>3. L.f = K.f /\ K.f = g /\ L.cv = r /\ L.sc = r /\ L.ks = k /\ L.ho
    BY DEF Kn, Know
  <2>4. Same(Adds(K, {}, {}, {}, FALSE, TRUE), L)
    BY DEF Kn, Know, Same, SameBut, Adds
  <2>. HIDE DEF K, L
  <2>5. HidOutRule(e, {D("HidOut", m, rows)}, K, L)
    <3>1. Same(Adds(K, {}, {}, {}, FALSE, TRUE), L)
      BY <2>4 DEF L
    <3>. QED  BY <1>0, <1>3, <2>1, <2>3, <3>1, Zenon DEF HidOutRule
  <2>6. Fine(e, <<{D("HidOut", m, rows)}>>, K, L)
    BY <2>5, FineOne DEF Rule
  <2>7. Closing(e.r, rows) = <<{D("HidOut", m, rows)}>>
    BY <1>3 DEF Closing
  <2>8. Ended(e, L)
    <3>1. Results(e) = {}
      BY <1>0, <1>3 DEF Results, Cut
    <3>. QED  BY <1>2, <2>3, <3>1 DEF Ended
  <2>. QED  BY <2>2, <2>6, <2>7, <2>8
<1>4. CASE ~(e.r.last < NL)
  <2>0. m = NL + 1 /\ Known(e, m) = Kn(Start(NL + 1), r, r, k, TRUE)
    <3>1. m = NL + 1
      BY <1>0, <1>4
    <3>. HIDE DEF m
    <3>. QED  BY <1>1, <1>4, <3>1
  <2>. HIDE DEF m
  <2>1. ASSUME NEW f, Results(e) \subseteq f PROVE Ended(e, Kn(f, r, r, k, TRUE))
    <3>1. ~Cut(e)
      BY <1>4 DEF Cut
    <3>. DEFINE K == Kn(f, r, r, k, TRUE)
    <3>2. K.f = f /\ K.cv = r /\ K.sc = r /\ K.ks = k
      BY DEF Kn, Know
    <3>. HIDE DEF K
    <3>3. Ended(e, K)
      BY <1>2, <2>1, <3>1, <3>2 DEF Ended
    <3>. QED  BY <3>3 DEF K
  <2>2. CASE e.r.want = "ids"
    <3>1. Closing(e.r, rows) = HeadAndArgmax(rows)
      BY <1>4, <2>2 DEF Closing
    <3>2. Fine(e, HeadAndArgmax(rows), Known(e, m), Kn(Sampled, r, r, k, TRUE))
      BY <2>0, ArgmaxFine
    <3>3. Results(e) = Sampled
      BY <1>0, <1>4, <2>2 DEF Results, Cut
    <3>. QED  BY <2>1, <3>1, <3>2, <3>3 DEF m
  <2>3. CASE e.r.want = "logits"
    <3>1. Closing(e.r, rows) = <<{D("Head", NL + 1, rows)}>>
      BY <1>4, <2>3 DEF Closing
    <3>2. Fine(e, <<{D("Head", NL + 1, rows)}>>, Known(e, m), Kn(Scored, r, r, k, TRUE))
      BY <2>0, HeadFine
    <3>3. Results(e) = Scored
      BY <1>0, <1>4, <2>3 DEF Results, Cut
    <3>. QED  BY <2>1, <3>1, <3>2, <3>3 DEF m
  <2>4. CASE e.r.want = "none"
    <3>1. Closing(e.r, rows) = <<>>
      BY <1>4, <2>4 DEF Closing
    <3>2. Fine(e, <<>>, Known(e, m), Kn(Start(NL + 1), r, r, k, TRUE))
      BY <2>0, FineNone
    <3>3. Results(e) = {}
      BY <1>0, <1>4, <2>4 DEF Results, Cut
    <3>. QED  BY <2>1, <3>1, <3>2, <3>3 DEF m
  <2>. QED  BY <1>0, <2>2, <2>3, <2>4
<1>. QED  BY <1>3, <1>4

\* The CB of a batch computes what it was asked for and runs its layers.
LEMMA BatchFine ==
  ASSUME NEW e, BatchEnv(e)
  PROVE  \E K : Fine(e, BatchCB(e.r), Begin, K) /\ Ended(e, K)
<1>. DEFINE r == e.r
            n == Cardinality(DOMAIN r.rows)
            rows == 0 .. n - 1
            base == Len(r.rows[0]) - 1
            layer(l) == (IF Layers[l] = "rec" THEN RecLayer(l, rows, cfg.stepGate /\ n = 1)
                         ELSE BatchAttn(l, base, n)) \o BatchMoe(l, n, l = r.last /\ l < NL)
            m == r.last - r.first + 1
            f == [j \in 1 .. m |-> layer(r.first + j - 1)]
            q == [j \in 1 .. m + 1 |-> Known(e, r.first + j - 1)]
            seed == D("Seed", 0, {})
            a == IF r.first = 1 THEN <<{seed}, {D("Emb", 1, rows)}>>
                 ELSE <<{seed, D("HidIn", r.first, rows)}>>
            b == <<{D("Rms", r.first, rows)}>>
            z == Closing(r, rows)
<1>0. /\ n \in Nat \ {0} /\ base \in Nat /\ rows = AllRows(e) /\ Len(r.rows[0]) = base + 1
      /\ r.first \in Nat /\ r.last \in Nat /\ r.first <= r.last /\ RangeOf(e) = r.first .. r.last
  <2>1. PICK n1 \in Nat \ {0}, b1 \in Nat :
             /\ Batched(e) /\ AllRows(e) = 0 .. n1 - 1 /\ Cardinality(AllRows(e)) = n1
             /\ Len(e.r.rows[0]) = b1 + 1
             /\ FirstOf(e) = e.r.first /\ LastOf(e) = e.r.last
             /\ e.r.first \in 1 .. NL /\ e.r.last \in e.r.first .. NL
    BY BatchEnvRows
  <2>2. n = n1 /\ base = b1
    BY <2>1 DEF AllRows
  <2>. HIDE DEF n, base
  <2>. QED  BY <2>1, <2>2, Sizes DEF RangeOf
<1>. HIDE DEF n, base
<1>1. \A l \in RangeOf(e) : Fine(e, layer(l), Known(e, l), Known(e, l + 1))
  <2>1. AllRows(e) = 0 .. n - 1
    BY <1>0
  <2>. QED  BY <1>0, <2>1, BatchLayerFine
<1>. HIDE DEF layer
<1>2. Fine(e, FlattenSeq(f), Known(e, r.first), Known(e, r.last + 1))
  <2>1. m \in Nat /\ \A j \in 1 .. m : r.first + j - 1 \in RangeOf(e) /\ (r.first + j - 1) + 1 = r.first + (j + 1) - 1
    <3>. PICK c, d : c = r.first /\ d = r.last
      OBVIOUS
    <3>1. c \in Nat /\ d \in Nat /\ c <= d /\ RangeOf(e) = c .. d /\ m = d - c + 1
      BY <1>0
    <3>. HIDE DEF m
    <3>2. m \in Nat /\ \A j \in 1 .. m : c + j - 1 \in c .. d /\ (c + j - 1) + 1 = c + (j + 1) - 1
      BY <3>1
    <3>. QED  BY <3>1, <3>2
  <2>2. f = Parts(f, m)
    BY DEF Parts
  <2>3. q[1] = Known(e, r.first) /\ q[m + 1] = Known(e, r.last + 1)
    <3>1. r.first + 1 - 1 = r.first /\ r.first + (m + 1) - 1 = r.last + 1 /\ 1 \in 1 .. m + 1 /\ m + 1 \in 1 .. m + 1
      BY <1>0
    <3>. HIDE DEF m
    <3>. QED  BY <3>1
  <2>4. \A j \in 1 .. m : /\ f[j] = layer(r.first + j - 1) /\ q[j] = Known(e, r.first + j - 1)
                          /\ q[j + 1] = Known(e, r.first + (j + 1) - 1)
    <3>1. m \in Nat
      BY <2>1
    <3>. HIDE DEF m
    <3>. QED  BY <3>1
  <2>. HIDE DEF f, q, m
  <2>5. \A j \in 1 .. m : Fine(e, f[j], q[j], q[j + 1])
    <3>. SUFFICES ASSUME NEW j \in 1 .. m PROVE Fine(e, f[j], q[j], q[j + 1])
      OBVIOUS
    <3>1. Fine(e, layer(r.first + j - 1), Known(e, r.first + j - 1), Known(e, (r.first + j - 1) + 1))
      BY <1>1, <2>1
    <3>2. (r.first + j - 1) + 1 = r.first + (j + 1) - 1
      BY <2>1
    <3>. QED  BY <2>4, <3>1, <3>2
  <2>6. Fine(e, FlattenSeq(Parts(f, m)), q[1], q[m + 1])
    BY <2>1, <2>5, FineFlatten
  <2>. QED  BY <2>2, <2>3, <2>6
<1>3. Fine(e, a \o b, Begin, Known(e, r.first))
  BY <1>0, BatchBegins
<1>4. PICK K : Fine(e, z, Known(e, r.last + 1), K) /\ Ended(e, K)
  BY <1>0, BatchCloses
<1>5. BatchCB(r) = a \o b \o FlattenSeq(f) \o z
  BY Zenon DEF BatchCB, Closing, rows, base, n, layer
<1>. HIDE DEF a, b, f, z
<1>6. Fine(e, (a \o b) \o FlattenSeq(f), Begin, Known(e, r.last + 1))
  BY <1>2, <1>3, FineConcat
<1>7. Fine(e, ((a \o b) \o FlattenSeq(f)) \o z, Begin, K)
  BY <1>4, <1>6, FineConcat
<1>. QED  BY <1>4, <1>5, <1>7

-------------------------------------------------------------------------------
(* The rows of a call.                                                        *)
IsRun(e) == IsBatch(e.r) \/ IsSerial(e.r)
RowIn(e, i) == e.r.rows[i]
FirstRow(e, i) == IF Batched(e) THEN 0 ELSE i
SlotIn(e, i) == IF Batched(e) THEN e.r.slot ELSE i
StripeIn(e, i) == IF Batched(e) THEN e.r.stripe ELSE i
LastRow(e, i) == Batched(e) => i + 1 \notin AllRows(e)

\* Each row has a slot and a position of its own there.
LEMMA RowFacts ==
  ASSUME NEW e, IsRun(e)
  PROVE  /\ AllRows(e) \subseteq Nat /\ AllRows(e) \subseteq Rows /\ Live(e) \subseteq AllRows(e)
         /\ \A i \in AllRows(e) : /\ RowIn(e, i) \in History /\ AtOf(e, i) \in Pos
                                  /\ Len(RowIn(e, i)) = AtOf(e, i) + 1
                                  /\ SlotIn(e, i) \in Slot /\ StripeIn(e, i) \in 0 .. NSlots
         /\ \A i \in Live(e) : FirstRow(e, i) \in Live(e)
         /\ \A i \in Live(e) : FirstRow(e, i) .. i \subseteq Live(e)
         /\ \A i, j \in AllRows(e) : SlotIn(e, i) = SlotIn(e, j) /\ AtOf(e, i) = AtOf(e, j) => i = j
         /\ \A i, j \in AllRows(e) :
              LastRow(e, i) /\ LastRow(e, j) /\ StripeIn(e, i) = StripeIn(e, j) => i = j
         /\ RangeOf(e) \subseteq 1 .. NL
<1>1. CASE IsBatch(e.r)
  <2>1. PICK h, t : BatchOf(e.r, h, t)
    BY <1>1 DEF IsBatch
  <2>. DEFINE n == Len(t)  b == Len(h)
  <2>2. /\ e.r.kind = "batch" /\ DOMAIN e.r.rows = 0 .. n - 1 /\ n \in 1 .. MaxB
        /\ n \in Nat \ {0} /\ b \in Nat
    BY <2>1, BatchRows
  <2>3. \A i \in 0 .. n - 1 : RowIn(e, i) \in History /\ Len(RowIn(e, i)) = b + i + 1
    <3>. SUFFICES ASSUME NEW i \in 0 .. n - 1
                  PROVE  RowIn(e, i) \in History /\ Len(RowIn(e, i)) = b + i + 1
      OBVIOUS
    <3>. PICK c : c = e.r
      OBVIOUS
    <3>1. RowOf(c, i) \in History /\ Len(RowOf(c, i)) = Len(h) + i + 1
      BY <2>1, BatchRow
    <3>. QED  BY <3>1 DEF RowIn, RowOf
  <2>4. /\ b + n <= NCtx /\ e.r.slot \in Slot /\ e.r.stripe \in {e.r.slot, Scratch}
        /\ e.r.first \in 1 .. NL /\ e.r.last \in e.r.first .. NL
    BY <2>1 DEF BatchOf
  <2>. HIDE DEF n, b
  <2>5. /\ AllRows(e) = 0 .. n - 1 /\ Live(e) = 0 .. n - 1 /\ RangeOf(e) = e.r.first .. e.r.last
        /\ \A i : FirstRow(e, i) = 0 /\ SlotIn(e, i) = e.r.slot /\ StripeIn(e, i) = e.r.stripe
        /\ \A i : LastRow(e, i) <=> i + 1 \notin 0 .. n - 1
    BY <2>2 DEF Batched, AllRows, Live, RangeOf, FirstOf, LastOf, FirstRow, SlotIn, StripeIn, LastRow
  <2>6. \A i \in 0 .. n - 1 : AtOf(e, i) = b + i
    BY <2>2, <2>3 DEF AtOf, RowIn
  <2>7. \A i \in 0 .. n - 1 : b + i \in Pos /\ b + i + 1 = (b + i) + 1 /\ i \in Rows
    BY <2>2, <2>4, Sizes DEF Pos, Rows
  <2>8. e.r.slot \in Slot /\ e.r.stripe \in 0 .. NSlots
    BY <2>4, SlotStripe
  <2>9. \A i \in 0 .. n - 1 : i + 1 \notin 0 .. n - 1 => i = n - 1
    BY <2>2
  <2>10. \A i, j \in 0 .. n - 1 : b + i = b + j => i = j
    BY <2>2
  <2>11. 0 \in 0 .. n - 1 /\ \A i \in 0 .. n - 1 : 0 .. i \subseteq 0 .. n - 1
    BY <2>2
  <2>12. 0 .. n - 1 \subseteq Nat /\ e.r.first .. e.r.last \subseteq 1 .. NL
    BY <2>2, <2>4, Sizes
  <2>13. \A i \in AllRows(e) : /\ RowIn(e, i) \in History /\ AtOf(e, i) \in Pos
                               /\ Len(RowIn(e, i)) = AtOf(e, i) + 1
                               /\ SlotIn(e, i) \in Slot /\ StripeIn(e, i) \in 0 .. NSlots
    BY <2>3, <2>5, <2>6, <2>7, <2>8
  <2>14. /\ AllRows(e) \subseteq Nat /\ AllRows(e) \subseteq Rows /\ Live(e) \subseteq AllRows(e)
         /\ \A i \in Live(e) : FirstRow(e, i) \in Live(e) /\ FirstRow(e, i) .. i \subseteq Live(e)
    BY <2>5, <2>7, <2>11, <2>12
  <2>15. \A i, j \in AllRows(e) : SlotIn(e, i) = SlotIn(e, j) /\ AtOf(e, i) = AtOf(e, j) => i = j
    BY <2>5, <2>6, <2>10
  <2>16. \A i, j \in AllRows(e) :
           LastRow(e, i) /\ LastRow(e, j) /\ StripeIn(e, i) = StripeIn(e, j) => i = j
    BY <2>5, <2>9
  <2>. QED  BY <2>5, <2>12, <2>13, <2>14, <2>15, <2>16
<1>2. CASE IsSerial(e.r)
  <2>1. PICK z : SerialOf(e.r, z)
    BY <1>2 DEF IsSerial
  <2>2. /\ e.r.kind = "serial" /\ DOMAIN e.r.rows = 0 .. z - 1 /\ z \in Nat \ {0}
        /\ \A i \in 0 .. z - 1 : RowIn(e, i) \in History
    BY <2>1, SerialRows DEF RowIn
  <2>3. /\ z <= NSlots /\ e.r.asked \subseteq 0 .. z - 1
        /\ \A i \in 0 .. z - 1 : Len(RowIn(e, i)) \in 1 .. NCtx
    BY <2>1, Sizes DEF SerialOf, RowIn
  <2>4. /\ AllRows(e) = 0 .. z - 1 /\ Live(e) \subseteq 0 .. z - 1 /\ RangeOf(e) = 1 .. NL
        /\ \A i : FirstRow(e, i) = i /\ SlotIn(e, i) = i /\ StripeIn(e, i) = i
    BY <2>2, <2>3 DEF Batched, AllRows, Live, RangeOf, FirstOf, LastOf, FirstRow, SlotIn, StripeIn
  <2>5. \A i \in 0 .. z - 1 : AtOf(e, i) \in Pos /\ Len(RowIn(e, i)) = AtOf(e, i) + 1
    BY <2>3, Sizes DEF AtOf, RowIn, Pos
  <2>6. \A i \in 0 .. z - 1 : i \in Slot /\ i \in 0 .. NSlots /\ i \in Rows /\ i \in Nat
    BY <2>2, <2>3, Sizes DEF Slot, Rows
  <2>7. \A i \in 0 .. z - 1 : i .. i = {i}
    BY <2>2
  <2>. QED  BY <2>2, <2>4, <2>5, <2>6, <2>7
<1>. QED  BY <1>1, <1>2 DEF IsRun

\* A row is the history of an earlier one and more.
LEMMA RowPrefix ==
  ASSUME NEW e, IsRun(e), NEW i \in Live(e), NEW p \in 0 .. AtOf(e, i)
  PROVE  /\ p >= AtOf(e, FirstRow(e, i)) =>
              \E j \in Live(e) : /\ SlotIn(e, j) = SlotIn(e, i) /\ AtOf(e, j) = p
                                 /\ RowIn(e, j) = SubSeq(RowIn(e, i), 1, p + 1)
         /\ p < AtOf(e, FirstRow(e, i)) =>
              /\ \A j \in AllRows(e) : SlotIn(e, j) = SlotIn(e, i) => AtOf(e, j) # p
              /\ SubSeq(RowIn(e, i), 1, p + 1) = SubSeq(Front(RowIn(e, FirstRow(e, i))), 1, p + 1)
<1>0. RowIn(e, i) \in Seq(Nat) /\ AtOf(e, i) \in Nat /\ Len(RowIn(e, i)) = AtOf(e, i) + 1 /\ p \in Nat /\ p <= AtOf(e, i)
  <2>1. AtOf(e, i) \in Nat
    BY RowFacts, Sizes DEF Pos
  <2>. QED  BY <2>1, RowFacts DEF History
<1>1. CASE IsBatch(e.r)
  <2>1. PICK h, t : BatchOf(e.r, h, t)
    BY <1>1 DEF IsBatch
  <2>. DEFINE n == Len(t)  b == Len(h)
  <2>2. /\ e.r.kind = "batch" /\ DOMAIN e.r.rows = 0 .. n - 1 /\ n \in Nat \ {0} /\ b \in Nat
    BY <2>1, BatchRows
  <2>3. \A j \in 0 .. n - 1 : /\ RowIn(e, j) \in Seq(Nat) /\ Len(RowIn(e, j)) = b + j + 1
                              /\ \A k \in 1 .. b : RowIn(e, j)[k] = h[k]
                              /\ \A k \in 1 .. j + 1 : RowIn(e, j)[b + k] = t[k]
    <3>. SUFFICES ASSUME NEW j \in 0 .. n - 1
                  PROVE  /\ RowIn(e, j) \in Seq(Nat) /\ Len(RowIn(e, j)) = b + j + 1
                         /\ \A k \in 1 .. b : RowIn(e, j)[k] = h[k]
                         /\ \A k \in 1 .. j + 1 : RowIn(e, j)[b + k] = t[k]
      OBVIOUS
    <3>1. RowIn(e, j) = RowOf(e.r, j)
      BY DEF RowIn, RowOf
    <3>2. /\ RowOf(e.r, j) \in History /\ Len(RowOf(e.r, j)) = Len(h) + j + 1
          /\ \A k \in 1 .. Len(h) : RowOf(e.r, j)[k] = h[k]
          /\ \A k \in 1 .. j + 1 : RowOf(e.r, j)[Len(h) + k] = t[k]
      BY <2>1, BatchRow
    <3>. QED  BY <3>1, <3>2 DEF History
  <2>. HIDE DEF n, b
  <2>4. /\ AllRows(e) = 0 .. n - 1 /\ Live(e) = 0 .. n - 1
        /\ \A j : FirstRow(e, j) = 0 /\ SlotIn(e, j) = e.r.slot
    BY <2>2 DEF Batched, AllRows, Live, FirstRow, SlotIn
  <2>5. \A j \in 0 .. n - 1 : AtOf(e, j) = b + j
    BY <2>2, <2>3 DEF AtOf, RowIn
  <2>6. i \in 0 .. n - 1 /\ AtOf(e, i) = b + i /\ AtOf(e, 0) = b /\ 0 \in 0 .. n - 1 /\ b + 0 = b
    BY <2>2, <2>4, <2>5
  <2>. DEFINE x == RowIn(e, i)  u == SubSeq(x, 1, p + 1)
  <2>7. x \in Seq(Nat) /\ Len(x) = b + i + 1
    BY <2>3, <2>6
  <2>8. u \in Seq(Nat) /\ Len(u) = p + 1 /\ \A k \in 1 .. p + 1 : u[k] = x[k]
    <3>. HIDE DEF x
    <3>1. Len(x) \in Nat /\ p + 1 <= Len(x) /\ p + 1 \in Nat
      BY <1>0, <2>2, <2>6, <2>7
    <3>. QED  BY <2>7, <3>1
  <2>9. ASSUME p >= b PROVE \E j \in Live(e) : /\ SlotIn(e, j) = SlotIn(e, i) /\ AtOf(e, j) = p /\ RowIn(e, j) = u
    <3>. DEFINE j == p - b
    <3>1. j \in 0 .. n - 1 /\ j <= i /\ b + j = p
      BY <1>0, <2>2, <2>6, <2>9
    <3>. DEFINE y == RowIn(e, j)
    <3>2. y \in Seq(Nat) /\ Len(y) = p + 1 /\ AtOf(e, j) = p
      BY <2>3, <2>5, <3>1
    <3>3. \A k \in 1 .. b : y[k] = h[k] /\ x[k] = h[k]
      BY <2>3, <2>6, <3>1
    <3>4. \A k \in 1 .. j + 1 : y[b + k] = t[k]
      BY <2>3, <3>1
    <3>5. \A k \in 1 .. i + 1 : x[b + k] = t[k]
      BY <2>3, <2>6
    <3>. HIDE DEF x, y, u, j
    <3>6. \A k \in 1 .. p + 1 : y[k] = x[k]
      <4>. SUFFICES ASSUME NEW k \in 1 .. p + 1 PROVE y[k] = x[k]
        OBVIOUS
      <4>1. CASE k <= b
        BY <2>2, <3>3, <4>1
      <4>2. CASE ~(k <= b)
        <5>1. k - b \in 1 .. j + 1 /\ k - b \in 1 .. i + 1 /\ b + (k - b) = k
          <6>1. k \in Int /\ k <= p + 1 /\ b \in Int /\ b < k /\ p \in Int
            BY <1>0, <2>2, <4>2
          <6>2. j \in Int /\ i \in Int /\ j <= i /\ b + j = p
            BY <2>6, <3>1
          <6>. QED  BY <6>1, <6>2
        <5>2. y[b + (k - b)] = t[k - b] /\ x[b + (k - b)] = t[k - b]
          BY <3>4, <3>5, <5>1
        <5>. QED  BY <5>1, <5>2
      <4>. QED  BY <4>1, <4>2
    <3>7. y = u
      BY <2>8, <3>2, <3>6, SeqEqual
    <3>. QED  BY <2>4, <3>1, <3>2, <3>7 DEF y
  <2>10. ASSUME p < b
         PROVE  /\ \A j \in AllRows(e) : SlotIn(e, j) = SlotIn(e, i) => AtOf(e, j) # p
                /\ u = SubSeq(Front(RowIn(e, 0)), 1, p + 1)
    <3>1. \A j \in 0 .. n - 1 : b + j # p
      BY <1>0, <2>2, <2>10
    <3>. DEFINE y == RowIn(e, 0)  v == Front(y)  w == SubSeq(v, 1, p + 1)
    <3>2. y \in Seq(Nat) /\ Len(y) = b + 1
      BY <2>2, <2>3, <2>6
    <3>3. v \in Seq(Nat) /\ Len(v) = b /\ \A k \in 1 .. b : v[k] = y[k]
      <4>. HIDE DEF y
      <4>. QED  BY <2>2, <3>2 DEF Front
    <3>. HIDE DEF v
    <3>4. w \in Seq(Nat) /\ Len(w) = p + 1 /\ \A k \in 1 .. p + 1 : w[k] = v[k]
      BY <1>0, <2>2, <2>10, <3>3
    <3>5. \A k \in 1 .. b : y[k] = h[k] /\ x[k] = h[k]
      BY <2>3, <2>6
    <3>. HIDE DEF x, y, u, w
    <3>6. \A k \in 1 .. p + 1 : k \in 1 .. b
      BY <1>0, <2>2, <2>10
    <3>7. \A k \in 1 .. p + 1 : u[k] = w[k]
      BY <2>8, <3>3, <3>4, <3>5, <3>6
    <3>8. u = w
      BY <2>8, <3>4, <3>7, SeqEqual
    <3>. QED  BY <2>4, <2>5, <3>1, <3>8 DEF w, v, y
  <2>. QED  BY <2>4, <2>6, <2>9, <2>10 DEF u, x
<1>2. CASE IsSerial(e.r)
  <2>1. PICK z : SerialOf(e.r, z)
    BY <1>2 DEF IsSerial
  <2>2. /\ e.r.kind = "serial" /\ DOMAIN e.r.rows = 0 .. z - 1
    BY <2>1, SerialRows
  <2>3. AllRows(e) = 0 .. z - 1 /\ \A j : FirstRow(e, j) = j /\ SlotIn(e, j) = j
    BY <2>2 DEF Batched, AllRows, FirstRow, SlotIn
  <2>. DEFINE x == RowIn(e, i)
  <2>4. x = SubSeq(x, 1, Len(x))
    <3>1. x \in Seq(Nat)
      BY <1>0
    <3>. HIDE DEF x
    <3>. DEFINE y == SubSeq(x, 1, Len(x))
    <3>2. y \in Seq(Nat) /\ Len(y) = Len(x) /\ \A k \in 1 .. Len(x) : y[k] = x[k]
      BY <3>1
    <3>. HIDE DEF y
    <3>3. x = y
      BY <3>1, <3>2, SeqEqual
    <3>. QED  BY <3>3 DEF y
  <2>5. ASSUME p >= AtOf(e, i) PROVE p = AtOf(e, i) /\ p + 1 = Len(x)
    BY <1>0, <2>5
  <2>6. ASSUME p < AtOf(e, i)
        PROVE  SubSeq(x, 1, p + 1) = SubSeq(Front(x), 1, p + 1)
    <3>. DEFINE v == Front(x)  w == SubSeq(v, 1, p + 1)  u == SubSeq(x, 1, p + 1)
    <3>1. x \in Seq(Nat) /\ Len(x) = AtOf(e, i) + 1
      BY <1>0
    <3>. HIDE DEF x
    <3>2. v \in Seq(Nat) /\ Len(v) = AtOf(e, i) /\ \A k \in 1 .. AtOf(e, i) : v[k] = x[k]
      BY <1>0, <3>1 DEF Front
    <3>. HIDE DEF v
    <3>3. w \in Seq(Nat) /\ Len(w) = p + 1 /\ \A k \in 1 .. p + 1 : w[k] = v[k]
      BY <1>0, <2>6, <3>2
    <3>4. u \in Seq(Nat) /\ Len(u) = p + 1 /\ \A k \in 1 .. p + 1 : u[k] = x[k]
      BY <1>0, <2>6, <3>1
    <3>. HIDE DEF u, w
    <3>7. \A k \in 1 .. p + 1 : k \in 1 .. AtOf(e, i)
      BY <1>0, <2>6
    <3>5. \A k \in 1 .. p + 1 : u[k] = w[k]
      BY <3>2, <3>3, <3>4, <3>7
    <3>6. u = w
      BY <3>3, <3>4, <3>5, SeqEqual
    <3>. QED  BY <3>6 DEF u, w, v
  <2>. QED  BY <1>0, <2>3, <2>4, <2>5, <2>6 DEF x
<1>. QED  BY <1>1, <1>2 DEF IsRun

-------------------------------------------------------------------------------
(* What is known holds of the machine.                                        *)
Env == [c |-> cfg, r |-> run, g |-> indirect]

MemOK(e, f, m) == \A x \in f : x[1] \in Buffers /\ \A i \in Live(e) : m[x[1]][i] = <<x[2], x[3]>>
TilesOK(e, tl, tr, m) == tl # 0 => \A i \in Live(e) : i < tl => m["Att"][i] = <<"a", tr>>
PartOK(e, pt, pa) ==
  pt # 0 => \A i \in Live(e), p \in Pos : p <= AtOf(e, i) => pa[i][p \div Chunk] = pt
StripesOK(e, done, f, h) ==
  \A l \in 1 .. NL :
    IF l \in done
    THEN /\ \A s \in 0 .. NSlots : (\A i \in AllRows(e) : StripeIn(e, i) # s) => f[l][s] = h[l][s]
         /\ \A i \in Live(e) : LastRow(e, i) => f[l][StripeIn(e, i)] = RowIn(e, i)
    ELSE f[l] = h[l]
KeysOK(e, done, v, h) ==
  \A l \in 1 .. NL :
    IF l \in done
    THEN /\ \A s \in Slot, p \in Pos :
              (\A i \in AllRows(e) : SlotIn(e, i) = s => AtOf(e, i) # p) => v[l][s][p] = h[l][s][p]
         /\ \A i \in Live(e) : v[l][SlotIn(e, i)][AtOf(e, i)] = RowIn(e, i)
    ELSE v[l] = h[l]
SeedOK(e, sd, cr) == sd => \A l \in RangeOf(e) : Layers[l] = "rec" => cr[l] = Front(RowIn(e, 0))
HidOK(e, ho, v, h) ==
  IF ho THEN /\ \A i \in AllRows(e) : v[AtOf(e, i)] = <<"x", e.r.last + 1>>
             /\ \A p \in Pos : (\A i \in AllRows(e) : AtOf(e, i) # p) => v[p] = h[p]
  ELSE v = h

\* H is the state when the call began: what its rows continue.
Ready(e, H) ==
  /\ \A l \in RangeOf(e) : Layers[l] = "rec" => \A i \in Live(e) :
       /\ H.scan[l][StripeIn(e, i)] = Front(RowIn(e, FirstRow(e, i)))
       /\ H.conv[l][SlotIn(e, i)] = Front(RowIn(e, FirstRow(e, i)))
  /\ \A l \in RangeOf(e) : Layers[l] = "attn" => \A i \in Live(e), p \in Pos :
       p < AtOf(e, FirstRow(e, i)) =>
         H.kv[l][SlotIn(e, i)][p] = SubSeq(Front(RowIn(e, FirstRow(e, i))), 1, p + 1)
  /\ Batched(e) /\ e.r.first # 1 => \A i \in AllRows(e) : H.hid[AtOf(e, i)] = <<"x", e.r.first>>

Models(e, K, H) ==
  /\ MemOK(e, K.f, mem) /\ TilesOK(e, K.tl, K.tr, mem) /\ PartOK(e, K.pt, part)
  /\ StripesOK(e, K.cv, conv, H.conv) /\ StripesOK(e, K.sc, scan, H.scan) /\ KeysOK(e, K.ks, kv, H.kv)
  /\ SeedOK(e, K.sd, carry) /\ HidOK(e, K.ho, hid, H.hid)

\* The rows and flags of what runs.
LEMMA EnvIs ==
  ASSUME IsRun(Env)
  PROVE  /\ Env.r = run /\ Env.c = cfg /\ Env.g = indirect
         /\ AllRows(Env) = DOMAIN R /\ (Serial <=> ~Batched(Env))
         /\ \A i : /\ RowIn(Env, i) = R[i] /\ At(i) = AtOf(Env, i) /\ First(i) = FirstRow(Env, i)
                   /\ SlotOf(i) = SlotIn(Env, i) /\ Stripe(i) = StripeIn(Env, i)
<1>1. Env.r = run /\ Env.c = cfg /\ Env.g = indirect
  BY DEF Env
<1>2. run.kind \in {"batch", "serial"}
  BY <1>1, RunRows DEF IsRun
<1>. QED  BY <1>1, <1>2 DEF AllRows, Batched, Serial, RowIn, R, At, AtOf, First, FirstRow, SlotOf, SlotIn, Stripe, StripeIn

\* A dispatch whose inputs are known reads them.
LEMMA FromWants ==
  ASSUME NEW d, NEW f, Wants(d.k, d.l) \subseteq f, MemOK(Env, f, mem), NEW i \in Live(Env)
  PROVE  Inputs(d, i)
<1>. SUFFICES ASSUME NEW b \in DOMAIN Kernel[d.k].ins PROVE mem[b][i] = <<Kernel[d.k].ins[b], d.l>>
  BY DEF Inputs
<1>. DEFINE x == <<b, Kernel[d.k].ins[b], d.l>>
<1>1. x \in Wants(d.k, d.l)
  BY DEF Wants, InsOf
<1>2. x[1] = b /\ x[2] = Kernel[d.k].ins[b] /\ x[3] = d.l
  OBVIOUS
<1>. HIDE DEF x
<1>3. mem[x[1]][i] = <<x[2], x[3]>>
  BY <1>1 DEF MemOK
<1>. QED  BY <1>2, <1>3

\* Kernels ks of layer l run on every row, each from what it should.
RunsAll(ks, l) ==
  /\ ks \subseteq DOMAIN Kernel
  /\ Ran = {D(k, l, AllRows(Env)) : k \in ks}
  /\ \A j, k \in ks : j # k => OutsOf(j) \cap OutsOf(k) = {}
  /\ \A k \in ks, i \in Live(Env) : Good(D(k, l, AllRows(Env)), i)

\* The buffers after them.
LEMMA MemWritten ==
  ASSUME IsRun(Env), NEW ks, NEW l, RunsAll(ks, l)
  PROVE  \A b \in Buffers :
           /\ (\A k \in ks : b \notin OutsOf(k)) => NewMem[b] = mem[b]
           /\ \A k \in ks : b \in OutsOf(k) =>
                \A i \in Live(Env) : NewMem[b][i] = <<Kernel[k].outs[b], l + Kernel[k].next>>
<1>. SUFFICES ASSUME NEW b \in Buffers
              PROVE  /\ (\A k \in ks : b \notin OutsOf(k)) => NewMem[b] = mem[b]
                     /\ \A k \in ks : b \in OutsOf(k) =>
                          \A i \in Live(Env) : NewMem[b][i] = <<Kernel[k].outs[b], l + Kernel[k].next>>
  OBVIOUS
<1>0. /\ ks \subseteq DOMAIN Kernel
      /\ Ran = {D(k, l, AllRows(Env)) : k \in ks}
      /\ \A j, k \in ks : j # k => OutsOf(j) \cap OutsOf(k) = {}
      /\ \A k \in ks, i \in Live(Env) : Good(D(k, l, AllRows(Env)), i)
  BY DEF RunsAll
<1>. DEFINE W == {d \in Ran : b \in DOMAIN Kernel[d.k].outs}
            d0 == CHOOSE d \in W : TRUE
            rows == AllRows(Env)
<1>1. NewMem[b] = IF W = {} THEN mem[b]
                  ELSE [i \in Rows |-> IF i \notin d0.rows THEN mem[b][i]
                         ELSE IF Good(d0, i)
                              THEN <<Kernel[d0.k].outs[b], d0.l + Kernel[d0.k].next>> ELSE Stale]
  BY DEF NewMem
<1>2. \A k : D(k, l, rows).k = k /\ D(k, l, rows).l = l /\ D(k, l, rows).rows = rows
  BY DEF D
<1>3. ASSUME \A k \in ks : b \notin OutsOf(k) PROVE W = {}
  BY <1>0, <1>2, <1>3 DEF OutsOf
<1>4. ASSUME NEW k \in ks, b \in OutsOf(k) PROVE W # {} /\ d0 = D(k, l, rows)
  <2>1. D(k, l, rows) \in W
    BY <1>0, <1>2, <1>4 DEF OutsOf
  <2>2. ASSUME NEW d \in W PROVE d = D(k, l, rows)
    <3>1. PICK j \in ks : d = D(j, l, rows)
      BY <1>0, <2>2
    <3>2. b \in OutsOf(j)
      BY <1>2, <2>2, <3>1 DEF OutsOf
    <3>3. j = k
      BY <1>0, <1>4, <3>2
    <3>. QED  BY <3>1, <3>3
  <2>. HIDE DEF W
  <2>. QED  BY <2>1, <2>2
<1>5. \A i \in Live(Env) : i \in rows /\ i \in Rows
  BY RowFacts
<1>. HIDE DEF W, d0, rows
<1>6. ASSUME NEW k \in ks, b \in OutsOf(k), NEW i \in Live(Env)
      PROVE  NewMem[b][i] = <<Kernel[k].outs[b], l + Kernel[k].next>>
  <2>1. W # {} /\ d0 = D(k, l, rows)
    BY <1>4, <1>6
  <2>2. Good(d0, i) /\ d0.k = k /\ d0.l = l /\ d0.rows = rows
    BY <1>0, <1>2, <2>1 DEF rows
  <2>3. NewMem[b] = [x \in Rows |-> IF x \notin d0.rows THEN mem[b][x]
                         ELSE IF Good(d0, x)
                              THEN <<Kernel[d0.k].outs[b], d0.l + Kernel[d0.k].next>> ELSE Stale]
    BY <1>1, <2>1
  <2>. QED  BY <1>5, <2>2, <2>3
<1>. QED  BY <1>1, <1>3, <1>6

\* So the facts after them hold.
LEMMA MemAfter ==
  ASSUME IsRun(Env), NEW ks, NEW l, RunsAll(ks, l),
         NEW f, NEW g, MemOK(Env, f, mem), After(ks, l, f, g)
  PROVE  MemOK(Env, g, NewMem)
<1>. SUFFICES ASSUME NEW x \in g
              PROVE  x[1] \in Buffers /\ \A i \in Live(Env) : NewMem[x[1]][i] = <<x[2], x[3]>>
  BY DEF MemOK
<1>0. \A b \in Buffers :
        /\ (\A k \in ks : b \notin OutsOf(k)) => NewMem[b] = mem[b]
        /\ \A k \in ks : b \in OutsOf(k) =>
             \A i \in Live(Env) : NewMem[b][i] = <<Kernel[k].outs[b], l + Kernel[k].next>>
  BY MemWritten
<1>1. CASE x \in f /\ \A k \in ks : x[1] \notin OutsOf(k)
  <2>1. x[1] \in Buffers /\ \A i \in Live(Env) : mem[x[1]][i] = <<x[2], x[3]>>
    BY <1>1 DEF MemOK
  <2>2. NewMem[x[1]] = mem[x[1]]
    BY <1>0, <1>1, <2>1
  <2>. QED  BY <2>1, <2>2
<1>2. CASE ~(x \in f /\ \A k \in ks : x[1] \notin OutsOf(k))
  <2>1. PICK k \in ks : x \in Gives(k, l)
    BY <1>2 DEF After
  <2>2. PICK b \in OutsOf(k) : x = <<b, Kernel[k].outs[b], l + Kernel[k].next>>
    BY <2>1 DEF Gives
  <2>3. b \in Buffers
    BY <2>2 DEF Buffers, OutsOf, RunsAll
  <2>4. \A i \in Live(Env) : NewMem[b][i] = <<Kernel[k].outs[b], l + Kernel[k].next>>
    BY <1>0, <2>2, <2>3
  <2>5. x[1] = b /\ x[2] = Kernel[k].outs[b] /\ x[3] = l + Kernel[k].next
    BY <2>2
  <2>. QED  BY <2>3, <2>4, <2>5
<1>. QED  BY <1>1, <1>2

\* What an epoch leaves alone.
LEMMA Quiet ==
  ASSUME Epoch
  PROVE  /\ mem' = NewMem /\ Env' = Env
         /\ (\A d \in Ran : d.k # "Conv") => conv' = conv
         /\ (\A d \in Ran : d.k \notin {"Step", "StepGate"}) => scan' = scan
         /\ (\A d \in Ran : d.k # "Prep") => kv' = kv
         /\ (\A d \in Ran : d.k # "AttnS") => part' = part
         /\ (\A d \in Ran : d.k # "Seed") => carry' = carry
         /\ (\A d \in Ran : d.k # "HidOut") => hid' = hid
<1>1. mem' = NewMem /\ Env' = Env
  BY DEF Epoch, Env
<1>2. (\A d \in Ran : d.k # "Conv") => RanOf({"Conv"}) = {}
  BY DEF RanOf
<1>3. (\A d \in Ran : d.k \notin {"Step", "StepGate"}) => RanOf({"Step", "StepGate"}) = {}
  BY DEF RanOf
<1>4. (\A d \in Ran : d.k # "Prep") => RanOf({"Prep"}) = {}
  BY DEF RanOf
<1>5. (\A d \in Ran : d.k # "AttnS") => RanOf({"AttnS"}) = {}
  BY DEF RanOf
<1>6. (\A d \in Ran : d.k # "Seed") => RanOf({"Seed"}) = {}
  BY DEF RanOf
<1>7. (\A d \in Ran : d.k # "HidOut") => RanOf({"HidOut"}) = {}
  BY DEF RanOf
<1>8. /\ conv' = NewStripes(conv, {"Conv"}) /\ scan' = NewStripes(scan, {"Step", "StepGate"})
      /\ kv' = NewKeys /\ part' = NewPart
      /\ RanOf({"Seed"}) = {} => carry' = carry
      /\ RanOf({"HidOut"}) = {} => hid' = hid
  BY DEF Epoch
<1>. QED  BY <1>1, <1>2, <1>3, <1>4, <1>5, <1>6, <1>7, <1>8 DEF NewStripes, NewKeys, NewPart

\* The dispatches of an epoch without indirect ones are what runs.
LEMMA RanIs ==
  ASSUME \A d \in Head(cb) : d.k # "Indirect"
  PROVE  Ran = Head(cb)
BY DEF Ran, Resolve

\* An epoch that stores no state and computes facts: what else is known stays.
LEMMA SameHolds ==
  ASSUME NEW e, NEW K, NEW L, NEW H, Same(K, L), Models(e, K, H), MemOK(e, L.f, mem'),
         conv' = conv, scan' = scan, kv' = kv, part' = part, carry' = carry, hid' = hid
  PROVE  /\ MemOK(e, L.f, mem') /\ TilesOK(e, L.tl, L.tr, mem') /\ PartOK(e, L.pt, part')
         /\ StripesOK(e, L.cv, conv', H.conv) /\ StripesOK(e, L.sc, scan', H.scan)
         /\ KeysOK(e, L.ks, kv', H.kv) /\ SeedOK(e, L.sd, carry') /\ HidOK(e, L.ho, hid', H.hid)
<1>1. /\ L.tl = 0 /\ L.cv = K.cv /\ L.sc = K.sc /\ L.ks = K.ks /\ L.sd = K.sd /\ L.ho = K.ho
      /\ L.pt \in {K.pt, 0}
  BY DEF Same, SameBut, Adds
<1>2. /\ PartOK(e, K.pt, part) /\ StripesOK(e, K.cv, conv, H.conv) /\ StripesOK(e, K.sc, scan, H.scan)
      /\ KeysOK(e, K.ks, kv, H.kv) /\ SeedOK(e, K.sd, carry) /\ HidOK(e, K.ho, hid, H.hid)
  BY DEF Models
<1>3. TilesOK(e, L.tl, L.tr, mem')
  BY <1>1 DEF TilesOK
<1>4. PartOK(e, L.pt, part)
  BY <1>1, <1>2 DEF PartOK
<1>. QED  BY <1>1, <1>2, <1>3, <1>4

\* Kernels that touch no state.
LEMMA PureHolds ==
  ASSUME IsRun(Env), Epoch, NEW K, NEW L, NEW H, Models(Env, K, H), PureRule(Env, Head(cb), K, L)
  PROVE  Models(Env, L, H)'
<1>1. PICK ks \in SUBSET PureNames, l \in Nat :
        /\ Head(cb) = {D(k, l, AllRows(Env)) : k \in ks}
        /\ \A j, k \in ks : j # k => OutsOf(j) \cap OutsOf(k) = {}
        /\ \A k \in ks : Wants(k, l) \subseteq K.f
        /\ After(ks, l, K.f, L.f) /\ Same(K, L)
  BY DEF PureRule
<1>. DEFINE ep == {D(k, l, AllRows(Env)) : k \in ks}
<1>2. \A k \in ks : k \in DOMAIN Kernel /\ k \notin Special /\ k # "Indirect"
  BY KernelFound DEF PureNames, Names, MixerNames, MoeNames, TailNames
<1>3. \A d \in ep : d.k \in ks
  BY DEF D
<1>. HIDE DEF ep
<1>4. Ran = ep
  BY <1>1, <1>2, <1>3, RanIs DEF ep
<1>5. ASSUME NEW k \in ks, NEW i \in Live(Env) PROVE Good(D(k, l, AllRows(Env)), i)
  <2>. DEFINE d == D(k, l, AllRows(Env))
  <2>1. d.k = k /\ d.l = l
    BY DEF D
  <2>. HIDE DEF d
  <2>2. Wants(d.k, d.l) \subseteq K.f /\ MemOK(Env, K.f, mem)
    BY <1>1, <2>1 DEF Models
  <2>3. Inputs(d, i)
    BY <2>2, FromWants
  <2>4. Good(d, i)
    BY <1>2, <2>1, <2>3 DEF Good, Special
  <2>. QED  BY <2>4 DEF d
<1>6. RunsAll(ks, l)
  BY <1>1, <1>2, <1>4, <1>5 DEF RunsAll, ep
<1>7. MemOK(Env, L.f, NewMem)
  BY <1>1, <1>6, MemAfter DEF Models
<1>8. \A d \in Ran : d.k \notin {"Conv", "Step", "StepGate", "Prep", "AttnS", "Seed", "HidOut"}
  BY <1>2, <1>3, <1>4 DEF Special
<1>9. /\ Env' = Env /\ mem' = NewMem /\ conv' = conv /\ scan' = scan /\ kv' = kv /\ part' = part
      /\ carry' = carry /\ hid' = hid
  BY <1>8, Quiet
<1>. QED  BY <1>1, <1>7, <1>9, SameHolds DEF Models

\* A kernel of layer l on every row.
LEMMA OneRuns ==
  ASSUME IsRun(Env), NEW k \in DOMAIN Kernel, NEW l, Head(cb) = {D(k, l, AllRows(Env))}, k # "Indirect",
         \A i \in Live(Env) : Good(D(k, l, AllRows(Env)), i)
  PROVE  RunsAll({k}, l) /\ Ran = {D(k, l, AllRows(Env))}
<1>. DEFINE d == D(k, l, AllRows(Env))
<1>1. d.k = k
  BY DEF D
<1>2. {D(j, l, AllRows(Env)) : j \in {k}} = {d}
  OBVIOUS
<1>. HIDE DEF d
<1>3. Ran = {d}
  BY <1>1, RanIs DEF d
<1>. QED  BY <1>2, <1>3 DEF RunsAll, d

\* What is kept in the stripes a dispatch stores into.
LEMMA StripesAfter ==
  ASSUME IsRun(Env), NEW d, NEW f \in [1 .. NL -> [0 .. NSlots -> History]], NEW ks, RanOf(ks) = {d},
         d.l \in 1 .. NL, \A i \in Live(Env) : Good(d, i),
         NEW done, NEW h, StripesOK(Env, done, f, h), d.l \notin done
  PROVE  StripesOK(Env, done \cup {d.l}, NewStripes(f, ks), h)
<1>. DEFINE g == NewStripes(f, ks)  l == d.l
<1>1. g = [f EXCEPT ![l] = [s \in 0 .. NSlots |-> Stored(d, LastInto(s), f[l][s])]]
  <2>1. RanOf(ks) # {} /\ (CHOOSE x \in RanOf(ks) : TRUE) = d
    OBVIOUS
  <2>. QED  BY <2>1 DEF NewStripes
<1>. HIDE DEF g
<1>2. \A s : LastInto(s) = {i \in AllRows(Env) : LastRow(Env, i) /\ StripeIn(Env, i) = s}
  BY EnvIs DEF LastInto, LastRow
<1>3. /\ \A m \in 1 .. NL : m # l => g[m] = f[m]
      /\ \A s \in 0 .. NSlots : g[l][s] = Stored(d, LastInto(s), f[l][s])
  <2>. HIDE DEF l
  <2>1. l \in 1 .. NL
    BY DEF l
  <2>. QED  BY <1>1, <2>1
<1>4. ASSUME NEW s \in 0 .. NSlots, \A i \in AllRows(Env) : StripeIn(Env, i) # s
      PROVE  g[l][s] = h[l][s]
  <2>1. LastInto(s) = {}
    BY <1>2, <1>4
  <2>2. f[l] = h[l]
    BY DEF StripesOK
  <2>. QED  BY <1>3, <2>1, <2>2 DEF Stored
<1>5. ASSUME NEW i \in Live(Env), LastRow(Env, i)
      PROVE  g[l][StripeIn(Env, i)] = RowIn(Env, i)
  <2>1. i \in AllRows(Env) /\ StripeIn(Env, i) \in 0 .. NSlots
    BY RowFacts DEF Env
  <2>. DEFINE rs == LastInto(StripeIn(Env, i))
  <2>2. i \in rs
    BY <1>2, <1>5, <2>1
  <2>3. \A j \in rs : j = i
    BY <1>2, <1>5, <2>1, RowFacts
  <2>. HIDE DEF rs
  <2>4. rs # {} /\ (CHOOSE j \in rs : TRUE) = i
    BY <2>2, <2>3
  <2>5. Stored(d, rs, f[l][StripeIn(Env, i)]) = R[i]
    BY <2>4 DEF Stored
  <2>. QED  BY <1>3, <2>1, <2>5, EnvIs DEF rs
<1>. HIDE DEF l
<1>6. ASSUME NEW m \in 1 .. NL
      PROVE  IF m \in done \cup {l}
             THEN /\ \A s \in 0 .. NSlots : (\A i \in AllRows(Env) : StripeIn(Env, i) # s) => g[m][s] = h[m][s]
                  /\ \A i \in Live(Env) : LastRow(Env, i) => g[m][StripeIn(Env, i)] = RowIn(Env, i)
             ELSE g[m] = h[m]
  <2>1. CASE m = l
    BY <1>4, <1>5, <2>1
  <2>2. CASE m # l
    <3>1. g[m] = f[m]
      BY <1>3, <2>2
    <3>2. m \in done \cup {l} <=> m \in done
      BY <2>2
    <3>. QED  BY <3>1, <3>2 DEF StripesOK
  <2>. QED  BY <2>1, <2>2
<1>7. StripesOK(Env, done \cup {l}, g, h)
  BY <1>6 DEF StripesOK
<1>. QED  BY <1>7 DEF g, l

\* A recurrence that starts from the history before its rows takes each of them.
LEMMA FoldedRows ==
  ASSUME IsRun(Env), NEW before, NEW d, NEW f, Wants(d.k, d.l) \subseteq f, MemOK(Env, f, mem),
         NEW i \in Live(Env), before = Front(RowIn(Env, FirstRow(Env, i)))
  PROVE  Folded(before, d, i)
<1>1. First(i) = FirstRow(Env, i) /\ R[First(i)] = RowIn(Env, FirstRow(Env, i))
  BY EnvIs
<1>2. \A j \in First(i) .. i : j \in Live(Env)
  BY <1>1, RowFacts
<1>3. \A j \in First(i) .. i : Inputs(d, j)
  BY <1>2, FromWants
<1>. QED  BY <1>1, <1>3 DEF Folded

\* An epoch of one dispatch runs that kernel and no other.
LEMMA RanOne ==
  ASSUME NEW d, Ran = {d}, NEW ks, d.k \in ks PROVE RanOf(ks) = {d}
BY DEF RanOf

\* The convolution of a layer.
LEMMA ConvHolds ==
  ASSUME IsRun(Env), StateType, Epoch, NEW K, NEW L, NEW H, Models(Env, K, H), Ready(Env, H),
         ConvRule(Env, Head(cb), K, L)
  PROVE  Models(Env, L, H)'
<1>1. PICK l \in RangeOf(Env) :
        /\ Head(cb) = {D("Conv", l, AllRows(Env))} /\ Layers[l] = "rec"
        /\ l \notin K.cv /\ (Batched(Env) => K.sd)
        /\ Wants("Conv", l) \subseteq K.f /\ After({"Conv"}, l, K.f, L.f)
        /\ Same(Adds(K, {l}, {}, {}, FALSE, FALSE), L)
  BY DEF ConvRule
<1>. DEFINE d == D("Conv", l, AllRows(Env))
<1>2. d.k = "Conv" /\ d.l = l /\ l \in 1 .. NL /\ "Conv" \in DOMAIN Kernel /\ "Conv" # "Indirect"
  BY RowFacts, KernelFound DEF D, Names, MixerNames
<1>. HIDE DEF d
<1>3. ASSUME NEW i \in Live(Env) PROVE Good(d, i)
  <2>1. i \in AllRows(Env)
    BY RowFacts
  <2>. DEFINE before == IF Serial THEN conv[l][i] ELSE carry[l]
  <2>2. before = Front(RowIn(Env, FirstRow(Env, i)))
    <3>1. CASE Serial
      <4>1. ~Batched(Env) /\ SlotIn(Env, i) = i
        BY <3>1, EnvIs DEF SlotIn
      <4>2. conv[l] = H.conv[l]
        BY <1>1, <1>2 DEF Models, StripesOK
      <4>. QED  BY <1>1, <3>1, <4>1, <4>2 DEF Ready
    <3>2. CASE ~Serial
      <4>1. Batched(Env) /\ FirstRow(Env, i) = 0
        BY <3>2, EnvIs DEF FirstRow
      <4>. QED  BY <1>1, <3>2, <4>1 DEF Models, SeedOK
    <3>. QED  BY <3>1, <3>2
  <2>. HIDE DEF before
  <2>3. Folded(before, d, i)
    BY <1>1, <1>2, <2>2, FoldedRows DEF Models
  <2>. QED  BY <1>2, <2>3 DEF Good, before
<1>4. Ran = {d} /\ RunsAll({"Conv"}, l)
  BY <1>1, <1>2, <1>3, OneRuns DEF d
<1>5. MemOK(Env, L.f, NewMem)
  BY <1>1, <1>4, MemAfter DEF Models
<1>6. /\ Env' = Env /\ mem' = NewMem /\ scan' = scan /\ kv' = kv /\ part' = part /\ carry' = carry
      /\ hid' = hid /\ conv' = NewStripes(conv, {"Conv"})
  BY <1>2, <1>4, Quiet DEF Epoch
<1>7. StripesOK(Env, K.cv \cup {l}, conv', H.conv)
  <2>1. RanOf({"Conv"}) = {d}
    BY <1>2, <1>4, RanOne
  <2>2. conv \in [1 .. NL -> [0 .. NSlots -> History]]
    BY DEF StateType
  <2>. QED  BY <1>1, <1>2, <1>3, <1>6, <2>1, <2>2, StripesAfter DEF Models
<1>8. L.tl = 0 /\ L.cv = K.cv \cup {l} /\ L.sc = K.sc /\ L.ks = K.ks /\ L.sd = K.sd /\ L.ho = K.ho /\ L.pt \in {K.pt, 0}
  BY <1>1 DEF Same, SameBut, Adds, Know
<1>9. TilesOK(Env, L.tl, L.tr, mem') /\ PartOK(Env, L.pt, part)
  BY <1>8 DEF TilesOK, PartOK, Models
<1>. QED  BY <1>5, <1>6, <1>7, <1>8, <1>9 DEF Models

\* The recurrence of a layer.
LEMMA StepHolds ==
  ASSUME IsRun(Env), StateType, Epoch, NEW K, NEW L, NEW H, Models(Env, K, H), Ready(Env, H),
         StepRule(Env, Head(cb), K, L)
  PROVE  Models(Env, L, H)'
<1>1. PICK l \in RangeOf(Env), k \in {"Step", "StepGate"} :
        /\ Head(cb) = {D(k, l, AllRows(Env))} /\ Layers[l] = "rec"
        /\ l \notin K.sc
        /\ Wants(k, l) \subseteq K.f /\ After({k}, l, K.f, L.f)
        /\ Same(Adds(K, {}, {l}, {}, FALSE, FALSE), L)
  BY DEF StepRule
<1>. DEFINE d == D(k, l, AllRows(Env))
<1>2. d.k = k /\ d.l = l /\ l \in 1 .. NL /\ k \in DOMAIN Kernel /\ k # "Indirect"
  BY RowFacts, KernelFound DEF D, Names, MixerNames
<1>. HIDE DEF d
<1>3. ASSUME NEW i \in Live(Env) PROVE Good(d, i)
  <2>1. scan[l] = H.scan[l]
    BY <1>1, <1>2 DEF Models, StripesOK
  <2>2. scan[l][Stripe(i)] = Front(RowIn(Env, FirstRow(Env, i)))
    BY <1>1, <2>1, EnvIs DEF Ready
  <2>3. Folded(scan[l][Stripe(i)], d, i)
    BY <1>1, <1>2, <2>2, FoldedRows DEF Models
  <2>. QED  BY <1>2, <2>3 DEF Good
<1>4. Ran = {d} /\ RunsAll({k}, l)
  BY <1>1, <1>2, <1>3, OneRuns DEF d
<1>5. MemOK(Env, L.f, NewMem)
  BY <1>1, <1>4, MemAfter DEF Models
<1>6. /\ Env' = Env /\ mem' = NewMem /\ conv' = conv /\ kv' = kv /\ part' = part /\ carry' = carry
      /\ hid' = hid /\ scan' = NewStripes(scan, {"Step", "StepGate"})
  BY <1>2, <1>4, Quiet DEF Epoch
<1>7. StripesOK(Env, K.sc \cup {l}, scan', H.scan)
  <2>1. RanOf({"Step", "StepGate"}) = {d}
    BY <1>2, <1>4, RanOne
  <2>2. scan \in [1 .. NL -> [0 .. NSlots -> History]]
    BY DEF StateType
  <2>. QED  BY <1>1, <1>2, <1>3, <1>6, <2>1, <2>2, StripesAfter DEF Models
<1>8. L.tl = 0 /\ L.cv = K.cv /\ L.sc = K.sc \cup {l} /\ L.ks = K.ks /\ L.sd = K.sd /\ L.ho = K.ho /\ L.pt \in {K.pt, 0}
  BY <1>1 DEF Same, SameBut, Adds, Know
<1>9. TilesOK(Env, L.tl, L.tr, mem') /\ PartOK(Env, L.pt, part)
  BY <1>8 DEF TilesOK, PartOK, Models
<1>. QED  BY <1>5, <1>6, <1>7, <1>8, <1>9 DEF Models

\* The keys of a layer.
LEMMA PrepHolds ==
  ASSUME IsRun(Env), StateType, Epoch, NEW K, NEW L, NEW H, Models(Env, K, H),
         PrepRule(Env, Head(cb), K, L)
  PROVE  Models(Env, L, H)'
<1>1. PICK l \in RangeOf(Env) :
        /\ Head(cb) = {D("Prep", l, AllRows(Env))} /\ Layers[l] = "attn"
        /\ l \notin K.ks
        /\ Wants("Prep", l) \subseteq K.f /\ After({"Prep"}, l, K.f, L.f)
        /\ Same(Adds(K, {}, {}, {l}, FALSE, FALSE), L)
  BY DEF PrepRule
<1>. DEFINE d == D("Prep", l, AllRows(Env))
<1>2. d.k = "Prep" /\ d.l = l /\ l \in 1 .. NL /\ "Prep" \in DOMAIN Kernel /\ "Prep" # "Indirect"
  BY RowFacts, KernelFound DEF D, Names, MixerNames
<1>. HIDE DEF d
<1>3. ASSUME NEW i \in Live(Env) PROVE Good(d, i)
  <2>1. Inputs(d, i)
    BY <1>1, <1>2, FromWants DEF Models
  <2>. QED  BY <1>2, <2>1 DEF Good
<1>4. Ran = {d} /\ RunsAll({"Prep"}, l)
  BY <1>1, <1>2, <1>3, OneRuns DEF d
<1>5. MemOK(Env, L.f, NewMem)
  BY <1>1, <1>4, MemAfter DEF Models
<1>6. /\ Env' = Env /\ mem' = NewMem /\ conv' = conv /\ scan' = scan /\ part' = part /\ carry' = carry
      /\ hid' = hid /\ kv' = NewKeys
  BY <1>2, <1>4, Quiet DEF Epoch
<1>7. NewKeys = [kv EXCEPT ![l] = [s \in Slot |-> [p \in Pos |-> Stored(d, RowsAt(s, p), kv[l][s][p])]]]
  <2>1. RanOf({"Prep"}) = {d}
    BY <1>2, <1>4, RanOne
  <2>2. RanOf({"Prep"}) # {} /\ (CHOOSE x \in RanOf({"Prep"}) : TRUE) = d
    BY <2>1
  <2>. QED  BY <1>2, <2>2 DEF NewKeys
<1>. DEFINE g == NewKeys
<1>8. /\ \A m \in 1 .. NL : m # l => g[m] = kv[m]
      /\ \A s \in Slot, p \in Pos : g[l][s][p] = Stored(d, RowsAt(s, p), kv[l][s][p])
  <2>1. DOMAIN kv = 1 .. NL
    BY DEF StateType
  <2>. QED  BY <1>2, <1>7, <2>1
<1>. HIDE DEF g
<1>9. \A s, p : RowsAt(s, p) = {i \in AllRows(Env) : SlotIn(Env, i) = s /\ AtOf(Env, i) = p}
  BY EnvIs DEF RowsAt
<1>10. kv[l] = H.kv[l]
  BY <1>1, <1>2 DEF Models, KeysOK
<1>11. ASSUME NEW s \in Slot, NEW p \in Pos, \A i \in AllRows(Env) : SlotIn(Env, i) = s => AtOf(Env, i) # p
       PROVE  g[l][s][p] = H.kv[l][s][p]
  <2>1. RowsAt(s, p) = {}
    BY <1>9, <1>11
  <2>. QED  BY <1>8, <1>10, <2>1 DEF Stored
<1>12. ASSUME NEW i \in Live(Env)
       PROVE  g[l][SlotIn(Env, i)][AtOf(Env, i)] = RowIn(Env, i)
  <2>. DEFINE s == SlotIn(Env, i)  p == AtOf(Env, i)  rs == RowsAt(s, p)
  <2>1. i \in AllRows(Env) /\ s \in Slot /\ p \in Pos
    BY RowFacts
  <2>2. i \in rs
    BY <1>9, <2>1
  <2>3. \A j \in rs : j = i
    BY <1>9, <2>1, RowFacts
  <2>. HIDE DEF rs
  <2>4. rs # {} /\ (CHOOSE j \in rs : TRUE) = i
    BY <2>2, <2>3
  <2>5. Stored(d, rs, kv[l][s][p]) = R[i]
    BY <1>3, <2>4 DEF Stored
  <2>. QED  BY <1>8, <2>1, <2>5, EnvIs DEF rs
<1>13. KeysOK(Env, K.ks \cup {l}, g, H.kv)
  <2>. SUFFICES ASSUME NEW m \in 1 .. NL
                PROVE  IF m \in K.ks \cup {l}
                       THEN /\ \A s \in Slot, p \in Pos :
                                 (\A i \in AllRows(Env) : SlotIn(Env, i) = s => AtOf(Env, i) # p) => g[m][s][p] = H.kv[m][s][p]
                            /\ \A i \in Live(Env) : g[m][SlotIn(Env, i)][AtOf(Env, i)] = RowIn(Env, i)
                       ELSE g[m] = H.kv[m]
    BY DEF KeysOK
  <2>1. CASE m = l
    BY <1>11, <1>12, <2>1
  <2>2. CASE m # l
    <3>1. g[m] = kv[m]
      BY <1>8, <2>2
    <3>2. m \in K.ks \cup {l} <=> m \in K.ks
      BY <2>2
    <3>. QED  BY <3>1, <3>2 DEF Models, KeysOK
  <2>. QED  BY <2>1, <2>2
<1>14. L.tl = 0 /\ L.cv = K.cv /\ L.sc = K.sc /\ L.ks = K.ks \cup {l} /\ L.sd = K.sd /\ L.ho = K.ho /\ L.pt \in {K.pt, 0}
  BY <1>1 DEF Same, SameBut, Adds, Know
<1>15. TilesOK(Env, L.tl, L.tr, mem') /\ PartOK(Env, L.pt, part)
  BY <1>14 DEF TilesOK, PartOK, Models
<1>. QED  BY <1>5, <1>6, <1>13, <1>14, <1>15 DEF Models, g

\* The sum of the partial results.
LEMMA ReduceHolds ==
  ASSUME IsRun(Env), Epoch, NEW K, NEW L, NEW H, Models(Env, K, H),
         ReduceRule(Env, Head(cb), K, L)
  PROVE  Models(Env, L, H)'
<1>1. PICK l \in RangeOf(Env) :
        /\ Head(cb) = {D("AttnR", l, AllRows(Env))} /\ K.pt = l
        /\ Wants("AttnR", l) \subseteq K.f /\ After({"AttnR"}, l, K.f, L.f) /\ Same(K, L)
  BY DEF ReduceRule
<1>. DEFINE d == D("AttnR", l, AllRows(Env))
<1>2. d.k = "AttnR" /\ d.l = l /\ l \in 1 .. NL /\ l # 0 /\ "AttnR" \in DOMAIN Kernel /\ "AttnR" # "Indirect"
  BY RowFacts, KernelFound, Sizes DEF D, Names, MixerNames
<1>. HIDE DEF d
<1>3. ASSUME NEW i \in Live(Env) PROVE Good(d, i)
  <2>1. Inputs(d, i)
    BY <1>1, <1>2, FromWants DEF Models
  <2>2. \A p \in 0 .. At(i) : part[i][p \div Chunk] = l
    <3>. SUFFICES ASSUME NEW p \in 0 .. At(i) PROVE part[i][p \div Chunk] = l
      OBVIOUS
    <3>1. At(i) = AtOf(Env, i) /\ AtOf(Env, i) \in Pos
      BY EnvIs, RowFacts
    <3>2. p \in Pos /\ p <= AtOf(Env, i)
      BY <3>1, Sizes DEF Pos
    <3>. QED  BY <1>1, <1>2, <3>2 DEF Models, PartOK
  <2>. QED  BY <1>2, <2>1, <2>2 DEF Good
<1>4. Ran = {d} /\ RunsAll({"AttnR"}, l)
  BY <1>1, <1>2, <1>3, OneRuns DEF d
<1>5. MemOK(Env, L.f, NewMem)
  BY <1>1, <1>4, MemAfter DEF Models
<1>6. /\ Env' = Env /\ mem' = NewMem /\ conv' = conv /\ scan' = scan /\ part' = part /\ carry' = carry
      /\ hid' = hid /\ kv' = kv
  BY <1>2, <1>4, Quiet
<1>. QED  BY <1>1, <1>5, <1>6, SameHolds DEF Models

\* The rows handed on to the next stage.
LEMMA HidOutHolds ==
  ASSUME IsRun(Env), Epoch, NEW K, NEW L, NEW H, Models(Env, K, H),
         HidOutRule(Env, Head(cb), K, L)
  PROVE  Models(Env, L, H)'
<1>. DEFINE m == run.last + 1
            d == D("HidOut", m, AllRows(Env))
<1>1. /\ Batched(Env) /\ Head(cb) = {d}
      /\ Wants("HidOut", m) \subseteq K.f /\ L.f \subseteq K.f
      /\ Same(Adds(K, {}, {}, {}, FALSE, TRUE), L)
  BY EnvIs DEF HidOutRule
<1>2. d.k = "HidOut" /\ d.l = m /\ "HidOut" \in DOMAIN Kernel /\ OutsOf("HidOut") = {} /\ "HidOut" # "Indirect"
  BY KernelFound, TailsTable DEF D, Names, TailNames, OutsOf, Kern
<1>3. ASSUME NEW i \in Live(Env) PROVE Good(d, i) /\ mem["Xin"][i] = <<"x", m>>
  <2>. HIDE DEF d
  <2>1. Inputs(d, i)
    BY <1>1, <1>2, FromWants DEF Models
  <2>2. Kernel["HidOut"].ins = [Xin |-> "x"]
    BY TailsTable DEF Kern
  <2>3. mem["Xin"][i] = <<"x", m>>
    BY <1>2, <2>1, <2>2 DEF Inputs
  <2>. QED  BY <1>2, <2>1, <2>3 DEF Good
<1>4. Ran = {d} /\ RunsAll({"HidOut"}, m)
  BY <1>1, <1>2, <1>3, OneRuns
<1>. HIDE DEF d
<1>5. MemOK(Env, L.f, NewMem)
  <2>1. After({"HidOut"}, m, K.f, L.f)
    BY <1>1, <1>2 DEF After
  <2>. QED  BY <1>4, <2>1, MemAfter DEF Models
<1>6. /\ Env' = Env /\ mem' = NewMem /\ conv' = conv /\ scan' = scan /\ part' = part /\ carry' = carry
      /\ kv' = kv
  BY <1>2, <1>4, Quiet
<1>7. hid' = [p \in Pos |-> IF \E i \in DOMAIN R : At(i) = p
                            THEN mem["Xin"][CHOOSE i \in DOMAIN R : At(i) = p] ELSE hid[p]]
  <2>1. RanOf({"HidOut"}) # {}
    BY <1>2, <1>4, RanOne
  <2>. QED  BY <2>1 DEF Epoch
<1>8. Live(Env) = AllRows(Env) /\ DOMAIN R = AllRows(Env) /\ \A i : At(i) = AtOf(Env, i)
  BY <1>1, EnvIs DEF Live
<1>9. \A i \in AllRows(Env) : hid'[AtOf(Env, i)] = <<"x", m>>
  <2>. SUFFICES ASSUME NEW i \in AllRows(Env) PROVE hid'[AtOf(Env, i)] = <<"x", m>>
    OBVIOUS
  <2>. DEFINE p == AtOf(Env, i)  j == CHOOSE j \in DOMAIN R : At(j) = p
  <2>1. p \in Pos
    BY RowFacts
  <2>2. i \in DOMAIN R /\ At(i) = p
    BY <1>8
  <2>3. j \in Live(Env)
    BY <1>8, <2>2
  <2>4. hid'[p] = mem["Xin"][j]
    BY <1>7, <2>1, <2>2
  <2>. QED  BY <1>3, <2>3, <2>4
<1>10. \A p \in Pos : (\A i \in AllRows(Env) : AtOf(Env, i) # p) => hid'[p] = hid[p]
  BY <1>7, <1>8
<1>11. HidOK(Env, TRUE, hid', H.hid)
  <2>1. HidOK(Env, K.ho, hid, H.hid)
    BY DEF Models
  <2>2. \A p \in Pos : (\A i \in AllRows(Env) : AtOf(Env, i) # p) => hid[p] = H.hid[p]
    BY <2>1 DEF HidOK
  <2>. QED  BY <1>9, <1>10, <2>2, EnvIs DEF HidOK
<1>12. L.tl = 0 /\ L.cv = K.cv /\ L.sc = K.sc /\ L.ks = K.ks /\ L.sd = K.sd /\ L.ho = TRUE /\ L.pt \in {K.pt, 0}
  BY <1>1 DEF Same, SameBut, Adds, Know
<1>13. TilesOK(Env, L.tl, L.tr, mem') /\ PartOK(Env, L.pt, part)
  BY <1>12 DEF TilesOK, PartOK, Models
<1>. QED  BY <1>5, <1>6, <1>11, <1>12, <1>13 DEF Models

\* The keys a row attends to are those of its history.
LEMMA KeysKnown ==
  ASSUME IsRun(Env), NEW K, NEW H, Models(Env, K, H), Ready(Env, H), NEW l \in RangeOf(Env),
         Layers[l] = "attn", l \in K.ks, NEW i \in Live(Env), NEW ps, ps \subseteq 0 .. At(i)
  PROVE  Keys(l, i, ps)
<1>. SUFFICES ASSUME NEW p \in ps PROVE kv[l][SlotOf(i)][p] = SubSeq(R[i], 1, p + 1)
  BY DEF Keys
<1>1. At(i) = AtOf(Env, i) /\ SlotOf(i) = SlotIn(Env, i) /\ R[i] = RowIn(Env, i)
  BY EnvIs
<1>2. l \in 1 .. NL /\ i \in AllRows(Env) /\ SlotIn(Env, i) \in Slot /\ AtOf(Env, i) \in Pos
  BY RowFacts
<1>3. p \in 0 .. AtOf(Env, i) /\ p \in Pos
  BY <1>1, <1>2, Sizes DEF Pos
<1>. DEFINE o == AtOf(Env, FirstRow(Env, i))
<1>4. o \in Nat /\ p \in Nat
  <2>1. FirstRow(Env, i) \in AllRows(Env)
    BY RowFacts
  <2>. QED  BY <1>3, <2>1, RowFacts, Sizes DEF Pos
<1>. HIDE DEF o
<1>5. KeysOK(Env, K.ks, kv, H.kv)
  BY DEF Models
<1>6. CASE p >= o
  <2>1. PICK j \in Live(Env) : /\ SlotIn(Env, j) = SlotIn(Env, i) /\ AtOf(Env, j) = p
                               /\ RowIn(Env, j) = SubSeq(RowIn(Env, i), 1, p + 1)
    BY <1>3, <1>6, RowPrefix DEF o
  <2>2. kv[l][SlotIn(Env, j)][AtOf(Env, j)] = RowIn(Env, j)
    BY <1>2, <1>5 DEF KeysOK
  <2>. QED  BY <1>1, <2>1, <2>2
<1>7. CASE p < o
  <2>1. /\ \A j \in AllRows(Env) : SlotIn(Env, j) = SlotIn(Env, i) => AtOf(Env, j) # p
        /\ SubSeq(RowIn(Env, i), 1, p + 1) = SubSeq(Front(RowIn(Env, FirstRow(Env, i))), 1, p + 1)
    BY <1>3, <1>7, RowPrefix DEF o
  <2>2. kv[l][SlotIn(Env, i)][p] = H.kv[l][SlotIn(Env, i)][p]
    BY <1>2, <1>3, <1>5, <2>1 DEF KeysOK
  <2>3. H.kv[l][SlotIn(Env, i)][p] = SubSeq(Front(RowIn(Env, FirstRow(Env, i))), 1, p + 1)
    BY <1>3, <1>7 DEF Ready, o
  <2>. QED  BY <1>1, <2>1, <2>2, <2>3
<1>. QED  BY <1>4, <1>6, <1>7

\* One tile of attention.
LEMMA TileHolds ==
  ASSUME IsRun(Env), Epoch, NEW K, NEW L, NEW H, Models(Env, K, H), Ready(Env, H),
         TileRule(Env, Head(cb), K, L)
  PROVE  Models(Env, L, H)'
<1>1. PICK l \in RangeOf(Env), rows \in SUBSET AllRows(Env) :
        /\ Head(cb) = {D("Attn", l, rows)} /\ Layers[l] = "attn" /\ l \in K.ks
        /\ Wants("Attn", l) \subseteq K.f
        /\ K.tl \in Nat /\ (K.tl # 0 => K.tr = l)
        /\ L.tl \in Nat /\ L.tr = l /\ \A i \in AllRows(Env) : K.tl <= i /\ i < L.tl => i \in rows
        /\ \A x \in L.f : \/ x \in K.f /\ x[1] # "Att"
                          \/ x = <<"Att", "a", l>> /\ \A i \in AllRows(Env) : i < L.tl
        /\ SameBut(K, L) /\ L.pt \in {K.pt, 0}
  BY DEF TileRule
<1>. DEFINE d == D("Attn", l, rows)
<1>2. /\ d.k = "Attn" /\ d.l = l /\ d.rows = rows /\ l \in 1 .. NL /\ "Attn" \in DOMAIN Kernel /\ "Attn" # "Indirect"
  BY RowFacts, KernelFound DEF D, Names, MixerNames
<1>. HIDE DEF d
<1>3. ASSUME NEW i \in Live(Env) PROVE Good(d, i)
  <2>1. Inputs(d, i)
    BY <1>1, <1>2, FromWants DEF Models
  <2>2. Keys(l, i, 0 .. At(i))
    BY <1>1, KeysKnown
  <2>. QED  BY <1>2, <2>1, <2>2 DEF Good
<1>4. Ran = {d}
  <2>1. \A x \in Head(cb) : x.k # "Indirect"
    BY <1>1, <1>2 DEF d
  <2>. QED  BY <1>1, <2>1, RanIs DEF d
<1>5. /\ Kernel["Attn"].outs = [Att |-> "a"] /\ Kernel["Attn"].next = 0 /\ "Att" \in Buffers
  <2>1. Kernel["Attn"].outs = [Att |-> "a"] /\ Kernel["Attn"].next = 0
    BY MixerTable DEF Kern
  <2>2. "Att" \in DOMAIN Kernel["Attn"].outs
    BY <2>1
  <2>. QED  BY <1>2, <2>1, <2>2 DEF Buffers
<1>6. \A b \in Buffers : b # "Att" => NewMem[b] = mem[b]
  <2>1. \A b \in Buffers : b # "Att" => {x \in Ran : b \in DOMAIN Kernel[x.k].outs} = {}
    BY <1>2, <1>4, <1>5
  <2>. QED  BY <2>1 DEF NewMem
<1>7. NewMem["Att"] = [i \in Rows |-> IF i \notin rows THEN mem["Att"][i]
                         ELSE IF Good(d, i) THEN <<"a", l + 0>> ELSE Stale]
  <2>. DEFINE W == {x \in Ran : "Att" \in DOMAIN Kernel[x.k].outs}
              e == CHOOSE x \in W : TRUE
  <2>1. W = {d}
    BY <1>2, <1>4, <1>5
  <2>2. W # {} /\ e = d
    BY <2>1
  <2>3. NewMem["Att"] = IF W = {} THEN mem["Att"]
                 ELSE [i \in Rows |-> IF i \notin e.rows THEN mem["Att"][i]
                         ELSE IF Good(e, i)
                              THEN <<Kernel[e.k].outs["Att"], e.l + Kernel[e.k].next>> ELSE Stale]
    BY <1>5 DEF NewMem
  <2>4. Kernel[d.k].outs["Att"] = "a" /\ Kernel[d.k].next = 0
    BY <1>2, <1>5
  <2>. HIDE DEF W, e
  <2>. QED  BY <1>2, <2>2, <2>3, <2>4
<1>8. \A i \in Live(Env) : i < L.tl => NewMem["Att"][i] = <<"a", l>>
  <2>. SUFFICES ASSUME NEW i \in Live(Env), i < L.tl PROVE NewMem["Att"][i] = <<"a", l>>
    OBVIOUS
  <2>1. i \in AllRows(Env) /\ i \in Rows /\ i \in Nat
    BY RowFacts
  <2>2. CASE i \in rows
    <3>1. l + 0 = l
      BY <1>2
    <3>. QED  BY <1>3, <1>7, <2>1, <2>2, <3>1
  <2>3. CASE i \notin rows
    <3>1. i < K.tl
      BY <1>1, <2>1, <2>3
    <3>2. K.tl # 0
      BY <1>1, <2>1, <3>1
    <3>3. mem["Att"][i] = <<"a", l>>
      BY <1>1, <3>1, <3>2 DEF Models, TilesOK
    <3>. QED  BY <1>7, <2>1, <2>3, <3>3
  <2>. QED  BY <2>2, <2>3
<1>9. MemOK(Env, L.f, NewMem)
  <2>. SUFFICES ASSUME NEW x \in L.f
                PROVE  x[1] \in Buffers /\ \A i \in Live(Env) : NewMem[x[1]][i] = <<x[2], x[3]>>
    BY DEF MemOK
  <2>1. CASE x \in K.f /\ x[1] # "Att"
    BY <1>6, <2>1 DEF Models, MemOK
  <2>2. CASE x = <<"Att", "a", l>> /\ \A i \in AllRows(Env) : i < L.tl
    <3>1. x[1] = "Att" /\ x[2] = "a" /\ x[3] = l
      BY <2>2
    <3>2. \A i \in Live(Env) : i < L.tl
      BY <2>2, RowFacts
    <3>. QED  BY <1>5, <1>8, <3>1, <3>2
  <2>. QED  BY <1>1, <2>1, <2>2
<1>10. /\ Env' = Env /\ mem' = NewMem /\ conv' = conv /\ scan' = scan /\ part' = part /\ carry' = carry
       /\ hid' = hid /\ kv' = kv
  BY <1>2, <1>4, Quiet
<1>11. /\ L.cv = K.cv /\ L.sc = K.sc /\ L.ks = K.ks /\ L.sd = K.sd /\ L.ho = K.ho /\ L.pt \in {K.pt, 0}
  BY <1>1 DEF SameBut
<1>12. TilesOK(Env, L.tl, L.tr, NewMem) /\ PartOK(Env, L.pt, part)
  BY <1>1, <1>8, <1>11 DEF TilesOK, PartOK, Models
<1>. QED  BY <1>9, <1>10, <1>11, <1>12 DEF Models

\* The split-K dispatches.
LEMMA SplitHolds ==
  ASSUME IsRun(Env), Epoch, NEW K, NEW L, NEW H, Models(Env, K, H), Ready(Env, H),
         SplitRule(Env, Head(cb), K, L)
  PROVE  Models(Env, L, H)'
<1>1. PICK l \in RangeOf(Env) :
        /\ Layers[l] = "attn" /\ l \in K.ks /\ Wants("AttnS", l) \subseteq K.f
        /\ \A d \in Head(cb) : /\ d.k \in {"AttnS", "Indirect"} /\ d.l = l
                               /\ Launched(Env, d).k = "AttnS" /\ Launched(Env, d).l = l
                               /\ Launched(Env, d).heads >= HQ \/ Live(Env) = {}
        /\ \A i \in Live(Env), p \in 0 .. NCtx - 1 : p <= AtOf(Env, i) =>
             \E d \in Head(cb) : i \in Launched(Env, d).rows /\ p \div Chunk \in Launched(Env, d).chunks
        /\ L.f \subseteq K.f /\ L.pt = l
        /\ SameBut(K, L) /\ L.tl = 0
  BY DEF SplitRule
<1>2. \A d : Resolve(d) = Launched(Env, d)
  BY EnvIs DEF Resolve, Launched
<1>3. Ran = {Launched(Env, d) : d \in Head(cb)}
  BY <1>2 DEF Ran
<1>4. \A d \in Ran : d.k = "AttnS" /\ d.l = l /\ (d.heads >= HQ \/ Live(Env) = {})
  BY <1>1, <1>3
<1>5. RanOf({"AttnS"}) = Ran
  BY <1>4 DEF RanOf
<1>6. DOMAIN Kernel["AttnS"].outs = {}
  BY MixerTable DEF Kern
<1>7. \A b \in Buffers : NewMem[b] = mem[b]
  <2>1. \A b \in Buffers : {x \in Ran : b \in DOMAIN Kernel[x.k].outs} = {}
    BY <1>4, <1>6
  <2>. QED  BY <2>1 DEF NewMem
<1>8. MemOK(Env, L.f, NewMem)
  <2>. SUFFICES ASSUME NEW x \in L.f
                PROVE  x[1] \in Buffers /\ \A i \in Live(Env) : NewMem[x[1]][i] = <<x[2], x[3]>>
    BY DEF MemOK
  <2>1. x[1] \in Buffers /\ \A i \in Live(Env) : mem[x[1]][i] = <<x[2], x[3]>>
    BY <1>1 DEF MemOK, Models
  <2>. QED  BY <1>7, <2>1
<1>9. ASSUME NEW i \in Live(Env), NEW p \in Pos, p <= AtOf(Env, i)
      PROVE  NewPart[i][p \div Chunk] = l
  <2>. DEFINE c == p \div Chunk
              W == {d \in RanOf({"AttnS"}) : i \in d.rows /\ c \in d.chunks}
              d0 == CHOOSE d \in W : TRUE
  <2>1. p \in 0 .. NCtx - 1 /\ p \in Nat /\ NCtx \in Nat
    BY Sizes DEF Pos
  <2>2. PICK x \in Head(cb) : i \in Launched(Env, x).rows /\ c \in Launched(Env, x).chunks
    BY <1>1, <1>9, <2>1
  <2>3. Launched(Env, x) \in W
    BY <1>3, <1>5, <2>2
  <2>4. W # {} /\ d0 \in W
    BY <2>3
  <2>5. d0 \in Ran /\ d0.k = "AttnS" /\ d0.l = l /\ d0.heads >= HQ
    BY <1>4, <1>5, <2>4
  <2>6. i \in Rows /\ i \in AllRows(Env) /\ At(i) = AtOf(Env, i)
    BY RowFacts, EnvIs
  <2>7. c \in 0 .. SplitMax - 1
    BY <2>1, SplitsCover
  <2>8. AtOf(Env, i) \in Nat /\ c \in Nat /\ c * Chunk <= p /\ c * Chunk \in Nat
    <3>1. AtOf(Env, i) \in Nat
      BY <2>6, RowFacts, Sizes DEF Pos
    <3>2. c \in Nat /\ c * Chunk <= p /\ c * Chunk \in Nat
      BY <2>1, Sizes
    <3>. QED  BY <3>1, <3>2
  <2>. HIDE DEF c
  <2>9. ~(c * Chunk > At(i))
    BY <1>9, <2>1, <2>6, <2>8
  <2>10. c * Chunk .. Least(At(i), (c + 1) * Chunk - 1) \subseteq 0 .. At(i)
    <3>1. (c + 1) * Chunk - 1 \in Int
      BY <2>8, Sizes
    <3>. QED  BY <2>6, <2>8, <3>1 DEF Least
  <2>11. Keys(l, i, c * Chunk .. Least(At(i), (c + 1) * Chunk - 1))
    BY <1>1, <2>10, KeysKnown
  <2>12. Good(d0, i)
    <3>1. Wants(d0.k, d0.l) \subseteq K.f /\ MemOK(Env, K.f, mem)
      BY <1>1, <2>5 DEF Models
    <3>2. Inputs(d0, i)
      BY <3>1, FromWants
    <3>. QED  BY <2>5, <3>2 DEF Good
  <2>13. NewPart[i][c] = IF W = {} \/ c * Chunk > At(i) THEN part[i][c]
                         ELSE IF d0.heads >= HQ /\ Good(d0, i)
                                 /\ Keys(d0.l, i, c * Chunk .. Least(At(i), (c + 1) * Chunk - 1))
                              THEN d0.l ELSE 0
    <3>1. RanOf({"AttnS"}) # {}
      BY <2>4
    <3>. QED  BY <2>6, <2>7, <3>1 DEF NewPart
  <2>. HIDE DEF W, d0
  <2>14. NewPart[i][c] = l
    BY <2>4, <2>5, <2>9, <2>11, <2>12, <2>13
  <2>. QED  BY <2>14 DEF c
<1>10. PartOK(Env, L.pt, NewPart)
  BY <1>1, <1>9 DEF PartOK
<1>11. /\ Env' = Env /\ mem' = NewMem /\ conv' = conv /\ scan' = scan /\ part' = NewPart /\ carry' = carry
       /\ hid' = hid /\ kv' = kv
  BY <1>4, Quiet DEF Epoch
<1>12. /\ L.cv = K.cv /\ L.sc = K.sc /\ L.ks = K.ks /\ L.sd = K.sd /\ L.ho = K.ho
  BY <1>1 DEF SameBut
<1>13. TilesOK(Env, L.tl, L.tr, NewMem)
  BY <1>1 DEF TilesOK
<1>. QED  BY <1>8, <1>10, <1>11, <1>12, <1>13 DEF Models

\* The seed of the windows, and the rows of the stage before.
LEMMA SeedHolds ==
  ASSUME IsRun(Env), Epoch, NEW K, NEW L, NEW H, Models(Env, K, H), Ready(Env, H),
         SeedRule(Env, Head(cb), K, L)
  PROVE  Models(Env, L, H)'
<1>. DEFINE s == D("Seed", 0, {})
            m == run.first
            d == D("HidIn", m, AllRows(Env))
<1>1. /\ Batched(Env) /\ K.cv = {} /\ ~K.ho
      /\ \/ Head(cb) = {s} /\ L.f = {}
         \/ /\ Head(cb) = {s, d} /\ m # 1 /\ L.f \subseteq Gives("HidIn", m)
      /\ Same(Adds(K, {}, {}, {}, TRUE, FALSE), L)
  BY EnvIs DEF SeedRule
<1>2. /\ s.k = "Seed" /\ d.k = "HidIn" /\ d.l = m /\ d.rows = AllRows(Env)
  BY DEF D
<1>. HIDE DEF s, d
<1>3. Ran = Head(cb)
  BY <1>1, <1>2, RanIs
<1>4. /\ Kernel["Seed"].outs = <<>> /\ Kernel["HidIn"].outs = [Xin |-> "x"] /\ Kernel["HidIn"].next = 0
      /\ "Xin" \in Buffers
  <2>1. Kernel["Seed"].outs = <<>> /\ Kernel["HidIn"].outs = [Xin |-> "x"] /\ Kernel["HidIn"].next = 0
    BY TailsTable DEF Kern
  <2>2. "HidIn" \in DOMAIN Kernel
    BY KernelFound DEF Names, TailNames
  <2>3. "Xin" \in DOMAIN Kernel["HidIn"].outs
    BY <2>1
  <2>. QED  BY <2>1, <2>2, <2>3 DEF Buffers
<1>5. MemOK(Env, L.f, NewMem)
  <2>1. CASE L.f = {}
    BY <2>1 DEF MemOK
  <2>2. CASE Head(cb) = {s, d} /\ m # 1 /\ L.f \subseteq Gives("HidIn", m)
    <3>. DEFINE W == {x \in Ran : "Xin" \in DOMAIN Kernel[x.k].outs}
                e == CHOOSE x \in W : TRUE
    <3>0. DOMAIN Kernel["Seed"].outs = {} /\ DOMAIN Kernel["HidIn"].outs = {"Xin"}
      BY <1>4
    <3>1. W = {d}
      BY <1>2, <1>3, <2>2, <3>0
    <3>2. W # {} /\ e = d
      BY <3>1
    <3>3. NewMem["Xin"] = IF W = {} THEN mem["Xin"]
                   ELSE [i \in Rows |-> IF i \notin e.rows THEN mem["Xin"][i]
                           ELSE IF Good(e, i)
                                THEN <<Kernel[e.k].outs["Xin"], e.l + Kernel[e.k].next>> ELSE Stale]
      BY <1>4 DEF NewMem
    <3>4. Kernel[d.k].outs["Xin"] = "x" /\ Kernel[d.k].next = 0
      BY <1>2, <1>4
    <3>. HIDE DEF W, e
    <3>5. ASSUME NEW i \in Live(Env) PROVE NewMem["Xin"][i] = <<"x", m + 0>>
      <4>1. i \in Rows /\ i \in AllRows(Env) /\ At(i) = AtOf(Env, i)
        BY RowFacts, EnvIs
      <4>2. hid[At(i)] = <<"x", m>>
        BY <1>1, <2>2, <4>1, EnvIs DEF Models, HidOK, Ready
      <4>3. Good(d, i)
        BY <1>2, <4>2 DEF Good
      <4>. QED  BY <1>2, <3>2, <3>3, <3>4, <4>1, <4>3
    <3>6. \A x \in L.f : x = <<"Xin", "x", m + 0>>
      <4>1. \A x \in Gives("HidIn", m) : x = <<"Xin", "x", m + 0>>
        BY <1>4, <3>0 DEF Gives, OutsOf
      <4>. QED  BY <2>2, <4>1
    <3>. SUFFICES ASSUME NEW x \in L.f
                  PROVE  x[1] \in Buffers /\ \A i \in Live(Env) : NewMem[x[1]][i] = <<x[2], x[3]>>
      BY DEF MemOK
    <3>7. x[1] = "Xin" /\ x[2] = "x" /\ x[3] = m + 0
      BY <3>6
    <3>. QED  BY <1>4, <3>5, <3>7
  <2>. QED  BY <1>1, <2>1, <2>2
<1>6. /\ Env' = Env /\ mem' = NewMem /\ conv' = conv /\ scan' = scan /\ part' = part
      /\ hid' = hid /\ kv' = kv /\ carry' = NewCarry
  <2>1. \A x \in Ran : x.k \in {"Seed", "HidIn"}
    BY <1>1, <1>2, <1>3
  <2>2. RanOf({"Seed"}) # {}
    BY <1>1, <1>2, <1>3 DEF RanOf
  <2>. QED  BY <2>1, <2>2, Quiet DEF Epoch
<1>7. SeedOK(Env, TRUE, NewCarry)
  <2>. SUFFICES ASSUME NEW l \in RangeOf(Env), Layers[l] = "rec" PROVE NewCarry[l] = Front(RowIn(Env, 0))
    BY DEF SeedOK
  <2>1. l \in 1 .. NL /\ RangeOf(Env) = run.first .. run.last /\ R[0] = RowIn(Env, 0)
    BY <1>1, RowFacts, EnvIs DEF RangeOf, FirstOf, LastOf
  <2>2. CASE Len(R[0]) = 1
    <3>1. NewCarry[l] = <<>>
      BY <2>1, <2>2 DEF NewCarry
    <3>. DEFINE y == R[0]
    <3>2. Front(y) = <<>>
      <4>. HIDE DEF y
      <4>1. Front(y) = [i \in 1 .. Len(y) - 1 |-> y[i]] \/ Front(y) = SubSeq(y, 1, Len(y) - 1)
        BY DEF Front
      <4>2. Len(y) = 1
        BY <2>2 DEF y
      <4>3. 1 .. Len(y) - 1 = {}
        BY <4>2
      <4>. QED  BY <4>1, <4>2, <4>3
    <3>. QED  BY <2>1, <3>1, <3>2
  <2>3. CASE Len(R[0]) # 1
    <3>1. NewCarry[l] = conv[l][run.slot]
      BY <2>1, <2>3 DEF NewCarry
    <3>2. conv[l] = H.conv[l]
      BY <1>1, <2>1 DEF Models, StripesOK
    <3>3. 0 \in Live(Env)
      <4>1. IsBatch(run)
        BY <1>1, EnvIs, SerialRows DEF IsRun, Batched, IsSerial
      <4>2. PICK h, t : BatchOf(run, h, t)
        BY <4>1 DEF IsBatch
      <4>3. DOMAIN run.rows = 0 .. Len(t) - 1 /\ Len(t) \in Nat \ {0}
        BY <4>2, BatchRows
      <4>. QED  BY <1>1, <4>3, EnvIs DEF Live, AllRows
    <3>4. SlotIn(Env, 0) = run.slot /\ FirstRow(Env, 0) = 0
      BY <1>1, EnvIs DEF SlotIn, FirstRow
    <3>5. H.conv[l][SlotIn(Env, 0)] = Front(RowIn(Env, FirstRow(Env, 0)))
      BY <3>3 DEF Ready
    <3>. QED  BY <3>1, <3>2, <3>4, <3>5
  <2>. QED  BY <2>2, <2>3
<1>8. L.tl = 0 /\ L.cv = K.cv /\ L.sc = K.sc /\ L.ks = K.ks /\ L.sd = TRUE /\ L.ho = K.ho /\ L.pt \in {K.pt, 0}
  BY <1>1 DEF Same, SameBut, Adds, Know
<1>9. TilesOK(Env, L.tl, L.tr, NewMem) /\ PartOK(Env, L.pt, part)
  BY <1>8 DEF TilesOK, PartOK, Models
<1>. QED  BY <1>5, <1>6, <1>7, <1>8, <1>9 DEF Models

\* Every epoch of a stream.
LEMMA EpochHolds ==
  ASSUME IsRun(Env), StateType, Epoch, NEW K, NEW L, NEW H, Models(Env, K, H), Ready(Env, H),
         Rule(Env, Head(cb), K, L)
  PROVE  Models(Env, L, H)'
BY PureHolds, ConvHolds, StepHolds, PrepHolds, TileHolds, SplitHolds, ReduceHolds, SeedHolds, HidOutHolds
   DEF Rule

-------------------------------------------------------------------------------
(* What a call does to the stripes.                                           *)

\* What is known when nothing has run.
LEMMA BeginHolds ==
  ASSUME NEW e, NEW H, H = [conv |-> conv, scan |-> scan, kv |-> kv, hid |-> hid]
  PROVE  Models(e, Begin, H)
<1>1. /\ Begin.f = {} /\ Begin.tl = 0 /\ Begin.pt = 0 /\ Begin.cv = {} /\ Begin.sc = {} /\ Begin.ks = {}
      /\ Begin.sd = FALSE /\ Begin.ho = FALSE
  BY DEF Begin, Kn, Know
<1>2. H.conv = conv /\ H.scan = scan /\ H.kv = kv /\ H.hid = hid
  OBVIOUS
<1>. QED  BY <1>1, <1>2 DEF Models, MemOK, TilesOK, PartOK, StripesOK, KeysOK, SeedOK, HidOK

-------------------------------------------------------------------------------
(* What is known of the stripes between two calls.                            *)

\* A fact <<l, s, h>>: layer l holds history h at stripe s.
HoldsAt(cv, sc, ks, x) ==
  /\ x \in (1 .. NL) \X (0 .. NSlots) \X History
  /\ IF Layers[x[1]] = "rec" THEN cv[x[1]][x[2]] = x[3] /\ sc[x[1]][x[2]] = x[3]
     ELSE x[2] \in Slot => \A p \in Pos : p < Len(x[3]) => ks[x[1]][x[2]][p] = SubSeq(x[3], 1, p + 1)

\* X: such facts (st), and <<p, l>> for the row at position p handed on to layer l (hd).
Knows(X, cv, sc, ks, hd) ==
  /\ \A x \in X.st : HoldsAt(cv, sc, ks, x)
  /\ \A y \in X.hd : y \in Pos \X Nat /\ hd[y[1]] = <<"x", y[2]>>

\* The rows of call c that are read, under configuration c0.
LiveRows(c0, c) == Live([c |-> c0, r |-> c, g |-> <<>>])

\* A call takes what is known from X to Y.
ResetRule(c, X, Y) ==
  \E s \in Slot :
    /\ c = ResetCall(s)
    /\ \A y \in Y.st : (y \in X.st /\ y[2] # s) \/ \E l \in 1 .. NL : y = <<l, s, <<>>>>
    /\ Y.hd \subseteq X.hd
CopyRule(c, X, Y) ==
  \E a, b \in 0 .. NSlots :
    /\ c = CopyCall(a, b)
    /\ \A y \in Y.st : \/ y \in X.st /\ (y[2] # b \/ Layers[y[1]] = "attn")
                       \/ \E l \in 1 .. NL, h \in History :
                            Layers[l] = "rec" /\ <<l, a, h>> \in X.st /\ y = <<l, b, h>>
    /\ Y.hd \subseteq X.hd
BatchRule(c, X, Y) ==
  \E h, t :
    /\ BatchOf(c, h, t)
    /\ h = <<>> => c.stripe = c.slot
    /\ h # <<>> => \A l \in c.first .. c.last :
         <<l, c.slot, h>> \in X.st /\ (Layers[l] = "rec" => <<l, c.stripe, h>> \in X.st)
    /\ c.stripe # c.slot => c.first = 1 /\ c.last = NL
    /\ c.first # 1 => \A p \in Pos : Len(h) <= p /\ p < Len(h) + Len(t) => <<p, c.first>> \in X.hd
    /\ \A y \in Y.st :
         \/ /\ y \in X.st
            /\ y[1] \in c.first .. c.last =>
                 IF Layers[y[1]] = "rec" THEN y[2] # c.stripe ELSE y[2] # c.slot \/ Len(y[3]) <= Len(h)
         \/ \E l \in c.first .. c.last :
              y = <<l, IF Layers[l] = "rec" THEN c.stripe ELSE c.slot, h \o t>>
    /\ \A y \in Y.hd :
         \/ y \in X.hd /\ ~(Len(h) <= y[1] /\ y[1] < Len(h) + Len(t))
         \/ c.last < NL /\ \E p \in Pos : Len(h) <= p /\ p < Len(h) + Len(t) /\ y = <<p, c.last + 1>>
SerialRule(c0, c, X, Y) ==
  /\ IsSerial(c) /\ (c.fill = TRUE \/ c.by = "serialPrefillLogits")
  /\ \A i \in LiveRows(c0, c), l \in 1 .. NL : <<l, i, Front(c.rows[i])>> \in X.st
  /\ \A y \in Y.st : \/ y \in X.st /\ y[2] \notin DOMAIN c.rows
                     \/ \E i \in LiveRows(c0, c), l \in 1 .. NL : y = <<l, i, c.rows[i]>>
  /\ Y.hd = {}
CallRule(e, c, X, Y) ==
  ResetRule(c, X, Y) \/ CopyRule(c, X, Y) \/ BatchRule(c, X, Y) \/ SerialRule(e, c, X, Y)

\* Calls that take what is known from K to L.
Follows(e, s, k) == \A i \in 1 .. Len(s) : CallRule(e, s[i], k[i], k[i + 1])
Plan(e, s, K, L) == IsSeq(s) /\ \E k : k[1] = K /\ k[Len(s) + 1] = L /\ Follows(e, s, k)

LEMMA PlanNone == ASSUME NEW e, NEW K PROVE Plan(e, <<>>, K, K)
<1>. DEFINE k == [i \in {1} |-> K]
<1>1. k[1] = K /\ k[Len(<<>>) + 1] = K /\ IsSeq(<<>>) /\ Len(<<>>) = 0
  BY SeqNone
<1>. HIDE DEF k
<1>2. Follows(e, <<>>, k)
  BY <1>1 DEF Follows
<1>. QED  BY <1>1, <1>2, Zenon DEF Plan

LEMMA PlanOne == ASSUME NEW e, NEW x, NEW K, NEW L, CallRule(e, x, K, L) PROVE Plan(e, <<x>>, K, L)
<1>. DEFINE k == [i \in {1, 2} |-> IF i = 1 THEN K ELSE L]
<1>1. k[1] = K /\ k[2] = L
  OBVIOUS
<1>2. IsSeq(<<x>>) /\ Len(<<x>>) = 1 /\ <<x>>[1] = x
  BY SeqOne
<1>. HIDE DEF k
<1>. DEFINE s == <<x>>
<1>. HIDE DEF s
<1>3. \A i \in 1 .. Len(s) : i = 1 /\ s[i] = x
  BY <1>2 DEF s
<1>4. Follows(e, s, k)
  BY <1>1, <1>3 DEF Follows
<1>5. k[Len(s) + 1] = L /\ IsSeq(s)
  BY <1>1, <1>2 DEF s
<1>. QED  BY <1>1, <1>4, <1>5, Zenon DEF Plan, s

LEMMA PlanConcat ==
  ASSUME NEW e, NEW s, NEW t, NEW K, NEW L, NEW M, Plan(e, s, K, L), Plan(e, t, L, M)
  PROVE  Plan(e, s \o t, K, M)
<1>1. PICK j : IsSeq(s) /\ j[1] = K /\ j[Len(s) + 1] = L /\ Follows(e, s, j)
  BY Zenon DEF Plan
<1>2. PICK k : IsSeq(t) /\ k[1] = L /\ k[Len(t) + 1] = M /\ Follows(e, t, k)
  BY Zenon DEF Plan
<1>. DEFINE a == Len(s)  b == Len(t)  u == s \o t
<1>3. /\ IsSeq(u) /\ a \in Nat /\ b \in Nat /\ Len(u) = a + b
      /\ \A i \in 1 .. a + b : u[i] = IF i <= a THEN s[i] ELSE t[i - a]
  BY <1>1, <1>2, SeqConcat
<1>. DEFINE h == [i \in 1 .. a + b + 1 |-> IF i <= a THEN j[i] ELSE k[i - a]]
<1>. HIDE DEF a, b, u
<1>4. \A i \in 1 .. a + b + 1 : h[i] = IF i <= a THEN j[i] ELSE k[i - a]
  OBVIOUS
<1>. HIDE DEF h
<1>5. h[a + 1] = L /\ j[a + 1] = L
  <2>1. a + 1 \in 1 .. a + b + 1 /\ ~(a + 1 <= a) /\ (a + 1) - a = 1
    BY <1>3
  <2>2. h[a + 1] = k[(a + 1) - a]
    BY <1>4, <2>1
  <2>. QED  BY <1>1, <1>2, <2>1, <2>2 DEF a
<1>6. h[1] = K
  <2>1. CASE a = 0
    BY <1>1, <1>5, <2>1 DEF a
  <2>2. CASE a # 0
    BY <1>1, <1>3, <1>4, <2>2
  <2>. QED  BY <2>1, <2>2
<1>7. h[Len(u) + 1] = M
  <2>1. a + b + 1 \in 1 .. a + b + 1 /\ ~(a + b + 1 <= a) /\ (a + b + 1) - a = b + 1
    BY <1>3
  <2>2. h[a + b + 1] = k[(a + b + 1) - a]
    BY <1>4, <2>1
  <2>. QED  BY <1>2, <1>3, <2>1, <2>2 DEF b
<1>8. ASSUME NEW i \in 1 .. Len(u) PROVE CallRule(e, u[i], h[i], h[i + 1])
  <2>0. i \in 1 .. a + b /\ i + 1 \in 1 .. a + b + 1 /\ i \in 1 .. a + b + 1
    BY <1>3
  <2>1. CASE i <= a
    <3>1. i \in 1 .. Len(s)
      BY <1>3, <2>0, <2>1 DEF a
    <3>2. u[i] = s[i] /\ h[i] = j[i]
      BY <1>3, <1>4, <2>0, <2>1
    <3>3. h[i + 1] = j[i + 1]
      <4>1. CASE i = a
        BY <1>5, <4>1
      <4>2. CASE i # a
        BY <1>3, <1>4, <2>0, <2>1, <4>2
      <4>. QED  BY <4>1, <4>2
    <3>. QED  BY <1>1, <3>1, <3>2, <3>3 DEF Follows
  <2>2. CASE ~(i <= a)
    <3>1. i - a \in 1 .. b /\ (i + 1) - a = (i - a) + 1 /\ ~(i + 1 <= a)
      BY <1>3, <2>0, <2>2
    <3>2. u[i] = t[i - a] /\ h[i] = k[i - a] /\ h[i + 1] = k[(i + 1) - a]
      BY <1>3, <1>4, <2>0, <2>2, <3>1
    <3>3. CallRule(e, t[i - a], k[i - a], k[(i - a) + 1])
      BY <1>2, <3>1 DEF Follows, b
    <3>. QED  BY <3>1, <3>2, <3>3
  <2>. QED  BY <2>1, <2>2
<1>. QED  BY <1>3, <1>6, <1>7, <1>8, Zenon DEF Plan, Follows, u

LEMMA PlanHead ==
  ASSUME NEW e, NEW s, NEW K, NEW L, Plan(e, s, K, L), s # <<>>
  PROVE  \E M : CallRule(e, Head(s), K, M) /\ Plan(e, Tail(s), M, L)
<1>1. PICK k : IsSeq(s) /\ k[1] = K /\ k[Len(s) + 1] = L /\ Follows(e, s, k)
  BY Zenon DEF Plan
<1>2. /\ IsSeq(Tail(s)) /\ Len(s) \in Nat \ {0} /\ Len(Tail(s)) = Len(s) - 1
      /\ Head(s) = s[1] /\ \A i \in 1 .. Len(s) - 1 : Tail(s)[i] = s[i + 1]
  BY <1>1, SeqTail
<1>. DEFINE n == Len(s)  u == Tail(s)  j == [i \in 1 .. n |-> k[i + 1]]
<1>3. CallRule(e, Head(s), K, k[2])
  <2>1. 1 \in 1 .. Len(s) /\ 1 + 1 = 2
    BY <1>2
  <2>. QED  BY <1>1, <1>2, <2>1 DEF Follows
<1>. HIDE DEF n, u
<1>4. \A i \in 1 .. n : j[i] = k[i + 1]
  OBVIOUS
<1>. HIDE DEF j
<1>5. j[1] = k[2] /\ j[Len(u) + 1] = L
  <2>1. n \in Nat \ {0} /\ Len(u) = n - 1
    BY <1>2 DEF n, u
  <2>2. 1 \in 1 .. n /\ n \in 1 .. n /\ Len(u) + 1 = n
    BY <2>1
  <2>. QED  BY <1>1, <1>4, <2>2 DEF n
<1>6. Follows(e, u, j)
  <2>. SUFFICES ASSUME NEW i \in 1 .. Len(u) PROVE CallRule(e, u[i], j[i], j[i + 1])
    BY DEF Follows
  <2>1. n \in Nat \ {0} /\ Len(u) = n - 1
    BY <1>2 DEF n, u
  <2>2. i + 1 \in 1 .. n /\ i \in 1 .. n /\ i \in 1 .. n - 1
    BY <2>1
  <2>3. u[i] = s[i + 1] /\ j[i] = k[i + 1] /\ j[i + 1] = k[(i + 1) + 1]
    BY <1>2, <1>4, <2>2 DEF u, n
  <2>4. CallRule(e, s[i + 1], k[i + 1], k[(i + 1) + 1])
    BY <1>1, <2>2 DEF Follows, n
  <2>. QED  BY <2>3, <2>4
<1>7. Plan(e, u, k[2], L)
  BY <1>2, <1>5, <1>6, Zenon DEF Plan, u
<1>. QED  BY <1>3, <1>7 DEF u

LEMMA PlanEnd == ASSUME NEW e, NEW K, NEW L, Plan(e, <<>>, K, L) PROVE K = L
<1>1. PICK k : k[1] = K /\ k[Len(<<>>) + 1] = L
  BY Zenon DEF Plan
<1>. QED  BY <1>1, SeqNone

\* A reset clears the layers of the call at its slot.
LEMMA ResetIs ==
  ASSUME StateType, NEW c, Reset(c), c.slot \in Slot
  PROVE  \A l \in 1 .. NL :
           /\ \A q \in 0 .. NSlots : LET own == l \in c.first .. c.last /\ q = c.slot IN
                /\ conv'[l][q] = IF own THEN <<>> ELSE conv[l][q]
                /\ scan'[l][q] = IF own THEN <<>> ELSE scan[l][q]
           /\ \A q \in Slot, p \in Pos :
                kv'[l][q][p] = IF l \in c.first .. c.last /\ q = c.slot THEN <<>> ELSE kv[l][q][p]
<1>. SUFFICES ASSUME NEW l \in 1 .. NL
              PROVE  /\ \A q \in 0 .. NSlots :
                          /\ conv'[l][q] = IF l \in c.first .. c.last /\ q = c.slot THEN <<>> ELSE conv[l][q]
                          /\ scan'[l][q] = IF l \in c.first .. c.last /\ q = c.slot THEN <<>> ELSE scan[l][q]
                     /\ \A q \in Slot, p \in Pos :
                          kv'[l][q][p] = IF l \in c.first .. c.last /\ q = c.slot THEN <<>> ELSE kv[l][q][p]
  OBVIOUS
<1>1. /\ conv[l] \in [0 .. NSlots -> History] /\ scan[l] \in [0 .. NSlots -> History]
      /\ kv[l] \in [Slot -> [Pos -> History]] /\ c.slot \in 0 .. NSlots
  BY SlotStripe DEF StateType
<1>2. /\ conv'[l] = IF l \in c.first .. c.last THEN [conv[l] EXCEPT ![c.slot] = <<>>] ELSE conv[l]
      /\ scan'[l] = IF l \in c.first .. c.last THEN [scan[l] EXCEPT ![c.slot] = <<>>] ELSE scan[l]
      /\ kv'[l] = IF l \in c.first .. c.last THEN [kv[l] EXCEPT ![c.slot] = [p \in Pos |-> <<>>]] ELSE kv[l]
  BY DEF Reset
<1>. DEFINE own == l \in c.first .. c.last
<1>. HIDE DEF own
<1>3. ASSUME NEW q \in 0 .. NSlots
      PROVE  /\ conv'[l][q] = IF own /\ q = c.slot THEN <<>> ELSE conv[l][q]
             /\ scan'[l][q] = IF own /\ q = c.slot THEN <<>> ELSE scan[l][q]
  <2>1. CASE own
    <3>1. /\ conv'[l] = [conv[l] EXCEPT ![c.slot] = <<>>] /\ scan'[l] = [scan[l] EXCEPT ![c.slot] = <<>>]
      BY <1>2, <2>1 DEF own
    <3>. QED  BY <1>1, <2>1, <3>1
  <2>2. CASE ~own
    BY <1>2, <2>2 DEF own
  <2>. QED  BY <2>1, <2>2
<1>4. ASSUME NEW q \in Slot, NEW p \in Pos
      PROVE  kv'[l][q][p] = IF own /\ q = c.slot THEN <<>> ELSE kv[l][q][p]
  <2>1. CASE own
    <3>. DEFINE none == [x \in Pos |-> <<>>]
    <3>1. kv'[l] = [kv[l] EXCEPT ![c.slot] = none] /\ none[p] = <<>>
      BY <1>2, <2>1 DEF own
    <3>. HIDE DEF none
    <3>2. kv'[l][q] = IF q = c.slot THEN none ELSE kv[l][q]
      BY <1>1, <3>1
    <3>. QED  BY <2>1, <3>1, <3>2
  <2>2. CASE ~own
    BY <1>2, <2>2 DEF own
  <2>. QED  BY <2>1, <2>2
<1>. QED  BY <1>3, <1>4 DEF own

\* What is known after a reset: the cleared layers of its slot hold the empty history.
LEMMA ResetKnows ==
  ASSUME StateType, NEW c, NEW X, NEW Y, Knows(X, conv, scan, kv, hid), ResetRule(c, X, Y), Reset(c)
  PROVE  Knows(Y, conv', scan', kv', hid)
<1>1. PICK s \in Slot : /\ c = ResetCall(s)
                        /\ \A y \in Y.st : (y \in X.st /\ y[2] # s) \/ \E l \in 1 .. NL : y = <<l, s, <<>>>>
                        /\ Y.hd \subseteq X.hd
  BY DEF ResetRule
<1>2. c.slot = s /\ \A l \in 1 .. NL : l \in c.first .. c.last
  BY <1>1, Sizes DEF ResetCall
<1>3. \A l \in 1 .. NL :
        /\ \A q \in 0 .. NSlots : /\ conv'[l][q] = IF q = s THEN <<>> ELSE conv[l][q]
                                  /\ scan'[l][q] = IF q = s THEN <<>> ELSE scan[l][q]
        /\ \A q \in Slot, p \in Pos : kv'[l][q][p] = IF q = s THEN <<>> ELSE kv[l][q][p]
  BY <1>2, ResetIs
<1>4. ASSUME NEW y \in Y.st PROVE HoldsAt(conv', scan', kv', y)
  <2>1. CASE y \in X.st /\ y[2] # s
    <3>1. HoldsAt(conv, scan, kv, y)
      BY <2>1 DEF Knows
    <3>2. y[1] \in 1 .. NL /\ y[2] \in 0 .. NSlots
      BY <3>1 DEF HoldsAt
    <3>. QED  BY <1>3, <2>1, <3>1, <3>2 DEF HoldsAt
  <2>2. CASE \E l \in 1 .. NL : y = <<l, s, <<>>>>
    <3>1. PICK l \in 1 .. NL : y = <<l, s, <<>>>>
      BY <2>2
    <3>2. y \in (1 .. NL) \X (0 .. NSlots) \X History
      BY <3>1, BadType, SlotStripe
    <3>3. y[1] = l /\ y[2] = s /\ y[3] = <<>> /\ \A p \in Pos : ~(p < Len(y[3]))
      BY <3>1, Sizes DEF Pos
    <3>. QED  BY <1>3, <3>2, <3>3, SlotStripe DEF HoldsAt
  <2>. QED  BY <1>1, <2>1, <2>2
<1>. QED  BY <1>1, <1>4 DEF Knows

\* What is known after a copy of stripes: the recurrent layers of the target hold what
\* the source held.
LEMMA CopyKnows ==
  ASSUME StateType, NEW c, NEW X, NEW Y, Knows(X, conv, scan, kv, hid), CopyRule(c, X, Y), CopyDnStripes(c)
  PROVE  Knows(Y, conv', scan', kv', hid)
<1>1. PICK a, b \in 0 .. NSlots :
        /\ c = CopyCall(a, b)
        /\ \A y \in Y.st : \/ y \in X.st /\ (y[2] # b \/ Layers[y[1]] = "attn")
                           \/ \E l \in 1 .. NL, h \in History :
                                Layers[l] = "rec" /\ <<l, a, h>> \in X.st /\ y = <<l, b, h>>
        /\ Y.hd \subseteq X.hd
  BY DEF CopyRule
<1>2. c.from = a /\ c.to = b
  BY <1>1 DEF CopyCall
<1>3. /\ kv' = kv
      /\ \A l \in 1 .. NL, q \in 0 .. NSlots : Layers[l] = "rec" =>
           /\ conv'[l][q] = IF q = b THEN conv[l][a] ELSE conv[l][q]
           /\ scan'[l][q] = IF q = b THEN scan[l][a] ELSE scan[l][q]
  <2>1. kv' = kv
    BY DEF CopyDnStripes
  <2>. SUFFICES ASSUME NEW l \in 1 .. NL, NEW q \in 0 .. NSlots, Layers[l] = "rec"
                PROVE  /\ conv'[l][q] = IF q = b THEN conv[l][a] ELSE conv[l][q]
                       /\ scan'[l][q] = IF q = b THEN scan[l][a] ELSE scan[l][q]
    BY <2>1
  <2>2. conv[l] \in [0 .. NSlots -> History] /\ scan[l] \in [0 .. NSlots -> History]
    BY DEF StateType
  <2>3. conv'[l] = [conv[l] EXCEPT ![b] = conv[l][a]] /\ scan'[l] = [scan[l] EXCEPT ![b] = scan[l][a]]
    BY <1>2 DEF CopyDnStripes
  <2>. QED  BY <2>2, <2>3
<1>4. ASSUME NEW y \in Y.st PROVE HoldsAt(conv', scan', kv', y)
  <2>1. CASE y \in X.st /\ (y[2] # b \/ Layers[y[1]] = "attn")
    <3>1. HoldsAt(conv, scan, kv, y)
      BY <2>1 DEF Knows
    <3>2. y[1] \in 1 .. NL /\ y[2] \in 0 .. NSlots
      BY <3>1 DEF HoldsAt
    <3>. QED  BY <1>3, <2>1, <3>1, <3>2 DEF HoldsAt
  <2>2. CASE \E l \in 1 .. NL, h \in History : Layers[l] = "rec" /\ <<l, a, h>> \in X.st /\ y = <<l, b, h>>
    <3>1. PICK l \in 1 .. NL, h \in History : Layers[l] = "rec" /\ <<l, a, h>> \in X.st /\ y = <<l, b, h>>
      BY <2>2
    <3>. DEFINE x == <<l, a, h>>
    <3>2. x[1] = l /\ x[2] = a /\ x[3] = h /\ y[1] = l /\ y[2] = b /\ y[3] = h
      BY <3>1
    <3>3. y \in (1 .. NL) \X (0 .. NSlots) \X History
      BY <3>1
    <3>4. x \in X.st
      BY <3>1
    <3>. HIDE DEF x
    <3>5. HoldsAt(conv, scan, kv, x)
      BY <3>4 DEF Knows
    <3>6. conv[l][a] = h /\ scan[l][a] = h
      BY <3>1, <3>2, <3>5 DEF HoldsAt
    <3>7. conv'[l][b] = h /\ scan'[l][b] = h
      BY <1>3, <3>1, <3>6
    <3>. QED  BY <3>1, <3>2, <3>3, <3>7 DEF HoldsAt
  <2>. QED  BY <1>1, <2>1, <2>2
<1>. QED  BY <1>1, <1>4 DEF Knows

\* What a call leaves when it began in H: facts it does not touch, and the histories of
\* the last rows it folds in.
Untouched(e, y) ==
  y[1] \in RangeOf(e) =>
    IF Layers[y[1]] = "rec" THEN \A i \in AllRows(e) : StripeIn(e, i) # y[2]
    ELSE \A i \in AllRows(e) : SlotIn(e, i) = y[2] => ~(AtOf(e, i) < Len(y[3]))
\* What a run leaves of X: what it does not touch stays, what its last rows write is new,
\* and the rows it hands on are the ones asked for.
Leaves(e, H, X) ==
  /\ \A y \in X.st :
       \/ HoldsAt(H.conv, H.scan, H.kv, y) /\ Untouched(e, y)
       \/ \E i \in Live(e), l \in RangeOf(e) :
            /\ LastRow(e, i)
            /\ y = <<l, IF Layers[l] = "rec" THEN StripeIn(e, i) ELSE SlotIn(e, i), RowIn(e, i)>>
  /\ \A y \in X.hd :
       /\ y \in Pos \X Nat
       /\ \/ H.hid[y[1]] = <<"x", y[2]>> /\ \A i \in AllRows(e) : AtOf(e, i) # y[1]
          \/ Cut(e) /\ \E i \in AllRows(e) : y = <<AtOf(e, i), e.r.last + 1>>

\* A call on a stripe that is not its slot's leaves the slot's own state alone.
Kept(e, H) ==
  Batched(e) /\ e.r.stripe # e.r.slot =>
    \A l \in 1 .. NL : HoldsAt(H.conv, H.scan, H.kv, <<l, e.r.slot, Front(RowIn(e, 0))>>)

\* Who runs step CBs on the grids of an earlier step.
Asks(e) == ~Batched(e) => e.r.fill = TRUE \/ e.r.by = "serialPrefillLogits"

\* A call is under way that will leave X.
Running(X) ==
  \E H, K, L : /\ Ready(Env, H) /\ Leaves(Env, H, X) /\ Kept(Env, H) /\ Asks(Env)
               /\ Models(Env, K, H) /\ Fine(Env, cb, K, L) /\ Ended(Env, L)

\* Every epoch of a running CB keeps it on the way to its end.
LEMMA EpochRuns ==
  ASSUME IsRun(Env), StateType, Epoch, NEW X, Running(X) PROVE Running(X)'
<1>1. PICK H, K, L : /\ Ready(Env, H) /\ Leaves(Env, H, X) /\ Kept(Env, H) /\ Asks(Env)
                     /\ Models(Env, K, H) /\ Fine(Env, cb, K, L) /\ Ended(Env, L)
  BY DEF Running
<1>2. cb # <<>> /\ cb' = Tail(cb)
  BY DEF Epoch
<1>3. PICK M : Rule(Env, Head(cb), K, M) /\ Fine(Env, Tail(cb), M, L)
  BY <1>1, <1>2, FineHead
<1>4. Models(Env, M, H)'
  BY <1>1, <1>3, EpochHolds
<1>5. Env' = Env
  BY Quiet
<1>. DEFINE e == Env
<1>7. /\ Ready(e', H) /\ Leaves(e', H, X) /\ Kept(e', H) /\ Asks(e') /\ Fine(e', cb', M, L) /\ Ended(e', L)
  BY <1>1, <1>2, <1>3, <1>5
<1>. QED  BY <1>4, <1>7 DEF Running

\* A fact of the state before the call that the call does not touch.
LEMMA UntouchedHolds ==
  ASSUME IsRun(Env), NEW L, NEW H, Models(Env, L, H), Ended(Env, L),
         NEW y, HoldsAt(H.conv, H.scan, H.kv, y), Untouched(Env, y)
  PROVE  HoldsAt(conv, scan, kv, y)
<1>. DEFINE l == y[1]  s == y[2]
<1>1. /\ y \in (1 .. NL) \X (0 .. NSlots) \X History /\ l \in 1 .. NL /\ s \in 0 .. NSlots
      /\ IF Layers[l] = "rec" THEN H.conv[l][s] = y[3] /\ H.scan[l][s] = y[3]
         ELSE s \in Slot => \A p \in Pos : p < Len(y[3]) => H.kv[l][s][p] = SubSeq(y[3], 1, p + 1)
  BY DEF HoldsAt
<1>2. /\ L.cv \subseteq RangeOf(Env) /\ L.sc = L.cv /\ L.ks \subseteq RangeOf(Env)
  <2>1. \A t : Done(t, FirstOf(Env), LastOf(Env) + 1) \subseteq RangeOf(Env)
    <3>1. FirstOf(Env) \in Int /\ LastOf(Env) \in Int
      <4>1. CASE IsBatch(run)
        <5>1. PICK h, t : BatchOf(run, h, t)
          BY <4>1 DEF IsBatch
        <5>. QED  BY <5>1, BatchRows, Sizes, EnvIs DEF FirstOf, LastOf, Batched, BatchOf
      <4>2. CASE IsSerial(run)
        BY <4>2, SerialRows, Sizes, EnvIs DEF FirstOf, LastOf, Batched, IsSerial
      <4>. QED  BY <4>1, <4>2, EnvIs DEF IsRun
    <3>. QED  BY <3>1 DEF Done, RangeOf
  <2>. QED  BY <2>1 DEF Ended
<1>3. /\ StripesOK(Env, L.cv, conv, H.conv) /\ StripesOK(Env, L.sc, scan, H.scan) /\ KeysOK(Env, L.ks, kv, H.kv)
  BY DEF Models
<1>4. CASE Layers[l] = "rec"
  <2>1. conv[l][s] = H.conv[l][s]
    BY <1>1, <1>2, <1>3, <1>4 DEF StripesOK, Untouched
  <2>2. scan[l][s] = H.scan[l][s]
    BY <1>1, <1>2, <1>3, <1>4 DEF StripesOK, Untouched
  <2>. QED  BY <1>1, <1>4, <2>1, <2>2 DEF HoldsAt
<1>5. CASE Layers[l] # "rec"
  <2>1. ASSUME s \in Slot, NEW p \in Pos, p < Len(y[3]) PROVE kv[l][s][p] = H.kv[l][s][p]
    <3>1. CASE l \in L.ks
      <4>1. \A i \in AllRows(Env) : SlotIn(Env, i) = s => AtOf(Env, i) # p
        BY <1>2, <1>5, <2>1, <3>1 DEF Untouched
      <4>. QED  BY <1>1, <1>3, <2>1, <3>1, <4>1 DEF KeysOK
    <3>2. CASE l \notin L.ks
      BY <1>1, <1>3, <3>2 DEF KeysOK
    <3>. QED  BY <3>1, <3>2
  <2>. QED  BY <1>1, <1>5, <2>1 DEF HoldsAt
<1>. QED  BY <1>4, <1>5

\* The history of a last row.
LEMMA FoldedHolds ==
  ASSUME IsRun(Env), NEW L, NEW H, Models(Env, L, H), Ready(Env, H), Ended(Env, L),
         NEW i \in Live(Env), NEW l \in RangeOf(Env), LastRow(Env, i), NEW y,
         y = <<l, IF Layers[l] = "rec" THEN StripeIn(Env, i) ELSE SlotIn(Env, i), RowIn(Env, i)>>
  PROVE  HoldsAt(conv, scan, kv, y)
<1>. DEFINE s == IF Layers[l] = "rec" THEN StripeIn(Env, i) ELSE SlotIn(Env, i)
<1>1. /\ l \in 1 .. NL /\ i \in AllRows(Env) /\ RowIn(Env, i) \in History
      /\ SlotIn(Env, i) \in Slot /\ StripeIn(Env, i) \in 0 .. NSlots /\ AtOf(Env, i) \in Pos
      /\ Len(RowIn(Env, i)) = AtOf(Env, i) + 1
  BY RowFacts
<1>2. y[1] = l /\ y[2] = s /\ y[3] = RowIn(Env, i) /\ s \in 0 .. NSlots
  BY <1>1, SlotStripe
<1>3. y \in (1 .. NL) \X (0 .. NSlots) \X History
  BY <1>1, <1>2
<1>4. IF Layers[l] = "rec" THEN l \in L.cv /\ l \in L.sc ELSE l \in L.ks
  <2>1. FirstOf(Env) \in Int /\ LastOf(Env) \in Int
    <4>1. CASE IsBatch(run)
      <5>1. PICK h, t : BatchOf(run, h, t)
        BY <4>1 DEF IsBatch
      <5>. QED  BY <5>1, BatchRows, Sizes, EnvIs DEF FirstOf, LastOf, Batched, BatchOf
    <4>2. CASE IsSerial(run)
      BY <4>2, SerialRows, Sizes, EnvIs DEF FirstOf, LastOf, Batched, IsSerial
    <4>. QED  BY <4>1, <4>2, EnvIs DEF IsRun
  <2>2. l \in FirstOf(Env) .. (LastOf(Env) + 1) - 1 /\ Layers[l] \in {"rec", "attn"}
    BY <1>1, <2>1, LayerKinds DEF RangeOf
  <2>. QED  BY <2>2 DEF Done, Ended
<1>5. CASE Layers[l] = "rec"
  <2>1. conv[l][StripeIn(Env, i)] = RowIn(Env, i) /\ scan[l][StripeIn(Env, i)] = RowIn(Env, i)
    BY <1>1, <1>4, <1>5 DEF Models, StripesOK
  <2>. QED  BY <1>2, <1>3, <1>5, <2>1 DEF HoldsAt
<1>6. CASE Layers[l] # "rec"
  <2>1. Layers[l] = "attn"
    BY <1>1, <1>6, LayerKinds
  <2>2. \A p : p \in 0 .. At(i) => kv[l][SlotOf(i)][p] = SubSeq(R[i], 1, p + 1)
    <3>. DEFINE ps == 0 .. At(i)
    <3>1. Keys(l, i, ps)
      <4>1. ps \subseteq 0 .. At(i)
        OBVIOUS
      <4>. HIDE DEF ps
      <4>. QED  BY <1>4, <1>6, <2>1, <4>1, KeysKnown
    <3>. QED  BY <3>1 DEF Keys
  <2>3. At(i) = AtOf(Env, i) /\ SlotOf(i) = SlotIn(Env, i) /\ R[i] = RowIn(Env, i)
    BY EnvIs
  <2>4. \A p \in Pos : p < Len(RowIn(Env, i)) => p \in 0 .. AtOf(Env, i)
    BY <1>1, Sizes DEF Pos
  <2>5. \A p \in Pos : p < Len(y[3]) => kv[l][y[2]][p] = SubSeq(y[3], 1, p + 1)
    BY <1>2, <1>6, <2>2, <2>3, <2>4
  <2>. QED  BY <1>2, <1>3, <1>6, <2>5 DEF HoldsAt
<1>. QED  BY <1>5, <1>6

\* So when it has run, what it leaves is known.
LEMMA EndKnows ==
  ASSUME IsRun(Env), NEW L, NEW H, Models(Env, L, H), Ready(Env, H), Ended(Env, L), NEW X, Leaves(Env, H, X)
  PROVE  Knows(X, conv, scan, kv, hid)
<1>1. ASSUME NEW y \in X.st PROVE HoldsAt(conv, scan, kv, y)
  <2>1. \/ HoldsAt(H.conv, H.scan, H.kv, y) /\ Untouched(Env, y)
        \/ \E i \in Live(Env), l \in RangeOf(Env) :
             /\ LastRow(Env, i)
             /\ y = <<l, IF Layers[l] = "rec" THEN StripeIn(Env, i) ELSE SlotIn(Env, i), RowIn(Env, i)>>
    BY DEF Leaves
  <2>. QED  BY <2>1, UntouchedHolds, FoldedHolds
<1>2. ASSUME NEW y \in X.hd PROVE y \in Pos \X Nat /\ hid[y[1]] = <<"x", y[2]>>
  <2>1. /\ y \in Pos \X Nat
        /\ \/ H.hid[y[1]] = <<"x", y[2]>> /\ \A i \in AllRows(Env) : AtOf(Env, i) # y[1]
           \/ Cut(Env) /\ \E i \in AllRows(Env) : y = <<AtOf(Env, i), Env.r.last + 1>>
    BY DEF Leaves
  <2>2. y[1] \in Pos /\ HidOK(Env, L.ho, hid, H.hid)
    BY <2>1 DEF Models
  <2>3. CASE H.hid[y[1]] = <<"x", y[2]>> /\ \A i \in AllRows(Env) : AtOf(Env, i) # y[1]
    BY <2>1, <2>2, <2>3 DEF HidOK
  <2>4. CASE Cut(Env) /\ \E i \in AllRows(Env) : y = <<AtOf(Env, i), Env.r.last + 1>>
    <3>1. L.ho
      BY <2>4 DEF Ended
    <3>2. PICK i \in AllRows(Env) : y = <<AtOf(Env, i), Env.r.last + 1>>
      BY <2>4
    <3>3. y[1] = AtOf(Env, i) /\ y[2] = Env.r.last + 1
      BY <3>2
    <3>. QED  BY <2>1, <2>2, <3>1, <3>3 DEF HidOK
  <2>. QED  BY <2>1, <2>3, <2>4
<1>. QED  BY <1>1, <1>2 DEF Knows

\* The rows of a batch of t after h.
LEMMA BatchParts ==
  ASSUME NEW e, NEW h, NEW t, BatchOf(e.r, h, t)
  PROVE  /\ Batched(e) /\ AllRows(e) = 0 .. Len(t) - 1 /\ Live(e) = AllRows(e)
         /\ Len(t) \in Nat \ {0} /\ Len(h) \in Nat /\ Len(h) + Len(t) <= NCtx
         /\ RangeOf(e) = e.r.first .. e.r.last /\ RangeOf(e) \subseteq 1 .. NL
         /\ \A i : FirstRow(e, i) = 0 /\ SlotIn(e, i) = e.r.slot /\ StripeIn(e, i) = e.r.stripe
         /\ \A i \in AllRows(e) : AtOf(e, i) = Len(h) + i
         /\ 0 \in AllRows(e) /\ Front(RowIn(e, 0)) = h /\ Len(e.r.rows[0]) = Len(h) + 1
         /\ Len(t) - 1 \in AllRows(e) /\ LastRow(e, Len(t) - 1) /\ RowIn(e, Len(t) - 1) = h \o t
<1>. DEFINE n == Len(t)  b == Len(h)
<1>1. /\ e.r.kind = "batch" /\ DOMAIN e.r.rows = 0 .. n - 1 /\ n \in Nat \ {0} /\ b \in Nat
  BY BatchRows
<1>2. /\ h \in Seq(Nat) /\ t \in Seq(Nat) /\ b + n <= NCtx
      /\ e.r.first \in 1 .. NL /\ e.r.last \in e.r.first .. NL
  BY DEF BatchOf, History
<1>3. /\ Batched(e) /\ AllRows(e) = 0 .. n - 1 /\ Live(e) = AllRows(e) /\ RangeOf(e) = e.r.first .. e.r.last
      /\ \A i : FirstRow(e, i) = 0 /\ SlotIn(e, i) = e.r.slot /\ StripeIn(e, i) = e.r.stripe
      /\ \A i : LastRow(e, i) <=> i + 1 \notin AllRows(e)
  BY <1>1 DEF Batched, AllRows, Live, RangeOf, FirstOf, LastOf, FirstRow, SlotIn, StripeIn, LastRow
<1>4. \A i \in 0 .. n - 1 : /\ RowIn(e, i) \in Seq(Nat) /\ Len(RowIn(e, i)) = b + i + 1
                            /\ \A k \in 1 .. b : RowIn(e, i)[k] = h[k]
                            /\ \A k \in 1 .. i + 1 : RowIn(e, i)[b + k] = t[k]
  <2>. SUFFICES ASSUME NEW i \in 0 .. n - 1
                PROVE  /\ RowIn(e, i) \in Seq(Nat) /\ Len(RowIn(e, i)) = b + i + 1
                       /\ \A k \in 1 .. b : RowIn(e, i)[k] = h[k]
                       /\ \A k \in 1 .. i + 1 : RowIn(e, i)[b + k] = t[k]
    OBVIOUS
  <2>1. RowIn(e, i) = RowOf(e.r, i)
    BY DEF RowIn, RowOf
  <2>2. /\ RowOf(e.r, i) \in History /\ Len(RowOf(e.r, i)) = Len(h) + i + 1
        /\ \A k \in 1 .. Len(h) : RowOf(e.r, i)[k] = h[k]
        /\ \A k \in 1 .. i + 1 : RowOf(e.r, i)[Len(h) + k] = t[k]
    BY BatchRow
  <2>. QED  BY <2>1, <2>2 DEF History
<1>. HIDE DEF n, b
<1>5. 0 \in 0 .. n - 1 /\ n - 1 \in 0 .. n - 1 /\ (n - 1) + 1 \notin 0 .. n - 1 /\ (n - 1) + 1 = n
  BY <1>1
<1>6. \A i \in 0 .. n - 1 : AtOf(e, i) = b + i
  <2>. SUFFICES ASSUME NEW i \in 0 .. n - 1 PROVE AtOf(e, i) = b + i
    OBVIOUS
  <2>1. AtOf(e, i) = Len(RowIn(e, i)) - 1 /\ Len(RowIn(e, i)) = b + i + 1
    BY <1>4 DEF AtOf, RowIn
  <2>. QED  BY <1>1, <2>1
<1>7. Front(RowIn(e, 0)) = h /\ Len(e.r.rows[0]) = b + 1
  <2>. DEFINE y == RowIn(e, 0)  v == Front(y)
  <2>1. y \in Seq(Nat) /\ Len(y) = b + 1 /\ \A k \in 1 .. b : y[k] = h[k]
    BY <1>1, <1>4, <1>5
  <2>2. Len(e.r.rows[0]) = b + 1
    BY <2>1 DEF RowIn
  <2>. HIDE DEF y
  <2>3. v \in Seq(Nat) /\ Len(v) = b /\ \A k \in 1 .. b : v[k] = y[k]
    BY <1>1, <2>1 DEF Front
  <2>. HIDE DEF v
  <2>4. v = h
    BY <1>2, <2>1, <2>3, SeqEqual DEF b
  <2>. QED  BY <2>2, <2>4 DEF v, y
<1>8. RowIn(e, n - 1) = h \o t
  <2>. DEFINE y == RowIn(e, n - 1)  w == h \o t
  <2>1. /\ y \in Seq(Nat) /\ Len(y) = b + n /\ \A k \in 1 .. b : y[k] = h[k]
        /\ \A k \in 1 .. n : y[b + k] = t[k]
    <3>1. b + (n - 1) + 1 = b + n
      BY <1>1
    <3>. QED  BY <1>4, <1>5, <3>1
  <2>. HIDE DEF y
  <2>2. /\ w \in Seq(Nat) /\ Len(w) = b + n
        /\ \A k \in 1 .. b + n : w[k] = IF k <= b THEN h[k] ELSE t[k - b]
    BY <1>2, ConcatProperties DEF b, n
  <2>. HIDE DEF w
  <2>3. \A k \in 1 .. b + n : y[k] = w[k]
    <3>. SUFFICES ASSUME NEW k \in 1 .. b + n PROVE y[k] = w[k]
      OBVIOUS
    <3>1. CASE k <= b
      <4>1. k \in 1 .. b
        BY <1>1, <3>1
      <4>. QED  BY <2>1, <2>2, <3>1, <4>1
    <3>2. CASE ~(k <= b)
      <4>1. k - b \in 1 .. n /\ b + (k - b) = k
        BY <1>1, <3>2
      <4>2. y[b + (k - b)] = t[k - b]
        BY <2>1, <4>1
      <4>. QED  BY <2>2, <3>2, <4>1, <4>2
    <3>. QED  BY <3>1, <3>2
  <2>4. y = w
    BY <2>1, <2>2, <2>3, SeqEqual
  <2>. QED  BY <2>4 DEF y, w
<1>9. e.r.first .. e.r.last \subseteq 1 .. NL
  BY <1>2, Sizes
<1>. QED  BY <1>1, <1>2, <1>3, <1>5, <1>6, <1>7, <1>8, <1>9 DEF n, b

\* What a batch rule asks and leaves, of batch h, t.
BatchStep(c, h, t, X, Y) ==
  /\ BatchOf(c, h, t)
  /\ h = <<>> => c.stripe = c.slot
  /\ h # <<>> => \A l \in c.first .. c.last :
       <<l, c.slot, h>> \in X.st /\ (Layers[l] = "rec" => <<l, c.stripe, h>> \in X.st)
  /\ c.stripe # c.slot => c.first = 1 /\ c.last = NL
  /\ c.first # 1 => \A p \in Pos : Len(h) <= p /\ p < Len(h) + Len(t) => <<p, c.first>> \in X.hd
  /\ \A y \in Y.st :
       \/ /\ y \in X.st
          /\ y[1] \in c.first .. c.last =>
               IF Layers[y[1]] = "rec" THEN y[2] # c.stripe ELSE y[2] # c.slot \/ Len(y[3]) <= Len(h)
       \/ \E l \in c.first .. c.last :
            y = <<l, IF Layers[l] = "rec" THEN c.stripe ELSE c.slot, h \o t>>
  /\ \A y \in Y.hd :
       \/ y \in X.hd /\ ~(Len(h) <= y[1] /\ y[1] < Len(h) + Len(t))
       \/ c.last < NL /\ \E p \in Pos : Len(h) <= p /\ p < Len(h) + Len(t) /\ y = <<p, c.last + 1>>

\* The two readings of what a batch does agree.
LEMMA BatchRuleStep ==
  ASSUME NEW c, NEW X, NEW Y
  PROVE  BatchRule(c, X, Y) <=> \E h, t : BatchStep(c, h, t, X, Y)
BY DEF BatchRule, BatchStep

\* The state a batch begins in: a batch that starts a history clears its layers.
LEMMA BatchState ==
  ASSUME StateType, NEW c, NEW h, NEW t, NEW X, NEW Y, Knows(X, conv, scan, kv, hid), BatchStep(c, h, t, X, Y),
         IF Len(c.rows[0]) = 1 THEN Reset(c) ELSE UNCHANGED state
  PROVE  /\ \A l \in c.first .. c.last :
              IF Layers[l] = "rec" THEN conv'[l][c.slot] = h /\ scan'[l][c.stripe] = h
              ELSE \A p \in Pos : p < Len(h) => kv'[l][c.slot][p] = SubSeq(h, 1, p + 1)
         /\ \A y : /\ HoldsAt(conv, scan, kv, y)
                   /\ y[1] \in c.first .. c.last =>
                        IF Layers[y[1]] = "rec" THEN y[2] # c.stripe ELSE y[2] # c.slot \/ Len(y[3]) <= Len(h)
                   => HoldsAt(conv', scan', kv', y)
<1>. DEFINE e == [c |-> cfg, r |-> c, g |-> indirect]
<1>0. e.r = c
  OBVIOUS
<1>1. /\ BatchOf(c, h, t) /\ h \in Seq(Nat) /\ c.slot \in Slot /\ c.stripe \in 0 .. NSlots
      /\ c.first .. c.last \subseteq 1 .. NL /\ Len(h) \in Nat
      /\ Len(c.rows[0]) = Len(h) + 1
  <2>1. BatchOf(e.r, h, t)
    BY <1>0 DEF BatchStep
  <2>2. RangeOf(e) = e.r.first .. e.r.last /\ RangeOf(e) \subseteq 1 .. NL /\ Len(e.r.rows[0]) = Len(h) + 1 /\ Len(h) \in Nat
    BY <2>1, BatchParts
  <2>. QED  BY <1>0, <2>1, <2>2, SlotStripe DEF BatchOf, History
<1>. HIDE DEF e
<1>2. CASE h = <<>>
  <2>1. Len(h) = 0 /\ Len(c.rows[0]) = 1 /\ c.stripe = c.slot
    BY <1>1, <1>2 DEF BatchStep
  <2>2. /\ \A l \in 1 .. NL :
             /\ \A q \in 0 .. NSlots :
                  /\ conv'[l][q] = IF l \in c.first .. c.last /\ q = c.slot THEN <<>> ELSE conv[l][q]
                  /\ scan'[l][q] = IF l \in c.first .. c.last /\ q = c.slot THEN <<>> ELSE scan[l][q]
             /\ \A q \in Slot, p \in Pos :
                  kv'[l][q][p] = IF l \in c.first .. c.last /\ q = c.slot THEN <<>> ELSE kv[l][q][p]
    BY <1>1, <2>1, ResetIs
  <2>3. ASSUME NEW l \in c.first .. c.last
        PROVE  IF Layers[l] = "rec" THEN conv'[l][c.slot] = h /\ scan'[l][c.stripe] = h
               ELSE \A p \in Pos : p < Len(h) => kv'[l][c.slot][p] = SubSeq(h, 1, p + 1)
    <3>1. l \in 1 .. NL /\ \A p \in Pos : ~(p < Len(h))
      BY <1>1, <2>1, Sizes DEF Pos
    <3>2. c.slot \in 0 .. NSlots
      BY <1>1, SlotStripe
    <3>. QED  BY <1>2, <2>1, <2>2, <3>1, <3>2
  <2>4. ASSUME NEW y, HoldsAt(conv, scan, kv, y),
               y[1] \in c.first .. c.last =>
                 IF Layers[y[1]] = "rec" THEN y[2] # c.stripe ELSE y[2] # c.slot \/ Len(y[3]) <= Len(h)
        PROVE  HoldsAt(conv', scan', kv', y)
    <3>1. y \in (1 .. NL) \X (0 .. NSlots) \X History /\ y[1] \in 1 .. NL /\ y[2] \in 0 .. NSlots /\ y[3] \in History
      BY <2>4 DEF HoldsAt
    <3>2. CASE Layers[y[1]] = "rec"
      <4>1. conv'[y[1]][y[2]] = conv[y[1]][y[2]] /\ scan'[y[1]][y[2]] = scan[y[1]][y[2]]
        BY <2>1, <2>2, <2>4, <3>1, <3>2
      <4>. QED  BY <2>4, <3>1, <3>2, <4>1 DEF HoldsAt
    <3>3. CASE Layers[y[1]] # "rec"
      <4>1. ASSUME y[2] \in Slot, NEW p \in Pos, p < Len(y[3])
            PROVE  kv'[y[1]][y[2]][p] = kv[y[1]][y[2]][p]
        <5>1. Len(y[3]) \in Nat /\ p \in Nat /\ ~(Len(y[3]) <= Len(h))
          <6>1. Len(y[3]) \in Nat /\ p \in Nat
            BY <3>1, Sizes DEF History, Pos
          <6>. QED  BY <2>1, <4>1, <6>1
        <5>. QED  BY <2>2, <2>4, <3>1, <3>3, <4>1, <5>1
      <4>. QED  BY <2>4, <3>1, <3>3, <4>1 DEF HoldsAt
    <3>. QED  BY <3>2, <3>3
  <2>. QED  BY <2>3, <2>4
<1>3. CASE h # <<>>
  <2>1. Len(c.rows[0]) # 1
    BY <1>1, <1>3
  <2>2. conv' = conv /\ scan' = scan /\ kv' = kv
    BY <2>1 DEF state
  <2>3. ASSUME NEW l \in c.first .. c.last
        PROVE  IF Layers[l] = "rec" THEN conv[l][c.slot] = h /\ scan[l][c.stripe] = h
               ELSE \A p \in Pos : p < Len(h) => kv[l][c.slot][p] = SubSeq(h, 1, p + 1)
    <3>. DEFINE x == <<l, c.slot, h>>  z == <<l, c.stripe, h>>
    <3>1. x \in X.st /\ (Layers[l] = "rec" => z \in X.st)
      BY <1>3 DEF BatchStep
    <3>2. x[1] = l /\ x[2] = c.slot /\ x[3] = h /\ z[1] = l /\ z[2] = c.stripe /\ z[3] = h
      OBVIOUS
    <3>. HIDE DEF x, z
    <3>3. HoldsAt(conv, scan, kv, x) /\ (Layers[l] = "rec" => HoldsAt(conv, scan, kv, z))
      BY <3>1 DEF Knows
    <3>. QED  BY <1>1, <3>2, <3>3 DEF HoldsAt
  <2>. QED  BY <2>2, <2>3
<1>. QED  BY <1>2, <1>3

\* At the start of a CB nothing is known of the activations, and the state is what it was.
LEMMA BegunHolds ==
  ASSUME NEW H, H = [conv |-> conv', scan |-> scan', kv |-> kv', hid |-> hid']
  PROVE  Models(Env, Begin, H)'
<1>1. /\ Begin.f = {} /\ Begin.tl = 0 /\ Begin.pt = 0 /\ Begin.cv = {} /\ Begin.sc = {} /\ Begin.ks = {}
      /\ Begin.sd = FALSE /\ Begin.ho = FALSE
  BY DEF Begin, Kn, Know
<1>2. H.conv = conv' /\ H.scan = scan' /\ H.kv = kv' /\ H.hid = hid'
  OBVIOUS
<1>. QED  BY <1>1, <1>2 DEF Models, MemOK, TilesOK, PartOK, StripesOK, KeysOK, SeedOK, HidOK

\* A batch that is submitted runs towards what its rule promises.
LEMMA BatchStarts ==
  ASSUME StateType, cfg \in Configs, NEW c, NEW X, NEW Y, Knows(X, conv, scan, kv, hid), BatchRule(c, X, Y),
         IF Len(c.rows[0]) = 1 THEN Reset(c) ELSE UNCHANGED state,
         cfg' = cfg, run' = c, cb' = BatchCB(c), indirect' = indirect, hid' = hid
  PROVE  Running(Y)'
<1>. DEFINE e == Env'
<1>0. PICK H : H = [conv |-> conv', scan |-> scan', kv |-> kv', hid |-> hid']
  OBVIOUS
<1>1. e.c = cfg /\ e.r = c /\ e.g = indirect
  BY DEF Env
<1>2. H.conv = conv' /\ H.scan = scan' /\ H.kv = kv' /\ H.hid = hid
  BY <1>0
<1>3. Models(Env, Begin, H)'
  BY <1>0, BegunHolds
<1>4. PICK h, t : BatchStep(c, h, t, X, Y)
  BY BatchRuleStep
<1>. HIDE DEF e
<1>5. /\ BatchOf(e.r, h, t) /\ BatchOf(c, h, t)
  BY <1>1, <1>4 DEF BatchStep
<1>6. PICK L : Fine(e, BatchCB(c), Begin, L) /\ Ended(e, L)
  <2>1. BatchEnv(e)
    BY <1>1, <1>5 DEF BatchEnv, IsBatch
  <2>. QED  BY <1>1, <2>1, BatchFine
<1>7. /\ Batched(e) /\ AllRows(e) = 0 .. Len(t) - 1 /\ Live(e) = AllRows(e)
      /\ Len(t) \in Nat \ {0} /\ Len(h) \in Nat /\ Len(h) + Len(t) <= NCtx
      /\ RangeOf(e) = c.first .. c.last /\ RangeOf(e) \subseteq 1 .. NL
      /\ \A i : FirstRow(e, i) = 0 /\ SlotIn(e, i) = c.slot /\ StripeIn(e, i) = c.stripe
      /\ \A i \in AllRows(e) : AtOf(e, i) = Len(h) + i
      /\ 0 \in AllRows(e) /\ Front(RowIn(e, 0)) = h
      /\ Len(t) - 1 \in AllRows(e) /\ LastRow(e, Len(t) - 1) /\ RowIn(e, Len(t) - 1) = h \o t
  BY <1>1, <1>5, BatchParts
<1>8. c.slot \in Slot /\ c.slot # Scratch /\ h \in History /\ c.last \in Nat /\ AtOf(e, 0) = Len(h)
  <2>1. c.slot \in Slot /\ h \in History /\ c.last \in Nat
    BY <1>5, Sizes DEF BatchOf
  <2>2. AtOf(e, 0) = Len(h)
    <3>1. AtOf(e, 0) = Len(h) + 0 /\ Len(h) \in Nat
      BY <1>7
    <3>. QED  BY <3>1
  <2>. QED  BY <2>1, <2>2, Sizes DEF Slot, Scratch
<1>9. /\ \A l \in c.first .. c.last :
           IF Layers[l] = "rec" THEN conv'[l][c.slot] = h /\ scan'[l][c.stripe] = h
           ELSE \A p \in Pos : p < Len(h) => kv'[l][c.slot][p] = SubSeq(h, 1, p + 1)
      /\ \A y : /\ HoldsAt(conv, scan, kv, y)
                /\ y[1] \in c.first .. c.last =>
                     IF Layers[y[1]] = "rec" THEN y[2] # c.stripe ELSE y[2] # c.slot \/ Len(y[3]) <= Len(h)
                => HoldsAt(conv', scan', kv', y)
  BY <1>4, BatchState
<1>10. \A i \in AllRows(e) : AtOf(e, i) \in Pos /\ Len(h) <= AtOf(e, i) /\ AtOf(e, i) < Len(h) + Len(t)
  <2>. SUFFICES ASSUME NEW i \in 0 .. Len(t) - 1
                PROVE  Len(h) + i \in Pos /\ Len(h) <= Len(h) + i /\ Len(h) + i < Len(h) + Len(t)
    BY <1>7
  <2>. DEFINE a == Len(h)  b == Len(t)
  <2>1. a \in Nat /\ b \in Nat /\ a + b <= NCtx /\ i \in 0 .. b - 1
    BY <1>7
  <2>. HIDE DEF a, b
  <2>2. a + i \in Pos /\ a <= a + i /\ a + i < a + b
    BY <2>1, Sizes DEF Pos
  <2>. QED  BY <2>2 DEF a, b
<1>11. Ready(e, H)
  <2>1. ASSUME NEW l \in RangeOf(e), Layers[l] = "rec", NEW i \in Live(e)
        PROVE  /\ H.scan[l][StripeIn(e, i)] = Front(RowIn(e, FirstRow(e, i)))
               /\ H.conv[l][SlotIn(e, i)] = Front(RowIn(e, FirstRow(e, i)))
    BY <1>2, <1>7, <1>9, <2>1
  <2>2. ASSUME NEW l \in RangeOf(e), Layers[l] = "attn", NEW i \in Live(e), NEW p \in Pos,
               p < AtOf(e, FirstRow(e, i))
        PROVE  H.kv[l][SlotIn(e, i)][p] = SubSeq(Front(RowIn(e, FirstRow(e, i))), 1, p + 1)
    <3>1. FirstRow(e, i) = 0 /\ SlotIn(e, i) = c.slot /\ Front(RowIn(e, 0)) = h /\ AtOf(e, 0) = Len(h)
      BY <1>7, <1>8
    <3>2. p < Len(h) /\ l \in c.first .. c.last /\ Layers[l] # "rec"
      BY <1>7, <2>2, <3>1
    <3>3. kv'[l][c.slot][p] = SubSeq(h, 1, p + 1)
      BY <1>9, <2>2, <3>2
    <3>. QED  BY <1>2, <3>1, <3>3
  <2>3. ASSUME c.first # 1, NEW i \in AllRows(e)
        PROVE  H.hid[AtOf(e, i)] = <<"x", c.first>>
    <3>. DEFINE x == <<AtOf(e, i), c.first>>
    <3>1. x \in X.hd
      BY <1>4, <1>10, <2>3 DEF BatchStep
    <3>2. x[1] = AtOf(e, i) /\ x[2] = c.first
      OBVIOUS
    <3>. HIDE DEF x
    <3>. QED  BY <1>2, <3>1, <3>2 DEF Knows
  <2>. QED  BY <1>1, <2>1, <2>2, <2>3 DEF Ready
<1>12. Leaves(e, H, Y)
  <2>1. ASSUME NEW y \in Y.st
        PROVE  \/ HoldsAt(H.conv, H.scan, H.kv, y) /\ Untouched(e, y)
               \/ \E i \in Live(e), l \in RangeOf(e) :
                    /\ LastRow(e, i)
                    /\ y = <<l, IF Layers[l] = "rec" THEN StripeIn(e, i) ELSE SlotIn(e, i), RowIn(e, i)>>
    <3>1. CASE /\ y \in X.st
               /\ y[1] \in c.first .. c.last =>
                    IF Layers[y[1]] = "rec" THEN y[2] # c.stripe ELSE y[2] # c.slot \/ Len(y[3]) <= Len(h)
      <4>1. HoldsAt(conv, scan, kv, y)
        BY <3>1 DEF Knows
      <4>2. HoldsAt(H.conv, H.scan, H.kv, y)
        BY <1>2, <1>9, <3>1, <4>1
      <4>3. y[3] \in History
        BY <4>1 DEF HoldsAt
      <4>4. \A i \in AllRows(e) : Len(y[3]) <= Len(h) => ~(AtOf(e, i) < Len(y[3]))
        <5>1. Len(y[3]) \in Nat
          BY <4>3 DEF History
        <5>. QED  BY <1>7, <1>10, <5>1, Sizes DEF Pos
      <4>5. Untouched(e, y)
        BY <1>7, <3>1, <4>4 DEF Untouched
      <4>. QED  BY <4>2, <4>5
    <3>2. CASE \E l \in c.first .. c.last :
                 y = <<l, IF Layers[l] = "rec" THEN c.stripe ELSE c.slot, h \o t>>
      <4>1. PICK l \in c.first .. c.last :
                   y = <<l, IF Layers[l] = "rec" THEN c.stripe ELSE c.slot, h \o t>>
        BY <3>2
      <4>. DEFINE i == Len(t) - 1
      <4>. HIDE DEF i
      <4>2. i \in Live(e) /\ l \in RangeOf(e) /\ LastRow(e, i) /\ RowIn(e, i) = h \o t
            /\ StripeIn(e, i) = c.stripe /\ SlotIn(e, i) = c.slot
        BY <1>7 DEF i
      <4>3. y = <<l, IF Layers[l] = "rec" THEN StripeIn(e, i) ELSE SlotIn(e, i), RowIn(e, i)>>
        BY <4>1, <4>2
      <4>. QED  BY <4>2, <4>3
    <3>. QED  BY <1>4, <3>1, <3>2 DEF BatchStep
  <2>2. ASSUME NEW y \in Y.hd
        PROVE  /\ y \in Pos \X Nat
               /\ \/ H.hid[y[1]] = <<"x", y[2]>> /\ \A i \in AllRows(e) : AtOf(e, i) # y[1]
                  \/ Cut(e) /\ \E i \in AllRows(e) : y = <<AtOf(e, i), e.r.last + 1>>
    <3>1. CASE y \in X.hd /\ ~(Len(h) <= y[1] /\ y[1] < Len(h) + Len(t))
      <4>1. y \in Pos \X Nat /\ hid[y[1]] = <<"x", y[2]>>
        BY <3>1 DEF Knows
      <4>2. \A i \in AllRows(e) : AtOf(e, i) # y[1]
        BY <1>10, <3>1
      <4>. QED  BY <1>2, <4>1, <4>2
    <3>2. CASE c.last < NL /\ \E p \in Pos : Len(h) <= p /\ p < Len(h) + Len(t) /\ y = <<p, c.last + 1>>
      <4>1. PICK p \in Pos : Len(h) <= p /\ p < Len(h) + Len(t) /\ y = <<p, c.last + 1>>
        BY <3>2
      <4>2. p - Len(h) \in AllRows(e) /\ AtOf(e, p - Len(h)) = p
        <5>. DEFINE a == Len(h)  b == Len(t)
        <5>1. a \in Nat /\ b \in Nat /\ p \in Nat /\ a <= p /\ p < a + b
          BY <1>7, <4>1, Sizes DEF Pos
        <5>2. AllRows(e) = 0 .. b - 1
          BY <1>7
        <5>. HIDE DEF a, b
        <5>3. p - a \in 0 .. b - 1 /\ a + (p - a) = p
          BY <5>1
        <5>4. \A i \in AllRows(e) : AtOf(e, i) = a + i
          BY <1>7 DEF a
        <5>5. p - a \in AllRows(e) /\ AtOf(e, p - a) = p
          BY <5>2, <5>3, <5>4
        <5>. QED  BY <5>5 DEF a
      <4>3. y \in Pos \X Nat
        BY <1>8, <4>1
      <4>4. Cut(e)
        BY <1>1, <1>7, <3>2 DEF Cut
      <4>. QED  BY <1>1, <4>1, <4>2, <4>3, <4>4
    <3>. QED  BY <1>4, <3>1, <3>2 DEF BatchStep
  <2>. QED  BY <2>1, <2>2 DEF Leaves
<1>13. Kept(e, H)
  <2>. SUFFICES ASSUME c.stripe # c.slot, NEW l \in 1 .. NL
                PROVE  HoldsAt(H.conv, H.scan, H.kv, <<l, c.slot, h>>)
    BY <1>1, <1>7 DEF Kept
  <2>. DEFINE x == <<l, c.slot, h>>
  <2>1. h # <<>> /\ l \in c.first .. c.last
    BY <1>4 DEF BatchStep
  <2>2. x \in X.st
    BY <1>4, <2>1 DEF BatchStep
  <2>3. x[1] = l /\ x[2] = c.slot /\ x[3] = h
    OBVIOUS
  <2>. HIDE DEF x
  <2>4. HoldsAt(conv, scan, kv, x)
    BY <2>2 DEF Knows
  <2>5. Len(x[3]) <= Len(h)
    BY <1>7, <2>3
  <2>6. HoldsAt(conv', scan', kv', x)
    BY <1>9, <2>3, <2>4, <2>5
  <2>. QED  BY <1>2, <2>6 DEF x
<1>14. Asks(e)
  BY <1>7 DEF Asks
<1>15. Fine(e, cb', Begin, L)
  BY <1>6
<1>. QED  BY <1>3, <1>6, <1>11, <1>12, <1>13, <1>14, <1>15 DEF Running, e

\* The histories a step CB is given have a longest one, within the context.
LEMMA Longest ==
  ASSUME NEW c, NEW z, SerialOf(c, z)
  PROVE  \E m \in {Len(c.rows[s]) : s \in c.asked} : m \in Nat /\ \A s \in c.asked : Len(c.rows[s]) <= m
<1>. DEFINE T == {n \in Nat : \A s \in c.asked : Len(c.rows[s]) <= n}
<1>1. c.asked # {} /\ \A s \in c.asked : Len(c.rows[s]) \in Nat \ {0} /\ Len(c.rows[s]) <= NCtx
  <2>1. c.asked # {} /\ c.asked \subseteq 0 .. z - 1 /\ \A i \in 0 .. z - 1 : Len(c.rows[i]) \in 1 .. NCtx
    BY DEF SerialOf
  <2>2. \A m \in 1 .. NCtx : m \in Nat \ {0} /\ m <= NCtx
    BY Sizes
  <2>. QED  BY <2>1, <2>2
<1>2. NCtx \in T /\ T \in SUBSET Nat
  BY <1>1, Sizes
<1>3. PICK x \in T : \A y \in T : x <= y
  BY <1>2, LeastNumber
<1>4. CASE \E s \in c.asked : Len(c.rows[s]) = x
  BY <1>3, <1>4
<1>5. CASE ~\E s \in c.asked : Len(c.rows[s]) = x
  <2>1. \A s \in c.asked : Len(c.rows[s]) <= x - 1
    BY <1>1, <1>3, <1>5
  <2>2. x - 1 \in Nat
    BY <1>1, <1>3, <2>1
  <2>3. x - 1 \in T
    BY <2>1, <2>2
  <2>4. x \in Nat
    OBVIOUS
  <2>. HIDE DEF T
  <2>5. x <= x - 1
    BY <1>3, <2>3
  <2>. QED  BY <2>4, <2>5
<1>. QED  BY <1>4, <1>5

\* A step CB that is submitted runs towards what its rule promises.
LEMMA SerialStarts ==
  ASSUME StateType, cfg \in Configs, NEW c, NEW X, NEW Y, Knows(X, conv, scan, kv, hid), SerialRule(cfg, c, X, Y),
         UNCHANGED state, cfg' = cfg, run' = c, cb' = StepCB(Cardinality(DOMAIN c.rows)), hid' = hid,
         indirect' = IF cfg.live /\ c.fill
                     THEN LiveGrids(Cardinality(DOMAIN c.rows),
                                    CHOOSE m \in {Len(c.rows[s]) : s \in c.asked} :
                                      \A s \in c.asked : Len(c.rows[s]) <= m)
                     ELSE indirect
  PROVE  Running(Y)'
<1>. DEFINE e == Env'
            len == CHOOSE m \in {Len(c.rows[s]) : s \in c.asked} : \A s \in c.asked : Len(c.rows[s]) <= m
<1>0. PICK H : H = [conv |-> conv', scan |-> scan', kv |-> kv', hid |-> hid']
  OBVIOUS
<1>1. e.c = cfg /\ e.r = c /\ e.g = indirect'
  BY DEF Env
<1>2. H.conv = conv /\ H.scan = scan /\ H.kv = kv /\ H.hid = hid
  BY <1>0 DEF state
<1>3. Models(Env, Begin, H)'
  BY <1>0, BegunHolds
<1>4. PICK z : SerialOf(c, z)
  BY DEF SerialRule, IsSerial
<1>5. /\ c.kind = "serial" /\ DOMAIN c.rows = 0 .. z - 1 /\ Cardinality(DOMAIN c.rows) = z /\ z \in Nat \ {0}
      /\ \A i \in 0 .. z - 1 : c.rows[i] \in History
  BY <1>4, SerialRows
<1>6. len \in Nat /\ \A s \in c.asked : Len(c.rows[s]) <= len
  BY <1>4, Longest
<1>7. cfg.live /\ c.fill => indirect' = LiveGrids(z, len)
  BY <1>5
<1>. HIDE DEF e, len
<1>8. PICK L : Fine(e, StepCB(z), Begin, L) /\ Ended(e, L)
  <2>1. SerialEnv(e, z)
    BY <1>1, <1>4, <1>6, <1>7 DEF SerialEnv
  <2>. QED  BY <2>1, StepFine
<1>9. /\ ~Batched(e) /\ AllRows(e) = DOMAIN c.rows /\ RangeOf(e) = 1 .. NL
      /\ \A i : /\ FirstRow(e, i) = i /\ SlotIn(e, i) = i /\ StripeIn(e, i) = i /\ LastRow(e, i)
                /\ RowIn(e, i) = c.rows[i]
  BY <1>1, <1>5 DEF Batched, AllRows, RangeOf, FirstOf, LastOf, FirstRow, SlotIn, StripeIn, LastRow, RowIn
<1>10. Live(e) = LiveRows(cfg, c) /\ Live(e) \subseteq AllRows(e)
  <2>1. Live(e) = LiveRows(cfg, c)
    BY <1>1 DEF Live, LiveRows, Batched, AllRows
  <2>2. IsRun(e)
    BY <1>1, <1>4 DEF IsRun, IsSerial
  <2>. QED  BY <2>1, <2>2, RowFacts
<1>11. \A i \in Live(e) : i \in Slot /\ i \in 0 .. NSlots /\ AtOf(e, i) \in Nat /\ Front(RowIn(e, i)) \in Seq(Nat)
                          /\ Len(Front(RowIn(e, i))) = AtOf(e, i)
  <2>. SUFFICES ASSUME NEW i \in Live(e)
                PROVE  i \in Slot /\ i \in 0 .. NSlots /\ AtOf(e, i) \in Nat /\ Front(RowIn(e, i)) \in Seq(Nat)
                       /\ Len(Front(RowIn(e, i))) = AtOf(e, i)
    OBVIOUS
  <2>1. IsRun(e)
    BY <1>1, <1>4 DEF IsRun, IsSerial
  <2>2. i \in AllRows(e) /\ AtOf(e, i) \in Pos /\ RowIn(e, i) \in History /\ Len(RowIn(e, i)) = AtOf(e, i) + 1
        /\ SlotIn(e, i) \in Slot /\ StripeIn(e, i) \in 0 .. NSlots
    BY <1>10, <2>1, RowFacts
  <2>. DEFINE y == RowIn(e, i)  p == AtOf(e, i)
  <2>3. y \in Seq(Nat) /\ Len(y) = p + 1 /\ p \in Nat
    BY <2>2, Sizes DEF History, Pos
  <2>. HIDE DEF y, p
  <2>4. Front(y) \in Seq(Nat) /\ Len(Front(y)) = p
    BY <2>3 DEF Front
  <2>. QED  BY <1>9, <2>2, <2>3, <2>4 DEF y, p
<1>12. \A i \in Live(e), l \in 1 .. NL : HoldsAt(conv, scan, kv, <<l, i, Front(RowIn(e, i))>>)
  <2>. SUFFICES ASSUME NEW i \in Live(e), NEW l \in 1 .. NL PROVE HoldsAt(conv, scan, kv, <<l, i, Front(RowIn(e, i))>>)
    OBVIOUS
  <2>. DEFINE x == <<l, i, Front(RowIn(e, i))>>
  <2>1. x \in X.st
    BY <1>9, <1>10 DEF SerialRule
  <2>. HIDE DEF x
  <2>2. HoldsAt(conv, scan, kv, x)
    BY <2>1 DEF Knows
  <2>. QED  BY <2>2 DEF x
<1>13. Ready(e, H)
  <2>1. ASSUME NEW l \in RangeOf(e), NEW i \in Live(e)
        PROVE  /\ Layers[l] = "rec" => /\ H.scan[l][StripeIn(e, i)] = Front(RowIn(e, FirstRow(e, i)))
                                       /\ H.conv[l][SlotIn(e, i)] = Front(RowIn(e, FirstRow(e, i)))
               /\ Layers[l] = "attn" => \A p \in Pos : p < AtOf(e, FirstRow(e, i)) =>
                    H.kv[l][SlotIn(e, i)][p] = SubSeq(Front(RowIn(e, FirstRow(e, i))), 1, p + 1)
    <3>. DEFINE h == Front(RowIn(e, i))  x == <<l, i, h>>
    <3>1. HoldsAt(conv, scan, kv, x)
      BY <1>9, <1>12
    <3>2. x[1] = l /\ x[2] = i /\ x[3] = h
      OBVIOUS
    <3>3. Len(h) = AtOf(e, i) /\ i \in Slot
      BY <1>11
    <3>4. StripeIn(e, i) = i /\ SlotIn(e, i) = i /\ FirstRow(e, i) = i
      BY <1>9
    <3>. HIDE DEF x, h
    <3>5. IF Layers[l] = "rec" THEN conv[l][i] = h /\ scan[l][i] = h
          ELSE \A p \in Pos : p < Len(h) => kv[l][i][p] = SubSeq(h, 1, p + 1)
      BY <3>1, <3>2, <3>3 DEF HoldsAt
    <3>6. h = Front(RowIn(e, FirstRow(e, i)))
      BY <3>4 DEF h
    <3>7. Layers[l] = "attn" => \A p \in Pos : p < Len(h) => kv[l][i][p] = SubSeq(h, 1, p + 1)
      BY <3>5
    <3>8. Layers[l] = "rec" => conv[l][i] = h /\ scan[l][i] = h
      BY <3>5
    <3>. QED  BY <1>2, <3>3, <3>4, <3>6, <3>7, <3>8
  <2>. QED  BY <1>9, <2>1 DEF Ready
<1>14. Leaves(e, H, Y)
  <2>1. ASSUME NEW y \in Y.st
        PROVE  \/ HoldsAt(H.conv, H.scan, H.kv, y) /\ Untouched(e, y)
               \/ \E i \in Live(e), l \in RangeOf(e) :
                    /\ LastRow(e, i)
                    /\ y = <<l, IF Layers[l] = "rec" THEN StripeIn(e, i) ELSE SlotIn(e, i), RowIn(e, i)>>
    <3>1. CASE y \in X.st /\ y[2] \notin DOMAIN c.rows
      <4>1. HoldsAt(conv, scan, kv, y)
        BY <3>1 DEF Knows
      <4>2. Untouched(e, y)
        BY <1>9, <3>1 DEF Untouched
      <4>. QED  BY <1>2, <4>1, <4>2
    <3>2. CASE \E i \in LiveRows(cfg, c), l \in 1 .. NL : y = <<l, i, c.rows[i]>>
      <4>1. PICK i \in LiveRows(cfg, c), l \in 1 .. NL : y = <<l, i, c.rows[i]>>
        BY <3>2
      <4>2. i \in Live(e) /\ l \in RangeOf(e) /\ LastRow(e, i)
        BY <1>9, <1>10
      <4>3. y = <<l, IF Layers[l] = "rec" THEN StripeIn(e, i) ELSE SlotIn(e, i), RowIn(e, i)>>
        BY <1>9, <4>1
      <4>. QED  BY <4>2, <4>3
    <3>. QED  BY <3>1, <3>2 DEF SerialRule
  <2>2. Y.hd = {}
    BY DEF SerialRule
  <2>. QED  BY <2>1, <2>2 DEF Leaves
<1>15. Kept(e, H)
  BY <1>9 DEF Kept
<1>16. Asks(e)
  BY <1>1 DEF Asks, SerialRule
<1>17. Fine(e, cb', Begin, L)
  BY <1>5, <1>8
<1>. QED  BY <1>3, <1>8, <1>13, <1>14, <1>15, <1>16, <1>17 DEF Running, e

\* Each request's own history at every layer.
HeldBy(act, f) == {<<l, s, f[s]>> : l \in 1 .. NL, s \in act}

\* What is known now is what the calls still to make start from, and they end with the
\* histories of the requests.
Underway ==
  \E X, Y : /\ Plan(cfg, todo, X, Y) /\ HeldBy(active, fed) \subseteq Y.st
            /\ run = Idle => Knows(X, conv, scan, kv, hid)
            /\ run # Idle => Running(X)
TopOK == lastRows > 0 => logits[lastRows - 1] = lastHist
ChainInv == TypeInv /\ Underway /\ TopOK /\ OutputsExact

\* A CB that runs was recorded for a legal call.
LEMMA RunsNow == ASSUME TypeInv, run # Idle PROVE IsRun(Env) /\ StateType
BY DEF TypeInv, IsRun, Env

\* Submitting the next call of an operation (the copy or reset a call does at once, or the
\* CB it queues) leaves a plan for the calls after it.
LEMMA SubmitChain == ASSUME ChainInv, Submit PROVE Underway'
<1>1. PICK X, Y : /\ Plan(cfg, todo, X, Y) /\ HeldBy(active, fed) \subseteq Y.st
                  /\ Knows(X, conv, scan, kv, hid)
  BY DEF ChainInv, Underway, Submit
<1>2. todo # <<>> /\ todo' = Tail(todo) /\ cfg' = cfg /\ active' = active /\ fed' = fed /\ hid' = hid /\ run = Idle
  BY DEF Submit
<1>3. PICK c : c = Head(todo)
  OBVIOUS
<1>4. PICK M : CallRule(cfg, c, X, M) /\ Plan(cfg, todo', M, Y)
  BY <1>1, <1>2, <1>3, PlanHead
<1>5. Plan(cfg', todo', M, Y) /\ HeldBy(active', fed') \subseteq Y.st
  BY <1>1, <1>2, <1>4
<1>6. StateType /\ cfg \in Configs
  BY DEF ChainInv, TypeInv, TypeOK
<1>7. CASE ResetRule(c, X, M)
  <2>1. c.kind = "reset"
    BY <1>7 DEF ResetRule, ResetCall
  <2>2. Reset(c) /\ run' = run
    BY <1>3, <2>1 DEF Submit
  <2>3. Knows(M, conv', scan', kv', hid')
    BY <1>1, <1>2, <1>6, <1>7, <2>2, ResetKnows
  <2>. QED  BY <1>2, <1>5, <2>2, <2>3 DEF Underway
<1>8. CASE CopyRule(c, X, M)
  <2>1. c.kind = "copy"
    BY <1>8 DEF CopyRule, CopyCall
  <2>2. CopyDnStripes(c) /\ run' = run
    BY <1>3, <2>1 DEF Submit
  <2>3. Knows(M, conv', scan', kv', hid')
    BY <1>1, <1>2, <1>6, <1>8, <2>2, CopyKnows
  <2>. QED  BY <1>2, <1>5, <2>2, <2>3 DEF Underway
<1>9. CASE BatchRule(c, X, M)
  <2>1. c.kind = "batch"
    BY <1>9, BatchRows DEF BatchRule
  <2>2. /\ IF Len(c.rows[0]) = 1 THEN Reset(c) ELSE UNCHANGED state
        /\ run' = c /\ cb' = BatchCB(c) /\ indirect' = indirect
    BY <1>3, <2>1 DEF Submit
  <2>3. Running(M)'
    BY <1>1, <1>2, <1>6, <1>9, <2>2, BatchStarts
  <2>4. run' # Idle
    BY <2>1, <2>2 DEF Idle
  <2>. QED  BY <1>5, <2>3, <2>4 DEF Underway, Idle
<1>10. CASE SerialRule(cfg, c, X, M)
  <2>1. c.kind = "serial"
    BY <1>10, SerialRows DEF SerialRule, IsSerial
  <2>2. /\ run' = c /\ cb' = StepCB(Cardinality(DOMAIN c.rows)) /\ UNCHANGED state
        /\ indirect' = IF cfg.live /\ c.fill
                       THEN LiveGrids(Cardinality(DOMAIN c.rows),
                                      CHOOSE m \in {Len(c.rows[s]) : s \in c.asked} :
                                        \A s \in c.asked : Len(c.rows[s]) <= m)
                       ELSE indirect
    BY <1>3, <2>1 DEF Submit
  <2>3. Running(M)'
    BY <1>1, <1>2, <1>6, <1>10, <2>2, SerialStarts
  <2>4. run' # Idle
    BY <2>1, <2>2 DEF Idle
  <2>. QED  BY <1>5, <2>3, <2>4 DEF Underway, Idle
<1>. QED  BY <1>4, <1>7, <1>8, <1>9, <1>10 DEF CallRule

\* An epoch of the running CB keeps the plan of the calls after it.
LEMMA EpochChain == ASSUME ChainInv, Epoch PROVE Underway'
<1>1. PICK X, Y : Plan(cfg, todo, X, Y) /\ HeldBy(active, fed) \subseteq Y.st /\ Running(X)
  BY DEF ChainInv, Underway, Epoch
<1>2. cfg' = cfg /\ todo' = todo /\ active' = active /\ fed' = fed /\ run' = run /\ run # Idle
  BY DEF Epoch
<1>3. Running(X)'
  BY <1>1, <1>2, RunsNow, EpochRuns DEF ChainInv
<1>4. Plan(cfg', todo', X, Y) /\ HeldBy(active', fed') \subseteq Y.st /\ run' # Idle
  BY <1>1, <1>2
<1>. QED  BY <1>3, <1>4 DEF Underway, Idle

\* What a run has computed when the host reads it.
LEMMA RunEnds ==
  ASSUME ChainInv, Finish
  PROVE  \E X, Y, H, L :
           /\ Plan(cfg, todo, X, Y) /\ HeldBy(active, fed) \subseteq Y.st
           /\ Ready(Env, H) /\ Leaves(Env, H, X) /\ Asks(Env) /\ Models(Env, L, H) /\ Ended(Env, L)
<1>1. PICK X, Y : Plan(cfg, todo, X, Y) /\ HeldBy(active, fed) \subseteq Y.st /\ Running(X)
  BY DEF ChainInv, Underway, Finish
<1>2. PICK H, K, L : /\ Ready(Env, H) /\ Leaves(Env, H, X) /\ Kept(Env, H) /\ Asks(Env)
                     /\ Models(Env, K, H) /\ Fine(Env, cb, K, L) /\ Ended(Env, L)
  BY <1>1 DEF Running
<1>3. K = L
  BY <1>2, FineEnd DEF Finish
<1>. QED  BY <1>1, <1>2, <1>3

\* The fence of a CB: its results are exact and what it promised of the state holds.
LEMMA FinishChain == ASSUME ChainInv, Finish PROVE Underway' /\ TopOK' /\ OutputsExact'
<1>1. PICK X, Y, H, L :
        /\ Plan(cfg, todo, X, Y) /\ HeldBy(active, fed) \subseteq Y.st
        /\ Ready(Env, H) /\ Leaves(Env, H, X) /\ Asks(Env) /\ Models(Env, L, H) /\ Ended(Env, L)
  BY RunEnds
<1>2. IsRun(Env) /\ run # Idle
  BY RunsNow DEF ChainInv, Finish
<1>3. /\ cfg' = cfg /\ todo' = todo /\ active' = active /\ fed' = fed /\ hid' = hid /\ run' = Idle
      /\ conv' = conv /\ scan' = scan /\ kv' = kv
  BY DEF Finish, state
<1>4. Underway'
  <2>1. Knows(X, conv, scan, kv, hid)
    BY <1>1, <1>2, EndKnows
  <2>2. Plan(cfg', todo', X, Y) /\ HeldBy(active', fed') \subseteq Y.st /\ Knows(X, conv', scan', kv', hid')
    BY <1>1, <1>3, <2>1
  <2>. QED  BY <1>3, <2>2 DEF Underway, Idle
<1>. DEFINE n == Cardinality(DOMAIN R)
            batch == run.kind = "batch"
            head == batch /\ run.last = NL /\ run.want # "none"
            asked == IF ~batch THEN run.asked ELSE IF ~head THEN {}
                     ELSE IF run.want = "ids" THEN DOMAIN R ELSE {n - 1}
            exact == IF head /\ run.want = "logits" THEN mem["Logits"][n - 1] = <<"lg", NL + 1>>
                     ELSE \A i \in asked : mem["Samp"][i] = <<"t", NL + 1>>
<1>5. /\ out' = [by |-> run.by, exact |-> exact]
      /\ lastRows' = IF head THEN n ELSE lastRows
      /\ lastHist' = IF head THEN R[n - 1] ELSE lastHist
      /\ logits' = IF head THEN [i \in Rows |->
                       IF i \notin DOMAIN R THEN logits[i]
                       ELSE IF mem["Logits"][i] = <<"lg", NL + 1>> THEN R[i] ELSE Bad]
                   ELSE logits
  BY DEF Finish
<1>6. /\ DOMAIN R = AllRows(Env) /\ DOMAIN R \subseteq Rows /\ Live(Env) \subseteq DOMAIN R
      /\ (batch <=> Batched(Env)) /\ Env.r = run /\ Env.c = cfg
  BY <1>2, EnvIs, RowFacts DEF Batched
<1>7. n \in Nat \ {0} /\ n - 1 \in DOMAIN R
  <2>1. PICK m \in Nat \ {0} : DOMAIN R = 0 .. m - 1 /\ Cardinality(DOMAIN R) = m
    BY <1>2, RunRows, EnvIs DEF IsRun
  <2>2. n = m
    BY <2>1
  <2>. HIDE DEF n
  <2>. QED  BY <2>1, <2>2
<1>. HIDE DEF n
<1>8. batch => Live(Env) = DOMAIN R
  BY <1>6 DEF Live
<1>9. \A b, q, i : <<b, q, NL + 1>> \in L.f /\ i \in Live(Env) => mem[b][i] = <<q, NL + 1>>
  <2>. SUFFICES ASSUME NEW b, NEW q, NEW i \in Live(Env), <<b, q, NL + 1>> \in L.f
                PROVE  mem[b][i] = <<q, NL + 1>>
    OBVIOUS
  <2>. DEFINE x == <<b, q, NL + 1>>
  <2>1. x \in L.f /\ x[1] = b /\ x[2] = q /\ x[3] = NL + 1
    OBVIOUS
  <2>. HIDE DEF x
  <2>2. mem[x[1]][i] = <<x[2], x[3]>>
    BY <1>1, <2>1 DEF Models, MemOK
  <2>. QED  BY <2>1, <2>2
<1>10. /\ head => <<"Logits", "lg", NL + 1>> \in L.f
       /\ head /\ run.want = "ids" => <<"Samp", "t", NL + 1>> \in L.f
       /\ ~batch => <<"Samp", "t", NL + 1>> \in L.f
  <2>1. Results(Env) \subseteq L.f
    BY <1>1 DEF Ended
  <2>2. batch => run.last \in Nat /\ run.want \in {"ids", "logits", "none"}
    <3>. SUFFICES ASSUME batch PROVE run.last \in Nat /\ run.want \in {"ids", "logits", "none"}
      OBVIOUS
    <3>1. IsBatch(run)
      BY <1>2, <1>6, SerialRows DEF IsRun, IsSerial
    <3>. QED  BY <3>1, Sizes DEF IsBatch, BatchOf
  <2>3. ASSUME head PROVE Results(Env) = IF run.want = "ids" THEN Sampled ELSE Scored
    <3>1. ~Cut(Env)
      BY <1>6, <2>3, Sizes DEF Cut
    <3>. QED  BY <1>6, <2>2, <2>3, <3>1 DEF Results
  <2>4. ASSUME ~batch PROVE Results(Env) = Sampled
    BY <1>6, <2>4 DEF Results, Cut
  <2>. QED  BY <2>1, <2>3, <2>4 DEF Sampled, Scored
<1>11. TopOK'
  <2>1. CASE head
    <3>1. mem["Logits"][n - 1] = <<"lg", NL + 1>> /\ n - 1 \in Rows /\ n - 1 \in DOMAIN R
      BY <1>6, <1>7, <1>8, <1>9, <1>10, <2>1
    <3>2. logits'[n - 1] = R[n - 1] /\ lastRows' = n /\ lastHist' = R[n - 1]
      BY <1>5, <2>1, <3>1
    <3>. QED  BY <3>2 DEF TopOK
  <2>2. CASE ~head
    BY <1>5, <2>2 DEF TopOK, ChainInv
  <2>. QED  BY <2>1, <2>2
<1>12. OutputsExact'
  <2>1. out'.exact = exact /\ out'.by = run.by
    BY <1>5
  <2>2. CASE head /\ run.want = "logits"
    <3>1. mem["Logits"][n - 1] = <<"lg", NL + 1>>
      BY <1>7, <1>8, <1>9, <1>10, <2>2
    <3>. QED  BY <2>1, <2>2, <3>1 DEF OutputsExact
  <2>3. CASE batch /\ ~(head /\ run.want = "logits")
    <3>1. asked = {} \/ (head /\ run.want = "ids" /\ asked = DOMAIN R)
      <4>1. head => run.want = "ids"
        <5>1. head => run.want \in {"ids", "logits"}
          <6>1. batch => IsBatch(run)
            BY <1>2, <1>6, SerialRows DEF IsRun, IsSerial
          <6>. QED  BY <6>1 DEF IsBatch, BatchOf
        <5>. QED  BY <2>3, <5>1
      <4>. QED  BY <2>3, <4>1
    <3>2. \A i \in asked : mem["Samp"][i] = <<"t", NL + 1>>
      BY <1>8, <1>9, <1>10, <2>3, <3>1
    <3>. QED  BY <2>1, <2>3, <3>2 DEF OutputsExact
  <2>4. CASE ~batch /\ ~(cfg.live /\ ~run.fill)
    <3>1. asked = run.asked /\ Live(Env) = run.asked
      BY <1>6, <2>4 DEF Live
    <3>2. \A i \in asked : mem["Samp"][i] = <<"t", NL + 1>>
      BY <1>9, <1>10, <2>4, <3>1
    <3>. QED  BY <2>1, <2>4, <3>2 DEF OutputsExact
  <2>5. CASE ~batch /\ cfg.live /\ ~run.fill
    <3>1. run.by = "serialPrefillLogits"
      BY <1>1, <1>6, <2>5 DEF Asks
    <3>. QED  BY <1>3, <2>1, <2>5, <3>1 DEF OutputsExact
  <2>. QED  BY <2>2, <2>3, <2>4, <2>5
<1>. QED  BY <1>4, <1>11, <1>12

-------------------------------------------------------------------------------
(* The calls of a host operation.                                             *)

\* What is known of the requests' stripes, and no row is handed on.
Only(F) == [st |-> F, hd |-> {}]

\* Between two operations every request's stripes hold its history.
LEMMA HostKnows ==
  ASSUME ChainInv, run = Idle, todo = <<>>
  PROVE  \A x \in HeldBy(active, fed) : HoldsAt(conv, scan, kv, x)
<1>1. PICK X, Y : /\ Plan(cfg, todo, X, Y) /\ HeldBy(active, fed) \subseteq Y.st
                  /\ Knows(X, conv, scan, kv, hid)
  BY DEF ChainInv, Underway
<1>2. X = Y
  BY <1>1, PlanEnd
<1>. QED  BY <1>1, <1>2 DEF Knows

\* An operation whose calls leave the histories it announces.
LEMMA OpChain ==
  ASSUME ChainInv, Host, NEW cs, NEW act, NEW h, Op(cs, act, h), NEW X, NEW Z, Plan(cfg, cs, X, Z),
         X.st \subseteq HeldBy(active, fed), X.hd = {}, HeldBy(act, h) \subseteq Z.st
  PROVE  Underway'
<1>1. /\ todo' = cs /\ active' = act /\ fed' = h /\ run' = run /\ cfg' = cfg
      /\ conv' = conv /\ scan' = scan /\ kv' = kv
  BY DEF Op, state
<1>2. run = Idle /\ todo = <<>>
  BY DEF Host
<1>3. Knows(X, conv, scan, kv, hid')
  BY <1>2, HostKnows DEF Knows
<1>4. /\ Plan(cfg', todo', X, Z) /\ HeldBy(active', fed') \subseteq Z.st
      /\ Knows(X, conv', scan', kv', hid')
  BY <1>1, <1>3
<1>. QED  BY <1>1, <1>2, <1>4 DEF Underway, Idle

\* Calls one by one.
LEMMA PlanMade ==
  ASSUME NEW e, NEW n \in Nat, NEW f, NEW k, f = [j \in 1 .. n |-> f[j]],
         \A j \in 1 .. n : CallRule(e, f[j], k[j], k[j + 1])
  PROVE  Plan(e, f, k[1], k[n + 1])
<1>1. IsSeq(f) /\ Len(f) = n
  BY SeqMade
<1>2. Follows(e, f, k)
  BY <1>1 DEF Follows
<1>. QED  BY <1>1, <1>2, Zenon DEF Plan

\* The histories of some slots at every layer.
LEMMA HeldIs ==
  ASSUME NEW act, NEW f, NEW l \in 1 .. NL, NEW s \in act
  PROVE  <<l, s, f[s]>> \in HeldBy(act, f)
BY DEF HeldBy

\* What the histories announce of a slot.
LEMMA HeldPick ==
  ASSUME NEW act, NEW f, NEW y \in HeldBy(act, f)
  PROVE  \E l \in 1 .. NL, s \in act : y = <<l, s, f[s]>> /\ y[1] = l /\ y[2] = s /\ y[3] = f[s]
BY DEF HeldBy

\* One slot's history changes.
LEMMA HeldMore ==
  ASSUME TypeInv, NEW s \in Slot, NEW g, NEW act, NEW y, y \in HeldBy(act, [fed EXCEPT ![s] = g]),
         act \subseteq active \cup {s}
  PROVE  (y \in HeldBy(active, fed) /\ y[2] # s) \/ \E l \in 1 .. NL : y = <<l, s, g>>
<1>. DEFINE h == [fed EXCEPT ![s] = g]
<1>1. active \subseteq Slot /\ fed \in [Slot -> History]
  BY DEF TypeInv, TypeOK
<1>2. \A q \in Slot : h[q] = IF q = s THEN g ELSE fed[q]
  BY <1>1
<1>. HIDE DEF h
<1>3. y \in HeldBy(act, h)
  BY DEF h
<1>4. PICK l \in 1 .. NL, q \in act : y = <<l, q, h[q]>> /\ y[1] = l /\ y[2] = q /\ y[3] = h[q]
  BY <1>3, HeldPick
<1>5. CASE q = s
  BY <1>2, <1>4, <1>5
<1>6. CASE q # s
  <2>1. q \in active /\ h[q] = fed[q]
    BY <1>1, <1>2, <1>6
  <2>. QED  BY <1>4, <1>6, <2>1, HeldIs
<1>. QED  BY <1>5, <1>6

\* Admission: the reset of the slot announces the empty history.
LEMMA AdmitChain == ASSUME ChainInv, NEW s \in Slot, Admit(s) PROVE Underway'
<1>. DEFINE cs == <<ResetCall(s)>>  act == active \cup {s}  h == [fed EXCEPT ![s] = <<>>]
            X == Only(HeldBy(active, fed))  Z == Only(HeldBy(act, h))
<1>1. Op(cs, act, h) /\ Host
  BY DEF Admit
<1>2. \A y \in HeldBy(act, h) : (y \in HeldBy(active, fed) /\ y[2] # s) \/ \E l \in 1 .. NL : y = <<l, s, <<>>>>
  BY HeldMore DEF ChainInv
<1>. HIDE DEF act, h
<1>3. ResetRule(ResetCall(s), X, Z)
  BY <1>2 DEF ResetRule, Only
<1>4. Plan(cfg, cs, X, Z)
  <2>. HIDE DEF X, Z
  <2>. QED  BY <1>3, PlanOne DEF CallRule
<1>5. HeldBy(act, h) \subseteq Z.st /\ X.st = HeldBy(active, fed) /\ X.hd = {}
  BY DEF Only
<1>. HIDE DEF X, Z, cs
<1>. QED  BY <1>1, <1>4, <1>5, OpChain

\* A released slot announces nothing.
LEMMA ReleaseChain == ASSUME ChainInv, NEW s \in Slot, Release(s) PROVE Underway'
<1>1. PICK X, Y : /\ Plan(cfg, todo, X, Y) /\ HeldBy(active, fed) \subseteq Y.st
                  /\ Knows(X, conv, scan, kv, hid)
  BY DEF ChainInv, Underway, Release, Host
<1>2. /\ todo' = todo /\ active' = active \ {s} /\ fed' = fed /\ run' = run /\ cfg' = cfg
      /\ conv' = conv /\ scan' = scan /\ kv' = kv /\ hid' = hid /\ run = Idle
  BY DEF Release, Host, state
<1>3. HeldBy(active', fed') \subseteq HeldBy(active, fed)
  BY <1>2 DEF HeldBy
<1>4. Plan(cfg', todo', X, Y) /\ HeldBy(active', fed') \subseteq Y.st /\ Knows(X, conv', scan', kv', hid')
  BY <1>1, <1>2, <1>3
<1>. QED  BY <1>2, <1>4 DEF Underway, Idle

\* The top-k read-back asks for no call and leaves results and state alone.
LEMMA TopKChain == ASSUME ChainInv, StageTopK PROVE Underway' /\ TopOK' /\ OutputsExact'
<1>1. PICK X, Y : /\ Plan(cfg, todo, X, Y) /\ HeldBy(active, fed) \subseteq Y.st
                  /\ Knows(X, conv, scan, kv, hid)
  BY DEF ChainInv, Underway, StageTopK
<1>2. /\ todo' = todo /\ active' = active /\ fed' = fed /\ run' = run /\ cfg' = cfg
      /\ conv' = conv /\ scan' = scan /\ kv' = kv /\ hid' = hid /\ run = Idle
      /\ logits' = logits /\ lastRows' = lastRows /\ lastHist' = lastHist
      /\ lastRows > 0 /\ out'.exact = (logits[TopKRow] = lastHist)
  BY DEF StageTopK, state
<1>3. Plan(cfg', todo', X, Y) /\ HeldBy(active', fed') \subseteq Y.st /\ Knows(X, conv', scan', kv', hid')
  BY <1>1, <1>2
<1>4. Underway'
  BY <1>2, <1>3 DEF Underway, Idle
<1>5. TopOK' /\ logits[TopKRow] = lastHist
  BY <1>2 DEF ChainInv, TopOK, TopKRow
<1>6. OutputsExact'
  BY <1>2, <1>5 DEF OutputsExact
<1>. QED  BY <1>4, <1>5, <1>6

\* The calls of an operation, once it is known to be typed.
LEMMA OneCall ==
  ASSUME NEW c, CallsOK(<<c>>) PROVE IsCall(c)
<1>1. IsSeq(<<c>>) /\ Len(<<c>>) = 1 /\ <<c>>[1] = c
  BY SeqOne
<1>. DEFINE q == <<c>>
<1>. HIDE DEF q
<1>2. \A i \in 1 .. Len(q) : IsCall(q[i])
  BY DEF CallsOK, q
<1>. QED  BY <1>1, <1>2 DEF q

\* A step call is a serial one.
LEMMA SerialIs ==
  ASSUME NEW by, NEW rows, NEW asked, NEW fill, IsCall(StepCall(by, rows, asked, fill))
  PROVE  IsSerial(StepCall(by, rows, asked, fill))
<1>. DEFINE c == StepCall(by, rows, asked, fill)
<1>1. c.kind = "serial"
  BY DEF StepCall
<1>. HIDE DEF c
<1>2. ~IsBatch(c)
  BY <1>1, BatchRows DEF IsBatch
<1>. QED  BY <1>1, <1>2 DEF IsCall, ResetCall, CopyCall, c

\* The history one token ago.
LEMMA FrontAppend == ASSUME NEW h \in History, NEW a \in Nat PROVE Front(Append(h, a)) = h
<1>. DEFINE b == Append(h, a)
<1>1. h \in Seq(Nat) /\ b \in Seq(Nat) /\ Len(b) = Len(h) + 1 /\ \A i \in 1 .. Len(h) : b[i] = h[i]
  BY DEF History
<1>. HIDE DEF b
<1>2. Front(b) = SubSeq(b, 1, Len(b) - 1)
  BY DEF Front
<1>3. Len(b) - 1 = Len(h) /\ Len(h) \in Nat
  BY <1>1
<1>4. SubSeq(b, 1, Len(h)) \in Seq(Nat) /\ Len(SubSeq(b, 1, Len(h))) = Len(h)
      /\ \A i \in 1 .. Len(h) : SubSeq(b, 1, Len(h))[i] = h[i]
  BY <1>1, <1>3
<1>5. SubSeq(b, 1, Len(h)) = h
  BY <1>1, <1>4
<1>. QED  BY <1>2, <1>3, <1>5 DEF b

\* A decode step: one step CB extends every active slot by its token.
LEMMA StepChain == ASSUME ChainInv, Step PROVE Underway'
<1>. DEFINE m == CHOOSE s \in active : \A o \in active : o <= s
<1>. PICK z : z = m + 1
  OBVIOUS
<1>. DEFINE row(s) == IF s \in active THEN Append(fed[s], Token) ELSE <<0>>
            rows == [s \in 0 .. z - 1 |-> row(s)]
            c == StepCall("step", rows, active, TRUE)
            g == [s \in Slot |-> IF s \in active THEN row(s) ELSE fed[s]]
            X == Only(HeldBy(active, fed))  Z == Only(HeldBy(active, g))
<1>0. Host /\ active # {} /\ active \subseteq Slot /\ fed \in [Slot -> History]
  BY DEF Step, TypeInv, TypeOK, ChainInv
<1>1. m \in active /\ \A o \in active : o <= m
  BY <1>0, Highest
<1>. HIDE DEF m
<1>2. Op(<<c>>, active, g)
  <2>1. c = StepCall("step", [s \in 0 .. z - 1 |-> IF s \in active THEN Append(fed[s], Token) ELSE <<0>>], active, TRUE)
    OBVIOUS
  <2>2. g = [s \in Slot |-> IF s \in active THEN (IF s \in active THEN Append(fed[s], Token) ELSE <<0>>) ELSE fed[s]]
    OBVIOUS
  <2>. HIDE DEF c, g
  <2>. QED  BY <2>1, <2>2, Zenon DEF Step, m
<1>3. CallsOK(<<c>>)
  <2>1. TypeInv'
    BY StepTypes DEF ChainInv
  <2>2. todo' = <<c>>
    BY <1>2, Zenon DEF Op
  <2>. QED  BY <2>1, <2>2, Zenon DEF TypeInv
<1>4. IsSerial(c)
  BY <1>3, OneCall, SerialIs
<1>5. c.rows = rows /\ c.asked = active /\ c.fill = TRUE /\ c.kind = "serial"
  BY DEF StepCall
<1>6. \A q \in active : rows[q] = Append(fed[q], Token) /\ q \in 0 .. z - 1
  <2>1. m \in Nat /\ \A q \in active : q \in Nat
    BY <1>0, <1>1 DEF Slot
  <2>. QED  BY <1>1, <2>1
<1>7. DOMAIN rows = 0 .. z - 1
  OBVIOUS
<1>8. \A q \in active : g[q] = Append(fed[q], Token)
  BY <1>0
<1>. HIDE DEF rows, g
<1>9. LiveRows(cfg, c) = active
  BY <1>5 DEF LiveRows, Live, Batched
<1>. HIDE DEF c
<1>10. ASSUME NEW i \in active, NEW l \in 1 .. NL PROVE <<l, i, Front(c.rows[i])>> \in HeldBy(active, fed)
  <2>1. fed[i] \in History /\ Token \in Nat
    BY <1>0, RunType, Sizes DEF ChainInv
  <2>2. Front(c.rows[i]) = fed[i]
    BY <1>5, <1>6, <2>1, FrontAppend
  <2>. QED  BY <2>2, HeldIs
<1>11. ASSUME NEW y \in HeldBy(active, g) PROVE \E i \in active, l \in 1 .. NL : y = <<l, i, c.rows[i]>>
  <2>1. PICK l \in 1 .. NL, q \in active : y = <<l, q, g[q]>>
    BY <1>11, HeldPick
  <2>2. g[q] = c.rows[q]
    BY <1>5, <1>6, <1>8
  <2>. QED  BY <2>1, <2>2
<1>12. SerialRule(cfg, c, X, Z)
  BY <1>4, <1>5, <1>9, <1>10, <1>11 DEF SerialRule, Only
<1>. HIDE DEF X, Z
<1>13. Plan(cfg, <<c>>, X, Z)
  BY <1>12, PlanOne DEF CallRule
<1>14. HeldBy(active, g) \subseteq Z.st /\ X.st = HeldBy(active, fed) /\ X.hd = {}
  BY DEF Only, X, Z
<1>15. PICK cs : cs = <<c>>
  OBVIOUS
<1>. QED  BY <1>0, <1>2, <1>13, <1>14, <1>15, OpChain

\* The prefixes of a request's tokens.
LEMMA RunFront ==
  ASSUME TypeInv, NEW j \in Nat \ {0} PROVE Front(Run(j)) = Run(j - 1) /\ Run(0) = <<>>
<1>. PICK a, b, t : a = Run(j - 1) /\ b = Run(j) /\ t = Token
  OBVIOUS
<1>0. j - 1 \in Nat /\ t \in Nat /\ <<>> \in History
  BY RunType, BadType
<1>1. a \in Seq(Nat) /\ Len(a) = j - 1 /\ b \in Seq(Nat) /\ Len(b) = j
  BY <1>0, RunType DEF History
<1>2. (\A i \in 1 .. j - 1 : a[i] = t) /\ \A i \in 1 .. j : b[i] = t
  BY DEF Run
<1>3. Front(b) = SubSeq(b, 1, j - 1)
  BY <1>1 DEF Front
<1>4. SubSeq(b, 1, j - 1) \in Seq(Nat) /\ Len(SubSeq(b, 1, j - 1)) = j - 1
      /\ \A i \in 1 .. j - 1 : SubSeq(b, 1, j - 1)[i] = b[i]
  BY <1>0, <1>1
<1>5. SubSeq(b, 1, j - 1) = a
  <2>1. \A i \in 1 .. j - 1 : SubSeq(b, 1, j - 1)[i] = a[i]
    BY <1>0, <1>2, <1>4
  <2>. QED  BY <1>1, <1>4, <2>1
<1>6. Run(0) = <<>>
  <2>1. Run(0) \in Seq(Nat) /\ Len(Run(0)) = 0
    BY <1>0, RunType DEF History
  <2>. QED  BY <2>1
<1>. QED  BY <1>3, <1>5, <1>6

\* A slot's history at every layer, where the grids were written.
Own(e, s, h) == IF e.live THEN {} ELSE {<<l, s, h>> : l \in 1 .. NL}

\* What the serial calls of one slot hold of it when the grid is not live.
LEMMA OwnPick ==
  ASSUME NEW e, NEW s, NEW h, NEW y \in Own(e, s, h)
  PROVE  ~e.live /\ \E l \in 1 .. NL : y = <<l, s, h>> /\ y[2] = s
BY DEF Own
LEMMA OwnIs ==
  ASSUME NEW e, NEW s, NEW h, ~e.live, NEW l \in 1 .. NL PROVE <<l, s, h>> \in Own(e, s, h)
BY DEF Own

\* One step of the lanes up to s, on the grids of an earlier step.
LEMMA LoneStep ==
  ASSUME NEW e, NEW s \in Nat, NEW rows, NEW c, c = StepCall("serialPrefillLogits", rows, {s}, FALSE),
         IsSerial(c), DOMAIN rows = 0 .. s, NEW h, Front(rows[s]) = h,
         NEW F, \A y \in F : y[2] \notin 0 .. s
  PROVE  CallRule(e, c, Only(F \cup Own(e, s, h)), Only(F \cup Own(e, s, rows[s])))
<1>1. c.by = "serialPrefillLogits" /\ c.rows = rows /\ c.asked = {s} /\ c.fill = FALSE /\ c.kind = "serial"
  BY DEF StepCall
<1>2. LiveRows(e, c) = IF e.live THEN {} ELSE {s}
  BY <1>1 DEF LiveRows, Live, Batched
<1>. PICK X, Y : X = Only(F \cup Own(e, s, h)) /\ Y = Only(F \cup Own(e, s, rows[s]))
  OBVIOUS
<1>3. /\ X.st = F \cup Own(e, s, h) /\ Y.st = F \cup Own(e, s, rows[s]) /\ Y.hd = {}
  BY DEF Only
<1>4. ASSUME NEW i \in LiveRows(e, c), NEW l \in 1 .. NL PROVE <<l, i, Front(c.rows[i])>> \in X.st
  <2>1. ~e.live /\ i = s
    BY <1>2, <1>4
  <2>2. <<l, s, h>> \in Own(e, s, h)
    BY <1>4, <2>1, OwnIs
  <2>. QED  BY <1>1, <1>3, <2>1, <2>2
<1>5. ASSUME NEW y \in Y.st
      PROVE  (y \in X.st /\ y[2] \notin DOMAIN c.rows) \/ \E i \in LiveRows(e, c), l \in 1 .. NL : y = <<l, i, c.rows[i]>>
  <2>1. CASE y \in F
    BY <1>1, <1>3, <2>1
  <2>2. CASE y \in Own(e, s, rows[s])
    <3>1. ~e.live /\ \E l \in 1 .. NL : y = <<l, s, rows[s]>>
      BY <2>2, OwnPick
    <3>. QED  BY <1>1, <1>2, <3>1
  <2>. QED  BY <1>3, <1>5, <2>1, <2>2
<1>6. SerialRule(e, c, X, Y)
  BY <1>1, <1>3, <1>4, <1>5 DEF SerialRule
<1>. QED  BY <1>6 DEF CallRule

\* The serial prefill: a reset, then one step CB for every token of the request.
LEMMA SerialPrefillChain ==
  ASSUME ChainInv, NEW s \in Slot, NEW n \in 1 .. NCtx, SerialPrefillLogits(s, n)
  PROVE  Underway'
<1>. PICK toks : toks = [j \in 1 .. n |-> Run(j)]
  OBVIOUS
<1>. DEFINE rows(j) == [x \in 0 .. s |-> IF x = s THEN toks[j] ELSE <<0>>]
            f == [j \in 1 .. n |-> StepCall("serialPrefillLogits", rows(j), {s}, FALSE)]
            first == <<ResetCall(s)>>
            F == HeldBy(active, fed)
            k == [j \in 1 .. n + 1 |-> Only(F \cup Own(cfg, s, Run(j - 1)))]
<1>0. n \in Nat \ {0} /\ s \in 0 .. NSlots - 1 /\ NSlots \in Nat /\ s \in Nat
  BY Sizes DEF Slot
<1>1. Op(first \o f, active, fed) /\ Host
  <2>1. f = [j \in 1 .. n |-> StepCall("serialPrefillLogits", [x \in 0 .. s |-> IF x = s THEN Run(j) ELSE <<0>>], {s}, FALSE)]
    OBVIOUS
  <2>. HIDE DEF f
  <2>. QED  BY <2>1, Zenon DEF SerialPrefillLogits
<1>2. s \notin active /\ active \subseteq Slot /\ \A x \in active : x > s
  BY DEF SerialPrefillLogits, ChainInv, TypeInv, TypeOK
<1>3. f = [j \in 1 .. n |-> f[j]]
  OBVIOUS
<1>4. \A j \in 1 .. n : f[j] = StepCall("serialPrefillLogits", rows(j), {s}, FALSE)
  OBVIOUS
<1>5. \A j \in 1 .. n : toks[j] = Run(j) /\ DOMAIN rows(j) = 0 .. s /\ rows(j)[s] = toks[j]
  BY <1>0
<1>6. \A j \in 1 .. n + 1 : k[j] = Only(F \cup Own(cfg, s, Run(j - 1)))
  OBVIOUS
<1>. HIDE DEF f, rows, k
<1>7. CallsOK(first \o f)
  <2>1. TypeInv'
    BY SerialPrefillTypes DEF ChainInv
  <2>2. todo' = first \o f
    BY <1>1, Zenon DEF Op
  <2>. QED  BY <2>1, <2>2, Zenon DEF TypeInv
<1>8. ASSUME NEW j \in 1 .. n PROVE IsSerial(f[j])
  <2>1. IsSeq(first) /\ Len(first) = 1 /\ IsSeq(f) /\ Len(f) = n
    BY <1>0, <1>3, SeqOne, SeqMade
  <2>. HIDE DEF first
  <2>2. Len(first \o f) = 1 + n /\ \A i \in 1 .. 1 + n : (first \o f)[i] = IF i <= 1 THEN first[i] ELSE f[i - 1]
    <3>1. /\ Len(first \o f) = Len(first) + Len(f)
          /\ \A i \in 1 .. Len(first) + Len(f) :
               (first \o f)[i] = IF i <= Len(first) THEN first[i] ELSE f[i - Len(first)]
      BY <2>1, SeqConcat, Zenon
    <3>. QED  BY <2>1, <3>1
  <2>3. j + 1 \in 1 .. 1 + n /\ ~(j + 1 <= 1) /\ (j + 1) - 1 = j
    BY <1>0
  <2>4. IsCall(f[j])
    BY <1>7, <2>2, <2>3 DEF CallsOK
  <2>. QED  BY <1>4, <2>4, SerialIs
<1>9. ASSUME NEW y \in F PROVE y[2] \notin 0 .. s /\ y[2] # s
  <2>1. PICK q \in active : y[2] = q
    BY <1>9, HeldPick
  <2>2. q \in Nat /\ q > s
    BY <1>2, <2>1, Sizes DEF Slot
  <2>. QED  BY <1>0, <2>1, <2>2
<1>. HIDE DEF F
<1>10. ASSUME NEW j \in 1 .. n PROVE CallRule(cfg, f[j], k[j], k[j + 1])
  <2>1. j \in Nat \ {0} /\ j \in 1 .. n + 1 /\ j + 1 \in 1 .. n + 1 /\ (j + 1) - 1 = j
    BY <1>0
  <2>2. Front(toks[j]) = Run(j - 1)
    BY <1>5, <2>1, RunFront DEF ChainInv
  <2>3. CallRule(cfg, f[j], Only(F \cup Own(cfg, s, Run(j - 1))), Only(F \cup Own(cfg, s, rows(j)[s])))
    BY <1>0, <1>4, <1>5, <1>8, <1>9, <2>2, LoneStep
  <2>. QED  BY <1>5, <1>6, <2>1, <2>3
<1>11. Plan(cfg, f, k[1], k[n + 1])
  BY <1>0, <1>3, <1>10, PlanMade
<1>12. Plan(cfg, first, Only(F), k[1])
  <2>1. k[1] = Only(F \cup Own(cfg, s, <<>>))
    <3>1. 1 \in 1 .. n + 1 /\ 1 - 1 = 0 /\ Run(0) = <<>>
      BY <1>0, RunFront DEF ChainInv
    <3>. QED  BY <1>6, <3>1
  <2>2. ASSUME NEW y \in F \cup Own(cfg, s, <<>>)
        PROVE  (y \in F /\ y[2] # s) \/ \E l \in 1 .. NL : y = <<l, s, <<>>>>
    BY <1>9, <2>2, OwnPick
  <2>3. ResetRule(ResetCall(s), Only(F), k[1])
    BY <2>1, <2>2 DEF ResetRule, Only
  <2>. QED  BY <2>3, PlanOne DEF CallRule
<1>13. Plan(cfg, first \o f, Only(F), k[n + 1])
  BY <1>11, <1>12, PlanConcat
<1>14. F \subseteq k[n + 1].st
  <2>1. n + 1 \in 1 .. n + 1
    BY <1>0
  <2>. PICK G : G = Own(cfg, s, Run((n + 1) - 1))
    OBVIOUS
  <2>2. k[n + 1] = Only(F \cup G)
    BY <1>6, <2>1
  <2>3. k[n + 1].st = F \cup G
    BY <2>2 DEF Only
  <2>. QED  BY <2>3
<1>. PICK cs, X, Z : cs = first \o f /\ X = Only(F) /\ Z = k[n + 1]
  OBVIOUS
<1>15. X.st = HeldBy(active, fed) /\ X.hd = {}
  BY DEF Only, F
<1>. HIDE DEF first
<1>. QED  BY <1>1, <1>13, <1>14, <1>15, OpChain DEF F

\* One history at some layers of a stripe.
Facts(Ls, q, h) == {<<l, q, h>> : l \in Ls}
\* The layers of each kind, and the facts that layers Ls of stripe q hold history h.
RecLayers == {l \in 1 .. NL : Layers[l] = "rec"}
AttnLayers == {l \in 1 .. NL : Layers[l] = "attn"}
AllLayers == 1 .. NL

LEMMA FactIs == ASSUME NEW Ls, NEW q, NEW h, NEW l \in Ls PROVE <<l, q, h>> \in Facts(Ls, q, h)
BY DEF Facts
LEMMA FactPick ==
  ASSUME NEW Ls, NEW q, NEW h, NEW y \in Facts(Ls, q, h)
  PROVE  \E l \in Ls : y = <<l, q, h>> /\ y[1] = l /\ y[2] = q /\ y[3] = h
BY DEF Facts
LEMMA TwoKinds ==
  /\ \A l \in 1 .. NL : (l \in RecLayers <=> Layers[l] = "rec") /\ (l \in AttnLayers <=> Layers[l] # "rec")
  /\ \A l \in 1 .. NL : l \in AttnLayers <=> Layers[l] = "attn"
  /\ RecLayers \subseteq 1 .. NL /\ AttnLayers \subseteq 1 .. NL
<1>1. \A l \in 1 .. NL : Layers[l] \in {"rec", "attn"}
  BY GpuChainAssumption DEF NL
<1>. QED  BY <1>1 DEF RecLayers, AttnLayers

\* A proper batch.
BatchArgsOK(s, stripe, h, toks, want, first, last) ==
  /\ s \in Slot /\ stripe \in {s, Scratch} /\ h \in History /\ toks \in History
  /\ Len(toks) \in 1 .. MaxB /\ Len(h) + Len(toks) <= NCtx
  /\ want \in {"ids", "logits", "none"} /\ first \in 1 .. NL /\ last \in first .. NL
\* A batch call carries the history and the tokens it was made from.
LEMMA BatchIs ==
  ASSUME NEW by, NEW s, NEW stripe, NEW h, NEW toks, NEW want, NEW first, NEW last,
         BatchArgsOK(s, stripe, h, toks, want, first, last)
  PROVE  LET c == BatchCall(by, s, stripe, h, toks, want, first, last) IN
         /\ BatchOf(c, h, toks) /\ c.by = by /\ c.slot = s /\ c.stripe = stripe /\ c.want = want
         /\ c.first = first /\ c.last = last
<1>. DEFINE c == BatchCall(by, s, stripe, h, toks, want, first, last)
<1>1. /\ c.by = by /\ c.slot = s /\ c.stripe = stripe /\ c.want = want /\ c.first = first
      /\ c.last = last
  BY DEF BatchCall
<1>2. c = BatchCall(c.by, c.slot, c.stripe, h, toks, c.want, c.first, c.last)
  BY <1>1
<1>. HIDE DEF c
<1>3. BatchOf(c, h, toks)
  BY <1>1, <1>2 DEF BatchOf, BatchArgsOK
<1>. QED  BY <1>1, <1>3 DEF c

\* The copy to the verify stripe.
LEMMA CopyOut ==
  ASSUME NEW e, NEW s \in Slot, NEW h \in History
  PROVE  CallRule(e, CopyCall(s, Scratch), Only(Facts(AllLayers, s, h)),
                  Only(Facts(AllLayers, s, h) \cup Facts(RecLayers, Scratch, h)))
<1>. PICK X, Y : /\ X = Only(Facts(AllLayers, s, h))
                 /\ Y = Only(Facts(AllLayers, s, h) \cup Facts(RecLayers, Scratch, h))
  OBVIOUS
<1>1. /\ X.st = Facts(AllLayers, s, h) /\ Y.st = X.st \cup Facts(RecLayers, Scratch, h)
      /\ Y.hd \subseteq X.hd
  BY DEF Only
<1>2. s # Scratch /\ s \in 0 .. NSlots /\ Scratch \in 0 .. NSlots
  BY SlotStripe, Sizes DEF Slot, Scratch
<1>3. ASSUME NEW y \in Y.st
      PROVE  \/ y \in X.st /\ (y[2] # Scratch \/ Layers[y[1]] = "attn")
             \/ \E l \in 1 .. NL, g \in History :
                  Layers[l] = "rec" /\ <<l, s, g>> \in X.st /\ y = <<l, Scratch, g>>
  <2>1. CASE y \in X.st
    <3>1. y[2] = s
      BY <1>1, <2>1, FactPick
    <3>. QED  BY <1>2, <2>1, <3>1
  <2>2. CASE y \in Facts(RecLayers, Scratch, h)
    <3>1. PICK l \in RecLayers : y = <<l, Scratch, h>>
      BY <2>2, FactPick
    <3>2. l \in 1 .. NL /\ Layers[l] = "rec"
      BY TwoKinds
    <3>3. <<l, s, h>> \in X.st
      <4>1. l \in AllLayers
        BY <3>2 DEF AllLayers
      <4>. QED  BY <1>1, <4>1, FactIs
    <3>. QED  BY <3>1, <3>2, <3>3
  <2>. QED  BY <1>1, <1>3, <2>1, <2>2
<1>4. CopyRule(CopyCall(s, Scratch), X, Y)
  BY <1>1, <1>2, <1>3 DEF CopyRule
<1>. QED  BY <1>4 DEF CallRule

\* What a verify round leaves: the live state of the DeltaNet layers as it was.
Verified(s, h, t) ==
  Facts(AllLayers, s, h) \cup Facts(RecLayers, Scratch, h \o t) \cup Facts(AttnLayers, s, h \o t)

\* The verify batch leaves the live recurrent state alone: it works on the scratch stripe.
LEMMA VerifyCall ==
  ASSUME NEW e, NEW s \in Slot, NEW h \in History, NEW t \in History, h # <<>>,
         Len(t) \in 1 .. MaxB, Len(h) + Len(t) <= NCtx
  PROVE  CallRule(e, BatchCall("verify", s, Scratch, h, t, "ids", 1, NL),
                  Only(Facts(AllLayers, s, h) \cup Facts(RecLayers, Scratch, h)), Only(Verified(s, h, t)))
<1>. PICK c : c = BatchCall("verify", s, Scratch, h, t, "ids", 1, NL)
  OBVIOUS
<1>. PICK X, Y : /\ X = Only(Facts(AllLayers, s, h) \cup Facts(RecLayers, Scratch, h))
                 /\ Y = Only(Verified(s, h, t))
  OBVIOUS
<1>1. /\ X.st = Facts(AllLayers, s, h) \cup Facts(RecLayers, Scratch, h)
      /\ Y.st = Verified(s, h, t) /\ Y.hd = {}
  BY DEF Only
<1>2. s # Scratch /\ 1 \in 1 .. NL /\ NL \in 1 .. NL
  BY SlotStripe, Sizes DEF Slot, Scratch
<1>3. BatchOf(c, h, t) /\ c.slot = s /\ c.stripe = Scratch /\ c.first = 1 /\ c.last = NL
  <2>1. BatchArgsOK(s, Scratch, h, t, "ids", 1, NL)
    BY <1>2 DEF BatchArgsOK
  <2>. QED  BY <2>1, BatchIs
<1>4. ASSUME NEW l \in 1 .. NL PROVE <<l, s, h>> \in X.st /\ (Layers[l] = "rec" => <<l, Scratch, h>> \in X.st)
  <2>1. <<l, s, h>> \in Facts(AllLayers, s, h)
    <3>1. l \in AllLayers
      BY DEF AllLayers
    <3>. QED  BY <3>1, FactIs
  <2>2. Layers[l] = "rec" => <<l, Scratch, h>> \in Facts(RecLayers, Scratch, h)
    BY TwoKinds, FactIs
  <2>. QED  BY <1>1, <2>1, <2>2
<1>. DEFINE u == h \o t
<1>. HIDE DEF u
<1>5. ASSUME NEW y \in Y.st
      PROVE  \/ /\ y \in X.st
                /\ y[1] \in c.first .. c.last =>
                     IF Layers[y[1]] = "rec" THEN y[2] # c.stripe ELSE y[2] # c.slot \/ Len(y[3]) <= Len(h)
             \/ \E l \in c.first .. c.last :
                  y = <<l, IF Layers[l] = "rec" THEN c.stripe ELSE c.slot, u>>
  <2>1. CASE y \in Facts(AllLayers, s, h)
    <3>1. y[2] = s /\ y[3] = h
      BY <2>1, FactPick
    <3>2. Len(h) <= Len(h)
      BY DEF History
    <3>. QED  BY <1>1, <1>2, <1>3, <2>1, <3>1, <3>2
  <2>2. CASE y \in Facts(RecLayers, Scratch, u)
    <3>1. PICK l \in RecLayers : y = <<l, Scratch, u>>
      BY <2>2, FactPick
    <3>. QED  BY <1>3, <3>1, TwoKinds
  <2>3. CASE y \in Facts(AttnLayers, s, u)
    <3>1. PICK l \in AttnLayers : y = <<l, s, u>>
      BY <2>3, FactPick
    <3>. QED  BY <1>3, <3>1, TwoKinds
  <2>. QED  BY <1>1, <1>5, <2>1, <2>2, <2>3 DEF Verified, u
<1>6. BatchStep(c, h, t, X, Y)
  BY <1>1, <1>3, <1>4, <1>5 DEF BatchStep, u
<1>. QED  BY <1>6, BatchRuleStep DEF CallRule

\* Every draft accepted: the scratch stripe, copied back, is the live state.
LEMMA Promote ==
  ASSUME NEW e, NEW s \in Slot, NEW h, NEW t, h \o t \in History
  PROVE  CallRule(e, CopyCall(Scratch, s), Only(Verified(s, h, t)), Only(Facts(AllLayers, s, h \o t)))
<1>. DEFINE u == h \o t  X == Only(Verified(s, h, t))  Y == Only(Facts(AllLayers, s, u))
<1>1. /\ X.st = Facts(AllLayers, s, h) \cup Facts(RecLayers, Scratch, u) \cup Facts(AttnLayers, s, u)
      /\ Y.st = Facts(AllLayers, s, u) /\ Y.hd = {} /\ u \in History
  BY DEF Only, Verified
<1>. HIDE DEF X, Y, u
<1>2. s \in 0 .. NSlots /\ Scratch \in 0 .. NSlots
  BY SlotStripe
<1>3. ASSUME NEW y \in Y.st
      PROVE  \/ y \in X.st /\ (y[2] # s \/ Layers[y[1]] = "attn")
             \/ \E l \in 1 .. NL, g \in History :
                  Layers[l] = "rec" /\ <<l, Scratch, g>> \in X.st /\ y = <<l, s, g>>
  <2>1. PICK l \in AllLayers : y = <<l, s, u>> /\ y[1] = l
    BY <1>1, <1>3, FactPick
  <2>2. l \in 1 .. NL
    BY DEF AllLayers
  <2>3. CASE Layers[l] = "rec"
    <3>1. l \in RecLayers
      BY <2>2, <2>3, TwoKinds
    <3>2. <<l, Scratch, u>> \in X.st
      BY <1>1, <3>1, FactIs
    <3>. QED  BY <1>1, <2>1, <2>2, <2>3, <3>2
  <2>4. CASE Layers[l] # "rec"
    <3>1. l \in AttnLayers
      BY <2>2, <2>4, TwoKinds
    <3>2. y \in X.st
      BY <1>1, <2>1, <3>1, FactIs
    <3>3. Layers[y[1]] = "attn"
      BY <2>1, <2>2, <3>1, TwoKinds
    <3>. QED  BY <3>2, <3>3
  <2>. QED  BY <2>3, <2>4
<1>4. CopyRule(CopyCall(Scratch, s), X, Y)
  BY <1>1, <1>2, <1>3 DEF CopyRule
<1>. QED  BY <1>4 DEF CallRule, X, Y, u

\* Some drafts accepted: a second batch replays them on the live stripe.
LEMMA CommitCall ==
  ASSUME NEW e, NEW s \in Slot, NEW h \in History, NEW t, NEW k \in History,
         Len(k) \in 1 .. MaxB, Len(h) + Len(k) <= NCtx
  PROVE  CallRule(e, BatchCall("commit", s, s, h, k, "none", 1, NL),
                  Only(Verified(s, h, t)), Only(Facts(AllLayers, s, h \o k)))
<1>. PICK c : c = BatchCall("commit", s, s, h, k, "none", 1, NL)
  OBVIOUS
<1>. DEFINE u == h \o k  X == Only(Verified(s, h, t))  Y == Only(Facts(AllLayers, s, u))
<1>1. Facts(AllLayers, s, h) \subseteq X.st /\ Y.st = Facts(AllLayers, s, u) /\ Y.hd = {}
  BY DEF Only, Verified
<1>. HIDE DEF X, Y, u
<1>2. BatchOf(c, h, k) /\ c.slot = s /\ c.stripe = s /\ c.first = 1 /\ c.last = NL
  <2>1. BatchArgsOK(s, s, h, k, "none", 1, NL)
    BY Sizes DEF BatchArgsOK
  <2>. QED  BY <2>1, BatchIs
<1>3. \A l \in c.first .. c.last : <<l, c.slot, h>> \in X.st /\ <<l, c.stripe, h>> \in X.st
  <2>. SUFFICES ASSUME NEW l \in AllLayers PROVE <<l, s, h>> \in X.st
    BY <1>2 DEF AllLayers
  <2>. QED  BY <1>1, FactIs
<1>4. \A y \in Y.st : \E l \in c.first .. c.last :
         y = <<l, IF Layers[l] = "rec" THEN c.stripe ELSE c.slot, u>>
  <2>. SUFFICES ASSUME NEW y \in Y.st PROVE \E l \in AllLayers : y = <<l, s, u>>
    BY <1>2 DEF AllLayers
  <2>. QED  BY <1>1, FactPick
<1>5. BatchStep(c, h, k, X, Y)
  BY <1>1, <1>2, <1>3, <1>4 DEF BatchStep, u
<1>. QED  BY <1>5, BatchRuleStep DEF CallRule, X, Y, u

\* A lone active slot announces its own history.
LEMMA HeldLone == ASSUME NEW s, NEW f PROVE HeldBy({s}, f) = Facts(AllLayers, s, f[s])
BY DEF HeldBy, Facts, AllLayers

\* A plan of two calls.
LEMMA PlanTwo ==
  ASSUME NEW e, NEW x, NEW y, NEW K, NEW L, NEW M, CallRule(e, x, K, L), CallRule(e, y, L, M)
  PROVE  Plan(e, <<x, y>>, K, M)
<1>1. <<x>> \o <<y>> = <<x, y>>
  <2>. DEFINE S == {x, y}  a == <<x>>  b == <<y>>  c == <<x, y>>
  <2>1. a \in Seq(S) /\ Len(a) = 1 /\ a[1] = x /\ b \in Seq(S) /\ Len(b) = 1 /\ b[1] = y
    OBVIOUS
  <2>2. c \in Seq(S) /\ Len(c) = 2 /\ c[1] = x /\ c[2] = y
    OBVIOUS
  <2>. HIDE DEF a, b, c, S
  <2>3. /\ a \o b \in Seq(S) /\ Len(a \o b) = 1 + 1
        /\ \A i \in 1 .. 1 + 1 : (a \o b)[i] = IF i <= 1 THEN a[i] ELSE b[i - 1]
    <3>1. a \in Seq(S) /\ b \in Seq(S)
      BY <2>1
    <3>2. /\ a \o b \in Seq(S) /\ Len(a \o b) = Len(a) + Len(b)
          /\ \A i \in 1 .. Len(a) + Len(b) : (a \o b)[i] = IF i <= Len(a) THEN a[i] ELSE b[i - Len(a)]
      BY <3>1, ConcatProperties
    <3>. QED  BY <2>1, <3>2
  <2>4. (a \o b)[1] = x /\ (a \o b)[2] = y /\ Len(a \o b) = 2
    BY <2>1, <2>3
  <2>. DEFINE d == a \o b
  <2>. HIDE DEF d
  <2>5. d = c
    <3>1. d \in Seq(S) /\ c \in Seq(S) /\ Len(d) = Len(c) /\ \A i \in 1 .. Len(c) : d[i] = c[i]
      <4>1. \A i \in 1 .. 2 : i = 1 \/ i = 2
        OBVIOUS
      <4>. QED  BY <2>2, <2>3, <2>4, <4>1 DEF d
    <3>. QED  BY <3>1
  <2>. QED  BY <2>5 DEF a, b, c, d
<1>2. Plan(e, <<x>>, K, L) /\ Plan(e, <<y>>, L, M)
  BY PlanOne
<1>3. Plan(e, <<x>> \o <<y>>, K, M)
  BY <1>2, PlanConcat, Zenon
<1>. QED  BY <1>1, <1>3

\* Verification: copy to scratch, verify there, then promote or replay.
LEMMA VerifyChain ==
  ASSUME ChainInv, NEW s \in Slot, NEW n \in 1 .. NCtx, NEW k \in 1 .. n, Verify(s, n, k)
  PROVE  Underway'
<1>. DEFINE h == fed[s]  tn == Run(n)  tk == Run(k)
            verify == BatchCall("verify", s, Scratch, h, tn, "ids", 1, NL)
            commit == BatchCall("commit", s, s, h, tk, "none", 1, NL)
            begin == <<CopyCall(s, Scratch), verify>>
            end == IF k = n THEN <<CopyCall(Scratch, s)>> ELSE <<commit>>
            g == [fed EXCEPT ![s] = h \o tk]
            X == Only(Facts(AllLayers, s, h))
            V == Only(Verified(s, h, tn))
            Z == Only(Facts(AllLayers, s, h \o tk))
<1>1. Op(begin \o end, active, g)
  <2>. HIDE DEF end, verify, commit
  <2>1. Op(<<CopyCall(s, Scratch), verify>> \o end, active, [fed EXCEPT ![s] = fed[s] \o Run(k)])
    BY Zenon DEF Verify, end, verify, commit
  <2>. QED  BY <2>1
<1>2. Host /\ active = {s} /\ h # <<>> /\ n <= MaxB /\ Fits(h, n)
  BY DEF Verify
<1>3. n \in Nat /\ k \in Nat /\ k <= n /\ 1 <= k /\ 1 <= n /\ TypeInv
  BY Sizes DEF ChainInv
<1>4. h \in History /\ Len(h) + n <= NCtx
  BY <1>2, <1>3, FedMore
<1>5. tn \in History /\ Len(tn) = n /\ tk \in History /\ Len(tk) = k /\ Len(h) \in Nat /\ h \o tk \in History
  BY <1>3, <1>4, RunType
<1>6. HeldBy(active, g) = Facts(AllLayers, s, h \o tk) /\ HeldBy(active, fed) = Facts(AllLayers, s, h)
  <2>. DEFINE u == h \o tk
  <2>1. g[s] = u
    BY DEF ChainInv, TypeInv
  <2>. HIDE DEF g, u
  <2>2. HeldBy({s}, g) = Facts(AllLayers, s, u) /\ HeldBy({s}, fed) = Facts(AllLayers, s, fed[s])
    BY <2>1, HeldLone
  <2>. QED  BY <1>2, <2>2 DEF u
<1>7. h \o tk \in History /\ (k = n => tk = tn)
  BY <1>5
<1>. HIDE DEF h, tn, tk, g
<1>8. /\ Len(tn) \in 1 .. MaxB /\ Len(tk) \in 1 .. MaxB
      /\ Len(h) + Len(tn) <= NCtx /\ Len(h) + Len(tk) <= NCtx
  <2>1. MaxB \in Nat /\ NCtx \in Nat
    BY Sizes
  <2>. QED  BY <1>2, <1>3, <1>4, <1>5, <2>1
<1>9. Plan(cfg, begin, X, V)
  <2>. DEFINE M == Only(Facts(AllLayers, s, h) \cup Facts(RecLayers, Scratch, h))
  <2>1. CallRule(cfg, CopyCall(s, Scratch), X, M)
    BY <1>4, CopyOut
  <2>2. CallRule(cfg, verify, M, V)
    BY <1>2, <1>4, <1>5, <1>8, VerifyCall
  <2>. HIDE DEF M, X, V, verify
  <2>. QED  BY <2>1, <2>2, PlanTwo
<1>10. Plan(cfg, end, V, Z)
  <2>1. k = n => CallRule(cfg, CopyCall(Scratch, s), V, Z)
    BY <1>7, Promote
  <2>2. CallRule(cfg, commit, V, Z)
    BY <1>4, <1>5, <1>8, CommitCall
  <2>. HIDE DEF V, Z, commit
  <2>. QED  BY <2>1, <2>2, PlanOne
<1>. HIDE DEF begin, end, V
<1>11. Plan(cfg, begin \o end, X, Z)
  BY <1>9, <1>10, PlanConcat
<1>12. X.st = HeldBy(active, fed) /\ X.hd = {} /\ HeldBy(active, g) \subseteq Z.st
  BY <1>6 DEF Only
<1>. HIDE DEF X, Z
<1>13. PICK cs : cs = begin \o end
  OBVIOUS
<1>14. Op(cs, active, g) /\ Plan(cfg, cs, X, Z)
  BY <1>1, <1>11, <1>13
<1>. QED  BY <1>2, <1>12, <1>14, OpChain

\* A history and the first o of the tokens that follow it.
Sofar(h, t, o) == h \o SubSeq(t, 1, o)

\* The history after the first o tokens of t.
LEMMA SofarIs ==
  ASSUME NEW h \in History, NEW t \in History, NEW o \in 0 .. Len(t)
  PROVE  Sofar(h, t, o) \in History /\ Len(Sofar(h, t, o)) = Len(h) + o /\ Len(h) \in Nat
<1>1. o \in Nat /\ o <= Len(t) /\ h \in Seq(Nat) /\ t \in Seq(Nat)
  BY DEF History
<1>. DEFINE u == SubSeq(t, 1, o)
<1>2. u \in Seq(Nat) /\ Len(u) = o
  BY <1>1
<1>. HIDE DEF u
<1>3. h \o u \in Seq(Nat) /\ Len(h \o u) = Len(h) + Len(u) /\ Len(h) \in Nat
  <2>1. h \in Seq(Nat) /\ u \in Seq(Nat)
    BY <1>1, <1>2
  <2>. QED  BY <2>1, ConcatProperties
<1>. QED  BY <1>2, <1>3 DEF Sofar, History, u

LEMMA Regroup ==
  \A a, b, c \in Seq(Nat) : (a \o b) \o c = a \o (b \o c)
<1>. SUFFICES ASSUME NEW a \in Seq(Nat), NEW b \in Seq(Nat), NEW c \in Seq(Nat)
              PROVE  (a \o b) \o c = a \o (b \o c)
  OBVIOUS
<1>. QED  BY ConcatAssociative

\* One more batch of tokens.
LEMMA SofarMore ==
  ASSUME NEW h \in History, NEW t \in History, NEW o \in Nat, NEW q \in Nat, o < q, q <= Len(t)
  PROVE  /\ SubSeq(t, o + 1, q) \in History /\ Len(SubSeq(t, o + 1, q)) = q - o
         /\ Sofar(h, t, q) = Sofar(h, t, o) \o SubSeq(t, o + 1, q)
<1>. DEFINE u == SubSeq(t, 1, o)  v == SubSeq(t, o + 1, q)  w == SubSeq(t, 1, q)
<1>0. h \in Seq(Nat) /\ t \in Seq(Nat) /\ Len(t) \in Nat
  BY DEF History
<1>1. u \in Seq(Nat) /\ Len(u) = o /\ \A i \in 1 .. o : u[i] = t[i]
  BY <1>0
<1>2. v \in Seq(Nat) /\ Len(v) = q - o /\ \A i \in 1 .. q - o : v[i] = t[o + i]
  <2>1. v \in Seq(Nat) /\ Len(v) = q - o
    BY <1>0, SMTT(60)
  <2>2. ASSUME NEW i \in 1 .. q - o PROVE v[i] = t[o + i]
    <3>1. v[i] = t[(o + 1) + i - 1] /\ (o + 1) + i - 1 = o + i
      BY <1>0, SMTT(60)
    <3>. QED  BY <3>1
  <2>. QED  BY <2>1, <2>2
<1>3. w \in Seq(Nat) /\ Len(w) = q /\ \A i \in 1 .. q : w[i] = t[i]
  BY <1>0
<1>. HIDE DEF u, v, w
<1>4. /\ u \o v \in Seq(Nat) /\ Len(u \o v) = o + (q - o)
      /\ \A i \in 1 .. o + (q - o) : (u \o v)[i] = IF i <= o THEN u[i] ELSE v[i - o]
  <2>1. u \in Seq(Nat) /\ v \in Seq(Nat)
    BY <1>1, <1>2
  <2>2. /\ u \o v \in Seq(Nat) /\ Len(u \o v) = Len(u) + Len(v)
        /\ \A i \in 1 .. Len(u) + Len(v) : (u \o v)[i] = IF i <= Len(u) THEN u[i] ELSE v[i - Len(u)]
    BY <2>1, ConcatProperties
  <2>. QED  BY <1>1, <1>2, <2>2
<1>. DEFINE x == u \o v
<1>. HIDE DEF x
<1>5. x \in Seq(Nat) /\ Len(x) = q /\ \A i \in 1 .. q : x[i] = t[i]
  <2>1. o + (q - o) = q
    OBVIOUS
  <2>2. ASSUME NEW i \in 1 .. q PROVE x[i] = t[i]
    <3>1. CASE i <= o
      BY <1>1, <1>4, <2>1, <3>1 DEF x
    <3>2. CASE ~(i <= o)
      <4>1. i - o \in 1 .. q - o /\ o + (i - o) = i
        BY <3>2
      <4>2. x[i] = v[i - o]
        BY <1>4, <2>1, <3>2 DEF x
      <4>. QED  BY <1>2, <4>1, <4>2
    <3>. QED  BY <3>1, <3>2
  <2>. QED  BY <1>4, <2>1, <2>2 DEF x
<1>6. w = x
  <2>1. w \in Seq(Nat) /\ x \in Seq(Nat) /\ Len(w) = Len(x)
    BY <1>3, <1>5
  <2>2. \A i \in 1 .. Len(w) : w[i] = x[i]
    BY <1>3, <1>5
  <2>. QED  BY <2>1, <2>2, SeqEqual
<1>7. h \o (u \o v) = (h \o u) \o v
  <2>1. h \in Seq(Nat) /\ u \in Seq(Nat) /\ v \in Seq(Nat)
    BY <1>0, <1>1, <1>2
  <2>2. (h \o u) \o v = h \o (u \o v)
    BY <2>1, Regroup
  <2>. QED  BY <2>2
<1>. QED  BY <1>2, <1>6, <1>7 DEF Sofar, History, u, v, w, x

\* The layers of a stage.
Span(first, last) == first .. last

\* What is known of slot s at them: nothing of a request that has no tokens yet.
Held(first, last, s, h) == IF h = <<>> THEN {} ELSE Facts(Span(first, last), s, h)

\* The rows at positions lo .. hi - 1, handed on to layer m.
Handed(m, lo, hi) == {<<p, m>> : p \in {q \in Pos : lo <= q /\ q < hi}}

\* The rows handed on for a range of positions.
LEMMA HandedIs ==
  ASSUME NEW m, NEW lo, NEW hi, NEW p \in Pos, lo <= p, p < hi PROVE <<p, m>> \in Handed(m, lo, hi)
BY DEF Handed
LEMMA HandedPick ==
  ASSUME NEW m, NEW lo, NEW hi, NEW y \in Handed(m, lo, hi)
  PROVE  \E p \in Pos : y = <<p, m>> /\ y[1] = p /\ lo <= p /\ p < hi
BY DEF Handed

\* What is known when o of the tokens of t have gone through layers first .. last.
Midway(A, s, h, t, first, last, o) ==
  [st |-> A \cup Held(first, last, s, Sofar(h, t, o)),
   hd |-> (IF first = 1 THEN {} ELSE Handed(first, Len(h) + o, Len(h) + Len(t)))
          \cup (IF last = NL THEN {} ELSE Handed(last + 1, Len(h), Len(h) + o))]

\* The other facts are not of these layers at slot s.
Elsewhere(A, s, first, last) == \A y \in A : y[2] # s \/ y[1] \notin first .. last

\* Batch o .. q - 1 of the tokens.
LEMMA OneBatch ==
  ASSUME NEW e, NEW by, NEW s, NEW h, NEW t, NEW want, NEW first, NEW last, NEW A, NEW o \in Nat, NEW q \in Nat,
         s \in Slot, h \in History, t \in History, Len(h) + Len(t) <= NCtx,
         want \in {"ids", "logits", "none"}, first \in 1 .. NL, last \in first .. NL,
         Elsewhere(A, s, first, last), o < q, q <= Len(t), q - o <= MaxB
  PROVE  CallRule(e, BatchCall(by, s, s, Sofar(h, t, o), SubSeq(t, o + 1, q), want, first, last),
                  Midway(A, s, h, t, first, last, o), Midway(A, s, h, t, first, last, q))
<1>. DEFINE H == Sofar(h, t, o)  G == Sofar(h, t, q)  T == SubSeq(t, o + 1, q)
            c == BatchCall(by, s, s, H, T, want, first, last)
            X == Midway(A, s, h, t, first, last, o)  Y == Midway(A, s, h, t, first, last, q)
            n == Len(t)  m == Len(h)
<1>0. /\ n \in Nat /\ m \in Nat /\ MaxB \in Nat /\ NCtx \in Nat /\ first \in Nat /\ last \in Nat
      /\ NL \in Nat /\ m + n <= NCtx /\ q <= n
  BY Sizes DEF History
<1>1. H \in History /\ Len(H) = m + o /\ G \in History /\ Len(G) = m + q
  <2>1. o \in 0 .. Len(t) /\ q \in 0 .. Len(t)
    BY <1>0
  <2>. QED  BY <2>1, SofarIs
<1>2. T \in History /\ Len(T) = q - o /\ G = H \o T
  BY SofarMore
<1>. HIDE DEF H, G, T
<1>3. BatchOf(c, H, T) /\ c.slot = s /\ c.stripe = s /\ c.first = first /\ c.last = last
  <2>1. Len(T) \in 1 .. MaxB /\ Len(H) + Len(T) <= NCtx
    <3>. HIDE DEF n, m
    <3>. QED  BY <1>0, <1>1, <1>2
  <2>2. BatchArgsOK(s, s, H, T, want, first, last)
    BY <1>1, <1>2, <2>1 DEF BatchArgsOK
  <2>. QED  BY <2>2, BatchIs
<1>. HIDE DEF c
<1>4. /\ X.st = A \cup Held(first, last, s, H) /\ Y.st = A \cup Held(first, last, s, G)
      /\ X.hd = (IF first = 1 THEN {} ELSE Handed(first, m + o, m + n))
                \cup (IF last = NL THEN {} ELSE Handed(last + 1, m, m + o))
      /\ Y.hd = (IF first = 1 THEN {} ELSE Handed(first, m + q, m + n))
                \cup (IF last = NL THEN {} ELSE Handed(last + 1, m, m + q))
  BY DEF Midway, H, G
<1>. HIDE DEF X, Y, n, m
<1>5. H # <<>> => \A l \in first .. last : <<l, s, H>> \in X.st
  <2>. SUFFICES ASSUME H # <<>>, NEW l \in Span(first, last) PROVE <<l, s, H>> \in X.st
    BY DEF Span
  <2>1. <<l, s, H>> \in Facts(Span(first, last), s, H)
    BY FactIs
  <2>. QED  BY <1>4, <2>1 DEF Held
<1>6. first # 1 => \A p \in Pos : Len(H) <= p /\ p < Len(H) + Len(T) => <<p, first>> \in X.hd
  <2>. SUFFICES ASSUME first # 1, NEW p \in Pos, Len(H) <= p, p < Len(H) + Len(T) PROVE <<p, first>> \in X.hd
    OBVIOUS
  <2>1. p \in Nat /\ m + o <= p /\ p < m + n
    <3>1. p \in Nat
      BY Sizes DEF Pos
    <3>. QED  BY <1>0, <1>1, <1>2, <3>1
  <2>. PICK lo, hi : lo = m + o /\ hi = m + n
    OBVIOUS
  <2>2. <<p, first>> \in Handed(first, lo, hi)
    BY <2>1, HandedIs
  <2>. QED  BY <1>4, <2>2
<1>7. ASSUME NEW y \in Y.st
      PROVE  \/ /\ y \in X.st
                /\ y[1] \in c.first .. c.last =>
                     IF Layers[y[1]] = "rec" THEN y[2] # c.stripe ELSE y[2] # c.slot \/ Len(y[3]) <= Len(H)
             \/ \E l \in c.first .. c.last :
                  y = <<l, IF Layers[l] = "rec" THEN c.stripe ELSE c.slot, H \o T>>
  <2>1. CASE y \in A
    BY <1>3, <1>4, <2>1 DEF Elsewhere
  <2>2. CASE y \in Held(first, last, s, G)
    <3>1. y \in Facts(Span(first, last), s, G)
      BY <2>2 DEF Held
    <3>2. PICK l \in Span(first, last) : y = <<l, s, G>>
      BY <3>1, FactPick
    <3>3. l \in first .. last
      BY DEF Span
    <3>. QED  BY <1>2, <1>3, <3>2, <3>3
  <2>. QED  BY <1>4, <1>7, <2>1, <2>2
<1>8. ASSUME NEW y \in Y.hd
      PROVE  \/ y \in X.hd /\ ~(Len(H) <= y[1] /\ y[1] < Len(H) + Len(T))
             \/ c.last < NL /\ \E p \in Pos : Len(H) <= p /\ p < Len(H) + Len(T) /\ y = <<p, c.last + 1>>
  <2>0. Len(H) = m + o /\ Len(H) + Len(T) = m + q /\ m + o <= m + q
    BY <1>0, <1>1, <1>2
  <2>1. CASE first # 1 /\ y \in Handed(first, m + q, m + n)
    <3>. PICK lo, a, hi : lo = m + q /\ a = m + o /\ hi = m + n
      OBVIOUS
    <3>1. PICK p \in Pos : y = <<p, first>> /\ y[1] = p /\ lo <= p /\ p < hi
      BY <2>1, HandedPick
    <3>2. p \in Nat /\ lo \in Nat /\ a \in Nat /\ a <= lo
      BY <1>0, <2>0, Sizes DEF Pos
    <3>3. a <= p /\ ~(p < lo)
      BY <3>1, <3>2
    <3>4. <<p, first>> \in Handed(first, a, hi)
      BY <3>1, <3>3, HandedIs
    <3>5. y \in X.hd
      BY <1>4, <2>1, <3>1, <3>4
    <3>. QED  BY <2>0, <3>1, <3>3, <3>5
  <2>2. CASE last # NL /\ y \in Handed(last + 1, m, m + q)
    <3>. PICK lo, hi, k : lo = m + o /\ hi = m + q /\ k = last + 1
      OBVIOUS
    <3>1. PICK p \in Pos : y = <<p, k>> /\ y[1] = p /\ m <= p /\ p < hi
      BY <2>2, HandedPick
    <3>2. p \in Nat /\ lo \in Nat /\ last < NL
      BY <1>0, <2>2, Sizes DEF Pos
    <3>3. CASE p < lo
      <4>1. <<p, k>> \in Handed(k, m, lo)
        BY <3>1, <3>3, HandedIs
      <4>2. y \in X.hd /\ ~(lo <= p)
        BY <1>4, <2>2, <3>1, <3>2, <3>3, <4>1
      <4>. QED  BY <2>0, <3>1, <4>2
    <3>4. CASE ~(p < lo)
      <4>1. lo <= p
        BY <3>2, <3>4
      <4>. QED  BY <1>3, <2>0, <3>1, <3>2, <4>1
    <3>. QED  BY <3>3, <3>4
  <2>. QED  BY <1>4, <1>8, <2>1, <2>2
<1>9. BatchStep(c, H, T, X, Y)
  BY <1>3, <1>5, <1>6, <1>7, <1>8 DEF BatchStep
<1>. QED  BY <1>9, BatchRuleStep DEF CallRule, X, Y, c, H, T

\* A run of tokens, batch by batch.
LEMMA BatchesPlan ==
  ASSUME NEW e, NEW by, NEW s, NEW h, NEW t, NEW want, NEW first, NEW last, NEW A,
         s \in Slot, h \in History, t \in History, Len(h) + Len(t) <= NCtx,
         want \in {"ids", "logits", "none"}, first \in 1 .. NL, last \in first .. NL,
         Elsewhere(A, s, first, last)
  PROVE  Plan(e, Batches(by, s, h, t, want, first, last),
              Midway(A, s, h, t, first, last, 0), Midway(A, s, h, t, first, last, Len(t)))
<1>. DEFINE n == Len(t)
            N == Ceil(n, MaxB)
            off(k) == (k - 1) * MaxB
            call(k) == BatchCall(by, s, s, h \o SubSeq(t, 1, off(k)),
                                 SubSeq(t, off(k) + 1, Least(off(k) + MaxB, n)), want, first, last)
            f == [k \in 1 .. N |-> call(k)]
            M(o) == Midway(A, s, h, t, first, last, o)
            K == [k \in 1 .. N + 1 |-> M(Least(off(k), n))]
<1>0. n \in Nat /\ MaxB \in Nat \ {0}
  BY Sizes DEF History
<1>1. N = (n + MaxB - 1) \div MaxB
  BY DEF Ceil
<1>2. Batches(by, s, h, t, want, first, last) = f
  BY Zenon DEF Batches
<1>3. f = [k \in 1 .. N |-> f[k]] /\ \A k \in 1 .. N : f[k] = call(k)
  OBVIOUS
<1>4. \A k \in 1 .. N + 1 : K[k] = M(Least(off(k), n))
  OBVIOUS
<1>. HIDE DEF N, n, f, K, call, M
<1>5. N \in Nat /\ n <= N * MaxB /\ N * MaxB \in Nat
  BY <1>0, <1>1
<1>6. ASSUME NEW k \in 1 .. N
      PROVE  /\ off(k) \in Nat /\ off(k) < n /\ off(k + 1) = off(k) + MaxB
             /\ Least(off(k), n) = off(k)
  <2>1. k * MaxB <= n + MaxB - 1
    BY <1>0, <1>1, <1>5
  <2>2. (k - 1) * MaxB = k * MaxB - MaxB /\ k * MaxB \in Int /\ (k - 1) * MaxB \in Nat
    BY <1>0, <1>5
  <2>3. off(k + 1) = k * MaxB
    BY <1>0, <1>5
  <2>. QED  BY <1>0, <2>1, <2>2, <2>3 DEF Least
<1>7. ASSUME NEW k \in 1 .. N PROVE CallRule(e, f[k], K[k], K[k + 1])
  <2>. DEFINE o == off(k)  q == Least(off(k) + MaxB, n)
  <2>0. o \in Nat /\ o < n /\ off(k + 1) = o + MaxB /\ Least(off(k), n) = o
    BY <1>6
  <2>1. q = Least(off(k + 1), n)
    BY <2>0
  <2>2. f[k] = BatchCall(by, s, s, Sofar(h, t, o), SubSeq(t, o + 1, q), want, first, last)
    BY <1>3 DEF call, Sofar
  <2>. HIDE DEF o
  <2>3. q \in Nat /\ o < q /\ q <= n /\ q - o <= MaxB
    <3>1. q = IF o + MaxB < n THEN o + MaxB ELSE n
      BY DEF Least, o
    <3>. HIDE DEF q
    <3>. QED  BY <1>0, <2>0, <3>1
  <2>4. k \in 1 .. N + 1 /\ k + 1 \in 1 .. N + 1
    BY <1>5
  <2>5. K[k] = M(o) /\ K[k + 1] = M(q)
    BY <1>4, <2>0, <2>1, <2>4
  <2>. HIDE DEF q, off
  <2>6. CallRule(e, f[k], M(o), M(q))
    BY <2>0, <2>2, <2>3, OneBatch DEF M, n
  <2>. QED  BY <2>5, <2>6
<1>8. Plan(e, f, K[1], K[N + 1])
  BY <1>3, <1>5, <1>7, PlanMade
<1>9. K[1] = M(0)
  <2>1. 1 \in 1 .. N + 1 /\ off(1) = 0 /\ Least(0, n) = 0
    BY <1>0, <1>5 DEF Least
  <2>. QED  BY <1>4, <2>1
<1>10. K[N + 1] = M(n)
  <2>1. N + 1 \in 1 .. N + 1 /\ (N + 1) - 1 = N
    BY <1>5
  <2>2. off(N + 1) = N * MaxB
    BY <2>1
  <2>3. Least(off(N + 1), n) = n
    BY <1>0, <1>5, <2>2 DEF Least
  <2>. QED  BY <1>4, <2>1, <2>3
<1>. QED  BY <1>2, <1>8, <1>9, <1>10 DEF M, n

\* The requests on the other slots.
Others(s) == HeldBy(active \ {s}, fed)

\* Before the first batch and after the last.
LEMMA SofarEnds ==
  ASSUME NEW h \in History, NEW t \in History
  PROVE  Sofar(h, t, 0) = h /\ Sofar(h, t, Len(t)) = h \o t
<1>. DEFINE u == SubSeq(t, 1, 0)  v == SubSeq(t, 1, Len(t))
<1>0. h \in Seq(Nat) /\ t \in Seq(Nat)
  BY DEF History
<1>1. u = <<>>
  <2>1. u \in Seq(Nat) /\ Len(u) = 0
    BY <1>0
  <2>. QED  BY <2>1
<1>2. v = t
  BY <1>0
<1>3. h \o <<>> = h
  BY <1>0, ConcatEmptySeq
<1>. QED  BY <1>1, <1>2, <1>3 DEF Sofar

\* What a run of tokens starts from.
LEMMA StartsHeld ==
  ASSUME TypeInv, NEW s \in Slot, NEW h, h # <<>> => s \in active /\ h = fed[s],
         NEW first \in 1 .. NL, NEW last \in first .. NL
  PROVE  /\ Others(s) \subseteq HeldBy(active, fed) /\ Held(first, last, s, h) \subseteq HeldBy(active, fed)
         /\ \A y \in Others(s) : y[2] # s
         /\ \A g : \A y \in Held(first, last, s, g) : y[1] \in first .. last
<1>0. first \in Nat /\ last \in Nat /\ last <= NL /\ 1 <= first /\ NL \in Nat
  BY Sizes
<1>1. ASSUME NEW y \in Others(s) PROVE y \in HeldBy(active, fed) /\ y[2] # s
  <2>1. PICK l \in 1 .. NL, q \in active \ {s} : y = <<l, q, fed[q]>> /\ y[2] = q
    BY <1>1, HeldPick DEF Others
  <2>. QED  BY <2>1, HeldIs
<1>2. ASSUME NEW y \in Held(first, last, s, h) PROVE y \in HeldBy(active, fed)
  <2>1. y \in Facts(Span(first, last), s, h) /\ s \in active /\ h = fed[s]
    BY <1>2 DEF Held
  <2>2. PICK l \in Span(first, last) : y = <<l, s, h>>
    BY <2>1, FactPick
  <2>3. l \in 1 .. NL
    BY <1>0 DEF Span
  <2>4. <<l, s, fed[s]>> \in HeldBy(active, fed)
    BY <2>1, <2>3, HeldIs
  <2>. QED  BY <2>1, <2>2, <2>4
<1>3. ASSUME NEW g, NEW y \in Held(first, last, s, g) PROVE y[1] \in first .. last
  <2>1. y \in Facts(Span(first, last), s, g)
    BY <1>3 DEF Held
  <2>2. PICK l \in Span(first, last) : y[1] = l
    BY <2>1, FactPick
  <2>. QED  BY <2>2 DEF Span
<1>. QED  BY <1>1, <1>2, <1>3

\* What it ends with.
LEMMA EndsHeld ==
  ASSUME TypeInv, NEW s \in Slot, NEW u, u # <<>>
  PROVE  HeldBy(active \cup {s}, [fed EXCEPT ![s] = u]) \subseteq Others(s) \cup Held(1, NL, s, u)
<1>. SUFFICES ASSUME NEW y, y \in HeldBy(active \cup {s}, [fed EXCEPT ![s] = u])
              PROVE  y \in Others(s) \cup Held(1, NL, s, u)
  BY Zenon
<1>1. (y \in HeldBy(active, fed) /\ y[2] # s) \/ \E l \in 1 .. NL : y = <<l, s, u>>
  <2>. DEFINE act == active \cup {s}
  <2>1. y \in HeldBy(act, [fed EXCEPT ![s] = u]) /\ act \subseteq active \cup {s}
    OBVIOUS
  <2>. HIDE DEF act
  <2>. QED  BY <2>1, HeldMore
<1>2. CASE y \in HeldBy(active, fed) /\ y[2] # s
  <2>1. PICK l \in 1 .. NL, q \in active : y = <<l, q, fed[q]>> /\ y[2] = q
    BY <1>2, HeldPick
  <2>2. q \in active \ {s}
    BY <1>2, <2>1
  <2>3. y \in Others(s)
    BY <2>1, <2>2, HeldIs DEF Others
  <2>. QED  BY <2>3
<1>3. CASE \E l \in 1 .. NL : y = <<l, s, u>>
  <2>1. PICK l \in Span(1, NL) : y = <<l, s, u>>
    BY <1>3 DEF Span
  <2>2. y \in Facts(Span(1, NL), s, u)
    BY <2>1, FactIs
  <2>. QED  BY <2>2 DEF Held
<1>. QED  BY <1>1, <1>2, <1>3

\* A request of at least one token leaves a history.
LEMMA NotEmpty ==
  ASSUME TypeInv, NEW h \in History, NEW n \in Nat \ {0} PROVE h \o Run(n) # <<>>
<1>1. Len(h \o Run(n)) = Len(h) + n /\ Len(h) \in Nat
  BY RunType
<1>. DEFINE u == h \o Run(n)
<1>. HIDE DEF u
<1>2. Len(u) # 0
  BY <1>1 DEF u
<1>. QED  BY <1>2 DEF u

\* n tokens that fit, of a request or of one that begins.
Room(s, h, n) ==
  /\ s \in Slot /\ h \in History /\ n \in Nat \ {0} /\ Len(h) + n <= NCtx
  /\ h # <<>> => s \in active /\ h = fed[s]

\* Calls cs leave every request's history, u for slot s.
Serves(cs, s, u) ==
  \E X, Z : /\ Plan(cfg, cs, X, Z) /\ X.st \subseteq HeldBy(active, fed) /\ X.hd = {}
            /\ HeldBy(active \cup {s}, [fed EXCEPT ![s] = u]) \subseteq Z.st

\* All layers in one stage.
LEMMA WholePlan ==
  ASSUME TypeInv, NEW by, NEW s, NEW h, NEW n, NEW want, Room(s, h, n), want \in {"ids", "logits", "none"}
  PROVE  Serves(Batches(by, s, h, Run(n), want, 1, NL), s, h \o Run(n))
<1>. USE DEF Room
<1>. DEFINE t == Run(n)  A == Others(s)
            X == Midway(A, s, h, t, 1, NL, 0)  Z == Midway(A, s, h, t, 1, NL, Len(t))
<1>1. t \in History /\ Len(t) = n /\ h \o t # <<>> /\ 1 \in 1 .. NL /\ NL \in 1 .. NL
  <2>1. n \in Nat
    OBVIOUS
  <2>2. t \in History /\ Len(t) = n
    BY <2>1, RunType
  <2>3. h \o t # <<>>
    BY NotEmpty
  <2>. QED  BY <2>2, <2>3, Sizes
<1>2. Sofar(h, t, 0) = h /\ Sofar(h, t, Len(t)) = h \o t
  BY <1>1, SofarEnds
<1>3. A \subseteq HeldBy(active, fed) /\ Held(1, NL, s, h) \subseteq HeldBy(active, fed) /\ Elsewhere(A, s, 1, NL)
  BY <1>1, StartsHeld DEF Elsewhere
<1>4. HeldBy(active \cup {s}, [fed EXCEPT ![s] = h \o t]) \subseteq A \cup Held(1, NL, s, h \o t)
  <2>. DEFINE u == h \o t
  <2>. HIDE DEF u
  <2>1. u # <<>>
    BY <1>1 DEF u
  <2>2. HeldBy(active \cup {s}, [fed EXCEPT ![s] = u]) \subseteq A \cup Held(1, NL, s, u)
    BY <2>1, EndsHeld
  <2>. QED  BY <2>2 DEF u
<1>. HIDE DEF t, A
<1>5. X.st = A \cup Held(1, NL, s, h) /\ X.hd = {} /\ Z.st = A \cup Held(1, NL, s, h \o t)
  BY <1>2 DEF Midway
<1>6. Plan(cfg, Batches(by, s, h, t, want, 1, NL), X, Z)
  BY <1>1, <1>3, BatchesPlan
<1>. HIDE DEF X, Z
<1>. QED  BY <1>3, <1>4, <1>5, <1>6, Zenon DEF t, Serves

\* Two stages, the rows of the first one handed on to the second.
LEMMA CutPlan ==
  ASSUME TypeInv, NEW by, NEW s, NEW h, NEW n, NEW want, NEW cut, Room(s, h, n),
         want \in {"ids", "logits", "none"}, cut \in 1 .. NL - 1
  PROVE  Serves(Batches(by, s, h, Run(n), want, 1, cut) \o Batches(by, s, h, Run(n), want, cut + 1, NL),
                s, h \o Run(n))
<1>. USE DEF Room
<1>. DEFINE t == Run(n)  O == Others(s)  u == h \o t  m == Len(h)
            after == cut + 1
            A == O \cup Held(after, NL, s, h)
            B == O \cup Held(1, cut, s, u)
            X == Midway(A, s, h, t, 1, cut, 0)  M == Midway(A, s, h, t, 1, cut, n)
            L == Midway(B, s, h, t, after, NL, 0)  Z == Midway(B, s, h, t, after, NL, n)
<1>0. /\ 1 \in 1 .. NL /\ cut \in 1 .. NL /\ after \in 1 .. NL /\ NL \in after .. NL /\ after # 1
      /\ cut # NL /\ cut \in Nat /\ NL \in Nat /\ 1 <= cut /\ cut < NL
  BY Sizes
<1>1. t \in History /\ Len(t) = n /\ u # <<>> /\ m \in Nat
  <2>1. n \in Nat
    OBVIOUS
  <2>2. t \in History /\ Len(t) = n /\ m \in Nat
    BY <2>1, RunType
  <2>3. u # <<>>
    BY NotEmpty
  <2>. QED  BY <2>2, <2>3
<1>2. Sofar(h, t, 0) = h /\ Sofar(h, t, n) = u
  BY <1>1, SofarEnds
<1>. HIDE DEF t, u, m, after
<1>3. /\ O \subseteq HeldBy(active, fed) /\ Held(1, cut, s, h) \subseteq HeldBy(active, fed)
      /\ Held(after, NL, s, h) \subseteq HeldBy(active, fed)
      /\ \A y \in O : y[2] # s
      /\ \A y \in Held(1, cut, s, u) : y[1] \in 1 .. cut
      /\ \A y \in Held(after, NL, s, h) : y[1] \in after .. NL
  BY <1>0, StartsHeld
<1>. HIDE DEF O
<1>4. Elsewhere(A, s, 1, cut) /\ Elsewhere(B, s, after, NL)
  <2>1. \A i \in 1 .. cut : i \notin after .. NL
    BY <1>0 DEF after
  <2>. QED  BY <1>3, <2>1 DEF Elsewhere
<1>5. HeldBy(active \cup {s}, [fed EXCEPT ![s] = u]) \subseteq O \cup Held(1, NL, s, u)
  BY <1>1, EndsHeld DEF O
<1>6. Held(1, NL, s, u) \subseteq Held(1, cut, s, u) \cup Held(after, NL, s, u)
  <2>. SUFFICES ASSUME NEW y \in Facts(Span(1, NL), s, u)
                PROVE  y \in Facts(Span(1, cut), s, u) \/ y \in Facts(Span(after, NL), s, u)
    BY <1>1 DEF Held
  <2>1. PICK l \in Span(1, NL) : y = <<l, s, u>>
    BY FactPick
  <2>2. l \in Span(1, cut) \/ l \in Span(after, NL)
    BY <1>0 DEF Span, after
  <2>. QED  BY <2>1, <2>2, FactIs
<1>7. /\ X.st = A \cup Held(1, cut, s, h)
      /\ X.hd = Handed(cut + 1, m, m + 0)
      /\ M = [st |-> A \cup Held(1, cut, s, u), hd |-> {} \cup Handed(cut + 1, m, m + n)]
  BY <1>0, <1>2 DEF Midway, m
<1>8. /\ L = [st |-> B \cup Held(after, NL, s, h), hd |-> Handed(after, m + 0, m + Len(t)) \cup {}]
      /\ Z.st = B \cup Held(after, NL, s, u)
  BY <1>0, <1>2 DEF Midway, m
<1>9. M = L
  <2>1. m + 0 = m /\ Len(t) = n
    BY <1>1
  <2>2. A \cup Held(1, cut, s, u) = B \cup Held(after, NL, s, h)
    OBVIOUS
  <2>3. {} \cup Handed(cut + 1, m, m + n) = Handed(after, m + 0, m + Len(t)) \cup {}
    BY <2>1 DEF after
  <2>. HIDE DEF A, B, M, L
  <2>. QED  BY <1>7, <1>8, <2>2, <2>3
<1>10. X.hd = {}
  <2>1. Handed(cut + 1, m, m + 0) = {}
    <3>. SUFFICES ASSUME NEW y \in Handed(cut + 1, m, m + 0) PROVE FALSE
      OBVIOUS
    <3>. PICK k, lo, hi : k = cut + 1 /\ lo = m /\ hi = m + 0
      OBVIOUS
    <3>0. y \in Handed(k, lo, hi)
      OBVIOUS
    <3>1. PICK p \in Pos : lo <= p /\ p < hi
      BY <3>0, HandedPick
    <3>. QED  BY <1>1, <3>1, Sizes DEF Pos
  <2>. QED  BY <1>7, <2>1
<1>11. Plan(cfg, Batches(by, s, h, t, want, 1, cut), X, M)
  <2>. HIDE DEF A
  <2>1. Plan(cfg, Batches(by, s, h, t, want, 1, cut), X, Midway(A, s, h, t, 1, cut, Len(t)))
    BY <1>0, <1>1, <1>4, BatchesPlan
  <2>. QED  BY <1>1, <2>1
<1>12. Plan(cfg, Batches(by, s, h, t, want, after, NL), L, Z)
  <2>. HIDE DEF B
  <2>1. Plan(cfg, Batches(by, s, h, t, want, after, NL), L, Midway(B, s, h, t, after, NL, Len(t)))
    BY <1>0, <1>1, <1>4, BatchesPlan
  <2>. QED  BY <1>1, <2>1
<1>. HIDE DEF X, M, L, Z
<1>13. Plan(cfg, Batches(by, s, h, t, want, 1, cut) \o Batches(by, s, h, t, want, after, NL), X, Z)
  BY <1>9, <1>11, <1>12, PlanConcat
<1>14. X.st \subseteq HeldBy(active, fed)
  BY <1>3, <1>7
<1>15. HeldBy(active \cup {s}, [fed EXCEPT ![s] = u]) \subseteq Z.st
  BY <1>5, <1>6, <1>8
<1>. QED  BY <1>10, <1>13, <1>14, <1>15, Zenon DEF t, u, after, Serves

\* An operation whose calls serve one slot leaves a plan for them.
LEMMA ServedChain ==
  ASSUME ChainInv, Host, NEW cs, NEW s, NEW u, Op(cs, active \cup {s}, [fed EXCEPT ![s] = u]), Serves(cs, s, u)
  PROVE  Underway'
<1>1. PICK X, Z : /\ Plan(cfg, cs, X, Z) /\ X.st \subseteq HeldBy(active, fed) /\ X.hd = {}
                  /\ HeldBy(active \cup {s}, [fed EXCEPT ![s] = u]) \subseteq Z.st
  BY Zenon DEF Serves
<1>. DEFINE act == active \cup {s}  g == [fed EXCEPT ![s] = u]
<1>2. Op(cs, act, g) /\ HeldBy(act, g) \subseteq Z.st
  BY <1>1
<1>. HIDE DEF act, g
<1>. QED  BY <1>1, <1>2, OpChain

\* The guard of a prefill leaves room for the request.
LEMMA HasRoom ==
  ASSUME TypeInv, NEW s \in Slot, NEW h, NEW n \in 1 .. NCtx, Fits(h, n), h \in {fed[s], <<>>},
         h # <<>> => s \in active
  PROVE  Room(s, h, n)
<1>1. n \in Nat \ {0} /\ n \in Nat /\ n <= n
  BY Sizes
<1>2. h \in History /\ Len(h) + n <= NCtx
  BY <1>1, FedMore
<1>. QED  BY <1>1, <1>2 DEF Room

\* A request's tokens through all layers of one engine.
LEMMA PrefillChain ==
  ASSUME ChainInv, NEW s \in Slot, NEW n \in 1 .. NCtx, NEW want \in {"none", "logits"}, Prefill(s, n, want)
  PROVE  Underway'
<1>. DEFINE h == IF s \in active THEN fed[s] ELSE <<>>
            cs == Batches("prefill", s, h, Run(n), want, 1, NL)
            u == h \o Run(n)
<1>1. Op(cs, active \cup {s}, [fed EXCEPT ![s] = u]) /\ Host /\ Fits(h, n) /\ TypeInv
  BY DEF Prefill, ChainInv
<1>2. h \in {fed[s], <<>>} /\ (h # <<>> => s \in active) /\ want \in {"ids", "logits", "none"}
  OBVIOUS
<1>. HIDE DEF h
<1>3. Room(s, h, n)
  BY <1>1, <1>2, HasRoom
<1>4. Serves(cs, s, u)
  BY <1>1, <1>2, <1>3, WholePlan
<1>. HIDE DEF cs, u
<1>. QED  BY <1>1, <1>4, ServedChain

\* The parts of a run through stages, one after the other.
LEMMA FlattenTwo ==
  ASSUME NEW a, NEW b, IsSeq(a), IsSeq(b)
  PROVE  FlattenSeq(<<a>>) = a /\ FlattenSeq(<<a, b>>) = a \o b
<1>1. PICK P, Q : a \in Seq(P) /\ b \in Seq(Q)
  BY DEF IsSeq
<1>. PICK S : S = P \cup Q
  OBVIOUS
<1>2. a \in Seq(S) /\ b \in Seq(S)
  BY <1>1
<1>3. ASSUME NEW T, NEW x \in T, NEW y \in T PROVE <<x>> \in Seq(T) /\ Append(<<x>>, y) = <<x, y>>
  <2>. DEFINE w == <<x>>
  <2>1. w \in Seq(T) /\ Len(w) = 1 /\ w[1] = x
    BY <1>3
  <2>. HIDE DEF w
  <2>2. w \in Seq(T) /\ y \in T
    BY <1>3, <2>1
  <2>3. /\ Append(w, y) \in Seq(T) /\ Len(Append(w, y)) = Len(w) + 1
        /\ \A i \in 1 .. Len(w) : Append(w, y)[i] = w[i]
        /\ Append(w, y)[Len(w) + 1] = y
    BY <2>2, AppendProperties
  <2>. DEFINE v == Append(w, y)  z == <<x, y>>
  <2>4. 1 \in 1 .. Len(w) /\ Len(w) + 1 = 2
    BY <2>1
  <2>5. v \in Seq(T) /\ Len(v) = 2 /\ v[1] = x /\ v[2] = y
    BY <2>1, <2>3, <2>4
  <2>6. z \in Seq(T) /\ Len(z) = 2 /\ z[1] = x /\ z[2] = y
    BY <1>3
  <2>. HIDE DEF v, z
  <2>7. \A i \in 1 .. 2 : v[i] = z[i]
    <3>. SUFFICES ASSUME NEW i \in 1 .. 2 PROVE v[i] = z[i]
      OBVIOUS
    <3>1. i = 1 \/ i = 2
      OBVIOUS
    <3>. QED  BY <2>5, <2>6, <3>1
  <2>8. v = z
    BY <2>5, <2>6, <2>7
  <2>. QED  BY <2>2, <2>8 DEF v, w, z
<1>4. FlattenSeq(<<a>>) = a
  BY <1>2, FlattenOne
<1>. PICK w : w = <<a>>
  OBVIOUS
<1>5. w \in Seq(Seq(S)) /\ Append(w, b) = <<a, b>>
  BY <1>2, <1>3
<1>6. FlattenSeq(Append(w, b)) = FlattenSeq(w) \o b
  BY <1>2, <1>5, FlattenAppend
<1>. QED  BY <1>4, <1>5, <1>6

\* The batches of a part of the layers are a sequence.
LEMMA BatchesSeq ==
  ASSUME TypeInv, NEW by, NEW s, NEW h, NEW n, Room(s, h, n), NEW first \in 1 .. NL, NEW last \in first .. NL
  PROVE  IsSeq(Batches(by, s, h, Run(n), "ids", first, last))
<1>1. s \in Slot /\ h \in History /\ n \in Nat /\ Len(h) + n <= NCtx
  BY DEF Room
<1>. PICK t : t = Run(n)
  OBVIOUS
<1>2. t \in History /\ Len(t) = n
  BY <1>1, RunType
<1>3. Len(h) + Len(t) <= NCtx /\ "ids" \in {"ids", "logits", "none"}
  BY <1>1, <1>2
<1>4. CallsOK(Batches(by, s, h, t, "ids", first, last))
  BY <1>1, <1>2, <1>3, BatchesOK
<1>. QED  BY <1>4 DEF CallsOK

\* A run through the stages: the batches of each range of layers, one range after the other.
LEMMA StageRunChain ==
  ASSUME ChainInv, NEW s \in Slot, NEW fresh \in BOOLEAN, NEW n \in 1 .. NCtx, StageRun(s, fresh, n)
  PROVE  Underway'
<1>. DEFINE h == IF fresh THEN <<>> ELSE fed[s]
            share(a, b) == Batches("stage", s, h, Run(n), "ids", a, b)
            f == [k \in 1 .. Len(Stages) |-> share(Stages[k][1], Stages[k][2])]
            u == h \o Run(n)
<1>1. Op(FlattenSeq(f), active \cup {s}, [fed EXCEPT ![s] = u]) /\ Host /\ Fits(h, n) /\ TypeInv
  BY DEF StageRun, ChainInv
<1>2. h \in {fed[s], <<>>} /\ (h # <<>> => s \in active)
  BY DEF StageRun
<1>. HIDE DEF h
<1>3. Room(s, h, n)
  BY <1>1, <1>2, HasRoom
<1>4. cfg.cut \in 0 .. NL - 1 /\ NL \in Nat \ {0} /\ "ids" \in {"ids", "logits", "none"}
  BY GpuChainAssumption, Sizes DEF ChainInv, TypeInv, TypeOK, NL
<1>5. Serves(FlattenSeq(f), s, u)
  <2>1. CASE cfg.cut = 0
    <3>. DEFINE a == share(1, NL)
    <3>1. f = <<a>>
      <4>. HIDE DEF share
      <4>1. Stages = <<<<1, NL>>>>
        BY <2>1 DEF Stages
      <4>2. Len(Stages) = 1 /\ Stages[1][1] = 1 /\ Stages[1][2] = NL
        BY <4>1
      <4>3. f = [k \in 1 .. 1 |-> a]
        BY <4>2
      <4>. QED  BY <4>3
    <3>2. Serves(a, s, u)
      BY <1>1, <1>3, <1>4, WholePlan
    <3>3. IsSeq(a)
      BY <1>1, <1>3, <1>4, BatchesSeq
    <3>. HIDE DEF a, f, share, u
    <3>4. FlattenSeq(<<a>>) = a
      BY <3>3, FlattenTwo
    <3>. QED  BY <3>1, <3>2, <3>4
  <2>2. CASE cfg.cut # 0
    <3>. DEFINE a == share(1, cfg.cut)  b == share(cfg.cut + 1, NL)
    <3>1. f = <<a, b>>
      <4>. HIDE DEF share
      <4>1. Stages = <<<<1, cfg.cut>>, <<cfg.cut + 1, NL>>>>
        BY <2>2 DEF Stages
      <4>2. /\ Len(Stages) = 2 /\ Stages[1][1] = 1 /\ Stages[1][2] = cfg.cut
            /\ Stages[2][1] = cfg.cut + 1 /\ Stages[2][2] = NL
        BY <4>1
      <4>3. f[1] = a /\ f[2] = b /\ f = [k \in 1 .. 2 |-> f[k]]
        BY <4>2
      <4>. HIDE DEF f, a, b
      <4>. QED  BY <4>3
    <3>2. PICK m : m = cfg.cut /\ m \in 1 .. NL - 1
      BY <1>4, <2>2
    <3>3. Serves(a \o b, s, u)
      BY <1>1, <1>3, <1>4, <3>2, CutPlan
    <3>4. 1 \in 1 .. NL /\ m \in 1 .. NL /\ m + 1 \in 1 .. NL /\ NL \in m + 1 .. NL
      BY <1>4, <3>2
    <3>5. IsSeq(a) /\ IsSeq(b)
      BY <1>1, <1>3, <3>2, <3>4, BatchesSeq
    <3>. HIDE DEF a, b, f, share, u
    <3>6. FlattenSeq(<<a, b>>) = a \o b
      BY <3>5, FlattenTwo
    <3>. QED  BY <3>1, <3>3, <3>6
  <2>. QED  BY <2>1, <2>2
<1>6. PICK cs : cs = FlattenSeq(f)
  OBVIOUS
<1>. HIDE DEF f, u
<1>. QED  BY <1>1, <1>5, <1>6, ServedChain

\* At the start no call is planned and no result is published.
LEMMA InitChain == Init => ChainInv
<1>. SUFFICES ASSUME Init PROVE ChainInv
  OBVIOUS
<1>. DEFINE X == Only({})
<1>1. /\ todo = <<>> /\ run = Idle /\ active = {} /\ lastRows = 0 /\ out.exact = TRUE
  BY DEF Init
<1>2. Knows(X, conv, scan, kv, hid) /\ X.st = {}
  BY DEF Knows, Only
<1>3. Plan(cfg, <<>>, X, X)
  BY PlanNone
<1>4. HeldBy(active, fed) \subseteq X.st
  BY <1>1 DEF HeldBy
<1>. HIDE DEF X
<1>5. Underway
  BY <1>1, <1>2, <1>3, <1>4 DEF Underway
<1>. QED  BY <1>1, <1>5, InitTypes DEF ChainInv, TopOK, OutputsExact

\* Who leaves the host's results alone.
LEMMA ResultsKept ==
  ASSUME ChainInv, out' = out, cfg' = cfg, lastRows' = lastRows, logits' = logits, lastHist' = lastHist
  PROVE  TopOK' /\ OutputsExact'
BY DEF ChainInv, TopOK, OutputsExact

\* Announcing an operation publishes nothing.
LEMMA OpKeeps ==
  ASSUME ChainInv, NEW cs, NEW act, NEW h, Op(cs, act, h) PROVE TopOK' /\ OutputsExact'
BY ResultsKept DEF Op

\* Every step of the stream keeps the invariant.
LEMMA NextChain == ChainInv /\ [Next]_vars => ChainInv'
<1>. SUFFICES ASSUME ChainInv, [Next]_vars PROVE ChainInv'
  OBVIOUS
<1>0. TypeInv'
  BY NextTypes DEF ChainInv
<1>1. CASE Submit
  BY <1>0, <1>1, SubmitChain, ResultsKept DEF ChainInv, Submit
<1>2. CASE Epoch
  BY <1>0, <1>2, EpochChain, ResultsKept DEF ChainInv, Epoch
<1>3. CASE Finish
  BY <1>0, <1>3, FinishChain DEF ChainInv
<1>4. CASE StageTopK
  BY <1>0, <1>4, TopKChain DEF ChainInv
<1>5. CASE Step
  <2>1. TopOK' /\ OutputsExact'
    BY <1>5, ResultsKept DEF Step, Op
  <2>. QED  BY <1>0, <1>5, <2>1, StepChain DEF ChainInv
<1>6. ASSUME NEW s \in Slot, Admit(s) PROVE ChainInv'
  <2>1. TopOK' /\ OutputsExact'
    BY <1>6, OpKeeps DEF Admit
  <2>. QED  BY <1>0, <1>6, <2>1, AdmitChain DEF ChainInv
<1>7. ASSUME NEW s \in Slot, Release(s) PROVE ChainInv'
  BY <1>0, <1>7, ReleaseChain, ResultsKept DEF ChainInv, Release
<1>8. ASSUME NEW s \in Slot, NEW n \in 1 .. NCtx, NEW want \in {"none", "logits"}, Prefill(s, n, want)
      PROVE  ChainInv'
  <2>1. TopOK' /\ OutputsExact'
    BY <1>8, OpKeeps DEF Prefill
  <2>. QED  BY <1>0, <1>8, <2>1, PrefillChain DEF ChainInv
<1>9. ASSUME NEW s \in Slot, NEW n \in 1 .. NCtx, NEW k \in 1 .. n, Verify(s, n, k) PROVE ChainInv'
  <2>1. TopOK' /\ OutputsExact'
    BY <1>9, OpKeeps DEF Verify
  <2>. QED  BY <1>0, <1>9, <2>1, VerifyChain DEF ChainInv
<1>10. ASSUME NEW s \in Slot, NEW n \in 1 .. NCtx, NEW fresh \in BOOLEAN, StageRun(s, fresh, n) PROVE ChainInv'
  <2>1. TopOK' /\ OutputsExact'
    BY <1>10, OpKeeps DEF StageRun
  <2>. QED  BY <1>0, <1>10, <2>1, StageRunChain DEF ChainInv
<1>11. ASSUME NEW s \in Slot, NEW n \in 1 .. NCtx, SerialPrefillLogits(s, n) PROVE ChainInv'
  <2>1. TopOK' /\ OutputsExact'
    BY <1>11, OpKeeps DEF SerialPrefillLogits
  <2>. QED  BY <1>0, <1>11, <2>1, SerialPrefillChain DEF ChainInv
<1>12. CASE vars' = vars
  <2>1. Underway'
    <3>1. PICK X, Y : /\ Plan(cfg, todo, X, Y) /\ HeldBy(active, fed) \subseteq Y.st
                      /\ run = Idle => Knows(X, conv, scan, kv, hid)
                      /\ run # Idle => Running(X)
      BY DEF ChainInv, Underway
    <3>2. /\ cfg' = cfg /\ todo' = todo /\ active' = active /\ fed' = fed /\ run' = run /\ conv' = conv
          /\ scan' = scan /\ kv' = kv /\ hid' = hid /\ cb' = cb /\ mem' = mem /\ part' = part
          /\ carry' = carry /\ indirect' = indirect
      BY <1>12 DEF vars
    <3>3. Running(X) => Running(X)'
      <4>. SUFFICES ASSUME Running(X) PROVE Running(X)'
        OBVIOUS
      <4>1. PICK H, K, L : /\ Ready(Env, H) /\ Leaves(Env, H, X) /\ Kept(Env, H) /\ Asks(Env)
                           /\ Models(Env, K, H) /\ Fine(Env, cb, K, L) /\ Ended(Env, L)
        BY DEF Running
      <4>2. Env' = Env /\ Models(Env, K, H)'
        BY <3>2, <4>1 DEF Env, Models
      <4>3. Ready(Env', H) /\ Leaves(Env', H, X) /\ Kept(Env', H) /\ Asks(Env')
            /\ Fine(Env', cb', K, L) /\ Ended(Env', L)
        BY <3>2, <4>1, <4>2
      <4>. QED  BY <4>2, <4>3 DEF Running
    <3>4. /\ Plan(cfg', todo', X, Y) /\ HeldBy(active', fed') \subseteq Y.st
          /\ run' = Idle => Knows(X, conv', scan', kv', hid')
          /\ run' # Idle => Running(X)'
      BY <3>1, <3>2, <3>3
    <3>. QED  BY <3>4 DEF Underway, Idle
  <2>2. TopOK' /\ OutputsExact'
    BY <1>12, ResultsKept DEF vars
  <2>. QED  BY <1>0, <2>1, <2>2 DEF ChainInv
<1>. QED  BY <1>1, <1>2, <1>3, <1>4, <1>5, <1>6, <1>7, <1>8, <1>9, <1>10, <1>11, <1>12 DEF Next

\* The inductive invariant holds in every reachable state.
LEMMA ChainHolds == Spec => []ChainInv
<1>. QED  BY InitChain, NextChain, PTL DEF Spec

\* StateAsSerial: between two operations of the host the convolution windows, the
\* recurrent states and the keys of every active slot are those that feeding its tokens
\* one at a time would have left, whichever of batch, stage, verify or step calls ran.
THEOREM SerialState == Spec => []StateAsSerial
<1>1. ChainInv => StateAsSerial
  <2>. SUFFICES ASSUME ChainInv, run = Idle, todo = <<>>, NEW s \in active PROVE Holds(s, fed[s])
    BY DEF StateAsSerial
  <2>1. fed[s] \in History /\ Len(fed[s]) <= NCtx /\ s \in Slot
    BY DEF ChainInv, TypeInv, TypeOK
  <2>. SUFFICES ASSUME NEW l \in 1 .. NL
                PROVE  IF Layers[l] = "rec" THEN conv[l][s] = fed[s] /\ scan[l][s] = fed[s]
                       ELSE \A p \in 0 .. Len(fed[s]) - 1 : kv[l][s][p] = SubSeq(fed[s], 1, p + 1)
    BY DEF Holds
  <2>. DEFINE x == <<l, s, fed[s]>>
  <2>2. x \in HeldBy(active, fed) /\ x[1] = l /\ x[2] = s /\ x[3] = fed[s]
    BY HeldIs
  <2>. HIDE DEF x
  <2>3. HoldsAt(conv, scan, kv, x)
    BY <2>2, HostKnows
  <2>4. \A p \in 0 .. Len(fed[s]) - 1 : p \in Pos /\ p < Len(fed[s])
    <3>1. Len(fed[s]) \in Nat /\ NCtx \in Nat
      BY <2>1, Sizes DEF History
    <3>. QED  BY <2>1, <3>1 DEF Pos
  <2>. QED  BY <2>1, <2>2, <2>3, <2>4 DEF HoldsAt
<1>. QED  BY <1>1, ChainHolds, PTL

\* A call on the verify stripe leaves the slot's own one as it was.
LEMMA LiveKept == ASSUME ChainInv PROVE VerifyKeepsLive
<1>. SUFFICES ASSUME run # Idle, run.kind = "batch", run.stripe = Scratch
              PROVE  Holds(run.slot, Front(run.rows[0]))
  BY DEF VerifyKeepsLive
<1>1. IsRun(Env) /\ TypeInv
  BY RunsNow DEF ChainInv
<1>2. Env.r = run /\ Batched(Env)
  BY <1>1, EnvIs DEF Batched
<1>3. PICK h, t : BatchOf(run, h, t)
  <2>1. IsBatch(run)
    BY <1>1, <1>2, SerialRows DEF IsRun, IsSerial
  <2>. QED  BY <2>1 DEF IsBatch
<1>. DEFINE e == Env
<1>4. /\ AllRows(e) = 0 .. Len(t) - 1 /\ Len(t) \in Nat \ {0} /\ Len(h) \in Nat /\ Len(h) + Len(t) <= NCtx
      /\ \A i : SlotIn(e, i) = run.slot /\ StripeIn(e, i) = run.stripe
      /\ \A i \in AllRows(e) : AtOf(e, i) = Len(h) + i
      /\ Front(RowIn(e, 0)) = h
  BY <1>2, <1>3, BatchParts
<1>5. run.slot \in Slot /\ run.slot \in 0 .. NSlots /\ run.stripe # run.slot
  BY <1>3, SlotStripe, Sizes DEF BatchOf, Slot, Scratch
<1>6. Front(run.rows[0]) = h
  BY <1>2, <1>4 DEF RowIn
<1>7. PICK X : Running(X)
  BY DEF ChainInv, Underway
<1>8. PICK H, K : Kept(e, H) /\ Models(e, K, H)
  BY <1>7 DEF Running
<1>9. /\ StripesOK(e, K.cv, conv, H.conv) /\ StripesOK(e, K.sc, scan, H.scan) /\ KeysOK(e, K.ks, kv, H.kv)
  BY <1>8 DEF Models
<1>10. ASSUME NEW l \in 1 .. NL
       PROVE  IF Layers[l] = "rec" THEN conv[l][run.slot] = h /\ scan[l][run.slot] = h
              ELSE \A p \in 0 .. Len(h) - 1 : kv[l][run.slot][p] = SubSeq(h, 1, p + 1)
  <2>. DEFINE s == run.slot  y == <<l, s, h>>
  <2>1. HoldsAt(H.conv, H.scan, H.kv, y) /\ y[1] = l /\ y[2] = s /\ y[3] = h
    BY <1>2, <1>4, <1>5, <1>8 DEF Kept
  <2>. HIDE DEF y
  <2>2. IF Layers[l] = "rec" THEN H.conv[l][s] = h /\ H.scan[l][s] = h
        ELSE \A p \in Pos : p < Len(h) => H.kv[l][s][p] = SubSeq(h, 1, p + 1)
    BY <1>5, <2>1 DEF HoldsAt
  <2>. HIDE DEF e
  <2>3. conv[l][s] = H.conv[l][s] /\ scan[l][s] = H.scan[l][s]
    BY <1>4, <1>5, <1>9 DEF StripesOK
  <2>4. ASSUME NEW p \in 0 .. Len(h) - 1 PROVE p \in Pos /\ p < Len(h) /\ kv[l][s][p] = H.kv[l][s][p]
    <3>1. p \in Nat /\ p < Len(h) /\ p \in Pos
      BY <1>4, Sizes DEF Pos
    <3>2. \A i \in AllRows(e) : AtOf(e, i) # p
      <4>. SUFFICES ASSUME NEW i \in AllRows(e) PROVE AtOf(e, i) # p
        OBVIOUS
      <4>1. i \in Nat /\ AtOf(e, i) = Len(h) + i
        BY <1>4
      <4>. QED  BY <1>4, <3>1, <4>1
    <3>3. CASE l \in K.ks
      BY <1>5, <1>9, <3>1, <3>2, <3>3 DEF KeysOK
    <3>4. CASE l \notin K.ks
      BY <1>5, <1>9, <3>1, <3>4 DEF KeysOK
    <3>. QED  BY <3>1, <3>3, <3>4
  <2>. QED  BY <2>2, <2>3, <2>4
<1>. HIDE DEF e
<1>. QED  BY <1>6, <1>10 DEF Holds

\* VerifyKeepsLive: while a verify batch runs on the scratch stripe, the live state of its
\* slot holds the history the round started from, so rejected drafts leave no trace in it.
THEOREM LiveStateKept == Spec => []VerifyKeepsLive
<1>. QED  BY ChainHolds, LiveKept, PTL

\* OutputsExact: the tokens, logits and rows a fence publishes are those of the histories
\* the call was made for.
THEOREM ExactOutputs == Spec => []OutputsExact
<1>1. ChainInv => OutputsExact
  BY DEF ChainInv
<1>. QED  BY <1>1, ChainHolds, PTL

===============================================================================
