------------------------------ MODULE ModelLoad ------------------------------
(* qk_engine::open (src/main.cpp) from the bounds of qk_config to the last      *)
(* descriptor: the reader opens the shards, open() checks the model's shape     *)
(* and takes the layers QK_LAYERS gives it, uploads the weights layer by layer  *)
(* and picks the kernels that will read them.  Layer l here is blk.(l - 1);     *)
(* tensors and buffers are named <<l, suffix>>, with l = 0 for the model's own. *)
EXTENDS Gguf, Upload

CONSTANTS
  NEmbd, DIn, ChQkv, HKV, Dh, DS, HV,   \* the shape the engine is compiled for
  Models,     \* what the files may be
  Slots, Cuts \* bound: cfg.n_slots; QK_LAYERS as <<a, b>>, or <<>> when unset

ASSUME LoadAssumption ==
  /\ {NEmbd, DIn, ChQkv, HKV, Dh, DS, HV} \subseteq Nat \ {0}
  /\ HV % 2 = 0 /\ Size["F32"] = 1 /\ Block["F32"] = 1

VARIABLES
  phase,     \* "gguf", "shape", "global", "mixer", "moe", "ready", "failed"
  nSlots, cut,
  lFirst, lEnd, il,
  plan,      \* the uploads still to make: [dst, n, bytes]
  guIq4,     \* which kernel reads the gate and up experts, of every layer
  iq4,       \* iq4P1, iq4P2, iq4P3, iq4Wo of a layer: <<l, suffix>> -> BOOLEAN
  downQ6     \* of a layer

loadVars == <<phase, nSlots, cut, lFirst, lEnd, il, plan, guIq4, iq4, downQ6>>
vars == <<ggufVars, uploadVars, loadVars>>

Arch == KvStr("general.architecture", "")
NLayer == KvInt(Arch \o ".block_count", 40)
NUsed == KvInt(Arch \o ".expert_used_count", 8)
Rec == Has(<<il, "ssm_a">>)

-------------------------------------------------------------------------------
(* The uploads of a layer.                                                    *)

Zeros(n) == [i \in 1 .. n |-> Nothing]
Job(dst, n, bytes) == [dst |-> dst, n |-> n, bytes |-> bytes]

\* W: zeros when the tensor is missing.
W(suffix, n) ==
  Job(<<il, suffix>>, n, IF Has(<<il, suffix>>) THEN Read(<<il, suffix>>, n) ELSE Zeros(n))
State(role, n) == Job(<<il, role>>, n, Zeros(n))

DenseTypes == {"Q8_0", "IQ4_XS"}
\* Wd: a projection in either dense type, or zeros and denseBad.
Wd(suffix, k, rows) ==
  LET type == Type(<<il, suffix>>) IN
  IF type \in DenseTypes THEN W(suffix, rows * RowBytes(type, k))
  ELSE State(suffix, rows * RowBytes("Q8_0", k))

\* Mutant of BaRow: the heads of a group the other way round.
BaRowPaired(role, h) == (h \div 2) * 4 + (IF role = "ssm_alpha.weight" THEN 2 ELSE 0) + 1 - (h % 2)

\* The row of ssm_ba that becomes row h: of each four, two of beta, two of alpha.
BaRow(role, h) == (h \div 2) * 4 + (IF role = "ssm_beta.weight" THEN 0 ELSE 2) + (h % 2)

\* ssm_ba dequantised to F32 and split: the byte each element comes from.
Deinterleaved(role) ==
  LET ba == Tensor(<<il, "ssm_ba.weight">>)
      rb == RowBytes(ba.type, NEmbd)
      raw == Read(<<il, "ssm_ba.weight">>, 2 * HV * rb)
      from(h, j) == BaRow(role, h) * rb + (j \div Block[ba.type]) * Size[ba.type] + 1 IN
  Job(<<il, role>>, HV * NEmbd,
      [i \in 1 .. HV * NEmbd |-> raw[from((i - 1) \div NEmbd, (i - 1) % NEmbd)]])

AlphaBeta == {"ssm_alpha.weight", "ssm_beta.weight"}
BaLoads ==
  LET name == <<il, "ssm_ba.weight">> IN
  Has(name) /\ Tensor(name).ne = <<NEmbd, 2 * HV>> /\ Type(name) \in {"F32", "IQ4_XS", "Q8_0"}
GateWeights(role) ==
  IF Has(<<il, "ssm_alpha.weight">>) THEN W(role, HV * NEmbd) ELSE Deinterleaved(role)

\* The projections of a layer: suffix, K, rows.
Dense ==
  IF Rec THEN <<<<"attn_qkv.weight", NEmbd, ChQkv>>, <<"attn_gate.weight", NEmbd, DIn>>,
                <<"ssm_out.weight", DIn, NEmbd>>>>
  ELSE <<<<"attn_q.weight", NEmbd, ChQkv>>, <<"attn_k.weight", NEmbd, HKV * Dh>>,
         <<"attn_v.weight", NEmbd, HKV * Dh>>, <<"attn_output.weight", DIn, NEmbd>>>>
DenseBad == \E j \in DOMAIN Dense : Type(<<il, Dense[j][1]>>) \notin DenseTypes

ConvName == IF Has(<<il, "ssm_conv1d.weight">>) THEN "ssm_conv1d.weight" ELSE "ssm_conv1d"

\* Neither alpha and beta nor an ssm_ba to split: open() fails at that point.
BaBad == Rec /\ ~Has(<<il, "ssm_alpha.weight">>) /\ ~BaLoads

Projection(j) == Wd(Dense[j][1], Dense[j][2], Dense[j][3])
RecPlan ==
  <<Projection(1), Projection(2)>>
  \o (IF BaBad THEN <<>>
      ELSE <<GateWeights("ssm_alpha.weight"), GateWeights("ssm_beta.weight"),
             W("ssm_dt.bias", HV), W("ssm_a", HV), W(ConvName, ChQkv * 4), W("ssm_norm.weight", DS),
             Projection(3),
             State("st1", (nSlots + 1) * ChQkv * 3), State("st2", (nSlots + 1) * HV * DS * DS)>>)
AttnPlan ==
  <<Projection(1), Projection(2), Projection(3), W("attn_q_norm.weight", Dh),
    W("attn_k_norm.weight", Dh), Projection(4),
    State("st1", nSlots * HKV * Dh), State("st2", nSlots * HKV * Dh)>>
MixerPlan ==
  <<W("attn_norm.weight", NEmbd), W("post_attention_norm.weight", NEmbd)>>
  \o (IF Rec THEN RecPlan ELSE AttnPlan)

\* loadMoeT: all eight tensors, and types the kernels read.
Experts == [gate |-> <<il, "ffn_gate_exps.weight">>, up |-> <<il, "ffn_up_exps.weight">>,
            down |-> <<il, "ffn_down_exps.weight">>]
Router == {"ffn_gate_inp.weight", "ffn_gate_inp_shexp.weight"}
Shared == {"ffn_gate_shexp.weight", "ffn_up_shexp.weight", "ffn_down_shexp.weight"}
GuIq4 == Type(Experts.gate) = "IQ4_XS" /\ Type(Experts.up) = "IQ4_XS"

MoeLoads ==
  /\ \A s \in Router : Type(<<il, s>>) = "F32"
  /\ GuIq4 \/ (Type(Experts.gate) = "IQ3_XXS" /\ Type(Experts.up) = "IQ3_XXS")
  /\ Type(Experts.down) \in {"IQ4_XS", "Q6_K"}
  /\ \A s \in Shared : Type(<<il, s>>) = "Q8_0"
  /\ NUsed \in 1 .. 16 /\ NUsed <= Tensor(Experts.gate).ne[3]

MoePlan ==
  LET ge == Tensor(Experts.gate)
      nFf == ge.ne[2]
      nExp == ge.ne[3]
      rb == RowBytes("Q8_0", NEmbd) IN
  <<W("ffn_gate_inp.weight", nExp * NEmbd), W("ffn_gate_inp_shexp.weight", NEmbd),
    W("ffn_gate_exps.weight", nExp * nFf * RowBytes(ge.type, NEmbd)),
    W("ffn_up_exps.weight", nExp * nFf * RowBytes(ge.type, NEmbd)),
    W("ffn_down_exps.weight", nExp * NEmbd * RowBytes(Type(Experts.down), nFf)),
    W("ffn_gate_shexp.weight", nFf * rb), W("ffn_up_shexp.weight", nFf * rb),
    W("ffn_down_shexp.weight", NEmbd * RowBytes("Q8_0", nFf))>>

\* Before the layers: bONorm always, the O(vocab) weights on their stage.  The
\* rope table and bbCarry, which no tensor feeds, are left out.
GlobalPlan(first, end) ==
  LET vocab == Tensor(<<0, "output.weight">>).ne[2]
      norm == <<0, "output_norm.weight">>
      whole(name, k) == Job(name, vocab * RowBytes(Type(name), k),
                            Read(name, vocab * RowBytes(Type(name), k))) IN
  <<Job(norm, NEmbd, IF end = NLayer THEN Read(norm, NEmbd) ELSE Zeros(NEmbd))>>
  \o (IF end = NLayer THEN <<whole(<<0, "output.weight">>, NEmbd)>> ELSE <<>>)
  \o (IF first = 0 THEN <<whole(<<0, "token_embd.weight">>, NEmbd)>> ELSE <<>>)

-------------------------------------------------------------------------------
(* open().                                                                    *)

Fail == phase' = "failed" /\ UNCHANGED <<nSlots, cut, lFirst, lEnd, il, plan, guIq4, iq4, downQ6>>
HostFree == pc = "idle" /\ plan = <<>>

\* The shards are opened; a bad config fails before that.
OpenShards ==
  /\ phase = "gguf" /\ UNCHANGED uploadVars
  /\ IF nSlots \notin 1 .. 16 THEN Fail /\ UNCHANGED ggufVars
     ELSE IF shard > 0 THEN OpenOne /\ UNCHANGED loadVars
     ELSE IF ~opened THEN Fail /\ UNCHANGED ggufVars
     ELSE phase' = "shape" /\ UNCHANGED <<ggufVars, nSlots, cut, lFirst, lEnd, il, plan, guIq4,
                                          iq4, downQ6>>

\* Mutant of CutFits: the last stage may not reach the last layer.
CutFitsShort == cut = <<>> \/ (cut[1] < cut[2] /\ cut[2] < NLayer)

\* QK_LAYERS=a:b
CutFits == cut = <<>> \/ (cut[1] < cut[2] /\ cut[2] <= NLayer)

EmbdAndHeadLoad ==
  /\ \A n \in {"token_embd.weight", "output_norm.weight", "output.weight"} : Has(<<0, n>>)
  /\ Type(<<0, "token_embd.weight">>) \in {"Q6_K", "Q8_0"} /\ Type(<<0, "output.weight">>) = "Q6_K"

\* The counts are taken from the first owned layer.
RouterLoads(first) ==
  LET gi == <<first + 1, "ffn_gate_inp.weight">>
      ge == <<first + 1, "ffn_gate_exps.weight">> IN
  /\ Has(gi) /\ Has(ge)
  /\ Tensor(gi).ne[2] \in NUsed .. 512 /\ Tensor(ge).ne[2] % Block["Q6_K"] = 0

\* The model's shape and the stage's layers.
ReadShape ==
  LET first == IF cut = <<>> THEN 0 ELSE cut[1]
      end == IF cut = <<>> THEN NLayer ELSE cut[2] IN
  /\ phase = "shape" /\ UNCHANGED <<ggufVars, uploadVars>>
  /\ IF NLayer \in 1 .. 256 /\ NUsed \in 1 .. 16 /\ CutFits /\ EmbdAndHeadLoad /\ RouterLoads(first)
     THEN /\ lFirst' = first /\ lEnd' = end
          /\ il' = first + 1 /\ phase' = "global"
          /\ plan' = GlobalPlan(first, end)
          /\ UNCHANGED <<nSlots, cut, guIq4, iq4, downQ6>>
     ELSE Fail

\* upload() of the next buffer.
CallUpload ==
  /\ phase \in {"global", "mixer", "moe"} /\ plan # <<>>
  /\ Call(Head(plan).dst, Head(plan).n, Head(plan).bytes)
  /\ plan' = Tail(plan)
  /\ UNCHANGED <<ggufVars, phase, nSlots, cut, lFirst, lEnd, il, guIq4, iq4, downQ6>>

\* Mutant of DenseIq4: every projection of an attention layer is taken to have
\* the type of the first.
DenseIq4Uniform(suffix) == Type(<<il, Dense[1][1]>>) = "IQ4_XS"

DenseIq4(suffix) == Type(<<il, suffix>>) = "IQ4_XS"

\* A layer begins: loadMoeT, then the norms and the mixer.
LayerMixer ==
  /\ phase = "global" /\ HostFree /\ il <= lEnd
  /\ IF MoeLoads
     THEN /\ plan' = MixerPlan /\ phase' = "mixer"
          /\ guIq4' = GuIq4
          /\ iq4' = [n \in {<<il, Dense[j][1]>> : j \in DOMAIN Dense} |-> DenseIq4(n[2])] @@ iq4
          /\ downQ6' = (il :> (Type(Experts.down) = "Q6_K")) @@ downQ6
          /\ UNCHANGED <<nSlots, cut, lFirst, lEnd, il>>
     ELSE Fail
  /\ UNCHANGED <<ggufVars, uploadVars>>

\* The mixer stopped at a bad ssm_ba, or denseBad, which is looked at when it is
\* uploaded; else the experts.
LayerMoe ==
  /\ phase = "mixer" /\ HostFree
  /\ IF BaBad \/ DenseBad THEN Fail
     ELSE plan' = MoePlan /\ phase' = "moe"
          /\ UNCHANGED <<nSlots, cut, lFirst, lEnd, il, guIq4, iq4, downQ6>>
  /\ UNCHANGED <<ggufVars, uploadVars>>

\* The layer's sets are made; after the last one open() returns.
LayerDone ==
  /\ phase = "moe" /\ HostFree
  /\ il' = il + 1 /\ phase' = (IF il = lEnd THEN "ready" ELSE "global")
  /\ UNCHANGED <<ggufVars, uploadVars, nSlots, cut, lFirst, lEnd, plan, guIq4, iq4, downQ6>>

Ended == phase \in {"ready", "failed"} /\ UNCHANGED vars

Init ==
  /\ model \in Models /\ shard = 1 /\ opened = FALSE /\ gguf = NoGguf
  /\ UploadInit
  /\ phase = "gguf" /\ nSlots \in Slots /\ cut \in Cuts /\ lFirst = 0 /\ lEnd = 0 /\ il = 1
  /\ plan = <<>> /\ guIq4 = FALSE /\ iq4 = <<>> /\ downQ6 = <<>>

Next ==
  \/ OpenShards \/ ReadShape \/ CallUpload \/ LayerMixer \/ LayerMoe \/ LayerDone \/ Ended
  \/ Uploading /\ UNCHANGED <<ggufVars, loadVars>>

Spec == Init /\ [][Next]_vars

-------------------------------------------------------------------------------
(* Properties.                                                                *)

\* Type invariant: what upload() is doing fits the buffer it was given.
TypeOK ==
  /\ phase \in {"gguf", "shape", "global", "mixer", "moe", "ready", "failed"}
  /\ pc \in {"idle", "fill", "wait"} /\ shard \in 0 .. Len(model.shards) + 1
  /\ off \in 0 .. size /\ \A c \in gpu : c.at + c.len <= size
  /\ DOMAIN src = DOMAIN dev /\ \A d \in DOMAIN dev : DOMAIN dev[d] = DOMAIN src[d]

FirstStage == lFirst = 0
LastStage == lEnd = NLayer

\* What the files hold, whoever reads them.
Written == UNION {{t.name : t \in ToSet(s.tensors)} : s \in ToSet(model.shards)}
WrittenTensor(name) ==
  LET s == CHOOSE s \in ToSet(model.shards) : \E t \in ToSet(s.tensors) : t.name = name IN
  CHOOSE t \in ToSet(s.tensors) : t.name = name
Whole(name) == [i \in 1 .. Length(WrittenTensor(name)) |-> Byte(name, i)]

\* Tensors W would take for zeros without a word, and the states, zero at first.
Silent == {"attn_norm.weight", "post_attention_norm.weight", "ssm_dt.bias", "ssm_norm.weight",
           "ssm_conv1d", "ssm_beta.weight", "attn_q_norm.weight", "attn_k_norm.weight"}
States == {"st1", "st2"}
AllZero(f) == \A i \in DOMAIN f : f[i] = Nothing

\* "rows g*4+{0,1} = beta (v-heads 2g, 2g+1), rows g*4+{2,3} = alpha": element j
\* of v-head h.
SplitRight(d) ==
  LET ba == WrittenTensor(<<d[1], "ssm_ba.weight">>)
      row(g, i) == IF d[2] = "ssm_beta.weight" THEN 4 * g + i ELSE 4 * g + 2 + i
      byte(r, j) == r * RowBytes(ba.type, NEmbd) + (j \div Block[ba.type]) * Size[ba.type] + 1 IN
  \A g \in 0 .. HV \div 2 - 1, i \in {0, 1}, j \in 0 .. NEmbd - 1 :
    dev[d][(2 * g + i) * NEmbd + j + 1] = Byte(ba.name, byte(row(g, i), j))

Right(d) ==
  IF d[2] \in States THEN AllZero(dev[d])
  ELSE IF d = <<0, "output_norm.weight">> /\ ~LastStage THEN AllZero(dev[d])
  ELSE IF d \in Written THEN dev[d] = Whole(d)
  ELSE IF d[2] \in AlphaBeta /\ <<d[1], "ssm_ba.weight">> \in Written THEN SplitRight(d)
  ELSE d[2] \in Silent /\ AllZero(dev[d])

\* An engine that opens holds, in every weight buffer, the bytes the writer gave
\* that tensor, whichever shard they are in and however many chunks they took,
\* for its own layers, the embedding on the first stage and the head on the last
\* one; alpha and beta are the rows the two fused tensors stand for.
BuffersExact ==
  phase = "ready" =>
    /\ \A d \in DOMAIN dev : Right(d)
    /\ {d[1] : d \in DOMAIN dev} = (lFirst + 1 .. lEnd) \cup {0}
    /\ <<0, "token_embd.weight">> \in DOMAIN dev <=> FirstStage
    /\ <<0, "output.weight">> \in DOMAIN dev <=> LastStage
    /\ \A n \in Written : n[1] \in lFirst + 1 .. lEnd /\ n[2] # "ssm_ba.weight" => n \in DOMAIN dev

\* Every projection and every expert tensor is read by the kernel of its type.
KernelsFit ==
  phase = "ready" =>
    /\ \A d \in DOMAIN iq4 : WrittenTensor(d).type = IF iq4[d] THEN "IQ4_XS" ELSE "Q8_0"
    /\ \A l \in lFirst + 1 .. lEnd :
         /\ WrittenTensor(<<l, "ffn_down_exps.weight">>).type = IF downQ6[l] THEN "Q6_K" ELSE "IQ4_XS"
         /\ \A n \in {"ffn_gate_exps.weight", "ffn_up_exps.weight"} :
              WrittenTensor(<<l, n>>).type = IF guIq4 THEN "IQ4_XS" ELSE "IQ3_XXS"

\* A complete model is not refused, however it is sharded and aligned, whatever
\* metadata it carries and whichever of its layers the stage takes.
CompleteModelsOpen ==
  phase = "failed" =>
    \/ ~model.complete \/ nSlots \notin 1 .. 16
    \/ cut # <<>> /\ (cut[1] >= cut[2] \/ cut[2] > model.layers)
===============================================================================
