----------------------------- MODULE MCModelLoad -----------------------------
(* TLC instances of ModelLoad: models of a DeltaNet and an attention layer, in  *)
(* one file or in shards, with their own alignments, with the tensors of either *)
(* architecture, and files something is wrong with.                             *)
EXTENDS ModelLoad

MCBlock == [F32 |-> 1, Q8_0 |-> 2, Q6_K |-> 4, IQ4_XS |-> 4, IQ3_XXS |-> 4]
MCSize == [F32 |-> 1, Q8_0 |-> 1, Q6_K |-> 3, IQ4_XS |-> 2, IQ3_XXS |-> 1]
MCBuffer == {<<0, "none">>}
MCJunk == Byte(<<0, "junk">>, 0)
MCCell == {MCJunk}

T(l, suffix, type, ne) == [name |-> <<l, suffix>>, type |-> type, ne |-> ne]
KV(key, t, n) == [key |-> key, t |-> t, n |-> n, text |-> "", et |-> 0]
Texts(key, n, text) == [key |-> key, t |-> 9, n |-> n, text |-> text, et |-> 8]
Chars(key, text) == [key |-> key, t |-> 8, n |-> 0, text |-> text, et |-> 0]

Globals == <<T(0, "token_embd.weight", "Q8_0", <<4, 3>>), T(0, "output_norm.weight", "F32", <<4>>),
             T(0, "output.weight", "Q6_K", <<4, 3>>)>>
MoeOf(l, gate, up, down) ==
  <<T(l, "ffn_gate_inp.weight", "F32", <<4, 2>>), T(l, "ffn_gate_inp_shexp.weight", "F32", <<4>>),
    T(l, "ffn_gate_exps.weight", gate, <<4, 4, 2>>), T(l, "ffn_up_exps.weight", up, <<4, 4, 2>>),
    T(l, "ffn_down_exps.weight", down, <<4, 4, 2>>),
    T(l, "ffn_gate_shexp.weight", "Q8_0", <<4, 4>>), T(l, "ffn_up_shexp.weight", "Q8_0", <<4, 4>>),
    T(l, "ffn_down_shexp.weight", "Q8_0", <<4, 4>>)>>
Norms(l) == <<T(l, "attn_norm.weight", "F32", <<4>>), T(l, "post_attention_norm.weight", "F32", <<4>>)>>
RecOf(l, type, fused) ==
  Norms(l)
  \o <<T(l, "attn_qkv.weight", type, <<4, 3>>), T(l, "attn_gate.weight", type, <<4, 4>>),
       T(l, "ssm_out.weight", type, <<4, 4>>), T(l, "ssm_dt.bias", "F32", <<4>>),
       T(l, "ssm_a", "F32", <<4>>), T(l, "ssm_norm.weight", "F32", <<2>>)>>
  \o (IF fused THEN <<T(l, "ssm_conv1d", "F32", <<4, 3>>), T(l, "ssm_ba.weight", type, <<4, 8>>)>>
      ELSE <<T(l, "ssm_conv1d.weight", "F32", <<4, 3>>), T(l, "ssm_alpha.weight", "F32", <<4, 4>>),
             T(l, "ssm_beta.weight", "F32", <<4, 4>>)>>)
AttnOf(l, type) ==
  Norms(l)
  \o <<T(l, "attn_q.weight", type, <<4, 3>>), T(l, "attn_k.weight", type, <<4, 2>>),
       T(l, "attn_v.weight", "Q8_0", <<4, 2>>), T(l, "attn_output.weight", type, <<4, 4>>),
       T(l, "attn_q_norm.weight", "F32", <<2>>), T(l, "attn_k_norm.weight", "F32", <<2>>)>>

Meta(arch, n) ==
  <<Chars("general.architecture", arch), KV(arch \o ".block_count", 4, n),
    KV(arch \o ".expert_used_count", 4, 2), Texts("tokenizer.tokens", 3, "ab"),
    KV("rope.freq_base", 6, 0), KV("add_bos", 7, 1)>>
Split(n) == <<KV("split.count", 2, n)>>
AlignTo(a) == IF a = 0 THEN <<>> ELSE <<KV("general.alignment", 4, a)>>
File(kvs, tensors) == [ver |-> 3, kvs |-> kvs, tensors |-> tensors]
Model(shards, complete) ==
  [shards |-> shards, named |-> TRUE, complete |-> complete, layers |-> 2]

L35(gate1, gate2, down) ==
  <<RecOf(1, "Q8_0", FALSE) \o MoeOf(1, gate1, gate1, "IQ4_XS"),
    AttnOf(2, "Q8_0") \o MoeOf(2, gate2, gate2, down)>>
L80 == <<RecOf(1, "IQ4_XS", TRUE) \o MoeOf(1, "IQ4_XS", "IQ4_XS", "Q6_K"),
         AttnOf(2, "IQ4_XS") \o MoeOf(2, "IQ4_XS", "IQ4_XS", "IQ4_XS")>>

OneFile(arch, layers, a) ==
  <<File(Meta(arch, 2) \o AlignTo(a), Globals \o layers[1] \o layers[2])>>
\* The embedding and layer 1, layer 2, the head; aligned a, b, c.
Shards(arch, layers, a, b, c) ==
  <<File(AlignTo(a) \o Meta(arch, 2) \o Split(3), SubSeq(Globals, 1, 1) \o layers[1]),
    File(Split(3) \o AlignTo(b), layers[2]),
    File(Split(3) \o AlignTo(c), SubSeq(Globals, 2, 3))>>

Whole35 == L35("IQ3_XXS", "IQ3_XXS", "Q6_K")
MCModels ==
  {Model(OneFile("qwen35moe", Whole35, 0), TRUE), Model(OneFile("qwen35moe", Whole35, 8), TRUE),
   Model(Shards("qwen35moe", Whole35, 8, 0, 0), TRUE),
   Model(Shards("qwen3next", L80, 0, 8, 0), TRUE), Model(OneFile("qwen3next", L80, 0), TRUE),
   [Model(Shards("qwen3next", L80, 0, 0, 0), FALSE) EXCEPT !.named = FALSE],
   Model(SubSeq(Shards("qwen3next", L80, 8, 0, 8), 1, 2), FALSE),
   Model(OneFile("qwen35moe", L35("IQ3_XXS", "IQ3_XXS", "IQ3_XXS"), 0), FALSE),
   Model(OneFile("qwen3next", <<SelectSeq(L80[1], LAMBDA t : t.name[2] # "ssm_ba.weight"), L80[2]>>,
                 0), FALSE),
   Model(OneFile("qwen35moe", <<Whole35[1], AttnOf(2, "F32") \o MoeOf(2, "IQ3_XXS", "IQ3_XXS",
                                                                      "Q6_K")>>, 0), FALSE)}
\* Gate and up experts of one type in each layer, of two types in the file.
MixedModels == {Model(OneFile("qwen35moe", L35("IQ3_XXS", "IQ4_XS", "Q6_K"), 0), TRUE)}
MCCuts == {<<>>, <<0, 1>>, <<1, 2>>, <<1, 3>>}
===============================================================================
