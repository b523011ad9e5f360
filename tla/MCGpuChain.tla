------------------------------ MODULE MCGpuChain ------------------------------
(* TLC instances of GpuChain: DeltaNet layers around an attention layer, the  *)
(* default flags, all optional paths at once, and mixtures of them.           *)
EXTENDS GpuChain

MCLayers == <<"rec", "attn", "rec">>

Flags(cut, splitK, live, auto, group, fused, stepGate, groupGu, groupDown) ==
  [cut |-> cut, splitK |-> splitK, live |-> live, auto |-> auto, group |-> group,
   fused |-> fused, stepGate |-> stepGate, groupGu |-> groupGu, groupDown |-> groupDown]

MCConfigs ==
  {Flags(0, TRUE, FALSE, FALSE, 1, FALSE, FALSE, FALSE, FALSE),   \* the defaults
   Flags(0, TRUE, TRUE, TRUE, 1, TRUE, TRUE, TRUE, TRUE),         \* deploy/qk-server.yaml and grouping
   Flags(0, FALSE, FALSE, FALSE, 2, TRUE, FALSE, FALSE, TRUE),    \* QK_NO_SPLITK
   Flags(1, TRUE, TRUE, FALSE, 4, FALSE, TRUE, TRUE, FALSE)}      \* two stages
===============================================================================
