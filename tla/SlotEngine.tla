------------------------------ MODULE SlotEngine ------------------------------
(* The slot half of the C ABI (include/qk.h): what qk_slot_start,             *)
(* qk_slot_cancel and qk_step_chunk promise to the one thread that calls      *)
(* them.  Token values are abstract: the n-th token of request r is <<r, n>>, *)
(* so a lost, repeated or misdelivered token shows.  The server's engine      *)
(* thread (EngineThread) is built on these operators and the engine itself    *)
(* (QkEngine) implements this specification.                                  *)
EXTENDS Requests, Sequences

CONSTANTS Chunk,     \* qk_config.chunk: tokens a slot may emit per call
          MaxPre     \* bound: silent calls a prompt may take (prefill)

ASSUME SlotEngineAssumption ==
  /\ Chunk \in Nat \ {0}
  /\ MaxPre \in Nat \ {0}

VARIABLE eng         \* per slot: who runs there and how far it is

(* req: the sequence in the slot; pre: prompt work left; gen: tokens emitted. *)
EngSlot == [req : Request \cup {None}, pre : Nat, gen : Nat]
EngFree == [req |-> None, pre |-> 0, gen |-> 0]

EngActive(s) == eng[s].req # None

\* The ids a call appends for a slot that had emitted e.gen tokens before it.
Emit(e, n) == [i \in 1 .. n |-> <<e.req, e.gen + i>>]

(* What one qk_step_chunk may do to an active slot: go on prefilling in       *)
(* silence, or emit up to Chunk tokens and perhaps finish.  max_gen reached   *)
(* always finishes; EOS (never emitted) may finish at any earlier count.      *)
StepOutcomes(e) ==
  {o \in [pre : 0 .. e.pre, n : 0 .. Chunk, fin : BOOLEAN] :
      \/ o.pre > 0 /\ o.pre < e.pre /\ o.n = 0 /\ ~o.fin
      \/ /\ o.pre = 0
         /\ o.n > 0 \/ o.fin
         /\ e.gen + o.n <= MaxGen[e.req]
         /\ e.gen + o.n = MaxGen[e.req] => o.fin}

StepSlot(e, o) == IF o.fin THEN EngFree
                  ELSE [e EXCEPT !.pre = o.pre, !.gen = @ + o.n]

EngInit == eng = [s \in Slot |-> EngFree]

\* qk_slot_start on a free slot: the sequence becomes active.
EngStart(s, r) ==
  /\ ~EngActive(s)
  /\ \E p \in 1 .. MaxPre :
       eng' = [eng EXCEPT ![s] = [req |-> r, pre |-> p, gen |-> 0]]

\* qk_slot_cancel: free the slot now; safe on a slot that is already free.
EngCancel(s) == eng' = [eng EXCEPT ![s] = EngFree]

\* qk_step_chunk with outcome o[s] for every active slot.
EngStep(o) ==
  /\ \A s \in Slot : EngActive(s) => o[s] \in StepOutcomes(eng[s])
  /\ eng' = [s \in Slot |-> IF EngActive(s) THEN StepSlot(eng[s], o[s]) ELSE eng[s]]

EngOutcome == [pre : 0 .. MaxPre, n : 0 .. Chunk, fin : BOOLEAN]

\* qk_step_chunk with some outcome.
EngAdvance ==
  /\ eng' = [s \in Slot |-> eng'[s]]
  /\ \A s \in Slot :
       IF EngActive(s) THEN \E o \in StepOutcomes(eng[s]) : eng'[s] = StepSlot(eng[s], o)
       ELSE eng'[s] = eng[s]

\* qk_close: every sequence is gone.
EngClose == eng' = [s \in Slot |-> EngFree]

EngNext ==
  \/ \E s \in Slot, r \in Request : EngStart(s, r)
  \/ \E s \in Slot : EngCancel(s)
  \/ EngAdvance \/ EngClose

EngSpec == EngInit /\ [][EngNext]_eng
===============================================================================
