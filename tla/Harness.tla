-------------------------------- MODULE Harness --------------------------------
(* The command-line modes of src/main.cpp that drive the engine and judge it: *)
(* speccmp, verify, prefillcmp, prefilldecode, cachetest and serve-test, the  *)
(* benches serve-bench, stage-bench and prefillbench, and the pipe driver.    *)
(* Each is a client of the engine's contract: a slot's state is what it was   *)
(* fed, and a sample is the greedy token of that.  A fault makes the engine   *)
(* break its contract in one place; the question is what the verdict of a     *)
(* mode is worth.  QkEngine takes the engine itself apart.                    *)
EXTENDS Naturals, Sequences, SequencesExt

CONSTANTS
  Modes,        \* the command-line modes explored
  Prompts,      \* ids files: non-empty sequences of tokens
  Gens,         \* values of nGen, nDecode, M
  Options,      \* values of K, delay, QK_BENCH_PREFIX, QK_PB_REPS
  Faults,       \* ways for the engine to be wrong; "none" for a correct one
  Tok, Eos,     \* token ids; Eos is the id that ends a stream
  Models,       \* the bigram models to choose from: functions Tok -> Tok \cup {Eos}
  Chunk, NCtx,  \* qk_config.chunk, and tmax or ctx
  MaxB,         \* rows of a batched prefill
  MinBatch,     \* shortest batched prefill of qk_slot_start (16)
  MinKeep,      \* tokens below which nothing is cached (8)
  MinGen,       \* stream length below which nothing is compared (4)
  RoundSizes,   \* verify's list of K
  Corruptions,  \* speccmp's list of C
  Sizes         \* prefillcmp's list of N

ASSUME HarnessAssumption ==
  /\ Tok \subseteq Nat /\ Eos \in Nat \ Tok /\ \A t \in Tok : \E u \in Tok : u # t
  /\ Models \subseteq [Tok -> Tok \cup {Eos}]
  /\ Prompts \subseteq Seq(Tok) \ {<<>>} /\ Gens \cup Options \subseteq Nat
  /\ {Chunk, NCtx, MaxB, MinBatch, MinKeep, MinGen} \subseteq Nat \ {0} /\ MinBatch <= MaxB
  /\ {RoundSizes, Corruptions, Sizes} \subseteq Seq(Nat) \ {<<>>}
  /\ "none" \in Faults

VARIABLES
  mode, arg, fault, lm,   \* the command line, the engine's fault, the model
  eng,      \* per slot (per stage for pipe): the slot as the harness can see it
  cache,    \* the prefix cache: snapshots by the tokens they were fed
  pc,       \* how far the mode has come
  todo,     \* rounds of the mode's own loop that are left (turns, Ks, Cs, sizes, seeds)
  S,        \* the serial stream, or the prompt of the second turn
  out,      \* tokens of the subject
  next, pos,  \* next token to feed, and its position; or the counters of a loop
  allOk,      \* no comparison has failed
  verdict,    \* what the mode reports
  subjBad,    \* history: a compared sample of the subject came from an inexact state
  legal       \* history: every call kept the preconditions of the engine

ghosts == <<subjBad, legal>>
fixed == <<mode, arg, fault, lm>>
local == <<todo, S, out, next, pos, allOk>>
vars == <<fixed, eng, cache, pc, local, verdict, ghosts>>

-------------------------------------------------------------------------------
(* The engine's contract.                                                     *)

SlotIds == {0, 1}
Stages == 0 .. 2
Empty == [fed |-> <<>>, ok |-> TRUE]
Other(t) == CHOOSE u \in Tok : u # t
\* The greedy token; from an inexact state it is another one.
Sample(st) ==
  LET t == IF Last(st.fed) = Eos THEN CHOOSE u \in Tok : TRUE ELSE lm[Last(st.fed)] IN
  IF st.ok THEN t ELSE Other(t)

AtMost(n, m) == IF n < m THEN n ELSE m

\* A forward pass of toks from position base, and the states it goes through.
Feed(st, toks, base) == [fed |-> st.fed \o toks, ok |-> st.ok /\ Len(st.fed) = base]
\* prefillBatchLast: base 0 starts from an empty state.
Batch(st, toks, base) ==
  LET after == Feed(IF base = 0 THEN Empty ELSE st, toks, base) IN
  [after EXCEPT !.ok = @ /\ ~(fault = "batch" /\ Len(toks) > 1)]
Argmaxes(st, toks, base) ==
  LET after == Batch(st, toks, base)
      row(i) == [after EXCEPT !.fed = SubSeq(@, 1, Len(@) - Len(toks) + i)] IN
  [i \in 1 .. Len(toks) |-> Sample(row(i))]
\* What a call at base with n rows may ask of a state.
CallLegal(st, n, base) ==
  n \in 1 .. MaxB /\ base + n <= NCtx /\ (base = 0 \/ Len(st.fed) = base)

\* serialPrefillLogits: one step per token on a fresh slot.
Serial(toks) == Feed(Empty, toks, 0)

\* qk_slot_start: the longest cached prefix, then batches up to the last token.
StartOk(s, p, n) == ~eng[s].act /\ Len(p) + n <= NCtx
BatchTo(done, limit) ==
  LET tail == (limit - done) % MaxB IN limit - (IF tail >= MinBatch THEN 0 ELSE tail)
CacheHits(c, p) == {e \in c : Len(e.fed) > MinKeep /\ IsStrictPrefix(e.fed, p)}
Started(c, p, n) ==
  LET hits == CacheHits(c, p)
      hit == CHOOSE e \in hits : \A f \in hits : Len(e.fed) >= Len(f.fed)
      from == IF hits = {} THEN Empty
              ELSE [hit EXCEPT !.ok = @ /\ fault # "restore"]
      done == BatchTo(Len(from.fed), Len(p) - 1)
      st == IF done = Len(from.fed) THEN from
            ELSE Batch(from, SubSeq(p, Len(from.fed) + 1, done), Len(from.fed)) IN
  [st |-> st, act |-> TRUE, prompt |-> p, gen |-> <<>>, max |-> n, pos |-> done]
Kept(st) == IF Len(st.fed) < MinKeep THEN {} ELSE {st}

(* One serial step of a slot, and the steps of one qk_step_chunk.  A state    *)
(* that was fed anything but the slot's own history gives wrong samples.      *)
SerialStep(sl) ==
  LET inPrompt == sl.pos < Len(sl.prompt)
      tok == IF inPrompt THEN sl.prompt[sl.pos + 1] ELSE Last(sl.gen)
      own == IsPrefix(sl.st.fed, sl.prompt \o sl.gen)
      st == [Feed(sl.st, <<tok>>, sl.pos) EXCEPT !.ok = @ /\ own]
      fed == [sl EXCEPT !.st = st, !.pos = @ + 1]
      gen == IF Sample(st) = Eos THEN sl.gen ELSE Append(sl.gen, Sample(st)) IN
  IF ~sl.act THEN sl
  ELSE IF sl.pos + 1 < Len(sl.prompt) THEN fed
  ELSE [fed EXCEPT !.gen = gen,
          !.act = Sample(st) # Eos /\ Len(gen) < sl.max /\ fed.pos < NCtx]
Stepped(s) ==
  LET crowded == fault = "neighbour" /\ s > 0 /\ \A t \in SlotIds : eng[t].act
      f[i \in 0 .. Chunk] ==
        IF i = 0 THEN [eng[s] EXCEPT !.st.ok = @ /\ ~crowded]
        ELSE CHOOSE sl \in {SerialStep(before) : before \in {f[i - 1]}} : TRUE IN
  f[Chunk]
Active == {s \in SlotIds : eng[s].act}
\* qk_step_chunk: every active slot advances; one that finishes is snapshotted.
StepChunk ==
  /\ eng' = [s \in Stages |-> IF s \in SlotIds THEN Stepped(s) ELSE eng[s]]
  /\ cache' = cache \cup UNION {Kept(Stepped(s).st) : s \in {t \in Active : ~Stepped(t).act}}
Sampled(s) == eng[s].act /\ (Stepped(s).gen # eng[s].gen \/ ~Stepped(s).act)
SampledBad(s) == Sampled(s) /\ ~Stepped(s).st.ok

Idle == [st |-> Empty, act |-> FALSE, prompt |-> <<>>, gen |-> <<>>, max |-> 0, pos |-> 0]

-------------------------------------------------------------------------------
(* The command line.                                                          *)

N == Len(arg.prompt)
Accepted ==
  /\ mode = "serve-bench" =>
       /\ arg.gen > 0 /\ arg.gen % Chunk = 0 /\ arg.opt % Chunk = 0
       /\ N + arg.opt + arg.gen + 1 <= NCtx
  /\ mode = "stage-bench" => arg.gen > 0 /\ N + arg.gen <= NCtx
  /\ mode = "speccmp" => arg.opt \in 2 .. MaxB
  /\ mode = "pipe" => arg.opt \in 1 .. 2 /\ N + arg.gen <= NCtx
  /\ mode \in {"prefillcmp", "prefillbench"} => N + 1 <= NCtx
  /\ mode = "prefilldecode" => N + arg.gen <= NCtx /\ N <= MaxB

\* The modes that begin with a stream generated through the slot ABI.
StreamModes == {"serve-test", "serve-test2", "serve-bench", "cachetest", "verify", "speccmp",
                "prefilldecode"}
Rotated == Append(Tail(arg.prompt), Head(arg.prompt))
\* The rounds of a mode's loop; a K or a size that does not fit is skipped.
Rounds ==
  CASE mode = "verify" -> SelectSeq(RoundSizes, LAMBDA k : k \in 1 .. MaxB)
    [] mode = "speccmp" -> Corruptions
    [] mode = "prefillcmp" -> SelectSeq(Sizes, LAMBDA n : n <= AtMost(MaxB, NCtx - 1))
    [] mode = "prefilldecode" -> <<arg.prompt, Rotated>>
    [] mode = "cachetest" -> <<"warm", "cold", "judge">>
    [] OTHER -> <<>>

Report(v) == verdict' = v /\ pc' = "done"
Judge(good) == Report(IF good THEN "ok" ELSE "bad")

Check ==
  /\ pc = "check"
  /\ todo' = Rounds
  /\ IF Accepted
     THEN /\ pc' = IF mode \in StreamModes THEN "start" ELSE mode
          /\ UNCHANGED verdict
     ELSE Report("refused")
  /\ UNCHANGED <<fixed, eng, cache, S, out, next, pos, allOk, ghosts>>

\* max_gen of serve-bench: one beyond the window.
WindowGen == arg.opt + arg.gen + 1

(* The first qk_slot_start of each slot a mode uses; pos counts the slots of  *)
(* serve-test.  The benches check the code it returns, the others do not.     *)
Start ==
  LET bench == mode \in {"serve-bench", "serve-test2"}
      n == IF mode = "serve-bench" THEN WindowGen ELSE arg.gen
      p == IF mode = "prefilldecode" THEN Head(todo) ELSE arg.prompt
      s == IF mode = "prefilldecode" THEN 1 ELSE pos
      more == mode = "serve-test" /\ pos = 0 IN
  /\ pc = "start"
  /\ IF StartOk(s, p, n)
     THEN eng' = [eng EXCEPT ![s] = Started(cache, p, n)] /\ cache' = cache \cup Kept(Started(cache, p, n).st)
     ELSE UNCHANGED <<eng, cache>>
  /\ IF ~StartOk(s, p, n) /\ bench THEN Report("failed")
     ELSE /\ pc' = IF more THEN pc ELSE IF bench THEN mode ELSE "generate"
          /\ UNCHANGED verdict
  /\ pos' = IF more THEN 1 ELSE 0
  /\ UNCHANGED <<fixed, todo, S, out, next, allOk, ghosts>>

(* while (qk_step_chunk(...) > 0) the tokens are collected, which the slots   *)
(* keep as gen.  Slot 0 of serve-test is the reference for the other, the     *)
(* warm turn of cachetest the subject.                                        *)
Subjects == CASE mode = "serve-test" -> {1}
              [] mode = "cachetest" /\ todo = <<"cold", "judge">> -> {0}
              [] OTHER -> {}
Generate ==
  /\ pc = "generate"
  /\ IF Active # {}
     THEN /\ StepChunk
          /\ subjBad' = (subjBad \/ \E s \in Subjects : SampledBad(s))
          /\ UNCHANGED pc
     ELSE pc' = mode /\ UNCHANGED <<eng, cache, subjBad>>
  /\ UNCHANGED <<fixed, local, verdict, legal>>

-------------------------------------------------------------------------------
(* serve-test, serve-test2, cachetest and serve-bench.                        *)

\* serve-test: every slot ran the same prompt, so their streams must be equal.
ServeTest ==
  /\ pc = "serve-test"
  /\ Judge(eng[1].gen = eng[0].gen)
  /\ UNCHANGED <<fixed, eng, cache, local, ghosts>>

\* Mutant of CountCall: a call that advanced nothing does not count.
CountCallBusy(calls) == IF Active = {} THEN calls ELSE calls + 1
CountCall(calls) == calls + 1

\* serve-test2: slot 1 is admitted after arg.opt calls; pos counts the calls.
ServeTest2 ==
  /\ pc = "serve-test2"
  /\ IF next = 0 /\ pos >= arg.opt
     THEN /\ IF StartOk(1, Rotated, arg.gen)
             THEN /\ eng' = [eng EXCEPT ![1] = Started(cache, Rotated, arg.gen)]
                  /\ cache' = cache \cup Kept(Started(cache, Rotated, arg.gen).st)
                  /\ UNCHANGED <<pc, verdict>>
             ELSE Report("failed") /\ UNCHANGED <<eng, cache>>
          /\ next' = 1 /\ UNCHANGED pos
     ELSE IF Active = {} /\ next = 1
     THEN Report("ok") /\ UNCHANGED <<eng, cache, next, pos>>
     ELSE StepChunk /\ pos' = CountCall(pos) /\ UNCHANGED <<next, pc, verdict>>
  /\ UNCHANGED <<fixed, todo, S, out, allOk, ghosts>>

\* Mutant of FreshEngine: the cold turn finds the cache of the warm one.
FreshEngineKept == cache
\* What the second engine of cachetest has cached.
FreshEngine == {}

(* cachetest: turn 1, then prompt \o R \o prompt warm on the same engine, and *)
(* cold on a fresh one.  A start that is refused leaves a turn without tokens.*)
CacheTest ==
  LET p2 == arg.prompt \o eng[0].gen \o arg.prompt
      turn(c, p) == IF Len(p) + arg.gen <= NCtx THEN Started(c, p, arg.gen) ELSE Idle IN
  /\ pc = "cachetest"
  /\ todo' = Tail(todo)
  /\ CASE Head(todo) = "warm" ->
            /\ S' = p2 /\ eng' = [eng EXCEPT ![0] = turn(cache, p2)]
            /\ pc' = "generate" /\ UNCHANGED <<cache, out, verdict>>
       [] Head(todo) = "cold" ->
            /\ out' = eng[0].gen /\ cache' = FreshEngine
            /\ eng' = [eng EXCEPT ![0] = turn(FreshEngine, S)]
            /\ pc' = "generate" /\ UNCHANGED <<S, verdict>>
       [] Head(todo) = "judge" ->
            Judge(out = eng[0].gen) /\ UNCHANGED <<S, eng, cache, out>>
  /\ UNCHANGED <<fixed, next, pos, allOk, ghosts>>

(* serve-bench: drive() until the phase has its tokens, first the prefix      *)
(* (next = 0) and then the measured window; pos counts the tokens.            *)
ServeBench ==
  LET want == IF next = 0 THEN arg.opt ELSE arg.gen
      made == Len(Stepped(0).gen) - Len(eng[0].gen) IN
  /\ pc = "serve-bench"
  /\ IF pos >= want /\ next = 0
     THEN next' = 1 /\ pos' = 0 /\ UNCHANGED <<eng, cache, pc, verdict>>
     ELSE IF pos >= want
     THEN /\ eng' = [eng EXCEPT ![0].act = FALSE]                  \* qk_slot_cancel
          /\ Report("ok") /\ UNCHANGED <<cache, next, pos>>
     ELSE /\ StepChunk
          /\ IF Active = {} \/ ~Stepped(0).act \/ made = 0
             THEN Report("early") /\ UNCHANGED pos
             ELSE pos' = pos + made /\ UNCHANGED <<pc, verdict>>
          /\ UNCHANGED next
  /\ UNCHANGED <<fixed, todo, S, out, allOk, ghosts>>

-------------------------------------------------------------------------------
(* verify and speccmp: rounds over a state admitted by batches, against the   *)
(* serial stream.                                                             *)

Stream ==
  /\ pc \in {"verify", "speccmp"}
  /\ S' = arg.prompt \o eng[0].gen
  /\ IF Len(eng[0].gen) < MinGen THEN Report("short") /\ UNCHANGED pos
     ELSE pc' = "admit" /\ pos' = 0 /\ UNCHANGED verdict
  /\ UNCHANGED <<fixed, eng, cache, todo, out, next, allOk, ghosts>>

\* One batch of the prompt; the last one of speccmp gives the first token.
Admit ==
  LET n == AtMost(MaxB, N - pos)
      st == Batch(eng[0].st, SubSeq(S, pos + 1, pos + n), pos)
      last == pos + n = N IN
  /\ pc = "admit"
  /\ eng' = [eng EXCEPT ![0].st = st]
  /\ legal' = (legal /\ CallLegal(eng[0].st, n, pos))
  /\ pos' = pos + n
  /\ IF last /\ mode = "speccmp"
     THEN next' = Sample(st) /\ out' = <<Sample(st)>> /\ subjBad' = (subjBad \/ ~st.ok)
     ELSE UNCHANGED <<next, out, subjBad>>
  /\ pc' = IF last THEN "round" ELSE pc
  /\ UNCHANGED <<fixed, cache, todo, S, allOk, verdict>>

NextRound(good) ==
  /\ allOk' = (allOk /\ good)
  /\ todo' = Tail(todo)
  /\ IF Len(todo) = 1 THEN Judge(allOk /\ good) /\ UNCHANGED pos
     ELSE pc' = "admit" /\ pos' = 0 /\ UNCHANGED verdict

\* verify: k tokens of the stream are fed, each argmax must be the one after.
VerifyRound ==
  LET k == AtMost(Head(todo), Len(S) - pos - 1)
      toks == SubSeq(S, pos + 1, pos + k)
      am == Argmaxes(eng[0].st, toks, pos) IN
  /\ pc = "round" /\ mode = "verify"
  /\ IF pos + 1 < Len(S)
     THEN /\ eng' = [eng EXCEPT ![0].st = Batch(@, toks, pos)]
          /\ legal' = (legal /\ CallLegal(eng[0].st, k, pos))
          /\ subjBad' = (subjBad \/ ~Batch(eng[0].st, toks, pos).ok)
          /\ allOk' = (allOk /\ \A i \in 1 .. k : am[i] = S[pos + i + 1])
          /\ pos' = pos + k
          /\ UNCHANGED <<todo, pc, verdict>>
     ELSE NextRound(TRUE) /\ UNCHANGED <<eng, legal, subjBad>>
  /\ UNCHANGED <<fixed, cache, S, out, next>>

\* speccmp's draft: the stream, with every C-th drafted token corrupted.
Draft(k) == [i \in 1 .. k |->
  IF i = 1 THEN next
  ELSE IF Head(todo) > 0 /\ (i - 1) % Head(todo) = 0 THEN Other(S[pos + i]) ELSE S[pos + i]]

\* Mutant of Committed: the commit pass feeds the rejected token as well.
CommittedOneMore(live, scratch, toks, k) ==
  IF k = Len(toks) THEN scratch ELSE Batch(live, SubSeq(toks, 1, k + 1), pos)
\* promoteScratch after a full acceptance, else the k accepted tokens again.
Committed(live, scratch, toks, k) ==
  IF k = Len(toks) THEN IF fault = "promote" THEN live ELSE scratch
  ELSE Batch(IF fault = "commit" THEN scratch ELSE live, SubSeq(toks, 1, k), pos)

\* out, cut to the length of the stream, must be the stream.
SpecExact(o) == o = SubSeq(S, N + 1, Len(S))

\* speccmp: verifyRound on the draft, then commit or promote, and emit.
SpecRound ==
  LET stream == Len(S) - N
      kr == AtMost(arg.opt, Len(S) - pos)
      toks == Draft(kr)
      scratch == Batch(eng[0].st, toks, pos)
      am == Argmaxes(eng[0].st, toks, pos)
      k == CHOOSE j \in 1 .. kr : /\ \A i \in 2 .. j : toks[i] = am[i - 1]
                                  /\ j = kr \/ toks[j + 1] # am[j]
      hitEos == next = Eos /\ Last(out) # Eos IN
  /\ pc = "round" /\ mode = "speccmp"
  /\ IF Len(out) < stream /\ ~hitEos /\ kr >= 1
     THEN /\ eng' = [eng EXCEPT ![0].st = Committed(@, scratch, toks, k)]
          /\ legal' = (legal /\ CallLegal(eng[0].st, kr, pos))
          /\ subjBad' = (subjBad \/ (~scratch.ok /\ pos + 2 <= Len(S)))
          /\ out' = out \o SubSeq(toks, 2, k) \o (IF am[k] = Eos THEN <<>> ELSE <<am[k]>>)
          /\ next' = am[k] /\ pos' = pos + k
          /\ UNCHANGED <<todo, allOk, pc, verdict>>
     ELSE /\ NextRound(SpecExact(SubSeq(out, 1, AtMost(stream, Len(out)))))
          /\ UNCHANGED <<eng, legal, subjBad, out, next>>
  /\ UNCHANGED <<fixed, cache, S>>

-------------------------------------------------------------------------------
(* prefillcmp, prefilldecode and prefillbench.                                *)

Cycled(n) == [i \in 1 .. n |-> arg.prompt[((i - 1) % N) + 1]]

\* prefillcmp: the last argmax of a batch against that of serial steps.
PrefillCmp ==
  /\ pc = "prefillcmp"
  /\ IF todo = <<>> THEN Judge(allOk) /\ UNCHANGED <<eng, todo, allOk, ghosts>>
     ELSE LET toks == Cycled(Head(todo))
              st == Batch(eng[0].st, toks, 0) IN
          /\ eng' = [eng EXCEPT ![0].st = st, ![1].st = Serial(toks)]
          /\ allOk' = (allOk /\ Sample(Serial(toks)) = Sample(st))
          /\ subjBad' = (subjBad \/ ~st.ok)
          /\ legal' = (legal /\ CallLegal(eng[0].st, Len(toks), 0))
          /\ todo' = Tail(todo)
          /\ UNCHANGED <<pc, verdict>>
  /\ UNCHANGED <<fixed, cache, S, out, next, pos>>

(* prefilldecode: the stream of slot 1 is the reference; slot 0 is prefilled  *)
(* by one batch and its record written by hand, so that stepChunk goes on.    *)
HandOff ==
  LET toks == Head(todo)
      st == Batch(eng[0].st, toks, 0)
      tok0 == Sample(st) IN
  /\ pc = "prefilldecode"
  /\ S' = eng[1].gen
  /\ eng' = [eng EXCEPT ![0] =
       IF tok0 = Eos THEN [Idle EXCEPT !.st = st]
       ELSE [st |-> st, act |-> TRUE, prompt |-> toks, gen |-> <<tok0>>, max |-> arg.gen,
             pos |-> Len(toks)]]
  /\ subjBad' = (subjBad \/ ~st.ok)
  /\ legal' = (legal /\ CallLegal(eng[0].st, Len(toks), 0))
  /\ pc' = "continue"
  /\ UNCHANGED <<fixed, cache, todo, out, next, pos, allOk, verdict>>

Continue ==
  /\ pc = "continue"
  /\ IF Active # {}
     THEN /\ StepChunk
          /\ subjBad' = (subjBad \/ SampledBad(0))
          /\ UNCHANGED <<todo, allOk, pc, verdict>>
     ELSE /\ allOk' = (allOk /\ eng[0].gen = S)
          /\ todo' = Tail(todo)
          /\ IF Len(todo) = 1 THEN Judge(allOk') ELSE pc' = "start" /\ UNCHANGED verdict
          /\ UNCHANGED <<eng, cache, subjBad>>
  /\ UNCHANGED <<fixed, S, out, next, pos, legal>>

(* prefillbench: admissions by batches, a warm one and then arg.opt timed     *)
(* ones (at least one), each once the GPU is seen idle; next counts them.     *)
PrefillBench ==
  LET n == AtMost(MaxB, N - pos) IN
  /\ pc = "prefillbench"
  /\ IF pos < N
     THEN /\ eng' = [eng EXCEPT ![0].st = Batch(@, SubSeq(arg.prompt, pos + 1, pos + n), pos)]
          /\ legal' = (legal /\ CallLegal(eng[0].st, n, pos))
          /\ pos' = pos + n /\ UNCHANGED <<next, pc, verdict>>
     ELSE /\ IF next >= 1 /\ next >= arg.opt THEN Report("ok") /\ UNCHANGED <<next, pos>>
             ELSE \/ next' = next + 1 /\ pos' = 0 /\ UNCHANGED <<pc, verdict>>
                  \/ Report("contaminated") /\ UNCHANGED <<next, pos>>
          /\ UNCHANGED <<eng, legal>>
  /\ UNCHANGED <<fixed, cache, todo, S, out, allOk, subjBad>>

-------------------------------------------------------------------------------
(* stage-bench and the pipe driver: stages fed the same positions in turn.    *)

\* stageRun on a stage: batches of at most MaxB rows.
Staged(st, toks, base) ==
  LET rows(i) == AtMost(MaxB, Len(toks) - i * MaxB)
      f[i \in 0 .. (Len(toks) + MaxB - 1) \div MaxB] ==
        IF i = 0 THEN st
        ELSE LET off == (i - 1) * MaxB IN
             Batch(f[i - 1], SubSeq(toks, off + 1, off + rows(i - 1)), base + off) IN
  f[(Len(toks) + MaxB - 1) \div MaxB]
StageLegal(st, n, base) == base + n <= NCtx /\ (base = 0 \/ Len(st.fed) = base)

\* Mutant of DecodeBase: decoding starts over at the last position of the prompt.
DecodeBaseLast(i) == N + i - 1
\* stage-bench decodes step i at this position.
DecodeBase(i) == N + i

StageBench ==
  LET toks == IF pos = 0 THEN arg.prompt ELSE <<arg.prompt[((N - 1 + pos - 1) % N) + 1]>>
      base == IF pos = 0 THEN 0 ELSE DecodeBase(pos - 1) IN
  /\ pc = "stage-bench"
  /\ IF pos > arg.gen THEN Report("ok") /\ UNCHANGED <<eng, pos, legal>>
     ELSE /\ eng' = [eng EXCEPT ![0].st = Staged(@, toks, base)]
          /\ legal' = (legal /\ StageLegal(eng[0].st, Len(toks), base))
          /\ pos' = pos + 1 /\ UNCHANGED <<pc, verdict>>
  /\ UNCHANGED <<fixed, cache, todo, S, out, next, allOk, subjBad>>

(* runChain: n positions through every stage; the last gives the next token.  *)
RunChain(toks, base) ==
  LET through(s) == Staged(eng[s].st, toks, base)
      stages == 0 .. arg.opt IN
  /\ eng' = [s \in Stages |-> IF s \in stages THEN [eng[s] EXCEPT !.st = through(s)] ELSE eng[s]]
  /\ legal' = (legal /\ \A s \in stages : StageLegal(eng[s].st, Len(toks), base))
  /\ next' = Sample([through(arg.opt) EXCEPT !.ok = \A s \in stages : through(s).ok])
  /\ pos' = base + Len(toks)

\* The prompt goes in one frame, or token by token (QK_PIPE_SERIAL).
PipePrefill ==
  /\ pc = "pipe" /\ pos < N
  /\ RunChain(IF arg.serial THEN <<arg.prompt[pos + 1]>> ELSE arg.prompt, pos)
  /\ UNCHANGED <<fixed, cache, pc, todo, S, out, allOk, verdict, subjBad>>

PipeDecode ==
  /\ pc = "pipe" /\ pos >= N
  /\ IF next = Eos \/ Len(out) >= arg.gen
     THEN Report("ok") /\ UNCHANGED <<eng, legal, next, pos, out>>
     ELSE /\ out' = Append(out, next)
          /\ IF Len(out') = arg.gen
             THEN Report("ok") /\ UNCHANGED <<eng, legal, next, pos>>
             ELSE RunChain(<<next>>, pos) /\ UNCHANGED <<pc, verdict>>
  /\ UNCHANGED <<fixed, cache, todo, S, allOk, subjBad>>

-------------------------------------------------------------------------------

\* The modes with an option of their own: delay, prefix, K, reps, boundaries.
OptionModes == {"serve-test2", "serve-bench", "speccmp", "prefillbench", "pipe"}

Init ==
  /\ mode \in Modes /\ fault \in Faults /\ lm \in Models
  /\ arg \in [prompt : Prompts, gen : Gens, opt : Options, serial : BOOLEAN]
  /\ arg.serial => mode = "pipe"
  /\ arg.opt > 0 => mode \in OptionModes
  /\ eng = [s \in Stages |-> Idle] /\ cache = {}
  /\ pc = "check" /\ todo = <<>> /\ S = <<>> /\ out = <<>> /\ next = 0 /\ pos = 0
  /\ allOk = TRUE /\ verdict = "running" /\ subjBad = FALSE /\ legal = TRUE

Next ==
  \/ Check \/ Start \/ Generate
  \/ ServeTest \/ ServeTest2 \/ CacheTest \/ ServeBench
  \/ Stream \/ Admit \/ VerifyRound \/ SpecRound
  \/ PrefillCmp \/ HandOff \/ Continue \/ PrefillBench
  \/ StageBench \/ PipePrefill \/ PipeDecode

Spec == Init /\ [][Next]_vars /\ WF_vars(Next)

-------------------------------------------------------------------------------
(* Properties.                                                                *)

\* Greedy decoding of n tokens from p, ended by Eos.
Greedy(p, n) ==
  LET after == [t \in Tok \cup {Eos} |-> IF t = Eos THEN Eos ELSE lm[t]]
      g[i \in 0 .. n] == IF i = 0 THEN Last(p) ELSE after[g[i - 1]] IN
  SelectSeq([i \in 1 .. n |-> g[i]], LAMBDA t : t # Eos)

(* With a correct engine every mode keeps the engine's preconditions: it      *)
(* calls it with at most MaxB rows, within the context, and at the position   *)
(* the slot's state has reached.  A harness that loses count would test (and  *)
(* time) states that no server can be in.                                     *)
CallsLegal == fault = "none" => legal

\* What a mode prints is greedy decoding of its prompt, through however many
\* stages and whichever way the prompt went in.
PrintsGreedy ==
  /\ mode = "pipe" => out = Greedy(arg.prompt, arg.gen)
  /\ mode \in {"serve-test", "serve-test2"} =>
       eng[0].gen = (IF N + arg.gen > NCtx THEN <<>> ELSE Greedy(arg.prompt, arg.gen))
  /\ mode = "serve-test2" => eng[1].gen = Greedy(Rotated, arg.gen)
  /\ mode = "serve-bench" => IsPrefix(eng[0].gen, Greedy(arg.prompt, WindowGen))

(* With a correct engine no test reports a divergence, a run that succeeds    *)
(* prints greedy decoding, and serve-bench does not stop early on a stream    *)
(* that is long enough and a prompt that batches cover.  prefilldecode is     *)
(* only right from M = 2 on: stepChunk looks at max_gen after a token is      *)
(* emitted, so for M = 1 its second slot emits two.                           *)
NoFalseAlarm ==
  fault = "none" =>
    /\ verdict = "bad" => mode = "prefilldecode" /\ arg.gen < 2
    /\ verdict = "ok" => PrintsGreedy
    /\ verdict = "early" =>
         \/ Len(Greedy(arg.prompt, WindowGen)) < WindowGen
         \/ BatchTo(0, N - 1) # N - 1

(* A test that reports equality has not compared a sample of an inexact       *)
(* state: the fault would have shown.  The exception is a batch that is       *)
(* itself wrong: the "serial" streams of qk_slot_start are batch-prefilled,   *)
(* so only prefillcmp, whose reference takes single steps, can tell.          *)
VerdictSound ==
  verdict = "ok" /\ subjBad => fault = "batch" /\ mode # "prefillcmp"

\* Every mode comes to its end, whatever the engine does.
HarnessEnds == <>(pc = "done")
===============================================================================
