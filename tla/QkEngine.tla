------------------------------- MODULE QkEngine -------------------------------
(* The engine behind the slot ABI (src/main.cpp, qk_engine): slots, the       *)
(* recurrent state and K/V rows they own on the GPU, the prefix cache that    *)
(* snapshots and restores that state, and one qk_step_chunk call taken apart  *)
(* into its three phases: draining queued tokens, speculative verify rounds   *)
(* and serial steps.  The transformer is a bigram model `lm` chosen at the    *)
(* start; what matters is which tokens a state has really been fed, so state  *)
(* is kept as histories: the delta-rule state is the sequence it was fed and  *)
(* a K/V row is the history it was computed from.                             *)
EXTENDS Requests, Sequences, SequencesExt, FiniteSets

CONSTANTS
  Prompt,      \* [Request -> Seq(Tok)]
  SnapPrefix,  \* [Request -> Nat]: history boundary given with each request
  Tok, Eos,    \* token ids; Eos is the id qk_eos_token names
  Models,      \* the bigram models to choose from: functions Tok -> Tok \cup {Eos}
  Chunk,       \* qk_config.chunk
  NCtx,        \* qk_config.n_ctx
  MaxB,        \* rows of a batched prefill
  MinBatch,    \* shortest batched prefill (16)
  MinKeep,     \* tokens below which nothing is cached (8)
  PCacheN,     \* QK_PCACHE
  SpecOn, SpecL, SpecK,   \* QK_SPEC, QK_SPEC_L, QK_SPEC_K
  ShareFork,   \* QK_FORK
  Collisions   \* may two n-gram hashes collide?

ASSUME QkEngineAssumption ==
  /\ 0 \in Tok /\ Tok \subseteq Nat /\ Eos \notin Tok
  /\ Models \subseteq [Tok -> Tok \cup {Eos}]
  /\ {Chunk, NCtx, MaxB, MinBatch, MinKeep, PCacheN, SpecL, SpecK} \subseteq Nat \ {0}
  /\ MinBatch <= MaxB /\ SpecK <= MaxB /\ SpecK >= 2 /\ SpecL >= 2
  /\ \A r \in Request : /\ Prompt[r] \in Seq(Tok) /\ Prompt[r] # <<>>
                        /\ Len(Prompt[r]) + MaxGen[r] <= NCtx
                        /\ SnapPrefix[r] \in Nat

VARIABLES
  lm,       \* the model
  mem,      \* per slot: GPU state stripes
  scratch,  \* the scratch stripe of the delta-rule state
  slots,    \* std::vector<Slot>
  cache,    \* pcache (a sequence of CacheEntry) and lruClock
  pc,       \* where the engine thread is: "idle" between two ABI calls
  outTok,   \* tokens emitted by the call in progress
  outFin,   \* its finished mask
  step,     \* serial steps it has made
  cur,      \* slot whose sample is handled next
  jobs,     \* requests not started yet
  sent,     \* history: tokens returned for each request
  over,     \* history: requests the engine reported finished
  entry     \* history: the slots, as the ABI shows them, when the call began

vars == <<lm, mem, scratch, slots, cache, pc, outTok, outFin, step, cur, jobs, sent, over,
          entry>>
ghostVars == <<jobs, sent, over, entry>>

-------------------------------------------------------------------------------
(* GPU state.                                                                 *)

Junk == <<-1>>      \* the history of a state fed out of step: no sequence of ids
NoRows == [p \in 1 .. NCtx |-> <<>>]
Zero == [dn |-> <<>>, kv |-> NoRows]

\* The state of a stripe after a forward pass of token t at position p.
Feed(st, t, p) ==
  LET true == Len(st.dn) = p /\ \A i \in 1 .. p : st.kv[i] = SubSeq(st.dn, 1, i)
      h == IF true THEN Append(st.dn, t) ELSE Junk IN
  [dn |-> h, kv |-> [st.kv EXCEPT ![p + 1] = h]]

\* The states a batch passes through, from position base on; base 0 resets.
Fed(st, toks, base) ==
  LET f[i \in 0 .. Len(toks)] ==
        IF i = 0 THEN IF base = 0 THEN Zero ELSE st
        ELSE Feed(f[i - 1], toks[i], base + i - 1) IN f
PrefillBatch(st, toks, base) == Fed(st, toks, base)[Len(toks)]

Greedy(h) == IF Junk[1] \in Range(h) THEN Junk[1] ELSE lm[Last(h)]

-------------------------------------------------------------------------------
(* Slots and the prefix cache.                                                *)

FreeSlot == [active |-> FALSE, req |-> None, gen |-> <<>>, cursor |-> 0, pos |-> 0,
             outQ |-> <<>>, finPending |-> FALSE]
PromptOf(sl) == Prompt[sl.req]
Running(sl) == sl.active /\ ~sl.finPending
Prefilling(sl) == sl.cursor < Len(PromptOf(sl))
History(sl) == PromptOf(sl) \o sl.gen

(* snapshotSlot: the victim entry takes a copy of the slot's stripes, keyed   *)
(* by the sl.pos tokens they have been fed.                                   *)
Victim(es) ==
  LET unused == {i \in 1 .. PCacheN : ~es[i].valid} IN
  CHOOSE v \in 1 .. PCacheN :
    IF unused # {} THEN v \in unused /\ \A i \in unused : v <= i
    ELSE \A i \in 1 .. PCacheN : es[v].lru <= es[i].lru

AtMost(n, m) == IF n < m THEN n ELSE m

\* Mutant of SnapshotKey: it counts the last token, which has not been fed.
SnapshotKeyAll(sl) == History(sl)

SnapshotKey(sl) ==
  LET inPrompt == AtMost(sl.pos, Len(PromptOf(sl))) IN
  SubSeq(PromptOf(sl), 1, inPrompt) \o SubSeq(sl.gen, 1, AtMost(sl.pos - inPrompt, Len(sl.gen)))

SnapshotSlot(c, sl, stripe) ==
  IF sl.pos < MinKeep \/ sl.pos > NCtx THEN c
  ELSE [clock |-> c.clock + 1,
        entries |-> [c.entries EXCEPT ![Victim(c.entries)] =
           [valid |-> TRUE, tokens |-> SnapshotKey(sl), lru |-> c.clock + 1, snap |-> stripe]]]

\* matchPrefix: the cached strict prefixes of a prompt, and the one to take.
Matches(p) == {i \in 1 .. PCacheN :
                 LET e == cache.entries[i] IN
                 e.valid /\ MinKeep < Len(e.tokens) /\ IsStrictPrefix(e.tokens, p)}
Longest(p) == CHOOSE i \in Matches(p) : \A j \in Matches(p) :
                LET li == Len(cache.entries[i].tokens)  lj == Len(cache.entries[j].tokens) IN
                li > lj \/ (li = lj /\ i <= j)

-------------------------------------------------------------------------------
(* qk_slot_start and qk_slot_cancel.                                          *)

\* batch_to(limit): whole batches of MaxB rows, then a last one if long enough.
BatchTo(done, limit) ==
  LET left == IF limit > done THEN limit - done ELSE 0
      tail == left % MaxB IN
  done + left - (IF tail >= MinBatch THEN 0 ELSE tail)

PrefillTo(st, p, done, limit) ==
  IF limit = done THEN st ELSE PrefillBatch(st, SubSeq(p, done + 1, limit), done)

Start(s, r) ==
  LET p == Prompt[r]
      hit == Matches(p) # {}
      e == cache.entries[Longest(p)]
      from == IF hit THEN Len(e.tokens) ELSE 0
      restored == IF hit THEN e.snap ELSE Zero                  \* restoreInto, resetSlot
      clock == IF hit THEN cache.clock + 1 ELSE cache.clock
      touched == IF hit THEN [clock |-> clock,
                              entries |-> [cache.entries EXCEPT ![Longest(p)].lru = clock]]
                 ELSE cache
      target == Len(p) - 1
      snapAt == IF SnapPrefix[r] > from /\ SnapPrefix[r] < target THEN SnapPrefix[r] ELSE 0
      part == IF snapAt > 0 THEN BatchTo(from, snapAt) ELSE from
      done == BatchTo(part, target)
      atPart == PrefillTo(restored, p, from, part)
      atDone == PrefillTo(atPart, p, part, done)
      new == [FreeSlot EXCEPT !.active = TRUE, !.req = r, !.cursor = done, !.pos = done] IN
  /\ pc = "idle" /\ r \in jobs /\ ~slots[s].active
  /\ mem' = [mem EXCEPT ![s] = atDone]
  /\ slots' = [slots EXCEPT ![s] = new]
  /\ cache' = IF ~ShareFork \/ done = from THEN touched
              ELSE IF part > from THEN SnapshotSlot(touched, [new EXCEPT !.pos = part], atPart)
              ELSE SnapshotSlot(touched, new, atDone)
  /\ jobs' = jobs \ {r}
  /\ UNCHANGED <<lm, scratch, pc, outTok, outFin, step, cur, sent, over, entry>>

Cancel(s) ==
  /\ pc = "idle" /\ slots[s].active
  /\ slots' = [slots EXCEPT ![s] = [@ EXCEPT !.active = FALSE, !.outQ = <<>>, !.finPending = FALSE]]
  /\ UNCHANGED <<lm, mem, scratch, cache, pc, outTok, outFin, step, cur, ghostVars>>

-------------------------------------------------------------------------------
(* qk_step_chunk.                                                             *)

\* emitTok: up to Chunk tokens of a slot leave with the call, the rest queues.
Room(s) == Chunk - Len(outTok[s])
\* Mutant of Emitted: the chunk's limit is not applied to a verify round.
EmittedUncapped(s, toks) == outTok[s] \o toks
Emitted(s, toks) == outTok[s] \o SubSeq(toks, 1, AtMost(Room(s), Len(toks)))
\* Mutant of Overflow: what does not fit in the call is dropped.
OverflowLost(s, toks) == <<>>
Overflow(s, toks) == SubSeq(toks, AtMost(Room(s), Len(toks)) + 1, Len(toks))

\* finish: the slot is freed once its queue has drained.
Freed(sl) == sl.active /\ sl.finPending /\ sl.outQ = <<>>
Finish(sl) == IF Freed(sl) THEN [sl EXCEPT !.active = FALSE, !.finPending = FALSE] ELSE sl

Shown(sl) == IF sl.active
             THEN [req |-> sl.req, pre |-> Len(PromptOf(sl)) - sl.cursor,
                   gen |-> Len(sl.gen) - Len(sl.outQ)]
             ELSE [req |-> None, pre |-> 0, gen |-> 0]

\* The call begins.  Phase 1: tokens queued by earlier rounds leave first.
Call ==
  /\ pc = "idle" /\ \E s \in Slot : slots[s].active
  /\ LET leaving(s) == AtMost(Chunk, Len(slots[s].outQ))
         drained(s) == [slots[s] EXCEPT !.outQ = SubSeq(@, leaving(s) + 1, Len(@))] IN
     /\ outTok' = [s \in Slot |-> SubSeq(slots[s].outQ, 1, leaving(s))]
     /\ slots' = [s \in Slot |-> Finish(drained(s))]
     /\ outFin' = {s \in Slot : Freed(drained(s))}
  /\ entry' = [s \in Slot |-> Shown(slots[s])]
  /\ step' = 0
  /\ pc' = IF SpecOn THEN "spec" ELSE "serial"
  /\ UNCHANGED <<lm, mem, scratch, cache, cur, jobs, sent, over>>

(* Phase 2.  specDraft: the last SpecL tokens of the history occurred before, *)
(* ending at e (the latest such place, or any place whose hash collides); the *)
(* tokens that followed there are the draft behind the token not yet fed.     *)
GramEnds(h) == {e \in SpecL .. Len(h) - 1 :
                  Collisions \/ \A i \in 0 .. SpecL - 1 : h[e - i] = h[Len(h) - i]}
Latest(h) == IF Collisions THEN GramEnds(h)
             ELSE {e \in GramEnds(h) : \A f \in GramEnds(h) : f <= e}
\* Mutant of MaxDraft: max_gen does not bound a draft.
MaxDraftLong(sl) == AtMost(SpecK, NCtx - sl.pos)
MaxDraft(sl) ==
  AtMost(AtMost(SpecK, NCtx - sl.pos), MaxGen[sl.req] - Len(sl.gen))
Drafts(sl) ==
  LET h == History(sl)
      n(e) == AtMost(MaxDraft(sl) - 1, Len(h) - e) IN
  {<<Last(h)>> \o SubSeq(h, e + 1, e + n(e)) : e \in Latest(h)}

Alone(s) == {t \in Slot : Running(slots[t])} = {s}
SpecReady(s) ==
  /\ Alone(s) /\ ~Prefilling(slots[s]) /\ Room(s) > 0
  /\ MaxDraft(slots[s]) >= 2 /\ GramEnds(History(slots[s])) # {}

\* Mutant of Commit: the scratch state is promoted after a partial acceptance too.
CommitPromotes(live, promoted, toks, k, base) == [live EXCEPT !.dn = promoted]

\* promoteScratch when all of toks was accepted, else a commit pass of the first k.
Commit(live, promoted, toks, k, base) ==
  IF k = Len(toks) THEN [live EXCEPT !.dn = promoted]
  ELSE PrefillBatch(live, SubSeq(toks, 1, k), base)

\* verifyRound runs the draft on the scratch stripe; then commit, emit, finish.
SpecRound(s) ==
  /\ pc = "spec" /\ SpecReady(s)
  /\ \E toks \in Drafts(slots[s]) :
       LET sl == slots[s]
           n == Len(toks)
           verify == Fed(mem[s], toks, sl.pos)
           am == [i \in 1 .. n |-> Greedy(verify[i].dn)]
           agree == CHOOSE k \in 1 .. n : /\ \A i \in 2 .. k : toks[i] = am[i - 1]
                                          /\ k = n \/ toks[k + 1] # am[k]
           eosAt == {i \in 1 .. agree : am[i] = Eos}
           eosHit == eosAt # {}
           k == IF eosHit THEN CHOOSE i \in eosAt : \A j \in eosAt : i <= j ELSE agree
           toEmit == SubSeq(am, 1, IF eosHit THEN k - 1 ELSE k)
           new == [sl EXCEPT !.pos = @ + k, !.gen = @ \o toEmit,
                             !.outQ = @ \o Overflow(s, toEmit)]
           ends == eosHit \/ Len(new.gen) >= MaxGen[sl.req] \/ new.pos >= NCtx
           mem1 == Commit([mem[s] EXCEPT !.kv = verify[n].kv], verify[n].dn, toks, k, sl.pos)
           done == [new EXCEPT !.finPending = ends] IN
       /\ scratch' = verify[n].dn
       /\ mem' = [mem EXCEPT ![s] = mem1]
       /\ outTok' = [outTok EXCEPT ![s] = Emitted(s, toEmit)]
       /\ cache' = IF ends THEN SnapshotSlot(cache, new, mem1) ELSE cache
       /\ slots' = [slots EXCEPT ![s] = Finish(done)]
       /\ outFin' = IF Freed(done) THEN outFin \cup {s} ELSE outFin
       /\ pc' = IF ends THEN "serial" ELSE "spec"
  /\ UNCHANGED <<lm, step, cur, ghostVars>>

SpecOver ==
  /\ pc = "spec" /\ ~\E s \in Slot : SpecReady(s)
  /\ pc' = "serial"
  /\ UNCHANGED <<lm, mem, scratch, slots, cache, outTok, outFin, step, cur, ghostVars>>

(* Phase 3: one submit advances every slot up to the highest running one; the *)
(* others among them are fed token 0 at position 0.                           *)
Needy(s) == Running(slots[s]) /\ (Prefilling(slots[s]) \/ Room(s) > 0)
MoreSteps == step < Chunk /\ \E s \in Slot : Needy(s)
Depth == CHOOSE z \in Slot : Running(slots[z]) /\ \A s \in Slot : Running(slots[s]) => s <= z

Submit ==
  LET input(s) == LET sl == slots[s] IN
        IF ~Running(sl) THEN [tok |-> 0, pos |-> 0]
        ELSE IF Prefilling(sl) THEN [tok |-> PromptOf(sl)[sl.cursor + 1], pos |-> sl.cursor]
        ELSE [tok |-> Last(sl.gen), pos |-> sl.pos] IN
  /\ pc = "serial" /\ MoreSteps
  /\ mem' = [s \in Slot |-> IF s <= Depth THEN Feed(mem[s], input(s).tok, input(s).pos)
                            ELSE mem[s]]
  /\ step' = step + 1
  /\ pc' = "sampled" /\ cur' = 0
  /\ UNCHANGED <<lm, scratch, slots, cache, outTok, outFin, ghostVars>>

\* The sampled token of slot cur is taken; slots are handled in order.
TakeSample ==
  LET sl == slots[cur]
      last == sl.cursor + 1 >= Len(PromptOf(sl))
      tok == Greedy(mem[cur].dn)
      fed == [sl EXCEPT !.cursor = IF Prefilling(sl) THEN @ + 1 ELSE @,
                        !.pos = IF Prefilling(sl) THEN Len(PromptOf(sl)) ELSE @ + 1]
      new == IF tok = Eos THEN fed
             ELSE [fed EXCEPT !.gen = Append(@, tok), !.outQ = @ \o Overflow(cur, <<tok>>)]
      ends == tok = Eos \/ new.pos >= NCtx \/ Len(new.gen) >= MaxGen[sl.req]
      done == [new EXCEPT !.finPending = ends] IN
  /\ pc = "sampled"
  /\ IF ~Running(sl) THEN UNCHANGED <<slots, cache, outTok, outFin>>
     ELSE IF Prefilling(sl) /\ ~last
       THEN /\ slots' = [slots EXCEPT ![cur].cursor = @ + 1]
            /\ UNCHANGED <<cache, outTok, outFin>>
     ELSE /\ outTok' = IF tok = Eos THEN outTok ELSE [outTok EXCEPT ![cur] = Emitted(cur, <<tok>>)]
          /\ cache' = IF ends THEN SnapshotSlot(cache, new, mem[cur]) ELSE cache
          /\ slots' = [slots EXCEPT ![cur] = Finish(done)]
          /\ outFin' = IF Freed(done) THEN outFin \cup {cur} ELSE outFin
  /\ IF cur = NSlots - 1 THEN pc' = "serial" /\ cur' = 0 ELSE pc' = pc /\ cur' = cur + 1
  /\ UNCHANGED <<lm, mem, scratch, step, ghostVars>>

\* The call returns: the caller reads the tokens and the finished mask.
Return ==
  /\ pc = "serial" /\ ~MoreSteps
  /\ pc' = "idle"
  /\ sent' = [r \in Request |->
       IF \E s \in Slot : entry[s].req = r
       THEN sent[r] \o outTok[CHOOSE s \in Slot : entry[s].req = r] ELSE sent[r]]
  /\ over' = over \cup {entry[s].req : s \in outFin}
  /\ outTok' = [s \in Slot |-> <<>>] /\ outFin' = {}
  /\ UNCHANGED <<lm, mem, scratch, slots, cache, step, cur, jobs, entry>>

Init ==
  /\ lm \in Models
  /\ mem = [s \in Slot |-> Zero] /\ scratch = <<>>
  /\ slots = [s \in Slot |-> FreeSlot]
  /\ cache = [clock |-> 0,
              entries |-> [i \in 1 .. PCacheN |->
                 [valid |-> FALSE, tokens |-> <<>>, lru |-> 0, snap |-> Zero]]]
  /\ pc = "idle" /\ step = 0 /\ cur = 0
  /\ outTok = [s \in Slot |-> <<>>] /\ outFin = {}
  /\ jobs = Request /\ over = {}
  /\ sent = [r \in Request |-> <<>>]
  /\ entry = [s \in Slot |-> Shown(FreeSlot)]

Next ==
  \/ \E s \in Slot, r \in Request : Start(s, r)
  \/ \E s \in Slot : Cancel(s)
  \/ Call
  \/ \E s \in Slot : SpecRound(s)
  \/ SpecOver \/ Submit \/ TakeSample \/ Return

Spec == Init /\ [][Next]_vars

-------------------------------------------------------------------------------
(* Properties.                                                                *)

SlotRec == [active : BOOLEAN, req : Request \cup {None}, gen : Seq(Tok), cursor : 0 .. NCtx,
            pos : 0 .. NCtx, outQ : Seq(Tok), finPending : BOOLEAN]

\* Every field of a slot stays within its type, and the call buffers within theirs.
TypeOK ==
  /\ slots \in [Slot -> SlotRec]
  /\ pc \in {"idle", "spec", "serial", "sampled"}
  /\ \A s \in Slot : outTok[s] \in Seq(Tok) /\ Len(outTok[s]) <= Chunk
  /\ outFin \subseteq Slot /\ step \in 0 .. Chunk /\ cur \in Slot
  /\ jobs \subseteq Request /\ over \subseteq Request

\* The first n tokens of greedy decoding from r's prompt, ended by Eos.
Reference(r) ==
  LET g[n \in 0 .. MaxGen[r]] ==
        IF n = 0 THEN Prompt[r]
        ELSE LET h == g[n - 1]
                 ended == Len(h) < Len(Prompt[r]) + n - 1 \/ lm[Last(h)] = Eos IN
             IF ended THEN h ELSE Append(h, lm[Last(h)]) IN
  SubSeq(g[MaxGen[r]], Len(Prompt[r]) + 1, Len(g[MaxGen[r]]))

(* Whatever path made them (serial steps, accepted drafts, a rolled-back      *)
(* round, a restored prefix), and however they queued across calls, the       *)
(* tokens a request gets are greedy decoding of its prompt, in order; and a   *)
(* request reported finished has got all of them.                             *)
OutputIsGreedy ==
  /\ \A s \in Slot : slots[s].active /\ pc = "idle" =>
       IsPrefix(sent[slots[s].req] \o slots[s].outQ, Reference(slots[s].req))
  /\ \A r \in Request : IsPrefix(sent[r], Reference(r))
  /\ \A r \in over : sent[r] = Reference(r)

Holds(st, h) == st.dn = h /\ \A i \in 1 .. Len(h) : st.kv[i] = SubSeq(h, 1, i)

(* A running slot's stripes hold exactly the tokens its cursor and position   *)
(* say they hold, between any two steps: no neighbour's step, rejected draft  *)
(* or earlier occupant shows through.                                         *)
LiveStateExact ==
  pc # "sampled" => \A s \in Slot :
    Running(slots[s]) =>
      LET sl == slots[s] IN
      Holds(mem[s], SubSeq(History(sl), 1, IF Prefilling(sl) THEN sl.cursor ELSE sl.pos))

\* A cache entry's key is exactly what its snapshot has been fed.
SnapshotsExact ==
  \A i \in 1 .. PCacheN : LET e == cache.entries[i] IN e.valid => Holds(e.snap, e.tokens)

(* The engine implements the slot ABI: seen from between the calls it starts  *)
(* and cancels sequences, and each qk_step_chunk advances every active slot.  *)
ABI == INSTANCE SlotEngine WITH
  MaxPre <- NCtx,
  eng <- [s \in Slot |-> IF pc = "idle" THEN Shown(slots[s]) ELSE entry[s]]
ImplementsABI == ABI!EngSpec
===============================================================================
