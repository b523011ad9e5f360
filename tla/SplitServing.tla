----------------------------- MODULE SplitServing -----------------------------
(* Split serving: run_split_engine_thread of server/src/split.rs on the head, *)
(* which owns the first layers and forwards hidden rows, and the pipe-worker  *)
(* of src/main.cpp on another machine, which owns the rest and answers with   *)
(* token ids.  Frames are pipelined over one TCP connection that may break;   *)
(* the worker may restart.  Both stages keep per-slot state and mirrored      *)
(* snapshots of it.  As in QkEngine a state is the history it has been fed:   *)
(* the tokens, with Gen for one the model generated.                          *)
EXTENDS ServerFrontend

CONSTANTS
  Prompt,       \* [Request -> Seq(token)]
  SnapPrefix,   \* [Request -> Nat]: history boundary of each prompt
  SnapN,        \* qk_state_n: snapshot entries
  MinKeep,      \* shortest prefix worth restoring (8)
  ChunkAlone, ChunkShared,   \* chunk_cap (128 and 32)
  Gen,          \* stands for a generated token in a history
  Restarts,     \* may the worker restart?
  MaxFaults     \* bound: breaks, restarts and refused connections

ASSUME SplitAssumption ==
  /\ SnapN \in Nat \ {0} /\ MinKeep \in Nat \ {0} /\ MaxFaults \in Nat
  /\ ChunkShared \in Nat \ {0} /\ ChunkAlone \in Nat \ {0}
  /\ Restarts \in BOOLEAN
  /\ SnapPrefix \in [Request -> Nat]
  /\ \A r \in Request : /\ Prompt[r] \in Seq(ToSet(Prompt[r])) /\ Prompt[r] # <<>>
                          /\ Gen \notin ToSet(Prompt[r])

VARIABLES
  pc,        \* phase of the head's loop
  cur,       \* slot the phase is at
  burst,     \* frames sent for it in this pass
  anyActive,
  phase,     \* per slot: Phase (a Prefill or a Seq)
  sent,      \* the pass's frames not collected yet: their slots, in order
  head,      \* per slot: state of the head stage
  headSnaps, \* snapshot entries of the head stage
  snaps,     \* the registry: SnapEntry per entry
  lruClock,
  link,      \* WorkerLink.stream: "down" (None), "up", "broken" (not noticed yet)
  pending,   \* WorkerLink.pending: frames sent and not answered, by slot
  wire,      \* frames the worker has still to read
  replies,   \* replies the head has still to read
  worker,    \* per slot: state of the worker stage
  workerSnaps,
  faults,    \* connections broken or refused, and restarts, so far
  missed     \* history: a state operation met a fault, nothing was voided since

netVars == <<link, pending, wire, replies, worker, workerSnaps, faults, missed>>
headVars == <<pc, cur, burst, anyActive, phase, sent, head, headSnaps, snaps, lruClock>>
splitVars == <<headVars, netVars>>
vars == <<frontVars, splitVars>>

Snap == 0 .. SnapN - 1
NoSnap == [valid |-> FALSE, tokens |-> <<>>, lru |-> 0]
NoPhase == [decoding |-> FALSE, pos |-> 0, snapAt |-> 0, snapped |-> FALSE, last |-> <<>>]
Junk == <<None>>       \* the state of a stage fed out of step

Init ==
  /\ FrontInit
  /\ pc = "top" /\ cur = 0 /\ burst = 0 /\ anyActive = FALSE
  /\ phase = [s \in Slot |-> NoPhase] /\ sent = <<>>
  /\ head = [s \in Slot |-> <<>>] /\ worker = [s \in Slot |-> <<>>]
  /\ headSnaps = [i \in Snap |-> <<>>] /\ workerSnaps = [i \in Snap |-> <<>>]
  /\ snaps = [i \in Snap |-> NoSnap] /\ lruClock = 0
  /\ link = "down" /\ pending = <<>> /\ wire = <<>> /\ replies = <<>>
  /\ faults = [breaks |-> 0, restarts |-> 0] /\ missed = FALSE

-------------------------------------------------------------------------------
(* The worker and the network.                                                *)

\* stage_run: base 0 starts afresh, any other base continues the state there.
StageRun(state, base, toks) ==
  IF base = 0 THEN toks ELSE IF Len(state) = base THEN state \o toks ELSE Junk

\* The rows of a frame are the head's state after it; rows before f.base count.
WorkerRun(state, f) ==
  IF f.base = 0 \/ (f.rows # Junk /\ state = SubSeq(f.rows, 1, f.base)) THEN f.rows ELSE Junk

RunFrame(s, base, rows) == [op |-> "run", slot |-> s, base |-> base, rows |-> rows, idx |-> 0]
StateFrame(op, s, i) == [op |-> op, slot |-> s, base |-> 0, rows |-> <<>>, idx |-> i]
Reply(f, rows) == [op |-> f.op, slot |-> f.slot, rows |-> rows]

(* The worker handles the next frame; of a connection the head has given up   *)
(* or lost, the answer reaches nobody.                                        *)
WorkerStep ==
  /\ wire # <<>>
  /\ LET f == Head(wire)
         rows == WorkerRun(worker[f.slot], f)
         answer == Reply(f, IF f.op = "run" THEN rows ELSE <<>>) IN
     /\ worker' = CASE f.op = "run"  -> [worker EXCEPT ![f.slot] = rows]
                    [] f.op = "load" -> [worker EXCEPT ![f.slot] = workerSnaps[f.idx]]
                    [] f.op = "save" -> worker
     /\ workerSnaps' = IF f.op = "save" THEN [workerSnaps EXCEPT ![f.idx] = worker[f.slot]]
                       ELSE workerSnaps
     /\ replies' = IF link = "up" THEN Append(replies, answer) ELSE replies
  /\ wire' = Tail(wire)
  /\ UNCHANGED <<link, pending, faults, missed>>

\* The rest of an abandoned connection is lost, or the worker stops reading it.
WorkerGivesUp ==
  /\ link # "up" /\ wire # <<>>
  /\ wire' = <<>>
  /\ UNCHANGED <<link, pending, replies, worker, workerSnaps, faults, missed>>

FaultsLeft == faults.breaks + faults.restarts < MaxFaults

\* The connection breaks; replies that had not arrived are lost.
Break ==
  /\ link = "up" /\ FaultsLeft
  /\ faults' = [faults EXCEPT !.breaks = @ + 1]
  /\ link' = "broken"
  /\ \E n \in 0 .. Len(replies) : replies' = SubSeq(replies, 1, n)
  /\ UNCHANGED <<pending, wire, worker, workerSnaps, missed>>

\* The worker process restarts: its state and its snapshots are gone.
Restart ==
  /\ Restarts /\ FaultsLeft
  /\ faults' = [faults EXCEPT !.restarts = @ + 1]
  /\ link' = IF link = "up" THEN "broken" ELSE link
  /\ wire' = <<>>
  /\ \E n \in 0 .. Len(replies) : replies' = SubSeq(replies, 1, n)
  /\ worker' = [s \in Slot |-> <<>>] /\ workerSnaps' = [i \in Snap |-> <<>>]
  /\ UNCHANGED <<pending, missed>>

Network == WorkerStep \/ WorkerGivesUp \/ Break \/ Restart

(* stream() and a write.  The worker serves one connection at a time, so a    *)
(* new one is answered only when nothing of the old one is left to read.  A   *)
(* broken socket may still take a write, which is lost.                       *)
Write(f) ==
  /\ \/ /\ link = "up" \/ (link = "down" /\ wire = <<>>)
        /\ link' = "up" /\ wire' = Append(wire, f)
     \/ /\ link = "broken"
        /\ link' = link /\ wire' = wire
  /\ UNCHANGED <<replies, worker, workerSnaps, faults, missed>>

\* Mutant of Poison: answers of the old connection stay readable.
PoisonKeepsReplies ==
  /\ link' = "down" /\ pending' = <<>>
  /\ UNCHANGED <<replies, wire, worker, workerSnaps>>

\* poison: the socket and what was in flight on it are dropped.
Poison ==
  /\ link' = "down" /\ replies' = <<>> /\ pending' = <<>>
  /\ UNCHANGED <<wire, worker, workerSnaps>>

WriteFails ==
  /\ \/ link = "broken" /\ faults' = faults
     \/ link = "down" /\ FaultsLeft /\ faults' = [faults EXCEPT !.breaks = @ + 1]
  /\ Poison

\* Mutant of ReadFails: a read on a dead connection is tried again for ever.
ReadFailsNever == link = "broken" /\ pending = <<>> /\ faults' = faults /\ Poison

ReadFails == link = "broken" /\ replies = <<>> /\ faults' = faults /\ Poison

-------------------------------------------------------------------------------
(* The head: commands, admission, flushing.                                   *)

Idle == AllFree /\ queue = <<>>

TakeCmds ==
  /\ pc = "top"
  /\ Idle => cmds # <<>>
  /\ DrainCmds
  /\ pc' = "admit" /\ cur' = 0 /\ anyActive' = FALSE
  /\ UNCHANGED <<burst, phase, sent, head, headSnaps, snaps, lruClock, netVars>>

Stop ==
  /\ pc = "top"
  /\ DropAll
  /\ pc' = "stopped"
  /\ link' = "down" /\ replies' = <<>>           \* bye
  /\ UNCHANGED <<cur, burst, anyActive, phase, sent, head, headSnaps, snaps, lruClock, pending,
                 wire, worker, workerSnaps, faults, missed>>

Advance(then) ==
  IF cur = NSlots - 1 THEN pc' = then /\ cur' = 0 ELSE pc' = "admit" /\ cur' = cur + 1

\* best_snap: the longest registered strict prefix of the prompt.
Usable(p) == {i \in Snap : /\ snaps[i].valid
                           /\ Len(snaps[i].tokens) >= MinKeep
                           /\ IsStrictPrefix(snaps[i].tokens, p)}
BestSnap(p) == CHOOSE i \in Usable(p) : \A j \in Usable(p) :
  LET li == Len(snaps[i].tokens)  lj == Len(snaps[j].tokens) IN
  li > lj \/ (li = lj /\ i <= j)

NewPrefill(r, start) ==
  [NoPhase EXCEPT !.pos = start,
                  !.snapAt = IF SnapPrefix[r] > start /\ SnapPrefix[r] < Len(Prompt[r])
                             THEN SnapPrefix[r] ELSE 0]

\* The first job takes slot cur with `start` positions restored.
Admitted(start) ==
  /\ slots' = [slots EXCEPT ![cur] = NewSlot(Head(queue))]
  /\ phase' = [phase EXCEPT ![cur] = NewPrefill(Head(queue), start)]
  /\ queue' = Tail(queue)
  /\ Advance("flush")
  /\ UNCHANGED <<server, client, got, chan, permits, cmds, cut, burst, anyActive, sent, headSnaps>>

AdmitSkip ==
  /\ pc = "admit"
  /\ IF queue = <<>> THEN pc' = "flush" /\ cur' = 0 ELSE Occupied(cur) /\ Advance("flush")
  /\ UNCHANGED <<frontVars, burst, anyActive, phase, sent, head, headSnaps, snaps, lruClock, netVars>>

CanAdmit == pc = "admit" /\ queue # <<>> /\ ~Occupied(cur)

AdmitCold ==
  /\ CanAdmit /\ Usable(Prompt[Head(queue)]) = {}
  /\ Admitted(0)
  /\ UNCHANGED <<head, snaps, lruClock, netVars>>

\* admit_job: the head loads its half, the worker is asked for the other.
AdmitLoad ==
  /\ CanAdmit /\ Usable(Prompt[Head(queue)]) # {}
  /\ LET i == BestSnap(Prompt[Head(queue)]) IN
     /\ head' = [head EXCEPT ![cur] = headSnaps[i]]
     /\ Write(StateFrame("load", cur, i))
  /\ pc' = "loading"
  /\ UNCHANGED <<frontVars, cur, burst, anyActive, phase, sent, headSnaps, snaps, lruClock, pending>>

AdmitLoaded ==
  /\ pc = "loading" /\ replies # <<>>
  /\ replies' = Tail(replies)
  /\ LET i == BestSnap(Prompt[Head(queue)]) IN
     /\ snaps' = [snaps EXCEPT ![i].lru = lruClock + 1]
     /\ Admitted(Len(snaps[i].tokens))
  /\ lruClock' = lruClock + 1
  /\ UNCHANGED <<head, link, pending, wire, worker, workerSnaps, faults, missed>>

\* Mutant of AdmitFails: the prefill starts behind the prefix not restored.
AdmitFailsWarm ==
  /\ \/ /\ CanAdmit /\ Usable(Prompt[Head(queue)]) # {} /\ WriteFails
        /\ head' = [head EXCEPT ![cur] = headSnaps[BestSnap(Prompt[Head(queue)])]]
     \/ /\ pc = "loading" /\ ReadFails
        /\ head' = head
  /\ Admitted(Len(snaps[BestSnap(Prompt[Head(queue)])].tokens))
  /\ missed' = TRUE
  /\ UNCHANGED <<snaps, lruClock>>

\* The restore fails: the link is dropped and the prompt prefilled from 0.
AdmitFails ==
  /\ \/ /\ CanAdmit /\ Usable(Prompt[Head(queue)]) # {} /\ WriteFails
        /\ head' = [head EXCEPT ![cur] = headSnaps[BestSnap(Prompt[Head(queue)])]]
     \/ /\ pc = "loading" /\ ReadFails
        /\ head' = head
  /\ Admitted(0)
  /\ missed' = TRUE
  /\ UNCHANGED <<snaps, lruClock>>

\* Phases live and die with the slots.
KeepPhases(ph) == phase' = [s \in Slot |-> IF slots'[s] = NoSlot THEN NoPhase ELSE ph[s]]

\* Retry delivery; a vanished consumer's slot is freed, no engine is told.
FlushPhase ==
  /\ pc = "flush"
  /\ anyActive' = (anyActive \/ Unfinished(cur))
  /\ IF Occupied(cur) THEN FlushSlot(cur, slots[cur]) ELSE UNCHANGED frontVars
  /\ KeepPhases(phase)
  /\ IF cur < NSlots - 1 THEN pc' = pc /\ cur' = cur + 1
     ELSE cur' = 0 /\ pc' = IF anyActive' THEN "send" ELSE "top"
  /\ UNCHANGED <<burst, sent, head, headSnaps, snaps, lruClock, netVars>>

-------------------------------------------------------------------------------
(* One pass: every decoding slot sends one token, every prefilling slot one   *)
(* chunk (two when alone); then the answers are collected in send order.      *)

Shared == Cardinality({s \in Slot : Occupied(s)}) > 1
Bursts == IF Shared THEN 1 ELSE 2
PromptOf(s) == Prompt[slots[s].req]

\* Mutant of ChunkLen: the boundary still stops a slot that has its snapshot.
ChunkLenStops(s) ==
  LET stop == IF phase[s].snapAt > 0 THEN phase[s].snapAt ELSE Len(PromptOf(s))
      cap == IF Shared THEN ChunkShared ELSE ChunkAlone
      left == stop - phase[s].pos IN
  IF left < cap THEN left ELSE cap

ChunkLen(s) ==
  LET stop == IF phase[s].snapAt > 0 /\ ~phase[s].snapped THEN phase[s].snapAt
              ELSE Len(PromptOf(s))
      cap == IF Shared THEN ChunkShared ELSE ChunkAlone
      left == stop - phase[s].pos IN
  IF left < cap THEN left ELSE cap

\* What the slot feeds next; nothing when it waits for its snapshot.
Feeds(s) == IF phase[s].decoding THEN <<Gen>>
            ELSE SubSeq(PromptOf(s), phase[s].pos + 1, phase[s].pos + ChunkLen(s))

Sending == Unfinished(cur) /\ burst < Bursts /\ Feeds(cur) # <<>>
NextRows == StageRun(head[cur], phase[cur].pos, Feeds(cur))

SendFrame ==
  /\ pc = "send" /\ Sending
  /\ head' = [head EXCEPT ![cur] = NextRows]
  /\ Write(RunFrame(cur, phase[cur].pos, NextRows))
  /\ pending' = Append(pending, cur)
  /\ sent' = Append(sent, cur)
  /\ phase' = IF phase[cur].decoding THEN phase
              ELSE [phase EXCEPT ![cur].pos = @ + Len(Feeds(cur))]
  /\ burst' = IF phase[cur].decoding THEN Bursts ELSE burst + 1
  /\ UNCHANGED <<frontVars, pc, cur, anyActive, headSnaps, snaps, lruClock>>

SendNext ==
  /\ pc = "send" /\ ~Sending
  /\ burst' = 0
  /\ IF cur = NSlots - 1 THEN pc' = "recv" /\ cur' = 0 ELSE pc' = pc /\ cur' = cur + 1
  /\ UNCHANGED <<frontVars, anyActive, phase, sent, head, headSnaps, snaps, lruClock, netVars>>

\* Mutant of Abort: the registry is kept.
AbortKeepsSnaps ==
  /\ sent' = <<>> /\ burst' = 0 /\ cur' = 0
  /\ pc' = "fail"
  /\ missed' = FALSE
  /\ UNCHANGED <<frontVars, anyActive, phase, headSnaps, snaps, lruClock>>

(* A frame that cannot be sent or answered ends the pass: the registry is     *)
(* voided and every unfinished slot is failed.                                *)
Abort ==
  /\ snaps' = [i \in Snap |-> NoSnap]
  /\ sent' = <<>> /\ burst' = 0 /\ cur' = 0
  /\ pc' = "fail"
  /\ missed' = FALSE
  /\ UNCHANGED <<frontVars, anyActive, phase, headSnaps, lruClock>>

SendFails ==
  /\ pc = "send" /\ Sending
  /\ head' = [head EXCEPT ![cur] = NextRows]
  /\ WriteFails
  /\ Abort

RecvFails ==
  /\ pc = "recv" /\ sent # <<>>
  /\ ReadFails
  /\ Abort
  /\ UNCHANGED head

FailPhase ==
  /\ pc = "fail"
  /\ IF Unfinished(cur) THEN FailSlot(cur) ELSE UNCHANGED frontVars
  /\ KeepPhases(phase)
  /\ IF cur = NSlots - 1 THEN pc' = "top" /\ cur' = 0 ELSE pc' = pc /\ cur' = cur + 1
  /\ UNCHANGED <<burst, anyActive, sent, head, headSnaps, snaps, lruClock, netVars>>

\* The id sampled from an answer: the request's next token if both stages'
\* states were what they should be, a wrong one otherwise.
TrueHistory(s) == PromptOf(s) \o [i \in 1 .. slots[s].emitted |-> Gen]
Sampled(s, rows) ==
  <<slots[s].req, IF rows = TrueHistory(s) THEN slots[s].emitted + 1 ELSE 0>>

\* apply_sample
ApplySample(st, id, eos) ==
  IF eos THEN [st EXCEPT !.pending = Append(@, Done("Eos")), !.finished = TRUE]
  ELSE LET last == st.emitted + 1 >= MaxGen[st.req] IN
       [st EXCEPT !.emitted = @ + 1, !.finished = last,
                  !.pending = @ \o <<Tokens(<<id>>)>>
                                \o (IF last THEN <<Done("Limit")>> ELSE <<>>)]

RecvFrame ==
  /\ pc = "recv" /\ sent # <<>> /\ replies # <<>>
  /\ LET s == Head(sent)  rows == Head(replies).rows IN
     IF ~Occupied(s) THEN UNCHANGED <<frontVars, phase>>
     ELSE IF phase[s].decoding
       THEN /\ \E eos \in BOOLEAN : FlushSlot(s, ApplySample(slots[s], Sampled(s, rows), eos))
            /\ KeepPhases([phase EXCEPT ![s].pos = @ + 1])
     ELSE /\ phase' = [phase EXCEPT ![s].last = rows]
          /\ UNCHANGED frontVars
  /\ sent' = Tail(sent) /\ pending' = Tail(pending) /\ replies' = Tail(replies)
  /\ UNCHANGED <<pc, cur, burst, anyActive, head, headSnaps, snaps, lruClock,
                 link, wire, worker, workerSnaps, faults, missed>>

RecvOver ==
  /\ pc = "recv" /\ sent = <<>>
  /\ pc' = "barrier"
  /\ UNCHANGED <<frontVars, cur, burst, anyActive, phase, sent, head, headSnaps, snaps,
                 lruClock, netVars>>

-------------------------------------------------------------------------------
(* The barrier after a pass: boundary snapshots, and prefill to decode.       *)

SnapDue == /\ Occupied(cur) /\ ~phase[cur].decoding /\ ~phase[cur].snapped
           /\ phase[cur].snapAt > 0 /\ phase[cur].pos = phase[cur].snapAt
FirstDue == Occupied(cur) /\ ~phase[cur].decoding /\ phase[cur].pos = Len(PromptOf(cur))

\* pick_entry: the first empty entry, else the least recently used.
PickEntry ==
  LET empty == {i \in Snap : ~snaps[i].valid} IN
  CHOOSE e \in Snap :
    IF empty # {} THEN e \in empty /\ \A i \in empty : e <= i
    ELSE \A i \in Snap : snaps[e].lru <= snaps[i].lru

HeadSaved == headSnaps' = [headSnaps EXCEPT ![PickEntry] = head[cur]]

BarrierSave ==
  /\ pc = "barrier" /\ SnapDue
  /\ HeadSaved
  /\ Write(StateFrame("save", cur, PickEntry))
  /\ pc' = "saving"
  /\ UNCHANGED <<frontVars, cur, burst, anyActive, phase, sent, head, snaps, lruClock, pending>>

BarrierSaved ==
  /\ pc = "saving" /\ replies # <<>>
  /\ replies' = Tail(replies)
  /\ lruClock' = lruClock + 1
  /\ snaps' = [snaps EXCEPT ![PickEntry] =
       [valid |-> TRUE, tokens |-> SubSeq(PromptOf(cur), 1, phase[cur].snapAt), lru |-> lruClock + 1]]
  /\ phase' = [phase EXCEPT ![cur].snapped = TRUE]
  /\ pc' = "barrier"
  /\ UNCHANGED <<frontVars, cur, burst, anyActive, sent, head, headSnaps,
                 link, pending, wire, worker, workerSnaps, faults, missed>>

\* Mutant of BarrierSaveFails: the entry half overwritten stays registered.
BarrierSaveFailsKeeps ==
  /\ \/ pc = "barrier" /\ SnapDue /\ WriteFails /\ HeadSaved
     \/ pc = "saving" /\ ReadFails /\ headSnaps' = headSnaps
  /\ phase' = [phase EXCEPT ![cur].snapped = TRUE, ![cur].snapAt = 0]
  /\ pc' = "barrier"
  /\ missed' = TRUE
  /\ UNCHANGED <<frontVars, cur, burst, anyActive, sent, head, snaps, lruClock>>

\* The snapshot fails: its entry is emptied and the request goes on.
BarrierSaveFails ==
  /\ \/ pc = "barrier" /\ SnapDue /\ WriteFails /\ HeadSaved
     \/ pc = "saving" /\ ReadFails /\ headSnaps' = headSnaps
  /\ snaps' = [snaps EXCEPT ![PickEntry] = NoSnap]
  /\ phase' = [phase EXCEPT ![cur].snapped = TRUE, ![cur].snapAt = 0]
  /\ pc' = "barrier"
  /\ missed' = TRUE
  /\ UNCHANGED <<frontVars, cur, burst, anyActive, sent, head, lruClock>>

BarrierNext == IF cur = NSlots - 1 THEN pc' = "top" /\ cur' = 0 ELSE pc' = pc /\ cur' = cur + 1

BarrierFirst ==
  /\ pc = "barrier" /\ ~SnapDue /\ FirstDue
  /\ \E eos \in BOOLEAN :
       FlushSlot(cur, ApplySample(slots[cur], Sampled(cur, phase[cur].last), eos))
  /\ KeepPhases([phase EXCEPT ![cur] = [NoPhase EXCEPT !.decoding = TRUE, !.pos = phase[cur].pos]])
  /\ BarrierNext
  /\ UNCHANGED <<burst, anyActive, sent, head, headSnaps, snaps, lruClock, netVars>>

BarrierSkip ==
  /\ pc = "barrier" /\ ~SnapDue /\ ~FirstDue
  /\ BarrierNext
  /\ UNCHANGED <<frontVars, burst, anyActive, phase, sent, head, headSnaps, snaps, lruClock, netVars>>

-------------------------------------------------------------------------------
HeadLoop ==
  \/ TakeCmds \/ Stop
  \/ AdmitSkip \/ AdmitCold \/ AdmitLoad \/ AdmitLoaded \/ AdmitFails
  \/ FlushPhase
  \/ SendFrame \/ SendNext \/ SendFails \/ RecvFrame \/ RecvOver \/ RecvFails
  \/ BarrierSave \/ BarrierSaved \/ BarrierSaveFails \/ BarrierFirst \/ BarrierSkip
  \/ FailPhase

Handlers == \E r \in Request : Handler(r)

Next == \/ HeadLoop
        \/ Network /\ UNCHANGED <<frontVars, headVars>>
        \/ (Handlers \/ Signal \/ ShutdownEngine) /\ UNCHANGED splitVars

Spec == Init /\ [][Next]_vars

(* Fairness.  The head's thread runs on unless it waits for an answer, and    *)
(* that wait ends: the worker works off what it can read, an abandoned        *)
(* connection is noticed.  Handlers are polled when an event is there.        *)
FairSpec ==
  /\ Spec
  /\ WF_vars(HeadLoop)
  /\ WF_vars((WorkerStep \/ WorkerGivesUp) /\ UNCHANGED <<frontVars, headVars>>)
  /\ \A r \in Request : WF_vars((Receive(r) \/ ReceiveClosed(r)) /\ UNCHANGED splitVars)
  /\ WF_vars(ShutdownEngine /\ UNCHANGED splitVars)

-------------------------------------------------------------------------------
(* Properties.                                                                *)

\* All of r's tokens that are with the handler, in the channel or in its slot.
Stream(r) == got[r] \o IdsOf(InFlight(r))

(* Whatever is pipelined, restored or lost on the way, a request's stream is  *)
(* its own tokens from the first, each computed from exactly its history on   *)
(* both stages.                                                               *)
StreamsExact ==
  \A r \in Request :
    /\ got[r] = FirstTokens(r, Len(got[r]))
    /\ RxOpen(r) => Stream(r) = FirstTokens(r, Len(Stream(r)))

\* While the worker has not restarted, every stream is exact.
StreamsExactWithWorker == faults.restarts = 0 => StreamsExact

(* With a worker that may restart: every answer the head takes, and every     *)
(* registered snapshot, still comes from the request's own history, as long   *)
(* as the fault was met by a frame of a pass, which voids everything; only a  *)
(* fault that a state operation swallows can corrupt.                         *)
ExactUnlessMissed ==
  missed \/ pc = "fail" \/
            /\ \A i \in 1 .. Len(replies) : LET a == replies[i] IN
                 a.op = "run" /\ Occupied(a.slot) => IsPrefix(a.rows, TrueHistory(a.slot))
            /\ \A s \in Slot : Occupied(s) => IsPrefix(phase[s].last, TrueHistory(s))

(* While the worker has not restarted, a registered snapshot is whole: both   *)
(* stages' entries hold exactly the prefix it is registered under, but for    *)
(* the entry being written.                                                   *)
SnapshotsMirrored ==
  faults.restarts = 0 => \A i \in Snap : snaps[i].valid /\ ~(pc = "saving" /\ i = PickEntry) =>
    headSnaps[i] = snaps[i].tokens /\ workerSnaps[i] = snaps[i].tokens

(* Replies match frames first in, first out: the pass waits for exactly the   *)
(* frames the link counts, the replies read next are theirs, and no state     *)
(* operation finds a frame in flight.                                         *)
RepliesMatch ==
  /\ pending = sent
  /\ pc \in {"send", "recv"} =>
       /\ Len(replies) <= Len(sent)
       /\ \A i \in 1 .. Len(replies) : replies[i].op = "run" /\ replies[i].slot = sent[i]
  /\ link = "up" /\ pc \in {"loading", "saving"} => Len(replies) + Len(wire) = 1

\* Head and worker never wait for each other for ever: a signalled server stops.
ShutdownCompletes == server = "draining" ~> pc = "stopped"
===============================================================================
