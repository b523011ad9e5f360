----------------------------- MODULE EngineThread -----------------------------
(* run_engine_thread of server/src/engine.rs: one thread that takes commands, *)
(* admits jobs into engine slots, retries backed-up consumers, steps the      *)
(* engine and hands its output on, concurrently with the request handlers of  *)
(* ServerFrontend.  One action per slot and phase of the loop, so that        *)
(* handlers run between any two calls the thread makes.                       *)
EXTENDS ServerFrontend, SlotEngine

CONSTANT MaxFaults  \* bound: failing engine calls in a behaviour

ASSUME FaultsAssumption == MaxFaults \in Nat

VARIABLES
  pc,         \* phase of the loop: "top", "admit", "flush", "step", "handle", "fail", "stopped"
  cur,        \* the slot the phase is at
  anyActive,  \* local of the loop: some slot still needs the engine
  out,        \* StepOut: what the last qk_step_chunk returned, per slot
  faults

vars == <<frontVars, eng, pc, cur, anyActive, out, faults>>
loopVars == <<pc, cur, anyActive, out, faults>>

NoOut == [toks |-> <<>>, fin |-> FALSE]

Init ==
  /\ FrontInit /\ EngInit
  /\ pc = "top" /\ cur = 0 /\ anyActive = FALSE /\ faults = 0
  /\ out = [s \in Slot |-> NoOut]

\* The phase moves on to the next slot, or after the last one to phase `then`.
Advance(then) ==
  IF cur = NSlots - 1 THEN pc' = then /\ cur' = 0 ELSE pc' = pc /\ cur' = cur + 1

\* Mutant of Idle: the thread parks though jobs wait in its own queue.
IdleSlots == AllFree

(* Top of the loop: park in recv only when wholly idle, then drain commands.  *)
Idle == AllFree /\ queue = <<>>

TakeCmds ==
  /\ pc = "top"
  /\ Idle => cmds # <<>>
  /\ DrainCmds
  /\ pc' = "admit" /\ cur' = 0
  /\ UNCHANGED <<eng, anyActive, out, faults>>

Stop ==
  /\ pc = "top"
  /\ DropAll
  /\ pc' = "stopped"
  /\ EngClose                             \* Engine::drop
  /\ UNCHANGED <<cur, anyActive, out, faults>>

(* admit_jobs: the first job of the queue goes to each free slot in turn.     *)
AdmitSkip ==
  /\ pc = "admit"
  /\ IF queue = <<>> THEN pc' = "flush" /\ cur' = 0
     ELSE Occupied(cur) /\ Advance("flush")
  /\ anyActive' = FALSE
  /\ UNCHANGED <<frontVars, eng, out, faults>>

AdmitOk ==
  /\ pc = "admit" /\ queue # <<>> /\ ~Occupied(cur)
  /\ EngStart(cur, Head(queue))
  /\ slots' = [slots EXCEPT ![cur] = NewSlot(Head(queue))]
  /\ queue' = Tail(queue)
  /\ Advance("flush")
  /\ anyActive' = FALSE
  /\ UNCHANGED <<server, client, got, chan, permits, cmds, cut, out, faults>>

\* slot_start failed: busy slot, or any other error of the engine.
AdmitErr ==
  /\ pc = "admit" /\ queue # <<>> /\ ~Occupied(cur)
  /\ EngActive(cur) \/ faults < MaxFaults
  /\ faults' = IF EngActive(cur) THEN faults ELSE faults + 1
  /\ SendError(Head(queue))
  /\ queue' = Tail(queue)
  /\ Advance("flush")
  /\ anyActive' = FALSE
  /\ UNCHANGED <<server, client, got, cmds, slots, eng, out>>

(* Retry delivery of every slot; find out whether one needs the engine.  Only *)
(* an unfinished slot of a vanished consumer is cancelled in the engine.      *)
FlushPhase ==
  /\ pc = "flush"
  /\ anyActive' = (anyActive \/ Unfinished(cur))
  /\ IF Occupied(cur) THEN FlushSlot(cur, slots[cur]) ELSE UNCHANGED frontVars
  /\ IF Unfinished(cur) /\ FlushOutcome(slots[cur]) = "Closed"
       THEN EngCancel(cur) ELSE UNCHANGED eng
  /\ Advance(IF anyActive' THEN "step" ELSE "top")
  /\ UNCHANGED <<out, faults>>

\* qk_step_chunk succeeds with some outcome for every active engine slot.
StepOk ==
  /\ pc = "step"
  /\ \E o \in [Slot -> EngOutcome] :
       /\ \A s \in Slot : ~EngActive(s) => o[s] = [pre |-> 0, n |-> 0, fin |-> FALSE]
       /\ EngStep(o)
       /\ out' = [s \in Slot |-> [toks |-> Emit(eng[s], o[s].n), fin |-> o[s].fin]]
  /\ pc' = "handle" /\ cur' = 0
  /\ UNCHANGED <<frontVars, anyActive, faults>>

\* qk_step_chunk fails: every slot that was still generating is failed.
StepErr ==
  /\ pc = "step" /\ faults < MaxFaults
  /\ faults' = faults + 1
  /\ pc' = "fail" /\ cur' = 0
  /\ UNCHANGED <<frontVars, eng, anyActive, out>>

\* Mutant of Buffered: the stream is closed before its last tokens.
BufferedDoneFirst(st, o) ==
  LET emitted == st.emitted + Len(o.toks)
      reason == IF emitted >= MaxGen[st.req] THEN "Limit" ELSE "Eos" IN
  [st EXCEPT !.emitted = emitted,
             !.finished = o.fin,
             !.pending = @ \o (IF o.fin THEN <<Done(reason)>> ELSE <<>>)
                           \o (IF o.toks = <<>> THEN <<>> ELSE <<Tokens(o.toks)>>)]

(* handle_step for one slot: buffer its tokens, close the stream when the     *)
(* engine says finished, and flush.                                           *)
Buffered(st, o) ==
  LET emitted == st.emitted + Len(o.toks)
      reason == IF emitted >= MaxGen[st.req] THEN "Limit" ELSE "Eos" IN
  [st EXCEPT !.emitted = emitted,
             !.finished = o.fin,
             !.pending = @ \o (IF o.toks = <<>> THEN <<>> ELSE <<Tokens(o.toks)>>)
                           \o (IF o.fin THEN <<Done(reason)>> ELSE <<>>)]

HandlePhase ==
  /\ pc = "handle"
  /\ LET st == Buffered(slots[cur], out[cur]) IN
     IF ~Unfinished(cur) THEN UNCHANGED <<frontVars, eng>>
     ELSE /\ FlushSlot(cur, st)
          /\ IF FlushOutcome(st) = "Closed" /\ ~st.finished
               THEN EngCancel(cur) ELSE UNCHANGED eng
  /\ Advance("top")
  /\ out' = [out EXCEPT ![cur] = NoOut]
  /\ UNCHANGED <<anyActive, faults>>

\* Mutant of FailPhase: the engine goes on generating for a failed slot.
FailPhaseForgets ==
  /\ pc = "fail"
  /\ IF Unfinished(cur) THEN FailSlot(cur) ELSE UNCHANGED frontVars
  /\ Advance("top")
  /\ UNCHANGED <<eng, anyActive, out, faults>>

FailPhase ==
  /\ pc = "fail"
  /\ IF Unfinished(cur) THEN FailSlot(cur) /\ EngCancel(cur)
     ELSE UNCHANGED <<frontVars, eng>>
  /\ Advance("top")
  /\ UNCHANGED <<anyActive, out, faults>>

EngineLoop == TakeCmds \/ Stop \/ AdmitSkip \/ AdmitOk \/ AdmitErr \/ FlushPhase
              \/ StepOk \/ StepErr \/ HandlePhase \/ FailPhase

Handlers == \E r \in Request : Handler(r)
Server == Signal \/ ShutdownEngine

Next == \/ EngineLoop
        \/ Handlers /\ UNCHANGED <<eng, loopVars>>
        \/ Server /\ UNCHANGED <<eng, loopVars>>

Spec == Init /\ [][Next]_vars

-------------------------------------------------------------------------------
(* Fairness.  The engine thread is an OS thread that never waits for a        *)
(* consumer; handlers are tokio tasks that are polled when an event is there. *)
ThreadFair == WF_vars(EngineLoop)
HandlersFair ==
  /\ \A r \in Request : WF_vars((Receive(r) \/ ReceiveClosed(r)) /\ UNCHANGED <<eng, loopVars>>)
  /\ WF_vars(ShutdownEngine /\ UNCHANGED <<eng, loopVars>>)

FairSpec == Spec /\ ThreadFair                   \* consumers may stall for ever

-------------------------------------------------------------------------------
(* Properties.                                                                *)

\* Every variable has the type of the field or channel it stands for.
TypeOK ==
  /\ FrontTypeOK
  /\ eng \in [Slot -> EngSlot]
  /\ pc \in {"top", "admit", "flush", "step", "handle", "fail", "stopped"}
  /\ cur \in Slot
  /\ anyActive \in BOOLEAN
  /\ out \in [Slot -> [toks : Seq(TokenId), fin : BOOLEAN]]
  /\ faults \in Nat

(* The server's slot table and the engine's agree: a slot that still          *)
(* generates is active in the engine for the same request, and every other    *)
(* slot is free there, except between qk_step_chunk's finished bit and the    *)
(* handling of it.  Hence slot_start never meets a busy slot, no request is   *)
(* generated for twice, and a cancelled consumer costs no GPU work.           *)
Agrees(s) == IF out[s].fin THEN Unfinished(s) /\ ~EngActive(s)
             ELSE eng[s].req = (IF Unfinished(s) THEN slots[s].req ELSE None)

SlotsAgree == \A s \in Slot : Agrees(s)

\* All of r's tokens that are with the handler, in the channel or in its slot.
Stream(r) == got[r] \o IdsOf(InFlight(r)) \o
  FlattenSeq([i \in 1 .. NSlots |-> IF slots[i - 1].req = r THEN out[i - 1].toks ELSE <<>>])

(* Backpressure never drops, repeats, reorders or misdelivers a token: what a *)
(* reading request has been and will be handed is the first tokens the engine *)
(* made for it, all of them while it generates; and what any request got is   *)
(* a run of its own tokens from the first.                                    *)
StreamExact ==
  \A r \in Request :
    /\ got[r] = FirstTokens(r, Len(got[r]))
    /\ RxOpen(r) => Stream(r) = FirstTokens(r, Len(Stream(r)))
    /\ \A s \in Slot : RxOpen(r) /\ eng[s].req = r => Len(Stream(r)) = eng[s].gen

(* A stream ends once: nothing follows Done or Error, a request whose slot is *)
(* finished still owes its Done, and an event is only ever in flight for a    *)
(* request that reads or that a slot still works for.                         *)
EndsOnce ==
  \A r \in Request :
    /\ \A i \in 1 .. Len(InFlight(r)) :
         InFlight(r)[i].kind # "Tokens" => i = Len(InFlight(r)) /\ ~\E s \in Slot : eng[s].req = r
    /\ \A s \in Slot : slots[s].req = r /\ slots[s].finished
         => slots[s].pending # <<>> /\ Last(slots[s].pending).kind \in {"Eos", "Limit"}
    /\ InFlight(r) # <<>> => RxOpen(r) \/ InSlot(r)

(* The thread never waits for a consumer: a request that generates stops      *)
(* generating (finished, failed or cancelled) though every consumer stalls.   *)
GenerationEnds ==
  \A s \in Slot, r \in Request :
    (Unfinished(s) /\ slots[s].req = r) ~> ~(Unfinished(s) /\ slots[s].req = r)

(* A vanished consumer's slot is freed, whatever the other consumers do.      *)
VanishedFreed ==
  \A r \in Request : (InSlot(r) /\ ~RxOpen(r)) ~> ~InSlot(r)

(* When the handlers are polled, a request's stream ends: no one waits for    *)
(* ever in the queue, in a slot, or at a full channel.                        *)
RequestsEndIfPolled == HandlersFair => RequestsEnd

\* When the handlers are polled, a signalled server stops.
ShutdownIfPolled == HandlersFair => (server = "draining" ~> pc = "stopped")
===============================================================================
