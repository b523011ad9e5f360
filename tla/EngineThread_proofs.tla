-------------------------- MODULE EngineThread_proofs --------------------------
(* Proofs about EngineThread: type correctness, that the server's slot table  *)
(* and the engine's agree, that permits are conserved, and that every stream  *)
(* ends once, truthfully and with exactly the tokens the engine generated,    *)
(* for any number of requests and slots and any capacities.                   *)
EXTENDS EngineThread, ServerFrontend_proofs

USE RequestsAssumption, SlotEngineAssumption, FrontendAssumption, FaultsAssumption

-------------------------------------------------------------------------------
(* Types.                                                                     *)

\* A free engine slot is well typed.
LEMMA FreeType == EngFree \in EngSlot
BY DEF EngFree, EngSlot

\* handle_step buffers well-typed events for the slot's own request.
LEMMA BufferedType ==
  ASSUME NEW st \in SlotState, NEW o \in [toks : Seq(TokenId), fin : BOOLEAN]
  PROVE  Buffered(st, o) \in SlotState /\ Buffered(st, o).req = st.req
<1>. DEFINE more == (IF o.toks = <<>> THEN <<>> ELSE <<Tokens(o.toks)>>)
            last(reason) == (IF o.fin THEN <<Done(reason)>> ELSE <<>>)
            p == st.pending
<1>0. <<>> \in Seq(Event) /\ \A e \in Event : <<e>> \in Seq(Event)
  OBVIOUS
<1>1. more \in Seq(Event)
  <2>1. Tokens(o.toks) \in Event
    BY DEF Tokens, Event
  <2>. QED  BY <1>0, <2>1
<1>2. last("Limit") \in Seq(Event) /\ last("Eos") \in Seq(Event)
  <2>1. <<>> \in Seq(TokenId)
    OBVIOUS
  <2>2. Done("Limit") \in Event /\ Done("Eos") \in Event
    BY <2>1 DEF Done, Event
  <2>. QED  BY <1>0, <2>2
<1>3. p \in Seq(Event)
  BY DEF SlotState
<1>4. p \o more \o last("Limit") \in Seq(Event) /\ p \o more \o last("Eos") \in Seq(Event)
  <2>. HIDE DEF p, more, last
  <2>. QED  BY <1>1, <1>2, <1>3
<1>5. st.emitted + Len(o.toks) \in Nat
  <2>1. Len(o.toks) \in Nat
    OBVIOUS
  <2>. QED  BY <2>1 DEF SlotState
<1>. QED  BY <1>4, <1>5 DEF Buffered, SlotState

\* The ids a call appends are ids of the slot's request.
LEMMA EmitType ==
  ASSUME NEW e \in EngSlot, e.req \in Request, NEW n \in Nat
  PROVE  Emit(e, n) \in Seq(TokenId)
<1>1. \A i \in 1 .. n : <<e.req, e.gen + i>> \in TokenId
  BY DEF EngSlot, TokenId
<1>. QED  BY <1>1 DEF Emit

\* An outcome leaves a well-typed engine slot, free if it finished.
LEMMA StepSlotType ==
  ASSUME NEW e \in EngSlot, NEW o \in EngOutcome
  PROVE  StepSlot(e, o) \in EngSlot /\ (o.fin => StepSlot(e, o) = EngFree)
         /\ (~o.fin => StepSlot(e, o).req = e.req)
<1>1. o.n \in Nat /\ o.pre \in Nat /\ o.fin \in BOOLEAN
  BY DEF EngOutcome, SlotEngineAssumption
<1>2. e.gen + o.n \in Nat
  BY <1>1 DEF EngSlot
<1>3. [e EXCEPT !.pre = o.pre, !.gen = @ + o.n] \in EngSlot
  BY <1>1, <1>2 DEF EngSlot
<1>4. [e EXCEPT !.pre = o.pre, !.gen = @ + o.n].req = e.req
  BY DEF EngSlot
<1>. QED  BY <1>1, <1>3, <1>4, FreeType DEF StepSlot

LEMMA InitType == Init => TypeOK
<1>. SUFFICES ASSUME Init PROVE TypeOK
  OBVIOUS
<1>1. FrontTypeOK
  BY FrontInitType DEF Init
<1>2. <<>> \in Seq(TokenId)
  OBVIOUS
<1>3. out \in [Slot -> [toks : Seq(TokenId), fin : BOOLEAN]]
  BY <1>2 DEF Init, NoOut
<1>. QED  BY <1>1, <1>3, SlotFacts, FreeType DEF Init, EngInit, TypeOK

\* The phase moves to a phase and a slot.
LEMMA AdvanceType ==
  ASSUME TypeOK, NEW then \in {"top", "flush", "step"}, Advance(then)
  PROVE  pc' \in {pc, then} /\ cur' \in Slot
BY SlotFacts DEF Advance, TypeOK

\* The engine's slots stay well typed through each call of the ABI.
LEMMA EngCallType ==
  ASSUME eng \in [Slot -> EngSlot]
  PROVE  /\ \A s \in Slot, r \in Request : EngStart(s, r) => eng' \in [Slot -> EngSlot]
         /\ \A s \in Slot : EngCancel(s) => eng' \in [Slot -> EngSlot]
         /\ EngClose => eng' \in [Slot -> EngSlot]
<1>1. ASSUME NEW s \in Slot, NEW r \in Request, EngStart(s, r) PROVE eng' \in [Slot -> EngSlot]
  <2>1. PICK p \in 1 .. MaxPre :
           eng' = [eng EXCEPT ![s] = [req |-> r, pre |-> p, gen |-> 0]]
    BY <1>1 DEF EngStart
  <2>2. [req |-> r, pre |-> p, gen |-> 0] \in EngSlot
    BY DEF EngSlot
  <2>. QED  BY <2>1, <2>2
<1>. QED  BY <1>1, FreeType DEF EngCancel, EngClose

\* A successful step: what it returns and what it leaves are well typed.
LEMMA StepOkType ==
  ASSUME eng \in [Slot -> EngSlot], StepOk
  PROVE  /\ eng' \in [Slot -> EngSlot]
         /\ out' \in [Slot -> [toks : Seq(TokenId), fin : BOOLEAN]]
<1>1. PICK o \in [Slot -> EngOutcome] :
         /\ \A s \in Slot : ~EngActive(s) => o[s] = [pre |-> 0, n |-> 0, fin |-> FALSE]
         /\ EngStep(o)
         /\ out' = [s \in Slot |-> [toks |-> Emit(eng[s], o[s].n), fin |-> o[s].fin]]
  BY DEF StepOk
<1>2. \A s \in Slot : StepSlot(eng[s], o[s]) \in EngSlot
  BY StepSlotType
<1>3. eng' \in [Slot -> EngSlot]
  BY <1>1, <1>2 DEF EngStep
<1>4. \A s \in Slot : Emit(eng[s], o[s].n) \in Seq(TokenId)
  <2>. TAKE s \in Slot
  <2>1. CASE EngActive(s)
    <3>1. eng[s] \in EngSlot /\ eng[s].req \in Request /\ o[s].n \in Nat
      BY <2>1 DEF EngActive, EngSlot, EngOutcome, SlotEngineAssumption
    <3>. QED  BY <3>1, EmitType
  <2>2. CASE ~EngActive(s)
    <3>1. o[s].n = 0
      BY <1>1, <2>2
    <3>2. Emit(eng[s], 0) = <<>>
      BY DEF Emit
    <3>3. <<>> \in Seq(TokenId)
      OBVIOUS
    <3>. QED  BY <3>1, <3>2, <3>3
  <2>. QED  BY <2>1, <2>2
<1>5. \A s \in Slot : o[s].fin \in BOOLEAN
  BY DEF EngOutcome
<1>. QED  BY <1>1, <1>3, <1>4, <1>5

\* The thread hands one slot's output on, or finds its consumer gone.
LEMMA HandleType ==
  ASSUME TypeOK, HandlePhase
  PROVE  FrontTypeOK' /\ eng' \in [Slot -> EngSlot]
         /\ out' \in [Slot -> [toks : Seq(TokenId), fin : BOOLEAN]]
<1>. DEFINE st == Buffered(slots[cur], out[cur])
<1>1. cur \in Slot /\ slots[cur] \in SlotState /\ out[cur] \in [toks : Seq(TokenId), fin : BOOLEAN]
  BY DEF TypeOK, FrontTypeOK
<1>2. st \in SlotState /\ st.req = slots[cur].req
  BY <1>1, BufferedType
<1>3. FrontTypeOK'
  <2>1. CASE ~Unfinished(cur)
    BY <2>1 DEF HandlePhase, TypeOK, FrontTypeOK, frontVars
  <2>2. CASE Unfinished(cur)
    <3>1. st.req \in Request
      BY <1>1, <1>2, <2>2 DEF Unfinished, Occupied, SlotState
    <3>2. FlushSlot(cur, st)
      BY <2>2 DEF HandlePhase
    <3>. HIDE DEF st
    <3>. QED  BY <1>1, <1>2, <3>1, <3>2, FlushSlotType DEF TypeOK
  <2>. QED  BY <2>1, <2>2
<1>4. eng' \in [Slot -> EngSlot]
  <2>1. eng' = eng \/ EngCancel(cur)
    BY DEF HandlePhase
  <2>. QED  BY <1>1, <2>1, EngCallType DEF TypeOK
<1>5. NoOut \in [toks : Seq(TokenId), fin : BOOLEAN]
  <2>1. <<>> \in Seq(TokenId)
    OBVIOUS
  <2>. QED  BY <2>1 DEF NoOut
<1>. QED  BY <1>3, <1>4, <1>5 DEF HandlePhase, TypeOK

\* Every step of the engine thread keeps the types.
LEMMA LoopType ==
  ASSUME TypeOK, EngineLoop
  PROVE  TypeOK'
<1>. DEFINE OutType == [Slot -> [toks : Seq(TokenId), fin : BOOLEAN]]
<1>1. CASE TakeCmds
  <2>1. FrontTypeOK'
    BY <1>1, DrainType DEF TakeCmds, TypeOK
  <2>. QED  BY <1>1, <2>1, SlotFacts DEF TakeCmds, TypeOK
<1>2. CASE Stop
  <2>1. FrontTypeOK'
    BY <1>2, DropType DEF Stop, TypeOK
  <2>2. eng' \in [Slot -> EngSlot]
    BY <1>2, EngCallType DEF Stop, TypeOK
  <2>. QED  BY <1>2, <2>1, <2>2 DEF Stop, TypeOK
<1>3. CASE AdmitSkip
  <2>1. pc' \in {pc, "flush"} /\ cur' \in Slot
    BY <1>3, AdvanceType, SlotFacts DEF AdmitSkip
  <2>2. FrontTypeOK'
    BY <1>3 DEF AdmitSkip, frontVars, TypeOK, FrontTypeOK
  <2>. QED  BY <1>3, <2>1, <2>2 DEF AdmitSkip, TypeOK
<1>4. CASE AdmitOk
  <2>1. pc' \in {pc, "flush"} /\ cur' \in Slot
    BY <1>4, AdvanceType DEF AdmitOk
  <2>2. Head(queue) \in Request /\ Tail(queue) \in Seq(Request)
    <3>1. queue \in Seq(Request) /\ queue # <<>>
      BY <1>4 DEF AdmitOk, TypeOK, FrontTypeOK
    <3>. QED  BY <3>1
  <2>3. slots' \in [Slot -> SlotState]
    BY <1>4, <2>2, SlotFacts DEF AdmitOk, TypeOK, FrontTypeOK
  <2>4. FrontTypeOK'
    BY <1>4, <2>2, <2>3 DEF AdmitOk, TypeOK, FrontTypeOK
  <2>5. eng' \in [Slot -> EngSlot]
    BY <1>4, <2>2, EngCallType DEF AdmitOk, TypeOK
  <2>. QED  BY <1>4, <2>1, <2>4, <2>5 DEF AdmitOk, TypeOK
<1>5. CASE AdmitErr
  <2>1. pc' \in {pc, "flush"} /\ cur' \in Slot
    BY <1>5, AdvanceType DEF AdmitErr
  <2>2. Head(queue) \in Request /\ Tail(queue) \in Seq(Request)
    <3>1. queue \in Seq(Request) /\ queue # <<>>
      BY <1>5 DEF AdmitErr, TypeOK, FrontTypeOK
    <3>. QED  BY <3>1
  <2>3. chan' \in [Request -> Channel] /\ cut' \in SUBSET Request /\ permits' \in Nat
    BY <1>5, <2>2, SendErrorType DEF AdmitErr, TypeOK
  <2>4. FrontTypeOK'
    BY <1>5, <2>2, <2>3 DEF AdmitErr, TypeOK, FrontTypeOK
  <2>5. faults' \in Nat
    BY <1>5 DEF AdmitErr, TypeOK
  <2>. QED  BY <1>5, <2>1, <2>4, <2>5 DEF AdmitErr, TypeOK
<1>6. CASE FlushPhase
  <2>1. pc' \in {pc, "step", "top"} /\ cur' \in Slot
    BY <1>6, AdvanceType DEF FlushPhase
  <2>2. cur \in Slot /\ slots[cur] \in SlotState
    BY DEF TypeOK, FrontTypeOK
  <2>3. FrontTypeOK'
    <3>1. CASE ~Occupied(cur)
      BY <1>6, <3>1 DEF FlushPhase, frontVars, TypeOK, FrontTypeOK
    <3>2. CASE Occupied(cur)
      <4>1. slots[cur].req \in Request
        BY <2>2, <3>2 DEF Occupied, SlotState
      <4>2. FlushSlot(cur, slots[cur])
        BY <1>6, <3>2 DEF FlushPhase
      <4>. QED  BY <2>2, <4>1, <4>2, FlushSlotType DEF TypeOK
    <3>. QED  BY <3>1, <3>2
  <2>4. eng' \in [Slot -> EngSlot]
    <3>1. eng' = eng \/ EngCancel(cur)
      BY <1>6 DEF FlushPhase
    <3>. QED  BY <2>2, <3>1, EngCallType DEF TypeOK
  <2>5. anyActive' \in BOOLEAN
    BY <1>6 DEF FlushPhase, TypeOK
  <2>. QED  BY <1>6, <2>1, <2>3, <2>4, <2>5 DEF FlushPhase, TypeOK
<1>7. CASE StepOk
  <2>1. eng' \in [Slot -> EngSlot] /\ out' \in OutType
    BY <1>7, StepOkType DEF TypeOK
  <2>2. FrontTypeOK'
    BY <1>7 DEF StepOk, frontVars, TypeOK, FrontTypeOK
  <2>. QED  BY <1>7, <2>1, <2>2, SlotFacts DEF StepOk, TypeOK
<1>8. CASE StepErr
  <2>1. FrontTypeOK'
    BY <1>8 DEF StepErr, frontVars, TypeOK, FrontTypeOK
  <2>. QED  BY <1>8, <2>1, SlotFacts DEF StepErr, TypeOK
<1>9. CASE HandlePhase
  <2>1. pc' \in {pc, "top"} /\ cur' \in Slot
    BY <1>9, AdvanceType DEF HandlePhase
  <2>2. FrontTypeOK' /\ eng' \in [Slot -> EngSlot] /\ out' \in OutType
    BY <1>9, HandleType
  <2>. QED  BY <1>9, <2>1, <2>2 DEF HandlePhase, TypeOK
<1>10. CASE FailPhase
  <2>1. pc' \in {pc, "top"} /\ cur' \in Slot
    BY <1>10, AdvanceType DEF FailPhase
  <2>2. FrontTypeOK'
    <3>1. CASE ~Unfinished(cur)
      BY <1>10, <3>1 DEF FailPhase, frontVars, TypeOK, FrontTypeOK
    <3>2. CASE Unfinished(cur)
      BY <1>10, <3>2, FailSlotType DEF FailPhase, Unfinished, TypeOK
    <3>. QED  BY <3>1, <3>2
  <2>3. eng' \in [Slot -> EngSlot]
    <3>1. eng' = eng \/ EngCancel(cur)
      BY <1>10 DEF FailPhase
    <3>. QED  BY <3>1, EngCallType DEF TypeOK
  <2>. QED  BY <1>10, <2>1, <2>2, <2>3 DEF FailPhase, TypeOK
<1>. QED  BY <1>1, <1>2, <1>3, <1>4, <1>5, <1>6, <1>7, <1>8, <1>9, <1>10 DEF EngineLoop

LEMMA NextType == TypeOK /\ [Next]_vars => TypeOK'
<1>. SUFFICES ASSUME TypeOK, [Next]_vars PROVE TypeOK'
  OBVIOUS
<1>1. CASE EngineLoop
  BY <1>1, LoopType
<1>2. CASE (Handlers \/ Server) /\ UNCHANGED <<eng, loopVars>>
  <2>1. FrontTypeOK'
    BY <1>2, HandlerType, ServerType DEF Handlers, Server, TypeOK
  <2>. QED  BY <1>2, <2>1 DEF TypeOK, loopVars
<1>3. CASE UNCHANGED vars
  <2>1. FrontTypeOK'
    BY <1>3 DEF vars, frontVars, TypeOK, FrontTypeOK
  <2>. QED  BY <1>3, <2>1 DEF vars, TypeOK
<1>. QED  BY <1>1, <1>2, <1>3 DEF Next

(* Every variable of the engine thread and of its handlers stays well typed,  *)
(* and no event channel ever holds more than its capacity.                    *)
THEOREM TypeCorrect == Spec => []TypeOK
BY InitType, NextType, PTL DEF Spec

-------------------------------------------------------------------------------
(* The slot tables.  SlotsAgree is not inductive as it stands: a step of the  *)
(* engine, a flush or an admission keeps it only because no output of an      *)
(* earlier step is left over, which is what OutHandled adds.                  *)
OutHandled == \A s \in Slot : pc # "handle" \/ s < cur => out[s] = NoOut

IInv == TypeOK /\ OutHandled /\ SlotsAgree

LEMMA InitInv == Init => IInv
<1>. SUFFICES ASSUME Init PROVE IInv
  OBVIOUS
<1>1. OutHandled
  BY DEF Init, OutHandled
<1>2. SlotsAgree
  BY DEF Init, EngInit, FrontInit, SlotsAgree, Agrees, NoOut, NoSlot, EngFree, Unfinished, Occupied
<1>. QED  BY <1>1, <1>2, InitType DEF IInv

\* A slot that no step touches stays in agreement.
LEMMA AgreesKept ==
  ASSUME NEW s \in Slot, Agrees(s), eng'[s] = eng[s], slots'[s] = slots[s], out'[s] = out[s]
  PROVE  Agrees(s)'
BY DEF Agrees, Unfinished, Occupied, EngActive

\* What the flush of slot s leaves in the table.
LEMMA FlushSlotResult ==
  ASSUME FrontTypeOK, NEW s \in Slot, NEW st \in SlotState, st.req \in Request,
         FlushSlot(s, st)
  PROVE  /\ \A t \in Slot : t # s => slots'[t] = slots[t]
         /\ FlushOutcome(st) = "Live" =>
              slots'[s].req = st.req /\ slots'[s].finished = st.finished
         /\ FlushOutcome(st) # "Live" => slots'[s] = NoSlot
         /\ FlushOutcome(st) = "Drained" => st.finished
<1>1. [st EXCEPT !.pending = Refused(st)].req = st.req
      /\ [st EXCEPT !.pending = Refused(st)].finished = st.finished
  BY DEF SlotState
<1>. QED  BY <1>1 DEF FlushSlot, FrontTypeOK, FlushOutcome

\* The slot of a flush agrees afterwards, if the engine's slot held the same
\* request, or none when the stream was finished, and a vanished consumer's
\* unfinished slot is cancelled.
LEMMA FlushAgrees ==
  ASSUME TypeOK, NEW s \in Slot, NEW st \in SlotState, st.req \in Request,
         FlushSlot(s, st),
         eng[s].req = (IF st.finished THEN None ELSE st.req),
         IF FlushOutcome(st) = "Closed" /\ ~st.finished THEN EngCancel(s) ELSE UNCHANGED eng,
         out'[s] = NoOut
  PROVE  Agrees(s)'
<1>0. st.req # None /\ st.finished \in BOOLEAN /\ FlushOutcome(st) \in {"Live", "Closed", "Drained"}
  BY DEF RequestsAssumption, SlotState, FlushOutcome
<1>1. CASE FlushOutcome(st) = "Live"
  <2>1. slots'[s].req = st.req /\ slots'[s].finished = st.finished
    BY <1>1, FlushSlotResult DEF TypeOK
  <2>2. eng' = eng
    BY <1>1
  <2>. QED  BY <1>0, <2>1, <2>2 DEF Agrees, NoOut, Unfinished, Occupied
<1>2. CASE FlushOutcome(st) # "Live"
  <2>1. slots'[s] = NoSlot
    BY <1>2, FlushSlotResult DEF TypeOK
  <2>2. eng'[s].req = None
    <3>1. CASE st.finished
      BY <3>1
    <3>2. CASE ~st.finished
      <4>1. FlushOutcome(st) = "Closed"
        BY <1>0, <1>2, <3>2, FlushSlotResult DEF TypeOK
      <4>. QED  BY <3>2, <4>1 DEF EngCancel, EngFree, TypeOK
    <3>. QED  BY <3>1, <3>2
  <2>. QED  BY <2>1, <2>2 DEF Agrees, NoOut, NoSlot, Unfinished, Occupied
<1>. QED  BY <1>1, <1>2

\* The cursor of the handling phase only moves up, and past what is handled.
LEMMA OutHandledStep ==
  ASSUME IInv, [Next]_vars
  PROVE  OutHandled'
<1>. USE DEF IInv, OutHandled
<1>1. CASE HandlePhase
  <2>1. pc = "handle" /\ cur \in Slot /\ out' = [out EXCEPT ![cur] = NoOut] /\ Advance("top")
    BY <1>1 DEF HandlePhase, TypeOK
  <2>2. out \in [Slot -> [toks : Seq(TokenId), fin : BOOLEAN]]
    BY DEF TypeOK
  <2>3. CASE cur = NSlots - 1
    <3>1. \A s \in Slot : s < cur \/ s = cur
      BY <2>3 DEF Slot, RequestsAssumption
    <3>. QED  BY <2>1, <2>2, <3>1
  <2>4. CASE cur # NSlots - 1
    <3>1. \A s \in Slot : s < cur + 1 => s < cur \/ s = cur
      BY <2>1 DEF Slot, RequestsAssumption
    <3>2. pc' = pc /\ cur' = cur + 1
      BY <2>1, <2>4 DEF Advance
    <3>. QED  BY <2>1, <2>2, <3>1, <3>2
  <2>. QED  BY <2>3, <2>4
<1>2. CASE StepOk
  <2>1. pc' = "handle" /\ cur' = 0
    BY <1>2 DEF StepOk
  <2>2. \A s \in Slot : ~(s < 0)
    BY DEF Slot, RequestsAssumption
  <2>. QED  BY <2>1, <2>2
<1>3. CASE TakeCmds \/ Stop \/ AdmitSkip \/ AdmitOk \/ AdmitErr \/ FlushPhase \/ StepErr \/ FailPhase
  <2>1. out' = out /\ pc # "handle"
    BY <1>3 DEF TakeCmds, Stop, AdmitSkip, AdmitOk, AdmitErr, FlushPhase, StepErr, FailPhase
  <2>. QED  BY <2>1
<1>4. CASE UNCHANGED <<eng, loopVars>> \/ UNCHANGED vars
  BY <1>4 DEF loopVars, vars
<1>. QED  BY <1>1, <1>2, <1>3, <1>4 DEF Next, EngineLoop

\* qk_step_chunk: a slot generates on for the same request, or has finished.
LEMMA StepOkAgrees ==
  ASSUME IInv, StepOk
  PROVE  SlotsAgree'
<1>1. PICK o \in [Slot -> EngOutcome] :
         /\ \A s \in Slot : ~EngActive(s) => o[s] = [pre |-> 0, n |-> 0, fin |-> FALSE]
         /\ EngStep(o)
         /\ out' = [s \in Slot |-> [toks |-> Emit(eng[s], o[s].n), fin |-> o[s].fin]]
  BY DEF StepOk
<1>. SUFFICES ASSUME NEW s \in Slot PROVE Agrees(s)'
  BY DEF SlotsAgree
<1>2. out[s] = NoOut /\ Agrees(s)
  BY DEF IInv, OutHandled, StepOk, SlotsAgree
<1>3. slots'[s] = slots[s] /\ out'[s].fin = o[s].fin
  BY <1>1 DEF StepOk, frontVars
<1>4. eng[s].req = IF Unfinished(s) THEN slots[s].req ELSE None
  BY <1>2 DEF Agrees, NoOut
<1>5. CASE EngActive(s)
  <2>1. Unfinished(s) /\ Unfinished(s)'
    BY <1>3, <1>4, <1>5 DEF EngActive, Unfinished, Occupied
  <2>2. eng'[s] = StepSlot(eng[s], o[s]) /\ eng[s] \in EngSlot
    BY <1>1, <1>5 DEF EngStep, IInv, TypeOK
  <2>3. (o[s].fin => eng'[s] = EngFree) /\ (~o[s].fin => eng'[s].req = eng[s].req)
    BY <2>2, StepSlotType
  <2>. QED  BY <1>3, <1>4, <2>1, <2>3 DEF Agrees, EngActive, EngFree
<1>6. CASE ~EngActive(s)
  <2>1. ~o[s].fin /\ eng'[s] = eng[s]
    BY <1>1, <1>6 DEF EngStep
  <2>. QED  BY <1>3, <1>4, <2>1 DEF Agrees, Unfinished, Occupied
<1>. QED  BY <1>5, <1>6

\* handle_step: the output of the slot is taken, its request is the engine's.
LEMMA HandleAgrees ==
  ASSUME IInv, HandlePhase
  PROVE  SlotsAgree'
<1>. DEFINE st == Buffered(slots[cur], out[cur])
<1>1. /\ cur \in Slot /\ slots[cur] \in SlotState
      /\ out[cur] \in [toks : Seq(TokenId), fin : BOOLEAN]
      /\ out' = [out EXCEPT ![cur] = NoOut] /\ out'[cur] = NoOut
      /\ Agrees(cur)
  BY DEF IInv, TypeOK, FrontTypeOK, HandlePhase, SlotsAgree
<1>2. st \in SlotState /\ st.req = slots[cur].req /\ st.finished = out[cur].fin
  <2>1. st.finished = out[cur].fin
    BY <1>1 DEF Buffered, SlotState
  <2>. QED  BY <1>1, <2>1, BufferedType
<1>. SUFFICES ASSUME NEW s \in Slot PROVE Agrees(s)'
  BY DEF SlotsAgree
<1>3. Agrees(s)
  BY DEF IInv, SlotsAgree
<1>4. CASE ~Unfinished(cur)
  <2>1. eng' = eng /\ slots' = slots
    BY <1>4 DEF HandlePhase, frontVars
  <2>2. CASE s = cur
    <3>1. ~out[cur].fin /\ eng[cur].req = None
      BY <1>1, <1>4 DEF Agrees
    <3>. QED  BY <1>1, <1>4, <2>1, <2>2, <3>1 DEF Agrees, NoOut, Unfinished, Occupied
  <2>3. CASE s # cur
    <3>1. out'[s] = out[s]
      BY <1>1, <2>3 DEF IInv, TypeOK
    <3>. QED  BY <1>3, <2>1, <3>1, AgreesKept
  <2>. QED  BY <2>2, <2>3
<1>5. CASE Unfinished(cur)
  <2>1. /\ FlushSlot(cur, st)
        /\ IF FlushOutcome(st) = "Closed" /\ ~st.finished THEN EngCancel(cur) ELSE UNCHANGED eng
    BY <1>5 DEF HandlePhase
  <2>2. st.req \in Request
    BY <1>1, <1>2, <1>5 DEF Unfinished, Occupied, SlotState
  <2>3. CASE s = cur
    <3>1. eng[cur].req = (IF st.finished THEN None ELSE st.req)
      BY <1>1, <1>2, <1>5 DEF Agrees, EngActive
    <3>. HIDE DEF st
    <3>. QED  BY <1>1, <1>2, <2>1, <2>2, <2>3, <3>1, FlushAgrees DEF IInv
  <2>4. CASE s # cur
    <3>1. out'[s] = out[s] /\ eng'[s] = eng[s]
      BY <1>1, <2>1, <2>4 DEF IInv, TypeOK, EngCancel
    <3>2. slots'[s] = slots[s]
      <4>. HIDE DEF st
      <4>. QED  BY <1>1, <1>2, <2>1, <2>2, <2>4, FlushSlotResult DEF IInv, TypeOK
    <3>. QED  BY <1>3, <3>1, <3>2, AgreesKept
  <2>. QED  BY <2>3, <2>4
<1>. QED  BY <1>4, <1>5

\* The flush phase: as handling, with nothing new to buffer.
LEMMA FlushPhaseAgrees ==
  ASSUME IInv, FlushPhase
  PROVE  SlotsAgree'
<1>1. cur \in Slot /\ slots[cur] \in SlotState /\ out' = out
  BY DEF IInv, TypeOK, FrontTypeOK, FlushPhase
<1>. SUFFICES ASSUME NEW s \in Slot PROVE Agrees(s)'
  BY DEF SlotsAgree
<1>2. Agrees(s) /\ Agrees(cur) /\ out[cur] = NoOut /\ out[s] = NoOut
  BY <1>1 DEF IInv, SlotsAgree, OutHandled, FlushPhase
<1>3. CASE ~Occupied(cur)
  <2>1. slots' = slots /\ eng' = eng
    BY <1>3 DEF FlushPhase, frontVars, Unfinished
  <2>. QED  BY <1>1, <1>2, <2>1, AgreesKept
<1>4. CASE Occupied(cur)
  <2>. DEFINE st == slots[cur]
  <2>1. /\ FlushSlot(cur, st) /\ st.req \in Request
        /\ IF FlushOutcome(st) = "Closed" /\ ~st.finished THEN EngCancel(cur) ELSE UNCHANGED eng
    BY <1>1, <1>4 DEF FlushPhase, Occupied, Unfinished, SlotState
  <2>2. CASE s = cur
    <3>1. eng[cur].req = (IF st.finished THEN None ELSE st.req)
      BY <1>2, <1>4 DEF Agrees, NoOut, Unfinished
    <3>2. out'[cur] = NoOut
      BY <1>1, <1>2
    <3>. HIDE DEF st
    <3>3. st \in SlotState
      BY <1>1 DEF st
    <3>. QED  BY <1>1, <2>1, <2>2, <3>1, <3>2, <3>3, FlushAgrees DEF IInv
  <2>3. CASE s # cur
    <3>1. eng'[s] = eng[s] /\ out'[s] = out[s]
      BY <1>1, <2>1, <2>3 DEF IInv, TypeOK, EngCancel
    <3>2. slots'[s] = slots[s]
      BY <1>1, <2>1, <2>3, FlushSlotResult DEF IInv, TypeOK
    <3>. QED  BY <1>2, <3>1, <3>2, AgreesKept
  <2>. QED  BY <2>2, <2>3
<1>. QED  BY <1>3, <1>4

\* admit_jobs, a failed step, the end of the thread.
LEMMA OtherAgrees ==
  ASSUME IInv, TakeCmds \/ Stop \/ AdmitSkip \/ AdmitOk \/ AdmitErr \/ StepErr \/ FailPhase
  PROVE  SlotsAgree'
<1>. SUFFICES ASSUME NEW s \in Slot PROVE Agrees(s)'
  BY DEF SlotsAgree
<1>1. Agrees(s) /\ cur \in Slot /\ slots \in [Slot -> SlotState] /\ eng \in [Slot -> EngSlot]
  BY DEF IInv, SlotsAgree, TypeOK, FrontTypeOK
<1>2. out' = out /\ out[s] = NoOut
  BY DEF IInv, OutHandled, TakeCmds, Stop, AdmitSkip, AdmitOk, AdmitErr, StepErr, FailPhase
<1>3. CASE TakeCmds \/ AdmitSkip \/ AdmitErr \/ StepErr
  <2>1. slots' = slots /\ eng' = eng
    BY <1>3 DEF TakeCmds, DrainCmds, AdmitSkip, AdmitErr, StepErr, frontVars
  <2>. QED  BY <1>1, <1>2, <2>1, AgreesKept
<1>4. CASE Stop
  <2>1. slots'[s] = NoSlot /\ eng'[s] = EngFree
    BY <1>4 DEF Stop, DropAll, EngClose
  <2>. QED  BY <1>2, <2>1 DEF Agrees, NoOut, NoSlot, EngFree, Unfinished, Occupied
<1>5. CASE AdmitOk
  <2>1. Head(queue) \in Request
    <3>1. queue \in Seq(Request) /\ queue # <<>>
      BY <1>5 DEF AdmitOk, IInv, TypeOK, FrontTypeOK
    <3>. QED  BY <3>1
  <2>2. CASE s = cur
    <3>1. eng'[s].req = Head(queue)
      BY <1>1, <1>5, <2>2 DEF AdmitOk, EngStart
    <3>2. slots'[s] = NewSlot(Head(queue))
      BY <1>1, <1>5, <2>2 DEF AdmitOk
    <3>. QED  BY <1>2, <2>1, <3>1, <3>2
              DEF Agrees, NoOut, NewSlot, NoSlot, Unfinished, Occupied, RequestsAssumption
  <2>3. CASE s # cur
    <3>1. slots'[s] = slots[s] /\ eng'[s] = eng[s]
      BY <1>1, <1>5, <2>3 DEF AdmitOk, EngStart
    <3>. QED  BY <1>1, <1>2, <3>1, AgreesKept
  <2>. QED  BY <2>2, <2>3
<1>6. CASE FailPhase
  <2>1. CASE Unfinished(cur)
    <3>1. slots' = [slots EXCEPT ![cur] = NoSlot] /\ eng' = [eng EXCEPT ![cur] = EngFree]
      BY <1>6, <2>1 DEF FailPhase, FailSlot, EngCancel
    <3>2. CASE s = cur
      BY <1>1, <1>2, <3>1, <3>2 DEF Agrees, NoOut, NoSlot, EngFree, Unfinished, Occupied
    <3>3. CASE s # cur
      BY <1>1, <1>2, <3>1, <3>3, AgreesKept
    <3>. QED  BY <3>2, <3>3
  <2>2. CASE ~Unfinished(cur)
    BY <1>1, <1>2, <1>6, <2>2, AgreesKept DEF FailPhase, frontVars
  <2>. QED  BY <2>1, <2>2
<1>. QED  BY <1>3, <1>4, <1>5, <1>6

LEMMA NextInv == IInv /\ [Next]_vars => IInv'
<1>. SUFFICES ASSUME IInv, [Next]_vars PROVE IInv'
  OBVIOUS
<1>1. TypeOK' /\ OutHandled'
  BY NextType, OutHandledStep DEF IInv
<1>2. SlotsAgree'
  <2>1. CASE EngineLoop
    BY <2>1, StepOkAgrees, HandleAgrees, FlushPhaseAgrees, OtherAgrees DEF EngineLoop
  <2>2. CASE \/ (Handlers \/ Server) /\ UNCHANGED <<eng, loopVars>>
             \/ UNCHANGED vars
    <3>1. slots' = slots
      BY <2>2 DEF Handlers, Handler, Submit, Receive, ReceiveClosed, Disconnect,
                  Server, Signal, ShutdownEngine, vars, frontVars
    <3>2. eng' = eng /\ out' = out
      BY <2>2 DEF vars, loopVars
    <3>. QED  BY <3>1, <3>2, AgreesKept DEF IInv, SlotsAgree
  <2>. QED  BY <2>1, <2>2 DEF Next
<1>. QED  BY <1>1, <1>2 DEF IInv

(* The server's slot table and the engine's agree at every point of the loop, *)
(* whatever calls fail and whichever consumers stall or vanish.               *)
THEOREM SlotTablesAgree == Spec => []SlotsAgree
<1>1. IInv => SlotsAgree
  BY DEF IInv
<1>. QED  BY <1>1, InitInv, NextInv, PTL DEF Spec

(* When admit_jobs gives a job to a slot it holds free, the engine holds that *)
(* slot free too: slot_start's "slot is busy" error (AdmitErr's first         *)
(* disjunct) never arises.                                                    *)
THEOREM StartFindsSlotFree ==
  Spec => [](pc = "admit" /\ ~Occupied(cur) => ~EngActive(cur))
<1>1. IInv => (pc = "admit" /\ ~Occupied(cur) => ~EngActive(cur))
  <2>. SUFFICES ASSUME IInv, pc = "admit", ~Occupied(cur) PROVE ~EngActive(cur)
    OBVIOUS
  <2>1. out[cur] = NoOut /\ Agrees(cur)
    BY DEF IInv, TypeOK, OutHandled, SlotsAgree
  <2>. QED  BY <2>1 DEF Agrees, NoOut, EngActive, Unfinished
<1>. QED  BY <1>1, InitInv, NextInv, PTL DEF Spec

-------------------------------------------------------------------------------
(* Permits.  With the types the invariant is inductive: each step of the loop *)
(* is one of the operations ServerFrontend_proofs counts, on an occupied slot *)
(* or on the head of the queue.                                               *)

\* handle_step and the retries of delivery flush a slot that is occupied.
LEMMA FlushesPermits ==
  ASSUME TypeOK, PermitsConserved, FlushPhase \/ HandlePhase
  PROVE  PermitsConserved'
<1>1. cur \in Slot /\ slots[cur] \in SlotState /\ out[cur] \in [toks : Seq(TokenId), fin : BOOLEAN]
  BY DEF TypeOK, FrontTypeOK
<1>2. Occupied(cur) => slots[cur].req \in Request
  BY <1>1 DEF Occupied, SlotState
<1>3. CASE FlushPhase
  <2>1. CASE Occupied(cur)
    <3>1. FlushSlot(cur, slots[cur])
      BY <1>3, <2>1 DEF FlushPhase
    <3>. QED  BY <1>1, <1>2, <2>1, <3>1, FlushPermits DEF TypeOK
  <2>2. CASE ~Occupied(cur)
    BY <1>3, <2>2, PermitsKept DEF FlushPhase, frontVars
  <2>. QED  BY <2>1, <2>2
<1>4. CASE HandlePhase
  <2>. DEFINE st == Buffered(slots[cur], out[cur])
  <2>1. CASE Unfinished(cur)
    <3>1. FlushSlot(cur, st) /\ Occupied(cur)
      BY <1>4, <2>1 DEF HandlePhase, Unfinished
    <3>2. st \in SlotState /\ st.req \in Request
      BY <1>1, <1>2, <3>1, BufferedType
    <3>. HIDE DEF st
    <3>. QED  BY <1>1, <3>1, <3>2, FlushPermits DEF TypeOK
  <2>2. CASE ~Unfinished(cur)
    BY <1>4, <2>2, PermitsKept DEF HandlePhase, frontVars
  <2>. QED  BY <2>1, <2>2
<1>. QED  BY <1>3, <1>4

LEMMA NextPermits ==
  ASSUME TypeOK, PermitsConserved, [Next]_vars
  PROVE  PermitsConserved'
<1>0. FrontTypeOK /\ cur \in Slot
  BY DEF TypeOK
<1>1. CASE TakeCmds
  BY <1>0, <1>1, DrainPermits DEF TakeCmds
<1>2. CASE Stop
  BY <1>2, DropPermits DEF Stop
<1>3. CASE AdmitSkip \/ StepOk \/ StepErr
  BY <1>3, PermitsKept DEF AdmitSkip, StepOk, StepErr, frontVars
<1>4. CASE AdmitOk
  BY <1>0, <1>4, AdmitPermits DEF AdmitOk
<1>5. CASE AdmitErr
  BY <1>0, <1>5, RejectPermits DEF AdmitErr
<1>6. CASE FlushPhase \/ HandlePhase
  BY <1>6, FlushesPermits
<1>7. CASE FailPhase
  <2>1. CASE Unfinished(cur)
    BY <1>0, <1>7, <2>1, FailPermits DEF FailPhase, Unfinished
  <2>2. CASE ~Unfinished(cur)
    BY <1>7, <2>2, PermitsKept DEF FailPhase, frontVars
  <2>. QED  BY <2>1, <2>2
<1>8. CASE (Handlers \/ Server) /\ UNCHANGED <<eng, loopVars>>
  BY <1>0, <1>8, HandlerPermits, ServerPermits DEF Handlers, Server
<1>9. CASE UNCHANGED vars
  BY <1>9, PermitsKept DEF vars, frontVars
<1>. QED  BY <1>1, <1>2, <1>3, <1>4, <1>5, <1>6, <1>7, <1>8, <1>9 DEF Next, EngineLoop

(* However requests end (served, failed, vanished, rejected, dropped at       *)
(* shutdown), a permit is out exactly for each job that is in the command     *)
(* channel, in the queue or in a slot: none leaks and none is given back      *)
(* twice, so --queue bounds what the server accepts.                          *)
THEOREM PermitsAreConserved == Spec => []PermitsConserved
<1>1. Init => TypeOK /\ PermitsConserved
  BY InitType, InitPermits DEF Init
<1>2. TypeOK /\ PermitsConserved /\ [Next]_vars => TypeOK' /\ PermitsConserved'
  BY NextType, NextPermits
<1>. QED  BY <1>1, <1>2, PTL DEF Spec

-------------------------------------------------------------------------------
(* The streams.  To FrontInv and ExactInv the driver adds how far the output  *)
(* of the last step, the server's count and the engine's are apart.           *)
OutOK(s) ==
  /\ ~Unfinished(s) => out[s].toks = <<>>
  /\ Unfinished(s) =>
       LET r == slots[s].req  n == slots[s].emitted  k == Len(out[s].toks) IN
       /\ out[s].toks = [i \in 1 .. k |-> <<r, n + i>>]
       /\ n + k <= MaxGen[r]
       /\ EngActive(s) => eng[s].gen = n + k

StreamInv == IInv /\ FrontInv /\ ExactInv /\ \A s \in Slot : OutOK(s)

\* handle_step appends the tokens as one event, and the end when there is one.
LEMMA BufferedEvents ==
  ASSUME NEW st \in SlotState, NEW o \in [toks : Seq(TokenId), fin : BOOLEAN],
         \A i \in 1 .. Len(st.pending) : ~IsEnd(st.pending[i])
  PROVE  LET n == st.emitted + Len(o.toks)
             reason == IF n >= MaxGen[st.req] THEN "Limit" ELSE "Eos" IN
         /\ Buffered(st, o).emitted = n /\ Buffered(st, o).finished = o.fin
         /\ Buffered(st, o).req = st.req
         /\ \E body \in Seq(Event) :
              /\ Buffered(st, o).pending = IF o.fin THEN Append(body, Done(reason)) ELSE body
              /\ \A i \in 1 .. Len(body) : ~IsEnd(body[i])
              /\ IdsOf(body) = IdsOf(st.pending) \o o.toks
<1>. DEFINE n == st.emitted + Len(o.toks)
            reason == IF n >= MaxGen[st.req] THEN "Limit" ELSE "Eos"
            more == IF o.toks = <<>> THEN <<>> ELSE <<Tokens(o.toks)>>
            last == IF o.fin THEN <<Done(reason)>> ELSE <<>>
            p == st.pending
            body == p \o more
<1>1. /\ Buffered(st, o).emitted = n /\ Buffered(st, o).finished = o.fin
      /\ Buffered(st, o).req = st.req /\ Buffered(st, o).pending = (p \o more) \o last
  BY DEF Buffered, SlotState
<1>2. p \in Seq(Event) /\ Done(reason) \in Event /\ Tokens(o.toks) \in Event
      /\ Tokens(o.toks).kind = "Tokens" /\ Tokens(o.toks).ids = o.toks /\ o.toks \in Seq(TokenId)
  <2>1. <<>> \in Seq(TokenId)
    OBVIOUS
  <2>2. Done(reason) \in Event
    BY <2>1 DEF Done, Event
  <2>3. Tokens(o.toks) \in Event /\ Tokens(o.toks).kind = "Tokens" /\ Tokens(o.toks).ids = o.toks
    BY DEF Tokens, Event
  <2>. QED  BY <2>2, <2>3 DEF SlotState
<1>3. body \in Seq(Event) /\ (\A i \in 1 .. Len(body) : ~IsEnd(body[i]))
      /\ IdsOf(body) = IdsOf(p) \o o.toks
  <2>1. CASE o.toks = <<>>
    <3>1. body = p /\ IdsOf(p) \in Seq(TokenId)
      BY <1>2, <2>1, ConcatEmptySeq, IdsType
    <3>2. IdsOf(p) \o o.toks = IdsOf(p)
      BY <2>1, <3>1, ConcatEmptySeq
    <3>. QED  BY <1>2, <3>1, <3>2
  <2>2. CASE o.toks # <<>>
    <3>. DEFINE e == Tokens(o.toks)
    <3>1. e \in Event /\ ~IsEnd(e) /\ body = p \o <<e>> /\ e.ids = o.toks
      BY <1>2, <2>2 DEF IsEnd
    <3>2. \A i \in 1 .. Len(p) : ~IsEnd(p[i])
      OBVIOUS
    <3>. HIDE DEF e, p, body
    <3>. QED  BY <1>2, <3>1, <3>2, EventMore
  <2>. QED  BY <2>1, <2>2
<1>4. Buffered(st, o).pending = IF o.fin THEN Append(body, Done(reason)) ELSE body
  <2>. DEFINE d == Done(reason)
  <2>1. d \in Event /\ Buffered(st, o).pending = body \o (IF o.fin THEN <<d>> ELSE <<>>)
    BY <1>1, <1>2
  <2>. HIDE DEF d, body
  <2>2. body \o <<d>> = Append(body, d) /\ body \o <<>> = body
    BY <1>3, <2>1, AppendIsConcat, ConcatEmptySeq
  <2>. QED  BY <2>1, <2>2 DEF d, body
<1>. HIDE DEF body, n, reason
<1>5. \E b \in Seq(Event) :
        /\ Buffered(st, o).pending = IF o.fin THEN Append(b, Done(reason)) ELSE b
        /\ \A i \in 1 .. Len(b) : ~IsEnd(b[i])
        /\ IdsOf(b) = IdsOf(st.pending) \o o.toks
  BY <1>3, <1>4 DEF p
<1>. QED  BY <1>1, <1>5 DEF n, reason

\* What a slot owes its reader grows by the tokens of the step.
LEMMA BufferedOK ==
  ASSUME FrontTypeOK, NEW st \in SlotState, NEW o \in [toks : Seq(TokenId), fin : BOOLEAN],
         st.req \in Request, ~st.finished, SlotOK(st),
         o.toks = [i \in 1 .. Len(o.toks) |-> <<st.req, st.emitted + i>>],
         st.emitted + Len(o.toks) <= MaxGen[st.req]
  PROVE  /\ SlotOK(Buffered(st, o))
         /\ RxOpen(st.req) /\ Exact(st.req, Owed(st)) => Exact(st.req, Owed(Buffered(st, o)))
<1>. DEFINE r == st.req  n == st.emitted + Len(o.toks)
            reason == IF n >= MaxGen[r] THEN "Limit" ELSE "Eos"
            nst == Buffered(st, o)
<1>1. \A i \in 1 .. Len(st.pending) : ~IsEnd(st.pending[i])
  BY DEF SlotOK
<1>2. nst.emitted = n /\ nst.finished = o.fin /\ nst.req = r
  BY <1>1, BufferedEvents
<1>3. PICK body \in Seq(Event) :
        /\ nst.pending = IF o.fin THEN Append(body, Done(reason)) ELSE body
        /\ \A i \in 1 .. Len(body) : ~IsEnd(body[i])
        /\ IdsOf(body) = IdsOf(st.pending) \o o.toks
  BY <1>1, BufferedEvents
<1>4. /\ nst \in SlotState /\ o.toks \in Seq(TokenId) /\ reason \in {"Eos", "Limit"}
      /\ EndsAs(reason, r, n)
  <2>1. nst \in SlotState
    BY BufferedType
  <2>2. n \in Nat /\ MaxGen[r] \in Nat /\ n <= MaxGen[r] /\ o.toks \in Seq(TokenId)
    BY DEF SlotState, RequestsAssumption
  <2>3. reason \in {"Eos", "Limit"} /\ EndsAs(reason, r, n)
    <3>. HIDE DEF n
    <3>. QED  BY <2>2 DEF EndsAs
  <2>. QED  BY <2>1, <2>2, <2>3
<1>. HIDE DEF nst, reason
<1>5. /\ SlotOK(nst)
      /\ RxOpen(r) /\ Exact(r, Owed(st)) => Exact(r, Owed(nst))
  BY <1>2, <1>3, <1>4, SlotGrows, ZenonT(60)
<1>. QED  BY <1>5 DEF nst

LEMMA InitStreams == Init => StreamInv
<1>. SUFFICES ASSUME Init PROVE StreamInv
  OBVIOUS
<1>1. FrontInv /\ ExactInv
  BY InitFront DEF Init
<1>2. \A s \in Slot : OutOK(s)
  BY DEF Init, FrontInit, OutOK, NoOut, NoSlot, Unfinished, Occupied
<1>. QED  BY <1>1, <1>2, InitInv DEF StreamInv

\* The output that handle_step finds is the slot's next tokens.
LEMMA HandleFront ==
  ASSUME StreamInv, HandlePhase
  PROVE  FrontInv' /\ ExactInv'
<1>1. CASE ~Unfinished(cur)
  <2>1. UNCHANGED frontVars
    BY <1>1 DEF HandlePhase
  <2>. QED  BY <2>1, FrontStill DEF StreamInv
<1>2. CASE Unfinished(cur)
  <2>. DEFINE st0 == slots[cur]  o == out[cur]  st == Buffered(st0, o)  r == st0.req
  <2>1. /\ cur \in Slot /\ st0 \in SlotState /\ o \in [toks : Seq(TokenId), fin : BOOLEAN]
        /\ r \in Request /\ ~st0.finished /\ FrontTypeOK
    BY <1>2 DEF StreamInv, IInv, TypeOK, FrontTypeOK, SlotState, Unfinished, Occupied
  <2>2. SlotOK(st0) /\ (ExactInv => (RxOpen(r) => Exact(r, Owed(st0)))) /\ FrontInv /\ ExactInv
    BY <2>1 DEF StreamInv, FrontInv, RequestOK, ExactInv, ExactOK
  <2>3. /\ o.toks = [i \in 1 .. Len(o.toks) |-> <<r, st0.emitted + i>>]
        /\ st0.emitted + Len(o.toks) <= MaxGen[r]
    BY <1>2, <2>1 DEF StreamInv, OutOK
  <2>4. st \in SlotState /\ st.req = r
    BY <2>1, BufferedType
  <2>5. FlushSlot(cur, st)
    BY <1>2 DEF HandlePhase
  <2>. HIDE DEF st, st0, o
  <2>6. SlotOK(st) /\ (RxOpen(r) => Exact(r, Owed(st)))
    BY <2>1, <2>2, <2>3, BufferedOK DEF st
  <2>7. slots[cur].req = st.req
    BY <2>4 DEF st0
  <2>. HIDE DEF r
  <2>. QED  BY <2>1, <2>2, <2>4, <2>5, <2>6, <2>7, FlushFront
<1>. QED  BY <1>1, <1>2

\* The retries of delivery.
LEMMA RetryFront ==
  ASSUME StreamInv, FlushPhase
  PROVE  FrontInv' /\ ExactInv'
<1>1. CASE ~Occupied(cur)
  <2>1. UNCHANGED frontVars
    BY <1>1 DEF FlushPhase
  <2>. QED  BY <2>1, FrontStill DEF StreamInv
<1>2. CASE Occupied(cur)
  <2>. DEFINE st == slots[cur]
  <2>1. cur \in Slot /\ st \in SlotState /\ st.req \in Request /\ FrontTypeOK
    BY <1>2 DEF StreamInv, IInv, TypeOK, FrontTypeOK, SlotState, Occupied
  <2>2. SlotOK(st) /\ (RxOpen(st.req) => Exact(st.req, Owed(st))) /\ FrontInv /\ ExactInv
    BY <2>1 DEF StreamInv, FrontInv, RequestOK, ExactInv, ExactOK
  <2>3. FlushSlot(cur, st) /\ slots[cur].req = st.req
    BY <1>2 DEF FlushPhase
  <2>. HIDE DEF st
  <2>. QED  BY <2>1, <2>2, <2>3, FlushFront
<1>. QED  BY <1>1, <1>2

LEMMA NextFront ==
  ASSUME StreamInv, [Next]_vars
  PROVE  FrontInv' /\ ExactInv'
<1>0. FrontTypeOK /\ FrontInv /\ ExactInv /\ cur \in Slot
  BY DEF StreamInv, IInv, TypeOK
<1>1. CASE TakeCmds
  BY <1>0, <1>1, DrainFront DEF TakeCmds
<1>2. CASE Stop
  BY <1>0, <1>2, DropFront DEF Stop
<1>3. CASE AdmitSkip \/ StepOk \/ StepErr
  BY <1>0, <1>3, FrontStill DEF AdmitSkip, StepOk, StepErr
<1>4. CASE AdmitOk
  BY <1>0, <1>4, AdmitFront DEF AdmitOk
<1>5. CASE AdmitErr
  BY <1>0, <1>5, RejectFront DEF AdmitErr
<1>6. CASE FlushPhase
  BY <1>6, RetryFront
<1>7. CASE HandlePhase
  BY <1>7, HandleFront
<1>8. CASE FailPhase
  <2>1. CASE Unfinished(cur)
    BY <1>0, <1>8, <2>1, FailFront DEF FailPhase, Unfinished
  <2>2. CASE ~Unfinished(cur)
    BY <1>0, <1>8, <2>2, FrontStill DEF FailPhase
  <2>. QED  BY <2>1, <2>2
<1>9. CASE (Handlers \/ Server) /\ UNCHANGED <<eng, loopVars>>
  BY <1>0, <1>9, HandlerFront, ServerFront DEF Handlers, Server
<1>10. CASE UNCHANGED vars
  BY <1>0, <1>10, FrontStill DEF vars
<1>. QED  BY <1>1, <1>2, <1>3, <1>4, <1>5, <1>6, <1>7, <1>8, <1>9, <1>10 DEF Next, EngineLoop

\* A slot that no step touches.
LEMMA OutKept ==
  ASSUME NEW s \in Slot, OutOK(s), eng'[s] = eng[s], slots'[s] = slots[s], out'[s] = out[s]
  PROVE  OutOK(s)'
BY DEF OutOK, Unfinished, Occupied, EngActive

\* A slot without output, after the step.
LEMMA OutNone ==
  ASSUME NEW s \in Slot, out'[s].toks = <<>>, slots'[s].emitted \in Nat,
         Unfinished(s)' => /\ slots'[s].emitted <= MaxGen[slots'[s].req]
                           /\ EngActive(s)' => eng'[s].gen = slots'[s].emitted
  PROVE  OutOK(s)'
<1>1. Len(out'[s].toks) = 0 /\ slots'[s].emitted + 0 = slots'[s].emitted
  OBVIOUS
<1>2. \A f : [i \in 1 .. 0 |-> <<f, slots'[s].emitted + i>>] = <<>>
  OBVIOUS
<1>. QED  BY <1>1, <1>2 DEF OutOK

\* qk_step_chunk returns the next tokens of each slot.
LEMMA StepOut ==
  ASSUME StreamInv, StepOk, NEW s \in Slot
  PROVE  OutOK(s)'
<1>1. PICK o \in [Slot -> EngOutcome] :
         /\ \A t \in Slot : ~EngActive(t) => o[t] = [pre |-> 0, n |-> 0, fin |-> FALSE]
         /\ EngStep(o)
         /\ out' = [t \in Slot |-> [toks |-> Emit(eng[t], o[t].n), fin |-> o[t].fin]]
  BY DEF StepOk
<1>. DEFINE k == o[s].n
<1>2. /\ out[s] = NoOut /\ Agrees(s) /\ OutOK(s) /\ eng[s] \in EngSlot /\ slots[s] \in SlotState
      /\ slots' = slots /\ out'[s].toks = Emit(eng[s], k) /\ k \in Nat
  BY <1>1 DEF StreamInv, IInv, OutHandled, StepOk, SlotsAgree, TypeOK, FrontTypeOK, frontVars,
              EngOutcome, SlotEngineAssumption
<1>3. eng[s].req = IF Unfinished(s) THEN slots[s].req ELSE None
  BY <1>2 DEF Agrees, NoOut
<1>4. CASE EngActive(s)
  <2>. DEFINE r == slots[s].req  n == slots[s].emitted
  <2>1. Unfinished(s) /\ Unfinished(s)' /\ eng[s].req = r /\ r \in Request
    BY <1>2, <1>3, <1>4 DEF EngActive, Unfinished, Occupied, SlotState
  <2>2. eng[s].gen = n /\ n \in Nat /\ n <= MaxGen[r] /\ MaxGen[r] \in Nat
    <3>1. Len(out[s].toks) = 0
      BY <1>2 DEF NoOut
    <3>2. n \in Nat /\ MaxGen[r] \in Nat
      BY <1>2, <2>1 DEF SlotState, RequestsAssumption
    <3>. QED  BY <1>2, <1>4, <2>1, <3>1, <3>2 DEF OutOK
  <2>3. out'[s].toks = [i \in 1 .. k |-> <<r, n + i>>] /\ Len(out'[s].toks) = k
    BY <1>2, <2>1, <2>2 DEF Emit
  <2>4. o[s] \in StepOutcomes(eng[s]) /\ eng'[s] = StepSlot(eng[s], o[s])
    BY <1>1, <1>4 DEF EngStep
  <2>5. n + k <= MaxGen[r]
    <3>1. (k = 0) \/ eng[s].gen + k <= MaxGen[eng[s].req]
      BY <2>4 DEF StepOutcomes
    <3>. QED  BY <1>2, <2>1, <2>2, <3>1
  <2>6. EngActive(s)' => eng'[s].gen = n + k
    BY <1>2, <2>2, <2>4 DEF StepSlot, EngActive, EngFree, EngSlot
  <2>. QED  BY <1>2, <2>1, <2>3, <2>5, <2>6 DEF OutOK
<1>5. CASE ~EngActive(s)
  <2>1. k = 0 /\ eng'[s] = eng[s]
    BY <1>1, <1>5 DEF EngStep
  <2>2. out'[s].toks = <<>>
    BY <1>2, <2>1 DEF Emit
  <2>3. ~Unfinished(s)'
    BY <1>2, <1>3, <1>5 DEF EngActive, Unfinished, Occupied, RequestsAssumption
  <2>. QED  BY <2>2, <2>3 DEF OutOK
<1>. QED  BY <1>4, <1>5

\* A flush that keeps its slot unfinished keeps its count, and the engine's.
LEMMA FlushOut ==
  ASSUME FrontTypeOK, NEW s \in Slot, NEW st \in SlotState, st.req \in Request,
         FlushSlot(s, st),
         IF FlushOutcome(st) = "Closed" /\ ~st.finished THEN EngCancel(s) ELSE UNCHANGED eng,
         out'[s].toks = <<>>,
         ~st.finished => /\ st.emitted <= MaxGen[st.req]
                         /\ EngActive(s) => eng[s].gen = st.emitted
  PROVE  OutOK(s)'
<1>1. CASE FlushOutcome(st) = "Live"
  <2>1. /\ slots'[s].req = st.req /\ slots'[s].emitted = st.emitted
        /\ slots'[s].finished = st.finished /\ st.emitted \in Nat
    BY <1>1, FlushOutcomes DEF SlotState
  <2>2. eng' = eng
    BY <1>1
  <2>3. Unfinished(s)' => /\ slots'[s].emitted <= MaxGen[slots'[s].req]
                          /\ EngActive(s)' => eng'[s].gen = slots'[s].emitted
    BY <2>1, <2>2 DEF Unfinished, EngActive
  <2>. QED  BY <2>1, <2>3, OutNone
<1>2. CASE FlushOutcome(st) # "Live"
  <2>1. slots'[s] = NoSlot
    BY <1>2, FlushOutcomes
  <2>2. ~Unfinished(s)'
    BY <2>1 DEF NoSlot, Unfinished, Occupied
  <2>. QED  BY <2>2 DEF OutOK
<1>. QED  BY <1>1, <1>2

LEMMA HandleOut ==
  ASSUME StreamInv, HandlePhase, NEW s \in Slot
  PROVE  OutOK(s)'
<1>0. /\ cur \in Slot /\ slots[cur] \in SlotState /\ FrontTypeOK
      /\ out[cur] \in [toks : Seq(TokenId), fin : BOOLEAN]
      /\ out \in [Slot -> [toks : Seq(TokenId), fin : BOOLEAN]] /\ eng \in [Slot -> EngSlot]
      /\ OutOK(s) /\ OutOK(cur)
  BY DEF StreamInv, IInv, TypeOK, FrontTypeOK
<1>1. out'[cur].toks = <<>> /\ (s # cur => out'[s] = out[s])
  BY <1>0 DEF HandlePhase, NoOut
<1>2. CASE ~Unfinished(cur)
  <2>1. slots' = slots /\ eng' = eng
    BY <1>2 DEF HandlePhase, frontVars
  <2>2. CASE s = cur
    BY <1>1, <1>2, <2>1, <2>2 DEF OutOK, Unfinished, Occupied
  <2>3. CASE s # cur
    BY <1>0, <1>1, <2>1, <2>3, OutKept
  <2>. QED  BY <2>2, <2>3
<1>3. CASE Unfinished(cur)
  <2>. DEFINE st == Buffered(slots[cur], out[cur])
  <2>1. st \in SlotState /\ st.req = slots[cur].req
    BY <1>0, BufferedType
  <2>2. st.req \in Request
    BY <1>0, <1>3, <2>1 DEF Unfinished, Occupied, SlotState
  <2>3. st.emitted = slots[cur].emitted + Len(out[cur].toks)
    BY <1>0 DEF Buffered, SlotState
  <2>4. FlushSlot(cur, st)
        /\ IF FlushOutcome(st) = "Closed" /\ ~st.finished THEN EngCancel(cur) ELSE UNCHANGED eng
    BY <1>3 DEF HandlePhase
  <2>5. st.emitted <= MaxGen[st.req] /\ (EngActive(cur) => eng[cur].gen = st.emitted)
    BY <1>0, <1>3, <2>1, <2>3 DEF OutOK
  <2>. HIDE DEF st
  <2>6. CASE s = cur
    BY <1>0, <1>1, <2>1, <2>2, <2>4, <2>5, <2>6, FlushOut
  <2>7. CASE s # cur
    <3>1. slots'[s] = slots[s]
      BY <1>0, <2>1, <2>2, <2>4, <2>7, FlushOutcomes
    <3>2. eng'[s] = eng[s]
      BY <1>0, <2>4, <2>7 DEF EngCancel
    <3>. QED  BY <1>0, <1>1, <2>7, <3>1, <3>2, OutKept
  <2>. QED  BY <2>6, <2>7
<1>. QED  BY <1>2, <1>3

\* No other step leaves output behind.
LEMMA OtherOut ==
  ASSUME StreamInv, EngineLoop, ~StepOk, ~HandlePhase, NEW s \in Slot
  PROVE  OutOK(s)'
<1>1. pc # "handle" /\ out' = out
  BY DEF EngineLoop, TakeCmds, Stop, AdmitSkip, AdmitOk, AdmitErr, FlushPhase, StepErr, FailPhase
<1>2. /\ cur \in Slot /\ slots \in [Slot -> SlotState] /\ FrontTypeOK /\ eng \in [Slot -> EngSlot]
      /\ OutOK(s) /\ OutOK(cur) /\ out[s] = NoOut /\ out[cur] = NoOut
      /\ out'[s].toks = <<>> /\ out'[cur].toks = <<>>
  BY <1>1 DEF StreamInv, IInv, OutHandled, TypeOK, FrontTypeOK, NoOut
<1>3. CASE TakeCmds \/ AdmitSkip \/ AdmitErr \/ StepErr
  <2>1. slots' = slots /\ eng' = eng
    BY <1>3 DEF TakeCmds, DrainCmds, AdmitSkip, AdmitErr, StepErr, frontVars
  <2>. QED  BY <1>1, <1>2, <2>1, OutKept
<1>4. CASE Stop
  <2>1. ~Unfinished(s)'
    BY <1>4 DEF Stop, DropAll, NoSlot, Unfinished, Occupied
  <2>. QED  BY <1>2, <2>1 DEF OutOK
<1>5. CASE AdmitOk
  <2>. DEFINE r == Head(queue)
  <2>0. r \in Request
    BY <1>2, <1>5 DEF AdmitOk, FrontTypeOK
  <2>1. CASE s = cur
    <3>1. eng'[s].gen = 0 /\ slots'[s] = NewSlot(r)
      BY <1>2, <1>5, <2>1 DEF AdmitOk, EngStart
    <3>2. slots'[s].emitted = 0 /\ slots'[s].req = r
      BY <3>1 DEF NewSlot, NoSlot
    <3>3. 0 <= MaxGen[r] /\ 0 \in Nat
      BY <2>0 DEF RequestsAssumption
    <3>. HIDE DEF r
    <3>. QED  BY <1>2, <2>1, <3>1, <3>2, <3>3, OutNone
  <2>2. CASE s # cur
    <3>1. slots'[s] = slots[s] /\ eng'[s] = eng[s]
      BY <1>2, <1>5, <2>2 DEF AdmitOk, EngStart
    <3>. QED  BY <1>1, <1>2, <3>1, OutKept
  <2>. QED  BY <2>1, <2>2
<1>6. CASE FlushPhase
  <2>1. CASE ~Occupied(cur)
    <3>1. slots' = slots /\ eng' = eng
      BY <1>6, <2>1 DEF FlushPhase, frontVars, Unfinished
    <3>. QED  BY <1>1, <1>2, <3>1, OutKept
  <2>2. CASE Occupied(cur)
    <3>. DEFINE st == slots[cur]
    <3>1. /\ FlushSlot(cur, st) /\ st.req \in Request /\ st \in SlotState
          /\ IF FlushOutcome(st) = "Closed" /\ ~st.finished THEN EngCancel(cur) ELSE UNCHANGED eng
      BY <1>2, <1>6, <2>2 DEF FlushPhase, Occupied, Unfinished, SlotState
    <3>2. ~st.finished => /\ st.emitted <= MaxGen[st.req]
                          /\ EngActive(cur) => eng[cur].gen = st.emitted
      <4>. SUFFICES ASSUME ~st.finished
                    PROVE  /\ st.emitted <= MaxGen[st.req]
                           /\ EngActive(cur) => eng[cur].gen = st.emitted
        OBVIOUS
      <4>1. Unfinished(cur) /\ Len(out[cur].toks) = 0 /\ st.emitted \in Nat
        BY <1>2, <2>2, <3>1 DEF Unfinished, NoOut, SlotState
      <4>2. st.emitted + Len(out[cur].toks) = st.emitted
        BY <4>1
      <4>. QED  BY <1>2, <4>1, <4>2 DEF OutOK
    <3>3. CASE s = cur
      <4>. HIDE DEF st
      <4>. QED  BY <1>2, <3>1, <3>2, <3>3, FlushOut
    <3>4. CASE s # cur
      <4>. HIDE DEF st
      <4>1. slots'[s] = slots[s]
        BY <1>2, <3>1, <3>4, FlushOutcomes
      <4>2. eng'[s] = eng[s]
        BY <1>2, <3>1, <3>4 DEF EngCancel
      <4>. QED  BY <1>1, <1>2, <4>1, <4>2, OutKept
    <3>. QED  BY <3>3, <3>4
  <2>. QED  BY <2>1, <2>2
<1>7. CASE FailPhase
  <2>1. CASE Unfinished(cur) /\ s = cur
    <3>1. ~Unfinished(s)'
      BY <1>2, <1>7, <2>1 DEF FailPhase, FailSlot, NoSlot, Unfinished, Occupied
    <3>. QED  BY <1>2, <3>1 DEF OutOK
  <2>2. CASE Unfinished(cur) /\ s # cur
    <3>1. slots'[s] = slots[s] /\ eng'[s] = eng[s]
      BY <1>2, <1>7, <2>2 DEF FailPhase, FailSlot, EngCancel
    <3>. QED  BY <1>1, <1>2, <3>1, OutKept
  <2>3. CASE ~Unfinished(cur)
    <3>1. slots' = slots /\ eng' = eng
      BY <1>7, <2>3 DEF FailPhase, frontVars
    <3>. QED  BY <1>1, <1>2, <3>1, OutKept
  <2>. QED  BY <2>1, <2>2, <2>3
<1>. QED  BY <1>3, <1>4, <1>5, <1>6, <1>7 DEF EngineLoop

LEMMA NextStreams == StreamInv /\ [Next]_vars => StreamInv'
<1>. SUFFICES ASSUME StreamInv, [Next]_vars PROVE StreamInv'
  OBVIOUS
<1>1. IInv' /\ FrontInv' /\ ExactInv'
  BY NextInv, NextFront DEF StreamInv
<1>2. ASSUME NEW s \in Slot PROVE OutOK(s)'
  <2>1. CASE EngineLoop
    BY <2>1, StepOut, HandleOut, OtherOut
  <2>2. CASE \/ (Handlers \/ Server) /\ UNCHANGED <<eng, loopVars>>
             \/ UNCHANGED vars
    <3>1. slots' = slots
      BY <2>2 DEF Handlers, Handler, Submit, Receive, ReceiveClosed, Disconnect,
                  Server, Signal, ShutdownEngine, vars, frontVars
    <3>2. eng' = eng /\ out' = out
      BY <2>2 DEF vars, loopVars
    <3>. QED  BY <3>1, <3>2, OutKept DEF StreamInv
  <2>. QED  BY <2>1, <2>2 DEF Next
<1>. QED  BY <1>1, <1>2 DEF StreamInv

(* What a client is told is true, however requests and their slots interleave: *)
(* "eos" means the model ended short of max_gen, "limit" that max_gen tokens   *)
(* arrived, unless the request's Error found its channel full.                 *)
THEOREM EndsAreTruthful == Spec => []EndIsTruthful
<1>1. StreamInv => EndIsTruthful
  BY FrontInvEnds DEF StreamInv
<1>. QED  BY <1>1, InitStreams, NextStreams, PTL DEF Spec

\* The engine works for r in slot s only if the server's slot s is r's, unfinished.
LEMMA EngineWorksFor ==
  ASSUME StreamInv, NEW r \in Request, NEW s \in Slot, eng[s].req = r
  PROVE  slots[s].req = r /\ Unfinished(s) /\ EngActive(s) /\ ~slots[s].finished
BY DEF StreamInv, IInv, SlotsAgree, Agrees, EngActive, Unfinished, RequestsAssumption

LEMMA StreamsEndOnce == StreamInv => EndsOnce
<1>. SUFFICES ASSUME StreamInv, NEW r \in Request
              PROVE  /\ \A i \in 1 .. Len(InFlight(r)) : InFlight(r)[i].kind # "Tokens" =>
                          i = Len(InFlight(r)) /\ ~\E s \in Slot : eng[s].req = r
                     /\ \A s \in Slot : slots[s].req = r /\ slots[s].finished =>
                          slots[s].pending # <<>> /\ Last(slots[s].pending).kind \in {"Eos", "Limit"}
                     /\ InFlight(r) # <<>> => RxOpen(r) \/ InSlot(r)
  BY DEF EndsOnce
<1>1. FrontTypeOK /\ FrontInv
  BY DEF StreamInv, IInv, TypeOK
<1>2. /\ \A i \in 1 .. Len(InFlight(r)) : IsEnd(InFlight(r)[i]) =>
           /\ i = Len(InFlight(r))
           /\ \A s \in Slot : slots[s].req = r => slots[s].finished
      /\ InFlight(r) # <<>> => RxOpen(r) \/ InSlot(r)
  BY <1>1, InFlightEnds
<1>3. \A s \in Slot : eng[s].req = r => slots[s].req = r /\ ~slots[s].finished
  BY EngineWorksFor
<1>4. ASSUME NEW s \in Slot, slots[s].req = r, slots[s].finished
      PROVE  slots[s].pending # <<>> /\ Last(slots[s].pending).kind \in {"Eos", "Limit"}
  <2>. DEFINE p == slots[s].pending
  <2>1. SlotOK(slots[s]) /\ p \in Seq(Event)
    BY <1>1, <1>4 DEF FrontInv, RequestOK, FrontTypeOK, SlotState
  <2>2. p # <<>> /\ IsEnd(p[Len(p)]) /\ Len(p) \in 1 .. Len(p)
    <3>1. p # <<>> /\ IsEnd(p[Len(p)])
      BY <1>4, <2>1 DEF SlotOK
    <3>. HIDE DEF p
    <3>. QED  BY <2>1, <3>1
  <2>. QED  BY <2>1, <2>2 DEF SlotOK, Last
<1>. QED  BY <1>2, <1>3, <1>4 DEF IsEnd

(* A stream ends once: nothing follows Done or Error, a slot that finished     *)
(* still owes its Done, and no event is in flight for a request that neither   *)
(* reads nor is worked for.                                                    *)
THEOREM StreamEndsOnce == Spec => []EndsOnce
BY StreamsEndOnce, InitStreams, NextStreams, PTL DEF Spec

\* The output of the last step that is r's.
LEMMA OutOfSlot ==
  ASSUME TypeOK, NEW r \in Request, PlacedOnce(r)
  PROVE  LET o == FlattenSeq([i \in 1 .. NSlots |->
                    IF slots[i - 1].req = r THEN out[i - 1].toks ELSE <<>>]) IN
         /\ ~InSlot(r) => o = <<>>
         /\ \A s \in Slot : slots[s].req = r => o = out[s].toks
<1>. DEFINE P == {s \in Slot : slots[s].req = r}  f == [s \in Slot |-> out[s].toks]
            o == FlattenSeq([i \in 1 .. NSlots |->
                   IF slots[i - 1].req = r THEN out[i - 1].toks ELSE <<>>])
<1>1. f \in [Slot -> Seq(TokenId)]
  BY DEF TypeOK
<1>2. o = OfSlots(P, f)
  <2>1. \A i \in 1 .. NSlots : i - 1 \in Slot
    BY DEF Slot, RequestsAssumption
  <2>2. [i \in 1 .. NSlots |-> IF slots[i - 1].req = r THEN out[i - 1].toks ELSE <<>>]
          = [i \in 1 .. NSlots |-> IF i - 1 \in P THEN f[i - 1] ELSE <<>>]
    BY <2>1
  <2>. QED  BY <2>2 DEF OfSlots
<1>3. ~InSlot(r) => P = {}
  BY DEF InSlot
<1>4. \A s \in Slot : slots[s].req = r => P = {s} /\ f[s] = out[s].toks
  BY DEF PlacedOnce
<1>. HIDE DEF P, f, o
<1>5. OfSlots({}, f) = <<>> /\ \A s \in Slot : OfSlots({s}, f) = f[s]
  BY <1>1, OfOneSlot
<1>6. ASSUME NEW s \in Slot, slots[s].req = r PROVE o = out[s].toks
  BY <1>2, <1>4, <1>5, <1>6
<1>. QED  BY <1>2, <1>3, <1>5, <1>6 DEF o

\* The stream of a reader in slot s, and how long it is.
LEMMA StreamInSlot ==
  ASSUME StreamInv, NEW r \in Request, RxOpen(r), NEW s \in Slot, slots[s].req = r
  PROVE  Exact(r, Stream(r)) /\ (EngActive(s) => Len(Stream(r)) = eng[s].gen)
<1>. DEFINE a == Owed(slots[s])  k == Len(out[s].toks)
<1>1. /\ TypeOK /\ FrontTypeOK /\ FrontInv /\ PlacedOnce(r) /\ slots[s] \in SlotState
      /\ SlotOK(slots[s]) /\ Exact(r, a) /\ OutOK(s) /\ Agrees(s)
      /\ out[s] \in [toks : Seq(TokenId), fin : BOOLEAN]
  BY DEF StreamInv, IInv, TypeOK, FrontTypeOK, FrontInv, RequestOK, ExactInv, ExactOK, SlotsAgree
<1>2. a \in Seq(TokenId) /\ Len(a) = slots[s].emitted /\ k \in Nat
  BY <1>1, StreamTypes DEF SlotOK
<1>3. Stream(r) = a \o out[s].toks
  BY <1>1, StreamOfSlot, OutOfSlot DEF Stream
<1>4. CASE Unfinished(s)
  <2>1. out[s].toks = [i \in 1 .. k |-> <<r, Len(a) + i>>]
    BY <1>1, <1>2, <1>4 DEF OutOK
  <2>2. EngActive(s) => eng[s].gen = Len(a) + k
    BY <1>1, <1>2, <1>4 DEF OutOK
  <2>. HIDE DEF a, k
  <2>3. /\ Exact(r, a \o [i \in 1 .. k |-> <<r, Len(a) + i>>])
        /\ Len(a \o [i \in 1 .. k |-> <<r, Len(a) + i>>]) = Len(a) + k
    BY <1>1, <1>2, ExactMore
  <2>. QED  BY <1>3, <2>1, <2>2, <2>3
<1>5. CASE ~Unfinished(s)
  <2>1. out[s].toks = <<>> /\ ~EngActive(s)
    BY <1>1, <1>5 DEF OutOK, Agrees, EngActive
  <2>2. Stream(r) = a
    BY <1>2, <1>3, <2>1, ConcatEmptySeq
  <2>. QED  BY <1>1, <2>1, <2>2
<1>. QED  BY <1>4, <1>5

LEMMA StreamsAreExact == StreamInv => StreamExact
<1>. SUFFICES ASSUME StreamInv, NEW r \in Request
              PROVE  /\ Exact(r, got[r])
                     /\ RxOpen(r) => Exact(r, Stream(r))
                     /\ \A s \in Slot : RxOpen(r) /\ eng[s].req = r => Len(Stream(r)) = eng[s].gen
  BY DEF StreamExact, Exact
<1>1. ExactOK(r) /\ TypeOK /\ FrontTypeOK /\ FrontInv /\ PlacedOnce(r)
  BY DEF StreamInv, IInv, TypeOK, FrontInv, ExactInv
<1>2. Exact(r, got[r])
  BY <1>1 DEF ExactOK
<1>3. ASSUME RxOpen(r) PROVE Exact(r, Stream(r))
  <2>1. CASE ~InSlot(r)
    <3>1. Delivered(r) \in Seq(TokenId)
      BY <1>1, StreamTypes
    <3>2. Stream(r) = Delivered(r)
      BY <1>1, <2>1, <3>1, StreamOfSlot, OutOfSlot, ConcatEmptySeq DEF Stream
    <3>. QED  BY <1>1, <1>3, <3>2 DEF ExactOK
  <2>2. CASE InSlot(r)
    BY <1>3, <2>2, StreamInSlot DEF InSlot
  <2>. QED  BY <2>1, <2>2
<1>4. ASSUME NEW s \in Slot, RxOpen(r), eng[s].req = r PROVE Len(Stream(r)) = eng[s].gen
  BY <1>4, EngineWorksFor, StreamInSlot
<1>. QED  BY <1>2, <1>3, <1>4

(* Backpressure never drops, repeats, reorders or misdelivers a token: what a  *)
(* reader was and will be handed is the first tokens the engine made for it,   *)
(* all of them while it generates, and what any request got is a run of its    *)
(* own tokens from the first.                                                  *)
THEOREM StreamsStayExact == Spec => []StreamExact
BY StreamsAreExact, InitStreams, NextStreams, PTL DEF Spec
===============================================================================
