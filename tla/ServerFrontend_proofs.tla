------------------------- MODULE ServerFrontend_proofs -------------------------
(* Lemmas about ServerFrontend that hold whichever driver works behind it:     *)
(* every operation on jobs, slots and permits leaves the count of permits      *)
(* conserved, and what it changes well typed; a request is in one place, its   *)
(* buffered events follow the ones in its channel, a stream ends once, and its *)
(* end says how many tokens went before.                                       *)
EXTENDS ServerFrontend, SequenceLemmas, FiniteSetTheorems, TLAPS

\* Where a Submit is in a sequence of commands, and which slots are occupied.
SubmitsIn(c) == {i \in 1 .. Len(c) : c[i].cmd = "Submit"}
Working == {s \in Slot : Occupied(s)}

\* The invariant in terms of these two sets.
LEMMA PermitsCount ==
  PermitsConserved <=>
    permits + Cardinality(SubmitsIn(cmds)) + Len(queue) + Cardinality(Working) = Permits
BY DEF PermitsConserved, SubmitsIn, Working

\* Every term of the count is a number.
LEMMA CountTypes ==
  ASSUME FrontTypeOK
  PROVE  /\ permits \in Nat /\ Len(queue) \in Nat /\ Permits \in Nat
         /\ IsFiniteSet(SubmitsIn(cmds)) /\ Cardinality(SubmitsIn(cmds)) \in Nat
         /\ IsFiniteSet(Working) /\ Cardinality(Working) \in Nat
<1>1. permits \in Nat /\ Len(queue) \in Nat /\ Len(cmds) \in Nat
  BY DEF FrontTypeOK
<1>2. Permits \in Nat /\ NSlots - 1 \in Int
  BY FrontendAssumption, RequestsAssumption DEF Permits
<1>3. IsFiniteSet(SubmitsIn(cmds))
  <2>1. IsFiniteSet(1 .. Len(cmds)) /\ SubmitsIn(cmds) \in SUBSET (1 .. Len(cmds))
    BY <1>1, FS_Interval DEF SubmitsIn
  <2>. QED  BY <2>1, FS_Subset
<1>4. IsFiniteSet(Working)
  <2>1. IsFiniteSet(Slot) /\ Working \in SUBSET Slot
    BY <1>2, FS_Interval DEF Slot, Working
  <2>. QED  BY <2>1, FS_Subset
<1>. QED  BY <1>1, <1>2, <1>3, <1>4, FS_CardinalityType

\* A command behind the others counts if it is a Submit.
LEMMA SubmitsAppend ==
  ASSUME FrontTypeOK, NEW c \in Command
  PROVE  Cardinality(SubmitsIn(Append(cmds, c))) =
           Cardinality(SubmitsIn(cmds)) + (IF c.cmd = "Submit" THEN 1 ELSE 0)
<1>. DEFINE old == SubmitsIn(cmds)  n == Len(cmds)
<1>1. n \in Nat /\ Len(Append(cmds, c)) = n + 1
      /\ \A i \in 1 .. n + 1 : Append(cmds, c)[i] = IF i = n + 1 THEN c ELSE cmds[i]
  BY DEF FrontTypeOK
<1>2. SubmitsIn(Append(cmds, c)) = IF c.cmd = "Submit" THEN old \cup {n + 1} ELSE old
  BY <1>1 DEF SubmitsIn
<1>3. n + 1 \notin old
  BY <1>1 DEF SubmitsIn
<1>4. IsFiniteSet(old) /\ Cardinality(old) \in Nat
  BY CountTypes
<1>5. Cardinality(old \cup {n + 1}) = Cardinality(old) + 1
  <2>. HIDE DEF old, n
  <2>. QED  BY <1>3, <1>4, FS_AddElement
<1>6. CASE c.cmd = "Submit"
  BY <1>2, <1>5, <1>6
<1>7. CASE c.cmd # "Submit"
  BY <1>2, <1>4, <1>7
<1>. QED  BY <1>6, <1>7

\* Without a Shutdown every command is a Submit.
LEMMA SubmitsAll ==
  ASSUME FrontTypeOK, ~ShutdownIn(cmds)
  PROVE  Cardinality(SubmitsIn(cmds)) = Len(cmds)
<1>1. cmds \in Seq(Command) /\ Len(cmds) \in Nat
  BY DEF FrontTypeOK
<1>2. \A i \in 1 .. Len(cmds) : cmds[i].cmd = "Submit"
  BY <1>1 DEF ShutdownIn, Command
<1>3. SubmitsIn(cmds) = 1 .. Len(cmds)
  BY <1>2 DEF SubmitsIn
<1>. QED  BY <1>1, <1>3, FS_Interval

\* Emptied tables count for nothing.
LEMMA CountEmpty ==
  /\ Cardinality(SubmitsIn(<<>>)) = 0
  /\ (\A s \in Slot : ~Occupied(s)) => Cardinality(Working) = 0
<1>1. SubmitsIn(<<>>) = {}
  BY DEF SubmitsIn
<1>2. (\A s \in Slot : ~Occupied(s)) => Working = {}
  BY DEF Working
<1>. QED  BY <1>1, <1>2, FS_EmptySet

\* One slot changes hands.
LEMMA WorkingStep ==
  ASSUME FrontTypeOK, NEW s \in Slot, \A t \in Slot : t # s => slots'[t] = slots[t]
  PROVE  Cardinality(Working') =
           Cardinality(Working) + (IF Occupied(s)' /\ ~Occupied(s) THEN 1 ELSE 0)
                                - (IF Occupied(s) /\ ~Occupied(s)' THEN 1 ELSE 0)
<1>1. Working' = CASE Occupied(s)' /\ ~Occupied(s) -> Working \cup {s}
                   [] Occupied(s) /\ ~Occupied(s)' -> Working \ {s}
                   [] OTHER -> Working
  BY DEF Working, Occupied
<1>2. s \in Working <=> Occupied(s)
  BY DEF Working
<1>3. IsFiniteSet(Working) /\ Cardinality(Working) \in Nat
  BY CountTypes
<1>4. ~Occupied(s) => Cardinality(Working \cup {s}) = Cardinality(Working) + 1
  BY <1>2, <1>3, FS_AddElement
<1>5. Occupied(s) => Cardinality(Working \ {s}) = Cardinality(Working) - 1
  BY <1>2, <1>3, FS_RemoveElement
<1>6. CASE Occupied(s)' /\ ~Occupied(s)
  BY <1>1, <1>3, <1>4, <1>6
<1>7. CASE Occupied(s) /\ ~Occupied(s)'
  BY <1>1, <1>3, <1>5, <1>7
<1>8. CASE Occupied(s) <=> Occupied(s)'
  BY <1>1, <1>3, <1>8
<1>. QED  BY <1>6, <1>7, <1>8

-------------------------------------------------------------------------------
(* The operations.                                                            *)

\* Nothing that counts changes.
LEMMA PermitsKept ==
  ASSUME PermitsConserved, permits' = permits, cmds' = cmds, queue' = queue, slots' = slots
  PROVE  PermitsConserved'
BY DEF PermitsConserved, Occupied

\* The handlers: a permit is taken for every job sent, and only then.
LEMMA HandlerPermits ==
  ASSUME FrontTypeOK, PermitsConserved, NEW r \in Request, Handler(r)
  PROVE  PermitsConserved'
<1>1. CASE Submit(r) /\ permits > 0 /\ permits' = permits - 1
  <2>. DEFINE c == [cmd |-> "Submit", job |-> r]
  <2>1. c \in Command /\ c.cmd = "Submit"
    BY DEF Command
  <2>2. cmds' = Append(cmds, c) /\ queue' = queue /\ slots' = slots
    BY <1>1, CountTypes DEF Submit
  <2>. HIDE DEF c
  <2>3. Cardinality(SubmitsIn(cmds')) = Cardinality(SubmitsIn(cmds)) + 1
    BY <2>1, <2>2, SubmitsAppend
  <2>4. Working' = Working
    BY <2>2 DEF Working, Occupied
  <2>5. permits' + Cardinality(SubmitsIn(cmds')) + Len(queue') + Cardinality(Working') = Permits
    BY <1>1, <2>2, <2>3, <2>4, CountTypes, PermitsCount
  <2>. QED  BY <2>5 DEF PermitsConserved, SubmitsIn, Working
<1>2. CASE Submit(r) /\ ~(permits > 0 /\ permits' = permits - 1)
  BY <1>2, PermitsKept DEF Submit
<1>3. CASE Receive(r) \/ ReceiveClosed(r) \/ Disconnect(r)
  BY <1>3, PermitsKept DEF Receive, ReceiveClosed, Disconnect
<1>. QED  BY <1>1, <1>2, <1>3 DEF Handler

\* The shutdown command carries no job.
LEMMA ServerPermits ==
  ASSUME FrontTypeOK, PermitsConserved, Signal \/ ShutdownEngine
  PROVE  PermitsConserved'
<1>1. CASE Signal
  BY <1>1, PermitsKept DEF Signal
<1>2. CASE ShutdownEngine
  <2>. DEFINE c == [cmd |-> "Shutdown", job |-> None]
  <2>1. c \in Command /\ c.cmd # "Submit"
    BY DEF Command
  <2>2. cmds' = Append(cmds, c) /\ queue' = queue /\ slots' = slots /\ permits' = permits
    BY <1>2 DEF ShutdownEngine
  <2>. HIDE DEF c
  <2>3. Cardinality(SubmitsIn(cmds')) = Cardinality(SubmitsIn(cmds))
    BY <2>1, <2>2, SubmitsAppend, CountTypes
  <2>4. Working' = Working
    BY <2>2 DEF Working, Occupied
  <2>5. permits' + Cardinality(SubmitsIn(cmds')) + Len(queue') + Cardinality(Working') = Permits
    BY <2>2, <2>3, <2>4, PermitsCount
  <2>. QED  BY <2>5 DEF PermitsConserved, SubmitsIn, Working
<1>. QED  BY <1>1, <1>2

\* Jobs move from the command channel into the queue, each with its permit.
LEMMA DrainPermits ==
  ASSUME FrontTypeOK, PermitsConserved, DrainCmds
  PROVE  PermitsConserved'
<1>1. Cardinality(SubmitsIn(cmds)) = Len(cmds) /\ Len(cmds) \in Nat /\ Len(queue) \in Nat
  BY SubmitsAll DEF DrainCmds, FrontTypeOK
<1>2. Len(queue') = Len(queue) + Len(cmds)
  <2>1. queue' = queue \o JobsOf(cmds)
    BY DEF DrainCmds
  <2>2. Len(JobsOf(cmds)) = Len(cmds) /\ JobsOf(cmds) \in Seq({cmds[i].job : i \in 1 .. Len(cmds)})
    BY <1>1 DEF JobsOf
  <2>3. queue \in Seq(Request)
    BY DEF FrontTypeOK
  <2>. DEFINE J == JobsOf(cmds)  A == {cmds[i].job : i \in 1 .. Len(cmds)}
  <2>4. ASSUME NEW B, NEW q \in Seq(B), NEW C, NEW j \in Seq(C)
        PROVE  Len(q \o j) = Len(q) + Len(j)
    OBVIOUS
  <2>5. Len(queue \o J) = Len(queue) + Len(J)
    <3>. HIDE DEF J, A
    <3>. QED  BY <2>2, <2>3, <2>4 DEF J, A
  <2>. QED  BY <2>1, <2>2, <2>5
<1>3. cmds' = <<>> /\ permits' = permits /\ Working' = Working
  BY DEF DrainCmds, Working, Occupied
<1>4. permits' + Cardinality(SubmitsIn(cmds')) + Len(queue') + Cardinality(Working') = Permits
  BY <1>1, <1>2, <1>3, CountTypes, CountEmpty, PermitsCount
<1>. QED  BY <1>4 DEF PermitsConserved, SubmitsIn, Working

\* At shutdown every job and slot is dropped and every permit is back.
LEMMA DropPermits ==
  ASSUME DropAll
  PROVE  PermitsConserved'
<1>1. cmds' = <<>> /\ queue' = <<>> /\ permits' = Permits /\ Permits \in Nat
  BY FrontendAssumption, RequestsAssumption DEF DropAll, Permits
<1>2. Working' = {}
  BY DEF DropAll, Working, Occupied, NoSlot
<1>3. permits' + Cardinality(SubmitsIn(cmds')) + Len(queue') + Cardinality(Working') = Permits
  BY <1>1, <1>2, CountEmpty, FS_EmptySet
<1>. QED  BY <1>3 DEF PermitsConserved, SubmitsIn, Working

\* A flush frees the permit exactly when it frees the slot.
LEMMA FlushPermits ==
  ASSUME FrontTypeOK, PermitsConserved, NEW s \in Slot, Occupied(s),
         NEW st \in SlotState, st.req \in Request, FlushSlot(s, st)
  PROVE  PermitsConserved'
<1>1. \A t \in Slot : t # s => slots'[t] = slots[t]
  BY DEF FlushSlot, FrontTypeOK
<1>2. Occupied(s)' <=> FlushOutcome(st) = "Live"
  <2>1. [st EXCEPT !.pending = Refused(st)].req # None
    BY RequestsAssumption DEF SlotState
  <2>. QED  BY <2>1 DEF FlushSlot, FrontTypeOK, Occupied, NoSlot
<1>3. Cardinality(Working') = Cardinality(Working) - (IF FlushOutcome(st) = "Live" THEN 0 ELSE 1)
  BY <1>1, <1>2, WorkingStep, CountTypes
<1>4. /\ cmds' = cmds /\ queue' = queue
      /\ permits' = permits + (IF FlushOutcome(st) = "Live" THEN 0 ELSE 1)
  BY DEF FlushSlot
<1>5. permits' + Cardinality(SubmitsIn(cmds')) + Len(queue') + Cardinality(Working') = Permits
  BY <1>3, <1>4, CountTypes, PermitsCount
<1>. QED  BY <1>5 DEF PermitsConserved, SubmitsIn, Working

\* A failed slot frees its permit, whether or not its Error got through.
LEMMA FailPermits ==
  ASSUME FrontTypeOK, PermitsConserved, NEW s \in Slot, Occupied(s), FailSlot(s)
  PROVE  PermitsConserved'
<1>1. \A t \in Slot : t # s => slots'[t] = slots[t]
  BY DEF FailSlot, FrontTypeOK
<1>2. ~Occupied(s)'
  BY DEF FailSlot, FrontTypeOK, Occupied, NoSlot
<1>3. Cardinality(Working') = Cardinality(Working) - 1
  BY <1>1, <1>2, WorkingStep, CountTypes
<1>4. cmds' = cmds /\ queue' = queue /\ permits' = permits + 1
  BY DEF FailSlot, SendError
<1>5. permits' + Cardinality(SubmitsIn(cmds')) + Len(queue') + Cardinality(Working') = Permits
  BY <1>3, <1>4, CountTypes, PermitsCount
<1>. QED  BY <1>5 DEF PermitsConserved, SubmitsIn, Working

\* A job of the queue moves into a free slot and takes its permit along.
LEMMA AdmitPermits ==
  ASSUME FrontTypeOK, PermitsConserved, NEW s \in Slot, ~Occupied(s), queue # <<>>,
         queue' = Tail(queue), slots' = [slots EXCEPT ![s] = NewSlot(Head(queue))],
         cmds' = cmds, permits' = permits
  PROVE  PermitsConserved'
<1>1. Head(queue) \in Request /\ Len(queue') = Len(queue) - 1
  <2>1. queue \in Seq(Request)
    BY DEF FrontTypeOK
  <2>. QED  BY <2>1
<1>2. Occupied(s)' /\ \A t \in Slot : t # s => slots'[t] = slots[t]
  BY <1>1, RequestsAssumption DEF FrontTypeOK, Occupied, NewSlot, NoSlot
<1>3. Cardinality(Working') = Cardinality(Working) + 1
  BY <1>2, WorkingStep, CountTypes
<1>4. permits' + Cardinality(SubmitsIn(cmds')) + Len(queue') + Cardinality(Working') = Permits
  BY <1>1, <1>3, CountTypes, PermitsCount
<1>. QED  BY <1>4 DEF PermitsConserved, SubmitsIn, Working

\* A job that cannot be admitted is dropped with its permit.
LEMMA RejectPermits ==
  ASSUME FrontTypeOK, PermitsConserved, queue # <<>>, SendError(Head(queue)),
         queue' = Tail(queue), slots' = slots, cmds' = cmds
  PROVE  PermitsConserved'
<1>1. Len(queue') = Len(queue) - 1 /\ permits' = permits + 1
  <2>1. queue \in Seq(Request)
    BY DEF FrontTypeOK
  <2>. QED  BY <2>1 DEF SendError
<1>2. Working' = Working
  BY DEF Working, Occupied
<1>3. permits' + Cardinality(SubmitsIn(cmds')) + Len(queue') + Cardinality(Working') = Permits
  BY <1>1, <1>2, CountTypes, PermitsCount
<1>. QED  BY <1>3 DEF PermitsConserved, SubmitsIn, Working

\* At the start every permit is free.
LEMMA InitPermits == FrontInit => PermitsConserved
<1>. SUFFICES ASSUME FrontInit PROVE PermitsConserved
  OBVIOUS
<1>1. \A s \in Slot : ~Occupied(s)
  BY DEF FrontInit, Occupied, NoSlot
<1>2. permits = Permits /\ cmds = <<>> /\ queue = <<>> /\ Permits \in Nat
  BY FrontendAssumption, RequestsAssumption DEF FrontInit, Permits
<1>. QED  BY <1>1, <1>2, CountEmpty, PermitsCount

-------------------------------------------------------------------------------
(* Types: the operations leave the frontend well typed.                       *)

USE RequestsAssumption, FrontendAssumption

\* Slots exist and are numbered from 0; free records are well typed.
LEMMA SlotFacts ==
  /\ 0 \in Slot /\ NSlots - 1 \in Slot
  /\ \A s \in Slot : s # NSlots - 1 => s + 1 \in Slot
  /\ NoSlot \in SlotState
  /\ \A r \in Request : NewSlot(r) \in SlotState
<1>1. 0 \in Slot /\ NSlots - 1 \in Slot /\ \A s \in Slot : s # NSlots - 1 => s + 1 \in Slot
  BY DEF Slot, RequestsAssumption
<1>2. <<>> \in Seq(Event)
  OBVIOUS
<1>3. NoSlot \in SlotState
  BY <1>2 DEF NoSlot, SlotState
<1>4. \A r \in Request : NewSlot(r) \in SlotState
  BY <1>2 DEF NewSlot, NoSlot, SlotState
<1>. QED  BY <1>1, <1>3, <1>4

\* What a flush leaves behind is well typed: it moves events, and never more
\* than the channel has room for.
LEMMA FlushSlotType ==
  ASSUME FrontTypeOK, NEW s \in Slot, NEW st \in SlotState, st.req \in Request,
         FlushSlot(s, st)
  PROVE  FrontTypeOK'
<1>. DEFINE c == chan[st.req]  p == st.pending  n == Fit(st)
<1>1. c \in Seq(Event) /\ Len(c) <= ChanCap /\ p \in Seq(Event)
  BY DEF FrontTypeOK, SlotState, Channel
<1>2. n \in Nat /\ n <= Len(p) /\ Len(c) + n <= ChanCap
  <2>1. Len(c) \in Nat /\ Len(p) \in Nat
    <3>. HIDE DEF c, p
    <3>. QED  BY <1>1
  <2>2. ChanCap \in Nat
    BY DEF FrontendAssumption
  <2>3. n = IF ChanCap - Len(c) < Len(p) THEN ChanCap - Len(c) ELSE Len(p)
    BY DEF Fit, Room
  <2>. HIDE DEF c, p, n
  <2>. QED  BY <1>1, <2>1, <2>2, <2>3
<1>3. Accepted(st) \in Seq(Event) /\ Len(Accepted(st)) = n /\ Refused(st) \in Seq(Event)
  <2>. HIDE DEF p, n
  <2>1. SubSeq(p, 1, n) \in Seq(Event) /\ Len(SubSeq(p, 1, n)) = n
    BY <1>1, <1>2
  <2>2. SubSeq(p, n + 1, Len(p)) \in Seq(Event)
    BY <1>1, <1>2
  <2>. QED  BY <2>1, <2>2 DEF Accepted, Refused, p, n
<1>4. c \o Accepted(st) \in Channel
  <2>. HIDE DEF c, n
  <2>. QED  BY <1>1, <1>2, <1>3 DEF Channel
<1>5. chan' \in [Request -> Channel]
  BY <1>4 DEF FlushSlot, FrontTypeOK
<1>6. slots' \in [Slot -> SlotState]
  <2>1. [st EXCEPT !.pending = Refused(st)] \in SlotState
    BY <1>3 DEF SlotState
  <2>. QED  BY <2>1, SlotFacts DEF FlushSlot, FrontTypeOK
<1>7. permits' \in Nat
  BY DEF FlushSlot, FrontTypeOK
<1>. QED  BY <1>5, <1>6, <1>7 DEF FlushSlot, FrontTypeOK

\* An Error goes out only where it fits, and frees a permit.
LEMMA SendErrorType ==
  ASSUME FrontTypeOK, NEW r \in Request, SendError(r)
  PROVE  chan' \in [Request -> Channel] /\ cut' \in SUBSET Request /\ permits' \in Nat
<1>1. Error \in Event
  BY DEF Error, Event
<1>2. Room(r) > 0 => Append(chan[r], Error) \in Channel
  <2>. DEFINE c == chan[r]  e == Error
  <2>1. c \in Seq(Event) /\ Len(c) <= ChanCap /\ e \in Event
    BY <1>1 DEF FrontTypeOK, Channel
  <2>2. Room(r) = ChanCap - Len(c) /\ ChanCap \in Nat
    BY DEF Room, FrontendAssumption
  <2>3. Len(c) \in Nat /\ Append(c, e) \in Seq(Event) /\ Len(Append(c, e)) = Len(c) + 1
    <3>. HIDE DEF c, e
    <3>. QED  BY <2>1
  <2>. QED  BY <2>1, <2>2, <2>3 DEF Channel
<1>. QED  BY <1>2 DEF SendError, FrontTypeOK

\* The frontend is well typed after each step of the request handlers.
LEMMA HandlerType ==
  ASSUME FrontTypeOK, NEW r \in Request, Handler(r)
  PROVE  FrontTypeOK'
<1>1. CASE Submit(r)
  <2>1. [cmd |-> "Submit", job |-> r] \in Command
    BY DEF Command
  <2>2. cmds' \in Seq(Command)
    <3>. DEFINE c == [cmd |-> "Submit", job |-> r]
    <3>1. cmds \in Seq(Command) /\ (cmds' = cmds \/ cmds' = Append(cmds, c))
      BY <1>1 DEF Submit, FrontTypeOK
    <3>. HIDE DEF c
    <3>. QED  BY <2>1, <3>1 DEF c
  <2>3. permits' \in Nat
    <3>1. CASE permits = 0
      BY <1>1, <3>1 DEF Submit, FrontTypeOK
    <3>2. CASE permits > 0
      BY <1>1, <3>2 DEF Submit, FrontTypeOK
    <3>. QED  BY <3>1, <3>2 DEF FrontTypeOK
  <2>4. client' \in [Request -> {"new", "refused", "reading", "stopped", "eos", "limit",
                                 "error", "gone"}]
    BY <1>1 DEF Submit, FrontTypeOK
  <2>. QED  BY <1>1, <2>2, <2>3, <2>4 DEF Submit, FrontTypeOK
<1>2. CASE Receive(r)
  <2>. DEFINE c == chan[r]
  <2>1. c \in Seq(Event) /\ c # <<>> /\ Len(c) <= ChanCap
    BY <1>2 DEF Receive, FrontTypeOK, Channel
  <2>2. Head(c) \in Event /\ Tail(c) \in Seq(Event) /\ Len(Tail(c)) = Len(c) - 1
    <3>. HIDE DEF c
    <3>. QED  BY <2>1
  <2>3. Tail(c) \in Channel /\ <<>> \in Channel
    <3>1. ChanCap \in Nat /\ Len(c) \in Nat
      <4>. HIDE DEF c
      <4>. QED  BY <2>1 DEF FrontendAssumption
    <3>2. <<>> \in Seq(Event) /\ Len(<<>>) = 0
      OBVIOUS
    <3>. HIDE DEF c
    <3>. QED  BY <2>1, <2>2, <3>1, <3>2 DEF Channel
  <2>4. got[r] \o Head(c).ids \in Seq(TokenId)
    <3>1. Head(c).ids \in Seq(TokenId) /\ got[r] \in Seq(TokenId)
      BY <2>2 DEF Event, FrontTypeOK
    <3>. QED  BY <3>1
  <2>5. got' \in [Request -> Seq(TokenId)]
    BY <1>2, <2>4 DEF Receive, FrontTypeOK
  <2>6. PICK next \in AfterEvent(Head(c)) :
           /\ client' = [client EXCEPT ![r] = next]
           /\ chan' = [chan EXCEPT ![r] = IF next = "reading" THEN Tail(@) ELSE <<>>]
    BY <1>2 DEF Receive
  <2>7. next \in {"reading", "stopped", "eos", "limit", "error"}
    <3>1. Head(c).kind \in {"Tokens", "Eos", "Limit", "Error"}
      BY <2>2 DEF Event
    <3>. HIDE DEF c
    <3>. QED  BY <2>6, <3>1 DEF AfterEvent
  <2>8. chan' \in [Request -> Channel]
    BY <2>3, <2>6 DEF FrontTypeOK
  <2>. QED  BY <1>2, <2>5, <2>6, <2>7, <2>8 DEF Receive, FrontTypeOK
<1>3. CASE ReceiveClosed(r)
  BY <1>3 DEF ReceiveClosed, FrontTypeOK
<1>4. CASE Disconnect(r)
  <2>1. <<>> \in Channel
    <3>1. <<>> \in Seq(Event) /\ Len(<<>>) = 0
      OBVIOUS
    <3>. QED  BY <3>1 DEF Channel, FrontendAssumption
  <2>. QED  BY <1>4, <2>1 DEF Disconnect, FrontTypeOK
<1>. QED  BY <1>1, <1>2, <1>3, <1>4 DEF Handler

\* The server's own steps: a signal, and the shutdown command.
LEMMA ServerType ==
  ASSUME FrontTypeOK, Signal \/ ShutdownEngine
  PROVE  FrontTypeOK'
<1>1. CASE Signal
  BY <1>1 DEF Signal, FrontTypeOK
<1>2. CASE ShutdownEngine
  <2>1. [cmd |-> "Shutdown", job |-> None] \in Command
    BY DEF Command
  <2>2. cmds' \in Seq(Command)
    BY <1>2, <2>1 DEF ShutdownEngine, FrontTypeOK
  <2>. QED  BY <1>2, <2>2 DEF ShutdownEngine, FrontTypeOK
<1>. QED  BY <1>1, <1>2

\* Without a Shutdown, every command carries a job.
LEMMA DrainType ==
  ASSUME FrontTypeOK, DrainCmds
  PROVE  FrontTypeOK'
<1>1. cmds \in Seq(Command) /\ Len(cmds) \in Nat
  BY DEF FrontTypeOK
<1>2. \A i \in 1 .. Len(cmds) : cmds[i].job \in Request
  <2>. TAKE i \in 1 .. Len(cmds)
  <2>1. cmds[i] \in Command
    BY <1>1
  <2>2. cmds[i].cmd # "Shutdown"
    BY DEF DrainCmds, ShutdownIn
  <2>. QED  BY <2>1, <2>2 DEF Command
<1>3. JobsOf(cmds) \in Seq(Request)
  BY <1>1, <1>2 DEF JobsOf
<1>4. queue \o JobsOf(cmds) \in Seq(Request)
  <2>1. queue \in Seq(Request)
    BY DEF FrontTypeOK
  <2>. QED  BY <1>3, <2>1
<1>5. <<>> \in Seq(Command)
  OBVIOUS
<1>. QED  BY <1>4, <1>5 DEF DrainCmds, FrontTypeOK

\* Dropping every job and slot leaves empty, well-typed tables.
LEMMA DropType ==
  ASSUME FrontTypeOK, DropAll
  PROVE  FrontTypeOK'
<1>1. <<>> \in Seq(Command) /\ <<>> \in Seq(Request)
  OBVIOUS
<1>2. Permits \in Nat
  BY DEF Permits, FrontendAssumption, RequestsAssumption
<1>3. slots' \in [Slot -> SlotState]
  BY SlotFacts DEF DropAll
<1>. QED  BY <1>1, <1>2, <1>3 DEF DropAll, FrontTypeOK

\* Failing an occupied slot.
LEMMA FailSlotType ==
  ASSUME FrontTypeOK, NEW s \in Slot, Occupied(s), FailSlot(s)
  PROVE  FrontTypeOK'
<1>1. slots[s].req \in Request
  BY DEF Occupied, FrontTypeOK, SlotState
<1>2. chan' \in [Request -> Channel] /\ cut' \in SUBSET Request /\ permits' \in Nat
  BY <1>1, SendErrorType DEF FailSlot
<1>. QED  BY <1>2, SlotFacts DEF FailSlot, FrontTypeOK

\* A job moves into a slot, or is dropped.
LEMMA AdmitType ==
  ASSUME FrontTypeOK, NEW s \in Slot, queue # <<>>, queue' = Tail(queue),
         slots' = [slots EXCEPT ![s] = NewSlot(Head(queue))],
         UNCHANGED <<server, client, got, chan, permits, cmds, cut>>
  PROVE  FrontTypeOK'
<1>1. Head(queue) \in Request /\ Tail(queue) \in Seq(Request)
  <2>1. queue \in Seq(Request)
    BY DEF FrontTypeOK
  <2>. QED  BY <2>1
<1>2. slots' \in [Slot -> SlotState]
  BY <1>1, SlotFacts DEF FrontTypeOK
<1>. QED  BY <1>1, <1>2 DEF FrontTypeOK

\* At the start.
LEMMA FrontInitType == FrontInit => FrontTypeOK
<1>. SUFFICES ASSUME FrontInit PROVE FrontTypeOK
  OBVIOUS
<1>1. <<>> \in Seq(TokenId) /\ <<>> \in Channel /\ <<>> \in Seq(Command) /\ <<>> \in Seq(Request)
  <2>1. <<>> \in Seq(Event) /\ Len(<<>>) = 0
    OBVIOUS
  <2>. QED  BY <2>1 DEF Channel, FrontendAssumption
<1>2. Permits \in Nat
  BY DEF Permits, FrontendAssumption, RequestsAssumption
<1>. QED  BY <1>1, <1>2, SlotFacts DEF FrontInit, FrontTypeOK

-------------------------------------------------------------------------------
(* The tokens of a sequence of events.                                        *)

LEMMA PartsType ==
  ASSUME NEW evs \in Seq(Event)
  PROVE  [i \in 1 .. Len(evs) |-> evs[i].ids] \in Seq(Seq(TokenId))
<1>1. Len(evs) \in Nat /\ \A i \in 1 .. Len(evs) : evs[i] \in Event
  OBVIOUS
<1>2. \A i \in 1 .. Len(evs) : evs[i].ids \in Seq(TokenId)
  BY <1>1 DEF Event
<1>. QED  BY <1>1, <1>2

LEMMA IdsType ==
  ASSUME NEW evs \in Seq(Event)
  PROVE  IdsOf(evs) \in Seq(TokenId)
BY PartsType, FlattenType DEF IdsOf

LEMMA IdsNone == IdsOf(<<>>) = <<>>
<1>1. [i \in 1 .. Len(<<>>) |-> <<>>[i].ids] = <<>>
  OBVIOUS
<1>. QED  BY <1>1, FlattenEmpty DEF IdsOf

\* The tokens of two runs of events.
LEMMA IdsConcat ==
  ASSUME NEW a \in Seq(Event), NEW b \in Seq(Event)
  PROVE  IdsOf(a \o b) = IdsOf(a) \o IdsOf(b)
<1>. DEFINE parts(evs) == [i \in 1 .. Len(evs) |-> evs[i].ids]
<1>1. /\ a \o b \in Seq(Event) /\ Len(a) \in Nat /\ Len(b) \in Nat
      /\ Len(a \o b) = Len(a) + Len(b)
      /\ \A i \in 1 .. Len(a) + Len(b) :
           (a \o b)[i] = IF i <= Len(a) THEN a[i] ELSE b[i - Len(a)]
  BY ConcatProperties
<1>2. parts(a) \in Seq(Seq(TokenId)) /\ parts(b) \in Seq(Seq(TokenId))
      /\ parts(a \o b) \in Seq(Seq(TokenId))
  BY <1>1, PartsType
<1>3. Len(parts(a)) = Len(a) /\ Len(parts(b)) = Len(b) /\ Len(parts(a \o b)) = Len(a) + Len(b)
  BY <1>1
<1>4. /\ parts(a) \o parts(b) \in Seq(Seq(TokenId))
      /\ Len(parts(a) \o parts(b)) = Len(a) + Len(b)
      /\ \A i \in 1 .. Len(a) + Len(b) :
           (parts(a) \o parts(b))[i] = IF i <= Len(a) THEN parts(a)[i] ELSE parts(b)[i - Len(a)]
  <2>. HIDE DEF parts
  <2>1. ASSUME NEW S, NEW p \in Seq(S), NEW q \in Seq(S), Len(p) = Len(a), Len(q) = Len(b)
        PROVE  /\ p \o q \in Seq(S)
               /\ Len(p \o q) = Len(a) + Len(b)
               /\ \A i \in 1 .. Len(a) + Len(b) :
                    (p \o q)[i] = IF i <= Len(a) THEN p[i] ELSE q[i - Len(a)]
    <3>1. /\ p \o q \in Seq(S)
          /\ Len(p \o q) = Len(p) + Len(q)
          /\ \A i \in 1 .. Len(p) + Len(q) :
               (p \o q)[i] = IF i <= Len(p) THEN p[i] ELSE q[i - Len(p)]
      BY ConcatProperties
    <3>. QED  BY <2>1, <3>1
  <2>. QED  BY <1>2, <1>3, <2>1
<1>5. \A i \in 1 .. Len(a) + Len(b) : parts(a \o b)[i] = (parts(a) \o parts(b))[i]
  <2>. TAKE i \in 1 .. Len(a) + Len(b)
  <2>1. parts(a \o b)[i] = (a \o b)[i].ids
    BY <1>1
  <2>2. CASE i <= Len(a)
    <3>1. i \in 1 .. Len(a)
      BY <1>1, <2>2
    <3>. QED  BY <1>1, <1>4, <2>1, <2>2, <3>1
  <2>3. CASE ~(i <= Len(a))
    <3>1. i - Len(a) \in 1 .. Len(b)
      BY <1>1, <2>3
    <3>. QED  BY <1>1, <1>4, <2>1, <2>3, <3>1
  <2>. QED  BY <2>2, <2>3
<1>6. parts(a \o b) = parts(a) \o parts(b)
  <2>. HIDE DEF parts
  <2>. QED  BY <1>2, <1>3, <1>4, <1>5, SeqEqual
<1>. QED  BY <1>2, <1>6, FlattenConcat, ZenonT(60) DEF IdsOf

\* The tokens of one event.
LEMMA IdsOne ==
  ASSUME NEW e \in Event
  PROVE  IdsOf(<<e>>) = e.ids
<1>1. [i \in 1 .. Len(<<e>>) |-> <<e>>[i].ids] = <<e.ids>>
  OBVIOUS
<1>2. e.ids \in Seq(TokenId)
  BY DEF Event
<1>. QED  BY <1>1, <1>2, FlattenOne DEF IdsOf

\* The first event's tokens come first.
LEMMA IdsHead ==
  ASSUME NEW c \in Seq(Event), c # <<>>
  PROVE  IdsOf(c) = Head(c).ids \o IdsOf(Tail(c))
<1>1. Head(c) \in Event /\ Tail(c) \in Seq(Event) /\ c = <<Head(c)>> \o Tail(c)
      /\ <<Head(c)>> \in Seq(Event)
  OBVIOUS
<1>. QED  BY <1>1, IdsConcat, IdsOne, ZenonT(60)

\* One more event.
LEMMA IdsAppend ==
  ASSUME NEW c \in Seq(Event), NEW e \in Event
  PROVE  IdsOf(Append(c, e)) = IdsOf(c) \o e.ids
<1>1. <<e>> \in Seq(Event) /\ Append(c, e) = c \o <<e>>
  BY AppendIsConcat
<1>. QED  BY <1>1, IdsConcat, IdsOne

\* Runs of tokens are joined in any grouping.
LEMMA TokensConcat ==
  \A a, b \in Seq(TokenId) :
    /\ a \o b \in Seq(TokenId) /\ Len(a \o b) = Len(a) + Len(b)
    /\ a \o <<>> = a /\ <<>> \o a = a
    /\ \A d \in Seq(TokenId) : (a \o b) \o d = a \o (b \o d)
BY ConcatProperties, ConcatAssociative, ConcatEmptySeq

-------------------------------------------------------------------------------
(* Runs of a request's own tokens.                                            *)

\* ids is the first tokens of r.
Exact(r, ids) == ids = FirstTokens(r, Len(ids))

\* What comes first of an exact run is exact.
LEMMA ExactPrefix ==
  ASSUME NEW r \in Request, NEW a \in Seq(TokenId), NEW b \in Seq(TokenId), Exact(r, a \o b)
  PROVE  Exact(r, a)
<1>1. /\ Len(a) \in Nat /\ Len(b) \in Nat /\ Len(a \o b) = Len(a) + Len(b)
      /\ \A i \in 1 .. Len(a) : i \in 1 .. Len(a) + Len(b) /\ (a \o b)[i] = a[i]
  BY ConcatProperties
<1>2. \A i \in 1 .. Len(a) : a[i] = <<r, i>>
  BY <1>1 DEF Exact, FirstTokens
<1>. QED  BY <1>1, <1>2 DEF Exact, FirstTokens

\* An exact run goes on with the next numbers.
LEMMA ExactMore ==
  ASSUME NEW r \in Request, NEW a \in Seq(TokenId), Exact(r, a), NEW n \in Nat
  PROVE  LET b == [i \in 1 .. n |-> <<r, Len(a) + i>>] IN
         b \in Seq(TokenId) /\ Exact(r, a \o b) /\ Len(a \o b) = Len(a) + n
<1>. DEFINE b == [i \in 1 .. n |-> <<r, Len(a) + i>>]
<1>0. Len(a) \in Nat
  OBVIOUS
<1>1. b \in Seq(TokenId) /\ Len(b) = n
  BY <1>0 DEF TokenId
<1>2. /\ a \o b \in Seq(TokenId) /\ Len(a \o b) = Len(a) + n
      /\ \A i \in 1 .. Len(a) + n : (a \o b)[i] = IF i <= Len(a) THEN a[i] ELSE b[i - Len(a)]
  <2>. HIDE DEF b
  <2>. QED  BY <1>1, ConcatProperties, ZenonT(60)
<1>3. \A i \in 1 .. Len(a) + n : (a \o b)[i] = <<r, i>>
  <2>. TAKE i \in 1 .. Len(a) + n
  <2>1. CASE i <= Len(a)
    <3>1. i \in 1 .. Len(a)
      BY <1>0, <2>1
    <3>. QED  BY <1>2, <2>1, <3>1 DEF Exact, FirstTokens
  <2>2. CASE ~(i <= Len(a))
    <3>1. i - Len(a) \in 1 .. n /\ Len(a) + (i - Len(a)) = i
      BY <1>0, <2>2
    <3>. QED  BY <1>2, <2>2, <3>1
  <2>. QED  BY <2>1, <2>2
<1>4. a \o b = [i \in 1 .. Len(a) + n |-> <<r, i>>]
  <2>. HIDE DEF b
  <2>1. a \o b \in [1 .. Len(a \o b) -> TokenId]
    BY <1>2, LenProperties
  <2>. QED  BY <1>2, <1>3, <2>1
<1>. QED  BY <1>1, <1>2, <1>4 DEF Exact, FirstTokens

\* No tokens are exact.
LEMMA ExactNone == ASSUME NEW r PROVE Exact(r, <<>>)
BY DEF Exact, FirstTokens

-------------------------------------------------------------------------------
(* The invariant, request by request.                                         *)

\* Tokens r's handler has, or will find in its channel.
Delivered(r) == got[r] \o IdsOf(chan[r])

\* ... and those buffered behind them in a slot with record st.
Owed(st) == Delivered(st.req) \o IdsOf(st.pending)

IsEnd(e) == e.kind # "Tokens"

\* A stream of r that ended with `kind` after n tokens did not lie.
EndsAs(kind, r, n) ==
  /\ kind = "Eos" => n < MaxGen[r]
  /\ kind = "Limit" => n = MaxGen[r]

\* r is in the command channel, in the queue or in a slot, and there once.
PlacedOnce(r) ==
  /\ \A i, j \in 1 .. Len(cmds) : cmds[i].job = r /\ cmds[j].job = r => i = j
  /\ \A i, j \in 1 .. Len(queue) : queue[i] = r /\ queue[j] = r => i = j
  /\ \A s, t \in Slot : slots[s].req = r /\ slots[t].req = r => s = t
  /\ ~(Submitted(r) /\ Queued(r)) /\ ~(Submitted(r) /\ InSlot(r)) /\ ~(Queued(r) /\ InSlot(r))

\* The record st of a slot: `emitted` counts what was buffered for a reader,
\* and the buffer ends with Eos or Limit exactly when the slot is finished.
SlotOK(st) ==
  /\ RxOpen(st.req) => Len(Owed(st)) = st.emitted
  /\ \A i \in 1 .. Len(st.pending) : IsEnd(st.pending[i]) =>
       /\ i = Len(st.pending) /\ st.finished
       /\ st.pending[i].kind \in {"Eos", "Limit"}
       /\ EndsAs(st.pending[i].kind, st.req, st.emitted)
  /\ st.finished => st.pending # <<>> /\ IsEnd(st.pending[Len(st.pending)])

\* Nothing was sent yet to a request that waits.
WaitOK(r) ==
  /\ client[r] = "new" => ~Held(r)
  /\ client[r] = "new" \/ Submitted(r) \/ Queued(r) => got[r] = <<>> /\ chan[r] = <<>>

\* A channel has events for a reader only; an end is its last event, of a
\* request nobody works for, and nobody works for a reader that has none coming
\* only if its Error was refused.
ChanOK(r) ==
  /\ chan[r] # <<>> => RxOpen(r)
  /\ \A i \in 1 .. Len(chan[r]) : IsEnd(chan[r][i]) =>
       /\ i = Len(chan[r]) /\ ~Held(r)
       /\ EndsAs(chan[r][i].kind, r, Len(Delivered(r)))
  /\ RxOpen(r) /\ ~Held(r) => r \in cut \/ (chan[r] # <<>> /\ IsEnd(chan[r][Len(chan[r])]))

\* EndIsTruthful, for one request.
EndOK(r) ==
  /\ client[r] = "eos" => Len(got[r]) < MaxGen[r]
  /\ client[r] = "limit" => Len(got[r]) = MaxGen[r] \/ r \in cut

RequestOK(r) == /\ WaitOK(r) /\ ChanOK(r) /\ EndOK(r)
                /\ \A s \in Slot : slots[s].req = r => SlotOK(slots[s])

\* The command to shut down is the last the handlers send.
DownOK == /\ ShutdownIn(cmds) => server = "down"
          /\ server = "down" => \A r \in Request : ~RxOpen(r)

FrontInv == DownOK /\ \A r \in Request : PlacedOnce(r) /\ RequestOK(r)

\* What r got, and what it will get, is a run of its own tokens from the first.
ExactOK(r) ==
  /\ Exact(r, got[r])
  /\ RxOpen(r) => Exact(r, Delivered(r))
  /\ \A s \in Slot : slots[s].req = r /\ RxOpen(r) => Exact(r, Owed(slots[s]))

ExactInv == \A r \in Request : ExactOK(r)

\* The parts of a stream are sequences.
LEMMA StreamTypes ==
  ASSUME FrontTypeOK
  PROVE  /\ \A r \in Request : /\ got[r] \in Seq(TokenId) /\ chan[r] \in Seq(Event)
                                /\ IdsOf(chan[r]) \in Seq(TokenId)
                                /\ Delivered(r) \in Seq(TokenId)
         /\ \A st \in SlotState : st.req \in Request =>
              /\ st.pending \in Seq(Event) /\ IdsOf(st.pending) \in Seq(TokenId)
              /\ Owed(st) \in Seq(TokenId)
<1>1. ASSUME NEW r \in Request
      PROVE  /\ got[r] \in Seq(TokenId) /\ chan[r] \in Seq(Event)
             /\ IdsOf(chan[r]) \in Seq(TokenId) /\ Delivered(r) \in Seq(TokenId)
  <2>1. got[r] \in Seq(TokenId) /\ chan[r] \in Seq(Event)
    BY DEF FrontTypeOK, Channel
  <2>2. IdsOf(chan[r]) \in Seq(TokenId)
    BY <2>1, IdsType
  <2>. QED  BY <2>1, <2>2, ConcatProperties DEF Delivered
<1>2. ASSUME NEW st \in SlotState, st.req \in Request
      PROVE  /\ st.pending \in Seq(Event) /\ IdsOf(st.pending) \in Seq(TokenId)
             /\ Owed(st) \in Seq(TokenId)
  <2>1. st.pending \in Seq(Event)
    BY DEF SlotState
  <2>2. IdsOf(st.pending) \in Seq(TokenId)
    BY <2>1, IdsType
  <2>. QED  BY <1>1, <1>2, <2>1, <2>2, ConcatProperties DEF Owed
<1>. QED  BY <1>1, <1>2

\* The two properties a run checks are parts of it.
LEMMA FrontInvEnds == FrontInv => EndIsTruthful
BY DEF FrontInv, RequestOK, EndOK, EndIsTruthful

-------------------------------------------------------------------------------
(* A step that has nothing to do with a request leaves its part of the        *)
(* invariant alone.                                                           *)
Untouched(r) ==
  /\ client'[r] = client[r] /\ got'[r] = got[r] /\ chan'[r] = chan[r]
  /\ r \in cut => r \in cut'
  /\ \A s \in Slot : slots'[s].req = r => slots'[s] = slots[s]

SamePlace(r) == /\ Submitted(r)' <=> Submitted(r)
                /\ Queued(r)' <=> Queued(r)
                /\ InSlot(r)' <=> InSlot(r)

LEMMA RequestKept ==
  ASSUME NEW r \in Request, Untouched(r), Held(r)' <=> Held(r),
         (Submitted(r) \/ Queued(r))' => Submitted(r) \/ Queued(r)
  PROVE  /\ RequestOK(r) => RequestOK(r)'
         /\ ExactOK(r) => ExactOK(r)'
<1>1. Delivered(r)' = Delivered(r) /\ (RxOpen(r)' <=> RxOpen(r))
  BY DEF Untouched, Delivered, RxOpen
<1>2. \A s \in Slot : slots'[s].req = r => Owed(slots[s])' = Owed(slots[s])
  BY <1>1 DEF Untouched, Owed
<1>3. ASSUME NEW s \in Slot, slots'[s].req = r, SlotOK(slots[s])
      PROVE  SlotOK(slots[s])'
  BY <1>1, <1>2, <1>3 DEF Untouched, SlotOK
<1>4. ASSUME RequestOK(r) PROVE RequestOK(r)'
  <2>1. WaitOK(r)'
    BY <1>4 DEF RequestOK, WaitOK, Untouched
  <2>2. ChanOK(r)'
    BY <1>1, <1>4 DEF RequestOK, ChanOK, Untouched
  <2>3. EndOK(r)'
    BY <1>4 DEF RequestOK, EndOK, Untouched
  <2>4. \A s \in Slot : slots'[s].req = r => SlotOK(slots[s])'
    BY <1>3, <1>4 DEF RequestOK, Untouched
  <2>. QED  BY <2>1, <2>2, <2>3, <2>4 DEF RequestOK
<1>5. ASSUME ExactOK(r) PROVE ExactOK(r)'
  BY <1>1, <1>2, <1>5 DEF ExactOK, Untouched
<1>. QED  BY <1>4, <1>5

\* At the start.
LEMMA InitFront == FrontInit => FrontInv /\ ExactInv
<1>. SUFFICES ASSUME FrontInit PROVE FrontInv /\ ExactInv
  OBVIOUS
<1>0. \A s \in Slot, r \in Request : slots[s].req # r
  BY DEF FrontInit, NoSlot, RequestsAssumption
<1>9. Len(cmds) = 0 /\ Len(queue) = 0 /\ 1 .. 0 = {}
  BY DEF FrontInit
<1>1. \A r \in Request : PlacedOnce(r) /\ ~Held(r)
  BY <1>0, <1>9 DEF PlacedOnce, Held, Submitted, Queued, InSlot
<1>2. \A r \in Request : RequestOK(r)
  <2>. TAKE r \in Request
  <2>1. client[r] = "new" /\ got[r] = <<>> /\ chan[r] = <<>> /\ Len(chan[r]) = 0
    BY DEF FrontInit
  <2>2. WaitOK(r) /\ EndOK(r)
    BY <1>1, <2>1 DEF WaitOK, EndOK
  <2>3. ChanOK(r)
    BY <1>9, <2>1 DEF ChanOK, RxOpen
  <2>. QED  BY <1>0, <2>2, <2>3 DEF RequestOK
<1>3. \A r \in Request : ExactOK(r)
  BY <1>0, ExactNone DEF FrontInit, ExactOK, RxOpen
<1>4. DownOK
  BY DEF FrontInit, DownOK, ShutdownIn
<1>. QED  BY <1>1, <1>2, <1>3, <1>4 DEF FrontInv, ExactInv

-------------------------------------------------------------------------------
(* The handlers.                                                              *)

\* A step that concerns r alone keeps the invariant if it keeps r's part.
LEMMA OnlyRequest ==
  ASSUME FrontInv, DownOK', NEW r \in Request,
         \A q \in Request : q # r => Untouched(q) /\ (Held(q)' <=> Held(q))
                                     /\ ((Submitted(q) \/ Queued(q))' => Submitted(q) \/ Queued(q)),
         \A q \in Request : PlacedOnce(q)',
         RequestOK(r)'
  PROVE  FrontInv' /\ (ExactInv /\ ExactOK(r)' => ExactInv')
<1>1. \A q \in Request : q # r => RequestOK(q)' /\ (ExactOK(q) => ExactOK(q)')
  BY RequestKept DEF FrontInv
<1>. QED  BY <1>1 DEF FrontInv, ExactInv

\* Nobody moves.
LEMMA PlacesStill ==
  ASSUME UNCHANGED <<cmds, queue, slots>>
  PROVE  \A q \in Request : SamePlace(q) /\ (Held(q)' <=> Held(q))
                            /\ (PlacedOnce(q) => PlacedOnce(q)')
BY DEF SamePlace, Held, Submitted, Queued, InSlot, PlacedOnce

\* A command goes into the channel.
LEMMA SendPlaces ==
  ASSUME FrontTypeOK, NEW c \in Command, cmds' = Append(cmds, c), UNCHANGED <<queue, slots>>
  PROVE  \A q \in Request :
           /\ Submitted(q)' <=> Submitted(q) \/ q = c.job
           /\ (Queued(q)' <=> Queued(q)) /\ (InSlot(q)' <=> InSlot(q))
           /\ PlacedOnce(q) /\ (q = c.job => ~Held(q)) => PlacedOnce(q)'
<1>. DEFINE n == Len(cmds)
<1>1. /\ n \in Nat /\ Len(cmds') = n + 1 /\ cmds'[n + 1] = c
      /\ \A i \in 1 .. n : cmds'[i] = cmds[i]
  BY DEF FrontTypeOK
<1>2. \A i \in 1 .. n + 1 : i \in 1 .. n \/ i = n + 1
  BY <1>1
<1>3. n + 1 \in 1 .. n + 1 /\ \A i \in 1 .. n : i \in 1 .. n + 1
  BY <1>1
<1>. HIDE DEF n
<1>4. ASSUME NEW q \in Request PROVE Submitted(q)' <=> Submitted(q) \/ q = c.job
  BY <1>1, <1>2, <1>3 DEF Submitted, n
<1>5. ASSUME NEW q \in Request PROVE (Queued(q)' <=> Queued(q)) /\ (InSlot(q)' <=> InSlot(q))
  BY DEF Queued, InSlot
<1>6. ASSUME NEW q \in Request, PlacedOnce(q), q = c.job => ~Held(q)
      PROVE  PlacedOnce(q)'
  <2>1. ASSUME NEW i \in 1 .. n + 1, NEW j \in 1 .. n + 1, cmds'[i].job = q, cmds'[j].job = q
        PROVE  i = j
    BY <1>1, <1>2, <1>6, <2>1 DEF PlacedOnce, Held, Submitted, n
  <2>2. \A i, j \in 1 .. Len(cmds') : cmds'[i].job = q /\ cmds'[j].job = q => i = j
    BY <1>1, <2>1
  <2>3. /\ ~(Submitted(q)' /\ Queued(q)') /\ ~(Submitted(q)' /\ InSlot(q)')
        /\ ~(Queued(q)' /\ InSlot(q)')
    BY <1>4, <1>5, <1>6 DEF PlacedOnce, Held
  <2>. QED  BY <1>6, <2>2, <2>3 DEF PlacedOnce
<1>. QED  BY <1>4, <1>5, <1>6

\* submit_generation.
LEMMA SubmitFront ==
  ASSUME FrontTypeOK, FrontInv, NEW r \in Request, Submit(r)
  PROVE  FrontInv' /\ (ExactInv => ExactInv')
<1>0. /\ client[r] = "new" /\ server # "down"
      /\ UNCHANGED <<server, got, chan, queue, slots, cut>>
  BY DEF Submit, FrontTypeOK
<1>1. WaitOK(r) /\ PlacedOnce(r) /\ ~Held(r) /\ got[r] = <<>> /\ chan[r] = <<>>
  BY <1>0 DEF FrontInv, RequestOK, WaitOK
<1>2. Len(chan[r]) = 0 /\ 1 .. 0 = {} /\ \A s \in Slot : slots[s].req # r
  BY <1>1 DEF Held, InSlot
<1>3. CASE permits = 0
  <2>1. client' = [client EXCEPT ![r] = "refused"] /\ UNCHANGED cmds
    BY <1>3 DEF Submit, FrontTypeOK
  <2>2. client'[r] = "refused" /\ \A q \in Request : q # r => client'[q] = client[q]
    BY <2>1 DEF FrontTypeOK
  <2>3. \A q \in Request : SamePlace(q) /\ (Held(q)' <=> Held(q)) /\ PlacedOnce(q)'
    BY <1>0, <2>1, PlacesStill DEF FrontInv
  <2>4. RequestOK(r)' /\ ExactOK(r)'
    <3>1. ~RxOpen(r)'
      BY <2>2 DEF RxOpen
    <3>. QED  BY <1>0, <1>1, <1>2, <2>2, <3>1, ExactNone
              DEF RequestOK, WaitOK, ChanOK, EndOK, ExactOK
  <2>5. DownOK'
    BY <1>0, <2>1, <2>2 DEF FrontInv, DownOK, ShutdownIn, RxOpen
  <2>. QED  BY <1>0, <2>2, <2>3, <2>4, <2>5, OnlyRequest DEF Untouched, SamePlace
<1>4. CASE permits # 0
  <2>. DEFINE c == [cmd |-> "Submit", job |-> r]
  <2>1. client' = [client EXCEPT ![r] = "reading"] /\ cmds' = Append(cmds, c)
    BY <1>4 DEF Submit, FrontTypeOK
  <2>2. client'[r] = "reading" /\ \A q \in Request : q # r => client'[q] = client[q]
    BY <2>1 DEF FrontTypeOK
  <2>3. c \in Command /\ c.job = r /\ c.cmd # "Shutdown"
    BY DEF Command
  <2>. HIDE DEF c
  <2>4. \A q \in Request :
           /\ Submitted(q)' <=> Submitted(q) \/ q = r
           /\ (Queued(q)' <=> Queued(q)) /\ (InSlot(q)' <=> InSlot(q))
           /\ PlacedOnce(q)'
    BY <1>0, <1>1, <2>1, <2>3, SendPlaces DEF FrontInv
  <2>5. \A q \in Request : q # r => Held(q)' <=> Held(q)
    BY <2>4 DEF Held
  <2>6. Delivered(r)' = <<>> /\ RxOpen(r)' /\ Held(r)'
    BY <1>0, <1>1, <2>2, <2>4, IdsNone DEF Delivered, RxOpen, Held
  <2>7. RequestOK(r)' /\ ExactOK(r)'
    BY <1>0, <1>1, <1>2, <2>2, <2>6, ExactNone DEF RequestOK, WaitOK, ChanOK, EndOK, ExactOK
  <2>8. DownOK'
    <3>1. ~ShutdownIn(cmds)
      BY <1>0 DEF FrontInv, DownOK
    <3>2. cmds \in Seq(Command) /\ Len(cmds) \in Nat
      BY DEF FrontTypeOK
    <3>3. \A i \in 1 .. Len(Append(cmds, c)) : i \in 1 .. Len(cmds) \/ i = Len(cmds) + 1
      BY <3>2
    <3>4. ~ShutdownIn(cmds')
      BY <2>1, <2>3, <3>1, <3>2, <3>3 DEF ShutdownIn
    <3>. QED  BY <1>0, <3>4 DEF DownOK
  <2>. QED  BY <1>0, <2>2, <2>4, <2>5, <2>7, <2>8, OnlyRequest DEF Untouched
<1>. QED  BY <1>3, <1>4

\* An event is received.
LEMMA ReceiveFront ==
  ASSUME FrontTypeOK, FrontInv, NEW r \in Request, Receive(r)
  PROVE  FrontInv' /\ (ExactInv => ExactInv')
<1>. DEFINE c == chan[r]  h == Head(c)
<1>1. /\ RxOpen(r) /\ c \in Seq(Event) /\ c # <<>> /\ got[r] \in Seq(TokenId)
      /\ got' = [got EXCEPT ![r] = got[r] \o h.ids]
      /\ UNCHANGED <<server, permits, cmds, queue, slots, cut>>
  BY StreamTypes DEF Receive
<1>2. PICK next \in AfterEvent(h) :
        /\ client' = [client EXCEPT ![r] = next]
        /\ chan' = [chan EXCEPT ![r] = IF next = "reading" THEN Tail(c) ELSE <<>>]
  BY DEF Receive
<1>3. /\ client'[r] = next /\ got'[r] = got[r] \o h.ids
      /\ chan'[r] = IF next = "reading" THEN Tail(c) ELSE <<>>
      /\ \A q \in Request : q # r => Untouched(q)
  BY <1>1, <1>2 DEF FrontTypeOK, Untouched
<1>4. PlacedOnce(r) /\ WaitOK(r) /\ ChanOK(r) /\ \A s \in Slot : slots[s].req = r => SlotOK(slots[s])
  BY DEF FrontInv, RequestOK
<1>5. ~Submitted(r) /\ ~Queued(r)
  BY <1>1, <1>4 DEF WaitOK
<1>6. \A q \in Request : SamePlace(q) /\ (Held(q)' <=> Held(q)) /\ PlacedOnce(q)'
  BY <1>1, PlacesStill DEF FrontInv
<1>7. DownOK'
  <2>1. \A q \in Request : RxOpen(q)' => RxOpen(q)
    BY <1>1, <1>3 DEF RxOpen, Untouched
  <2>. QED  BY <1>1, <2>1 DEF FrontInv, DownOK, ShutdownIn
<1>8. /\ h \in Event /\ h.ids \in Seq(TokenId) /\ Len(c) \in Nat /\ Len(c) >= 1 /\ h = c[1]
      /\ Tail(c) \in Seq(Event) /\ Len(Tail(c)) = Len(c) - 1
      /\ \A i \in 1 .. Len(c) - 1 : Tail(c)[i] = c[i + 1] /\ i + 1 \in 1 .. Len(c)
  <2>. HIDE DEF c
  <2>1. h \in Event /\ Len(c) \in Nat /\ Len(c) >= 1 /\ h = c[1]
    BY <1>1
  <2>2. /\ Tail(c) \in Seq(Event) /\ Len(Tail(c)) = Len(c) - 1
        /\ \A i \in 1 .. Len(c) - 1 : Tail(c)[i] = c[i + 1]
    BY <1>1, HeadTailProperties
  <2>3. h.ids \in Seq(TokenId)
    BY <2>1 DEF Event
  <2>. QED  BY <2>1, <2>2, <2>3
<1>0. Tail(c) = <<>> <=> Len(c) = 1
  <2>1. \A q \in Seq(Event) : q = <<>> <=> Len(q) = 0
    OBVIOUS
  <2>. DEFINE u == Tail(c)
  <2>2. u \in Seq(Event) /\ Len(u) = Len(c) - 1
    BY <1>8
  <2>3. Len(u) = 0 <=> Len(c) = 1
    <3>. HIDE DEF u, c
    <3>. QED  BY <1>8, <2>2
  <2>. HIDE DEF u
  <2>4. u = <<>> <=> Len(u) = 0
    BY <2>1, <2>2
  <2>. QED  BY <2>3, <2>4 DEF u
<1>9. /\ IdsOf(c) = h.ids \o IdsOf(Tail(c)) /\ IdsOf(Tail(c)) \in Seq(TokenId)
      /\ got[r] \o h.ids \in Seq(TokenId)
      /\ Delivered(r) = (got[r] \o h.ids) \o IdsOf(Tail(c))
  <2>1. IdsOf(c) = h.ids \o IdsOf(Tail(c))
    <3>. HIDE DEF c
    <3>. QED  BY <1>1, IdsHead
  <2>2. IdsOf(Tail(c)) \in Seq(TokenId)
    BY <1>8, IdsType
  <2>3. got[r] \o h.ids \in Seq(TokenId)
        /\ (got[r] \o h.ids) \o IdsOf(Tail(c)) = got[r] \o (h.ids \o IdsOf(Tail(c)))
    <3>. DEFINE a == got[r]  b == h.ids  d == IdsOf(Tail(c))
    <3>1. a \in Seq(TokenId) /\ b \in Seq(TokenId) /\ d \in Seq(TokenId)
      BY <1>1, <1>8, <2>2
    <3>. HIDE DEF a, b, d
    <3>2. a \o b \in Seq(TokenId) /\ (a \o b) \o d = a \o (b \o d)
      BY <3>1, TokensConcat
    <3>. QED  BY <3>2 DEF a, b, d
  <2>. QED  BY <2>1, <2>2, <2>3 DEF Delivered
<1>10. ExactInv => Exact(r, got'[r])
  <2>1. ExactInv => Exact(r, Delivered(r))
    BY <1>1 DEF ExactInv, ExactOK
  <2>. QED  BY <1>3, <1>9, <2>1, ExactPrefix
<1>. HIDE DEF c, h
<1>11. CASE next = "reading"
  <2>1. ~IsEnd(h)
    BY <1>2, <1>8, <1>11 DEF AfterEvent, IsEnd, Event
  <2>2. Delivered(r)' = Delivered(r) /\ RxOpen(r)'
    BY <1>3, <1>9, <1>11 DEF Delivered, RxOpen
  <2>3. ChanOK(r)'
    <3>1. ASSUME NEW i \in 1 .. Len(c) - 1, IsEnd(Tail(c)[i])
          PROVE  i = Len(c) - 1 /\ ~Held(r) /\ EndsAs(Tail(c)[i].kind, r, Len(Delivered(r)))
      <4>1. c[i + 1] = Tail(c)[i] /\ i + 1 \in 1 .. Len(c)
        BY <1>8
      <4>2. /\ i + 1 = Len(c) /\ ~Held(r) /\ EndsAs(Tail(c)[i].kind, r, Len(Delivered(r)))
        BY <1>4, <3>1, <4>1 DEF ChanOK, c
      <4>. QED  BY <4>2, <1>8
    <3>2. ASSUME ~Held(r), r \notin cut
          PROVE  Tail(c) # <<>> /\ IsEnd(Tail(c)[Len(c) - 1])
      <4>1. IsEnd(c[Len(c)])
        BY <1>1, <1>4, <3>2 DEF ChanOK, c
      <4>2. Len(c) # 1
        BY <1>8, <2>1, <4>1
      <4>3. Len(c) - 1 \in 1 .. Len(c) - 1 /\ (Len(c) - 1) + 1 = Len(c)
        BY <1>8, <4>2
      <4>4. Tail(c)[Len(c) - 1] = c[Len(c)]
        BY <1>8, <4>3
      <4>5. Tail(c) # <<>>
        BY <1>0, <4>2
      <4>. QED  BY <4>1, <4>4, <4>5
    <3>. QED  BY <1>1, <1>3, <1>6, <1>8, <1>11, <2>2, <3>1, <3>2 DEF ChanOK
  <2>4. ASSUME NEW s \in Slot, slots[s].req = r PROVE SlotOK(slots[s])'
    <3>1. Owed(slots[s])' = Owed(slots[s])
      BY <1>1, <2>2, <2>4 DEF Owed
    <3>. QED  BY <1>1, <1>4, <2>2, <2>4, <3>1 DEF SlotOK
  <2>5. WaitOK(r)' /\ EndOK(r)'
    BY <1>3, <1>5, <1>6, <1>11 DEF WaitOK, EndOK, SamePlace
  <2>6. RequestOK(r)'
    BY <1>1, <2>3, <2>4, <2>5 DEF RequestOK
  <2>7. ExactInv => ExactOK(r)'
    <3>1. \A s \in Slot : slots[s].req = r => Owed(slots[s])' = Owed(slots[s])
      BY <1>1, <2>2 DEF Owed
    <3>. QED  BY <1>1, <1>10, <2>2, <3>1 DEF ExactInv, ExactOK
  <2>. QED  BY <1>3, <1>6, <1>7, <2>6, <2>7, OnlyRequest DEF SamePlace
<1>12. CASE next # "reading"
  <2>1. chan'[r] = <<>> /\ ~RxOpen(r)' /\ Len(chan'[r]) = 0 /\ 1 .. 0 = {}
    BY <1>3, <1>12 DEF RxOpen
  <2>2. next \in {"stopped", "eos", "limit", "error"} /\ next # "new"
        /\ (next = "eos" => h.kind = "Eos") /\ (next = "limit" => h.kind = "Limit")
    BY <1>2, <1>8, <1>12 DEF AfterEvent, Event
  <2>3. ASSUME next = "eos" \/ next = "limit" PROVE EndsAs(h.kind, r, Len(got'[r]))
    <3>1. IsEnd(c[1]) /\ 1 \in 1 .. Len(c)
      BY <1>8, <2>2, <2>3 DEF IsEnd
    <3>2. 1 = Len(c) /\ EndsAs(c[1].kind, r, Len(Delivered(r)))
      BY <1>4, <3>1 DEF ChanOK, c
    <3>3. Tail(c) = <<>>
      BY <1>0, <3>2
    <3>4. Delivered(r) = got'[r]
      BY <1>3, <1>9, <3>3, IdsNone, ConcatEmptySeq
    <3>. QED  BY <1>8, <3>2, <3>4
  <2>4. EndOK(r)'
    BY <1>3, <2>2, <2>3 DEF EndOK, EndsAs
  <2>5. WaitOK(r)' /\ ChanOK(r)'
    BY <1>3, <1>5, <1>6, <2>1, <2>2 DEF WaitOK, ChanOK, SamePlace
  <2>6. ASSUME NEW s \in Slot, slots[s].req = r PROVE SlotOK(slots[s])'
    BY <1>1, <1>4, <2>1, <2>6 DEF SlotOK
  <2>7. RequestOK(r)'
    BY <1>1, <2>4, <2>5, <2>6 DEF RequestOK
  <2>8. ExactInv => ExactOK(r)'
    BY <1>10, <2>1 DEF ExactOK
  <2>. QED  BY <1>3, <1>6, <1>7, <2>7, <2>8, OnlyRequest DEF SamePlace
<1>. QED  BY <1>11, <1>12

\* The handler stops reading: its channel is closed, or its client is gone.
LEMMA LeaveFront ==
  ASSUME FrontTypeOK, FrontInv, NEW r \in Request, ReceiveClosed(r) \/ Disconnect(r)
  PROVE  FrontInv' /\ (ExactInv => ExactInv')
<1>1. /\ RxOpen(r) /\ client' = [client EXCEPT ![r] = client'[r]]
      /\ client'[r] \in {"limit", "gone"} /\ chan'[r] = <<>>
      /\ chan' = [chan EXCEPT ![r] = <<>>]
      /\ client'[r] = "limit" => chan[r] = <<>> /\ ~Held(r)
      /\ UNCHANGED <<server, got, cmds, queue, slots, cut>>
  BY DEF ReceiveClosed, Disconnect, FrontTypeOK
<1>2. \A q \in Request : q # r => Untouched(q)
  BY <1>1 DEF FrontTypeOK, Untouched
<1>3. \A q \in Request : SamePlace(q) /\ (Held(q)' <=> Held(q)) /\ PlacedOnce(q)'
  BY <1>1, PlacesStill DEF FrontInv
<1>4. RequestOK(r) /\ WaitOK(r) /\ ChanOK(r)
  BY DEF FrontInv, RequestOK
<1>5. ~RxOpen(r)' /\ Len(chan'[r]) = 0 /\ 1 .. 0 = {}
  BY <1>1 DEF RxOpen
<1>6. WaitOK(r)' /\ ChanOK(r)' /\ EndOK(r)'
  <2>1. WaitOK(r)'
    BY <1>1, <1>3, <1>4 DEF WaitOK, SamePlace
  <2>2. ChanOK(r)'
    BY <1>1, <1>5 DEF ChanOK
  <2>3. client'[r] = "limit" => r \in cut
    BY <1>1, <1>4 DEF ChanOK
  <2>. QED  BY <1>1, <2>1, <2>2, <2>3 DEF EndOK
<1>7. RequestOK(r)'
  BY <1>1, <1>4, <1>5, <1>6 DEF RequestOK, SlotOK
<1>8. ExactInv => ExactOK(r)'
  BY <1>1, <1>5 DEF ExactInv, ExactOK
<1>9. DownOK'
  <2>1. \A q \in Request : RxOpen(q)' => RxOpen(q)
    BY <1>1, <1>2 DEF RxOpen, Untouched
  <2>. QED  BY <1>1, <2>1 DEF FrontInv, DownOK, ShutdownIn
<1>. QED  BY <1>2, <1>3, <1>7, <1>8, <1>9, OnlyRequest DEF SamePlace

LEMMA HandlerFront ==
  ASSUME FrontTypeOK, FrontInv, NEW r \in Request, Handler(r)
  PROVE  FrontInv' /\ (ExactInv => ExactInv')
BY SubmitFront, ReceiveFront, LeaveFront DEF Handler

\* The server's own steps touch no request.
LEMMA ServerFront ==
  ASSUME FrontTypeOK, FrontInv, Signal \/ ShutdownEngine
  PROVE  FrontInv' /\ (ExactInv => ExactInv')
<1>1. UNCHANGED <<client, got, chan, queue, slots, cut>>
  BY DEF Signal, ShutdownEngine
<1>2. \A q \in Request : SamePlace(q) /\ (Held(q)' <=> Held(q)) /\ PlacedOnce(q)'
  <2>1. CASE Signal
    BY <2>1, PlacesStill DEF Signal, FrontInv
  <2>2. CASE ShutdownEngine
    <3>. DEFINE c == [cmd |-> "Shutdown", job |-> None]
    <3>1. c \in Command /\ c.job = None /\ cmds' = Append(cmds, c)
      BY <2>2 DEF Command, ShutdownEngine
    <3>. HIDE DEF c
    <3>2. \A q \in Request : q # c.job
      BY <3>1 DEF RequestsAssumption
    <3>. QED  BY <1>1, <3>1, <3>2, SendPlaces DEF FrontInv, SamePlace, Held
  <2>. QED  BY <2>1, <2>2
<1>3. \A q \in Request : Untouched(q)
  BY <1>1 DEF Untouched
<1>4. \A q \in Request : RequestOK(q)' /\ (ExactOK(q) => ExactOK(q)')
  BY <1>2, <1>3, RequestKept DEF FrontInv, SamePlace
<1>5. DownOK'
  <2>1. CASE Signal
    BY <2>1 DEF Signal, FrontInv, DownOK, ShutdownIn, RxOpen
  <2>2. CASE ShutdownEngine
    BY <2>2 DEF ShutdownEngine, FrontInv, DownOK, RxOpen
  <2>. QED  BY <2>1, <2>2
<1>. QED  BY <1>2, <1>4, <1>5 DEF FrontInv, ExactInv

-------------------------------------------------------------------------------
(* What the engine thread does with jobs.                                     *)

\* Jobs move from the command channel to the end of the queue.
LEMMA DrainPlaces ==
  ASSUME FrontTypeOK, DrainCmds
  PROVE  \A q \in Request :
           /\ ~Submitted(q)' /\ (Queued(q)' <=> Queued(q) \/ Submitted(q))
           /\ (InSlot(q)' <=> InSlot(q))
           /\ PlacedOnce(q) => PlacedOnce(q)'
<1>. DEFINE m == Len(queue)  n == Len(cmds)
<1>1. /\ m \in Nat /\ n \in Nat /\ queue \in Seq(Request)
      /\ cmds' = <<>> /\ queue' = queue \o JobsOf(cmds) /\ slots' = slots
  BY DEF FrontTypeOK, DrainCmds
<1>2. JobsOf(cmds) \in Seq(Request) /\ Len(JobsOf(cmds)) = n
      /\ \A i \in 1 .. n : JobsOf(cmds)[i] = cmds[i].job
  <2>1. \A i \in 1 .. n : cmds[i].job \in Request
    <3>. TAKE i \in 1 .. n
    <3>1. cmds[i] \in Command /\ cmds[i].cmd # "Shutdown"
      BY DEF FrontTypeOK, DrainCmds, ShutdownIn
    <3>. QED  BY <3>1 DEF Command
  <2>. HIDE DEF n
  <2>2. n \in Nat
    BY <1>1
  <2>. QED  BY <2>1, <2>2 DEF JobsOf, n
<1>3. /\ Len(queue') = m + n
      /\ \A i \in 1 .. m + n : queue'[i] = IF i <= m THEN queue[i] ELSE JobsOf(cmds)[i - m]
  <2>. DEFINE j == JobsOf(cmds)
  <2>1. queue \in Seq(Request) /\ j \in Seq(Request) /\ Len(j) = n /\ queue' = queue \o j
    BY <1>1, <1>2
  <2>. HIDE DEF j
  <2>2. \A p, q \in Seq(Request) :
          /\ Len(p \o q) = Len(p) + Len(q)
          /\ \A i \in 1 .. Len(p) + Len(q) : (p \o q)[i] = IF i <= Len(p) THEN p[i] ELSE q[i - Len(p)]
    BY ConcatProperties
  <2>. HIDE DEF m, n
  <2>3. Len(queue) = m
    BY DEF m
  <2>. QED  BY <2>1, <2>2, <2>3 DEF j
<1>4. \A i \in 1 .. m + n : \/ i \in 1 .. m /\ i <= m
                            \/ i - m \in 1 .. n /\ ~(i <= m)
  BY <1>1
<1>5. /\ \A i \in 1 .. m : i \in 1 .. m + n /\ i <= m
      /\ \A i \in 1 .. n : m + i \in 1 .. m + n /\ ~(m + i <= m) /\ (m + i) - m = i
  BY <1>1
<1>6. Len(cmds') = 0 /\ 1 .. 0 = {}
  BY <1>1
<1>. HIDE DEF m, n
<1>7. /\ \A i \in 1 .. m : queue'[i] = queue[i]
      /\ \A i \in 1 .. n : queue'[m + i] = cmds[i].job
  BY <1>2, <1>3, <1>5
<1>8. \A i \in 1 .. m + n : \/ i \in 1 .. m /\ queue'[i] = queue[i]
                            \/ i - m \in 1 .. n /\ queue'[i] = cmds[i - m].job
  BY <1>2, <1>3, <1>4
<1>9. ASSUME NEW q \in Request
      PROVE  ~Submitted(q)' /\ (Queued(q)' <=> Queued(q) \/ Submitted(q)) /\ (InSlot(q)' <=> InSlot(q))
  <2>1. ~Submitted(q)' /\ (InSlot(q)' <=> InSlot(q))
    BY <1>1, <1>6 DEF Submitted, InSlot
  <2>2. Queued(q)' => Queued(q) \/ Submitted(q)
    BY <1>3, <1>8 DEF Queued, Submitted, m, n
  <2>3. Queued(q) \/ Submitted(q) => Queued(q)'
    BY <1>3, <1>5, <1>7 DEF Queued, Submitted, m, n
  <2>. QED  BY <2>1, <2>2, <2>3
<1>10. ASSUME NEW q \in Request, PlacedOnce(q) PROVE PlacedOnce(q)'
  <2>1. ASSUME NEW i \in 1 .. m + n, NEW j \in 1 .. m + n, queue'[i] = q, queue'[j] = q
        PROVE  i = j
    <3>1. (i \in 1 .. m /\ queue[i] = q) \/ (i - m \in 1 .. n /\ cmds[i - m].job = q)
      BY <1>8, <2>1
    <3>2. (j \in 1 .. m /\ queue[j] = q) \/ (j - m \in 1 .. n /\ cmds[j - m].job = q)
      BY <1>8, <2>1
    <3>3. CASE i \in 1 .. m /\ queue[i] = q /\ j \in 1 .. m /\ queue[j] = q
      BY <1>10, <3>3 DEF PlacedOnce, m
    <3>4. CASE i - m \in 1 .. n /\ cmds[i - m].job = q /\ j - m \in 1 .. n /\ cmds[j - m].job = q
      <4>1. i - m = j - m
        BY <1>10, <3>4 DEF PlacedOnce, n
      <4>2. m \in Nat /\ i \in Int /\ j \in Int
        BY <1>1 DEF m
      <4>. QED  BY <4>1, <4>2
    <3>5. ~((\E k \in 1 .. m : queue[k] = q) /\ (\E k \in 1 .. n : cmds[k].job = q))
      BY <1>10 DEF PlacedOnce, Queued, Submitted, m, n
    <3>. QED  BY <3>1, <3>2, <3>3, <3>4, <3>5
  <2>2. \A i, j \in 1 .. Len(queue') : queue'[i] = q /\ queue'[j] = q => i = j
    BY <1>3, <2>1
  <2>3. \A i, j \in 1 .. Len(cmds') : cmds'[i].job = q /\ cmds'[j].job = q => i = j
    BY <1>6
  <2>. QED  BY <1>1, <1>9, <1>10, <2>2, <2>3 DEF PlacedOnce
<1>. QED  BY <1>9, <1>10

LEMMA DrainFront ==
  ASSUME FrontTypeOK, FrontInv, DrainCmds
  PROVE  FrontInv' /\ (ExactInv => ExactInv')
<1>1. \A q \in Request : Untouched(q)
  BY DEF DrainCmds, Untouched
<1>2. \A q \in Request : /\ Held(q)' <=> Held(q)
                         /\ (Submitted(q) \/ Queued(q))' => Submitted(q) \/ Queued(q)
                         /\ PlacedOnce(q)'
  BY DrainPlaces DEF Held, FrontInv
<1>3. \A q \in Request : RequestOK(q)' /\ (ExactOK(q) => ExactOK(q)')
  BY <1>1, <1>2, RequestKept DEF FrontInv
<1>4. DownOK'
  <2>1. Len(cmds') = 0 /\ 1 .. 0 = {}
    BY DEF DrainCmds
  <2>. QED  BY <2>1 DEF DrainCmds, FrontInv, DownOK, ShutdownIn, RxOpen
<1>. QED  BY <1>2, <1>3, <1>4 DEF FrontInv, ExactInv

\* The thread returns: by then no handler reads.
LEMMA DropFront ==
  ASSUME FrontTypeOK, FrontInv, DropAll
  PROVE  FrontInv' /\ (ExactInv => ExactInv')
<1>1. /\ UNCHANGED <<server, client, got, chan, cut>>
      /\ queue' = <<>> /\ cmds' = <<>> /\ Len(queue') = 0 /\ Len(cmds') = 0 /\ 1 .. 0 = {}
  BY DEF DropAll
<1>2. \A s \in Slot, q \in Request : slots'[s].req # q
  BY DEF DropAll, NoSlot, RequestsAssumption
<1>3. \A q \in Request : ~RxOpen(q) /\ ~RxOpen(q)'
  BY <1>1 DEF DropAll, FrontInv, DownOK, RxOpen
<1>4. \A q \in Request : PlacedOnce(q)' /\ ~Held(q)'
  BY <1>1, <1>2 DEF PlacedOnce, Held, Submitted, Queued, InSlot
<1>5. ASSUME NEW q \in Request PROVE RequestOK(q)' /\ (ExactOK(q) => ExactOK(q)')
  <2>1. WaitOK(q) /\ ChanOK(q) /\ EndOK(q)
    BY DEF FrontInv, RequestOK
  <2>2. chan[q] = <<>> /\ Len(chan'[q]) = 0
    BY <1>1, <1>3, <2>1 DEF ChanOK
  <2>3. WaitOK(q)' /\ EndOK(q)'
    BY <1>1, <1>4, <2>1 DEF WaitOK, EndOK, Held
  <2>4. ChanOK(q)'
    BY <1>1, <1>3, <2>2 DEF ChanOK
  <2>5. RequestOK(q)'
    BY <1>2, <2>3, <2>4 DEF RequestOK
  <2>6. ExactOK(q) => ExactOK(q)'
    BY <1>1, <1>2, <1>3 DEF ExactOK
  <2>. QED  BY <2>5, <2>6
<1>6. DownOK'
  BY <1>1, <1>3 DEF FrontInv, DownOK, ShutdownIn
<1>. QED  BY <1>4, <1>5, <1>6 DEF FrontInv, ExactInv

\* The head of the queue leaves it.
LEMMA TailPlaces ==
  ASSUME FrontTypeOK, queue # <<>>, PlacedOnce(Head(queue)), queue' = Tail(queue)
  PROVE  /\ Head(queue) \in Request /\ Queued(Head(queue))
         /\ \A q \in Request :
              /\ Queued(q)' <=> Queued(q) /\ q # Head(queue)
              /\ (\A i, j \in 1 .. Len(queue) : queue[i] = q /\ queue[j] = q => i = j)
                   => \A i, j \in 1 .. Len(queue') : queue'[i] = q /\ queue'[j] = q => i = j
<1>. DEFINE m == Len(queue)  h == Head(queue)
<1>1. /\ m \in Nat /\ m >= 1 /\ h = queue[1] /\ h \in Request
      /\ Len(queue') = m - 1 /\ \A i \in 1 .. m - 1 : queue'[i] = queue[i + 1]
  <2>1. queue \in Seq(Request)
    BY DEF FrontTypeOK
  <2>. QED  BY <2>1, HeadTailProperties
<1>2. /\ 1 \in 1 .. m /\ \A i \in 1 .. m - 1 : i + 1 \in 1 .. m /\ i + 1 # 1
      /\ \A i \in 1 .. m : i = 1 \/ (i - 1 \in 1 .. m - 1 /\ (i - 1) + 1 = i)
  BY <1>1
<1>. HIDE DEF m, h
<1>3. Queued(h)
  BY <1>1, <1>2 DEF Queued, m
<1>4. ASSUME NEW q \in Request PROVE Queued(q)' <=> Queued(q) /\ q # h
  <2>1. Queued(q)' => Queued(q) /\ q # h
    <3>. SUFFICES ASSUME NEW i \in 1 .. m - 1, queue[i + 1] = q PROVE Queued(q) /\ q # h
      BY <1>1 DEF Queued
    <3>1. q # h
      BY <1>1, <1>2 DEF PlacedOnce, m, h
    <3>. QED  BY <1>2, <3>1 DEF Queued, m
  <2>2. Queued(q) /\ q # h => Queued(q)'
    <3>. SUFFICES ASSUME NEW i \in 1 .. m, queue[i] = q, q # h PROVE Queued(q)'
      BY DEF Queued, m
    <3>1. i # 1
      BY <1>1
    <3>2. i - 1 \in 1 .. m - 1 /\ queue'[i - 1] = q
      BY <1>1, <1>2, <3>1
    <3>. QED  BY <1>1, <3>2 DEF Queued
  <2>. QED  BY <2>1, <2>2
<1>5. ASSUME NEW q \in Request, \A i, j \in 1 .. m : queue[i] = q /\ queue[j] = q => i = j,
             NEW i \in 1 .. m - 1, NEW j \in 1 .. m - 1, queue'[i] = q, queue'[j] = q
      PROVE  i = j
  <2>1. i + 1 = j + 1
    BY <1>1, <1>2, <1>5
  <2>. QED  BY <2>1
<1>. QED  BY <1>1, <1>3, <1>4, <1>5 DEF m, h

\* A job moves into a free slot.
LEMMA AdmitFront ==
  ASSUME FrontTypeOK, FrontInv, NEW s \in Slot, queue # <<>>, ~Occupied(s),
         queue' = Tail(queue), slots' = [slots EXCEPT ![s] = NewSlot(Head(queue))],
         UNCHANGED <<server, client, got, chan, cmds, cut>>
  PROVE  FrontInv' /\ (ExactInv => ExactInv')
<1>1. PICK r \in Request : r = Head(queue)
  BY DEF FrontTypeOK
<1>2. /\ \A q \in Request : PlacedOnce(q) /\ RequestOK(q)
      /\ WaitOK(r) /\ ChanOK(r) /\ EndOK(r)
  BY <1>1 DEF FrontInv, RequestOK
<1>3. Queued(r) /\ \A q \in Request :
              /\ Queued(q)' <=> Queued(q) /\ q # r
              /\ \A i, j \in 1 .. Len(queue') : queue'[i] = q /\ queue'[j] = q => i = j
  BY <1>1, <1>2, TailPlaces DEF PlacedOnce
<1>4. ~Submitted(r) /\ ~InSlot(r) /\ got[r] = <<>> /\ chan[r] = <<>>
  BY <1>1, <1>2, <1>3 DEF PlacedOnce, WaitOK
<1>5. /\ slots'[s] = NewSlot(r) /\ slots'[s].req = r
      /\ \A t \in Slot : t # s => slots'[t] = slots[t]
      /\ slots[s].req = None /\ r # None
  BY <1>1 DEF FrontTypeOK, NewSlot, NoSlot, Occupied, RequestsAssumption
<1>6. \A q \in Request : /\ Submitted(q)' <=> Submitted(q)
                         /\ InSlot(q)' <=> InSlot(q) \/ q = r
  <2>1. \A q \in Request : Submitted(q)' <=> Submitted(q)
    BY DEF Submitted
  <2>2. \A q \in Request : InSlot(q)' <=> InSlot(q) \/ q = r
    BY <1>5 DEF InSlot, RequestsAssumption
  <2>. QED  BY <2>1, <2>2
<1>7. \A q \in Request : Held(q)' <=> Held(q)
  BY <1>3, <1>6 DEF Held
<1>8. ASSUME NEW q \in Request PROVE PlacedOnce(q)'
  <2>1. \A t, u \in Slot : slots'[t].req = q /\ slots'[u].req = q => t = u
    <3>1. \A t \in Slot : slots'[t].req = r => t = s
      BY <1>4, <1>5 DEF InSlot
    <3>2. CASE q = r
      BY <3>1, <3>2
    <3>3. CASE q # r
      BY <1>2, <1>5, <3>3 DEF PlacedOnce
    <3>. QED  BY <3>2, <3>3
  <2>2. \A i, j \in 1 .. Len(cmds') : cmds'[i].job = q /\ cmds'[j].job = q => i = j
    BY <1>2 DEF PlacedOnce
  <2>3. /\ ~(Submitted(q)' /\ Queued(q)') /\ ~(Submitted(q)' /\ InSlot(q)')
        /\ ~(Queued(q)' /\ InSlot(q)')
    BY <1>2, <1>3, <1>4, <1>6 DEF PlacedOnce
  <2>. QED  BY <1>3, <2>1, <2>2, <2>3 DEF PlacedOnce
<1>9. Delivered(r)' = <<>> /\ Delivered(r) = <<>>
  BY <1>4, IdsNone DEF Delivered
<1>10. Owed(slots[s])' = <<>> /\ slots'[s].pending = <<>> /\ slots'[s].emitted = 0
       /\ slots'[s].finished = FALSE
  <2>1. slots'[s].pending = <<>> /\ slots'[s].emitted = 0 /\ slots'[s].finished = FALSE
    BY <1>5 DEF NewSlot, NoSlot
  <2>. QED  BY <1>5, <1>9, <2>1, IdsNone DEF Owed
<1>11. Held(r) /\ Held(r)' /\ Len(chan'[r]) = 0 /\ 1 .. 0 = {}
  BY <1>1, <1>3, <1>4, <1>7 DEF Held
<1>12. \A t \in Slot : slots'[t].req = r => t = s
  BY <1>4, <1>5 DEF InSlot
<1>13. RequestOK(r)'
  <2>1. SlotOK(slots[s])'
    BY <1>10, <1>11 DEF SlotOK
  <2>2. WaitOK(r)' /\ ChanOK(r)' /\ EndOK(r)'
    BY <1>2, <1>4, <1>7, <1>11, <1>1 DEF WaitOK, ChanOK, EndOK
  <2>. QED  BY <1>12, <2>1, <2>2 DEF RequestOK
<1>14. ExactOK(r)'
  BY <1>4, <1>9, <1>10, <1>12, ExactNone DEF ExactOK
<1>15. \A q \in Request : q # r => Untouched(q) /\ ((Submitted(q) \/ Queued(q))' => Submitted(q) \/ Queued(q))
  BY <1>3, <1>5, <1>6 DEF Untouched
<1>16. DownOK'
  BY DEF FrontInv, DownOK, ShutdownIn, RxOpen
<1>. QED  BY <1>1, <1>7, <1>8, <1>13, <1>14, <1>15, <1>16, OnlyRequest

-------------------------------------------------------------------------------
(* flush_slot.                                                                *)

\* What is sent and what is kept make up the buffer.
LEMMA FlushSplits ==
  ASSUME FrontTypeOK, NEW st \in SlotState, st.req \in Request
  PROVE  /\ Fit(st) \in Nat /\ Fit(st) <= Len(st.pending)
         /\ Len(st.pending) <= Room(st.req) => Fit(st) = Len(st.pending)
         /\ ~(Len(st.pending) <= Room(st.req)) => Fit(st) < Len(st.pending)
         /\ Accepted(st) \in Seq(Event) /\ Len(Accepted(st)) = Fit(st)
         /\ \A i \in 1 .. Fit(st) : Accepted(st)[i] = st.pending[i]
         /\ Refused(st) \in Seq(Event) /\ Len(Refused(st)) = Len(st.pending) - Fit(st)
         /\ \A i \in 1 .. Len(st.pending) - Fit(st) : Refused(st)[i] = st.pending[Fit(st) + i]
         /\ IdsOf(st.pending) = IdsOf(Accepted(st)) \o IdsOf(Refused(st))
<1>. DEFINE p == st.pending  n == Fit(st)  c == chan[st.req]
<1>1. p \in Seq(Event) /\ c \in Seq(Event) /\ Len(c) <= ChanCap /\ Len(c) \in Nat /\ Len(p) \in Nat
  BY DEF SlotState, FrontTypeOK, Channel
<1>2. /\ n \in Nat /\ n <= Len(p) /\ n \in 0 .. Len(p)
      /\ Len(p) <= Room(st.req) => n = Len(p)
      /\ ~(Len(p) <= Room(st.req)) => n < Len(p)
  <2>1. Room(st.req) = ChanCap - Len(c) /\ ChanCap \in Nat
        /\ n = IF Room(st.req) < Len(p) THEN Room(st.req) ELSE Len(p)
    BY DEF Fit, Room, FrontendAssumption
  <2>. HIDE DEF p, n, c
  <2>. QED  BY <1>1, <2>1
<1>. HIDE DEF p, n
<1>. DEFINE a == Accepted(st)  b == Refused(st)
<1>3. a = FirstPart(p, n) /\ b = OtherPart(p, n)
  BY DEF Accepted, Refused, FirstPart, OtherPart, p, n
<1>. HIDE DEF a, b
<1>4. /\ a \in Seq(Event) /\ Len(a) = n /\ \A i \in 1 .. n : a[i] = p[i]
      /\ b \in Seq(Event) /\ Len(b) = Len(p) - n
      /\ \A i \in 1 .. Len(p) - n : b[i] = p[n + i]
      /\ p = a \o b
  <2>1. p \in Seq(Event) /\ n \in 0 .. Len(p)
    BY <1>1, <1>2
  <2>2. /\ FirstPart(p, n) \in Seq(Event) /\ Len(FirstPart(p, n)) = n
        /\ \A i \in 1 .. n : FirstPart(p, n)[i] = p[i]
    BY <2>1, CutInTwo, ZenonT(60)
  <2>3. /\ OtherPart(p, n) \in Seq(Event) /\ Len(OtherPart(p, n)) = Len(p) - n
        /\ \A i \in 1 .. Len(p) - n : OtherPart(p, n)[i] = p[n + i]
    BY <2>1, CutInTwo, ZenonT(60)
  <2>4. p = FirstPart(p, n) \o OtherPart(p, n)
    BY <2>1, CutInTwo, ZenonT(60)
  <2>. QED  BY <1>3, <2>2, <2>3, <2>4, Zenon
<1>5. IdsOf(p) = IdsOf(a) \o IdsOf(b)
  BY <1>4, IdsConcat
<1>. QED  BY <1>2, <1>4, <1>5 DEF p, n, a, b

\* What a flush that does not find its consumer gone hands over.
LEMMA FlushDelivers ==
  ASSUME FrontTypeOK, NEW st \in SlotState, st.req \in Request, got' = got,
         chan' = [chan EXCEPT ![st.req] = @ \o Accepted(st)]
  PROVE  LET r == st.req  m == Len(chan[r]) IN
         /\ chan'[r] \in Seq(Event) /\ m \in Nat /\ Len(chan'[r]) = m + Fit(st)
         /\ \A i \in 1 .. m : chan'[r][i] = chan[r][i]
         /\ \A i \in 1 .. Fit(st) : chan'[r][m + i] = st.pending[i]
         /\ Delivered(r)' \in Seq(TokenId)
         /\ Delivered(r)' \o IdsOf(Refused(st)) = Owed(st)
<1>. DEFINE r == st.req  c == chan[r]  a == Accepted(st)  b == Refused(st)  m == Len(c)  n == Fit(st)
<1>1. /\ c \in Seq(Event) /\ a \in Seq(Event) /\ b \in Seq(Event) /\ Len(a) = n /\ n \in Nat
      /\ \A i \in 1 .. n : a[i] = st.pending[i]
      /\ got[r] \in Seq(TokenId) /\ IdsOf(c) \in Seq(TokenId)
      /\ IdsOf(a) \in Seq(TokenId) /\ IdsOf(b) \in Seq(TokenId)
      /\ IdsOf(st.pending) = IdsOf(a) \o IdsOf(b)
  BY FlushSplits, StreamTypes, IdsType
<1>2. chan'[r] = c \o a /\ got'[r] = got[r]
  BY DEF FrontTypeOK
<1>3. Delivered(r)' = got[r] \o IdsOf(c \o a) /\ Delivered(r) = got[r] \o IdsOf(c)
      /\ Owed(st) = Delivered(r) \o IdsOf(st.pending)
  BY <1>2 DEF Delivered, Owed
<1>. HIDE DEF r, c, a, b, n
<1>4. c \o a \in Seq(Event) /\ m \in Nat /\ Len(c \o a) = m + n
      /\ \A i \in 1 .. m + n : (c \o a)[i] = IF i <= m THEN c[i] ELSE a[i - m]
  <2>1. \A x, y \in Seq(Event) :
          /\ x \o y \in Seq(Event) /\ Len(x) \in Nat /\ Len(x \o y) = Len(x) + Len(y)
          /\ \A i \in 1 .. Len(x) + Len(y) :
               (x \o y)[i] = IF i <= Len(x) THEN x[i] ELSE y[i - Len(x)]
    BY ConcatProperties
  <2>. HIDE DEF m
  <2>2. Len(c) = m /\ Len(a) = n
    BY <1>1 DEF m
  <2>. QED  BY <1>1, <2>1, <2>2, ZenonT(60)
<1>5. \A i \in 1 .. m : i \in 1 .. m + n /\ i <= m
  BY <1>1, <1>4
<1>6. \A i \in 1 .. n : m + i \in 1 .. m + n /\ ~(m + i <= m) /\ (m + i) - m = i
  BY <1>1, <1>4
<1>7. /\ \A i \in 1 .. m : (c \o a)[i] = c[i]
      /\ \A i \in 1 .. n : (c \o a)[m + i] = st.pending[i]
  BY <1>1, <1>4, <1>5, <1>6
<1>8. /\ Delivered(r)' \in Seq(TokenId)
      /\ Delivered(r)' \o IdsOf(b) = Owed(st)
  <2>1. IdsOf(c \o a) = IdsOf(c) \o IdsOf(a)
    BY <1>1, IdsConcat
  <2>. DEFINE w == got[r]  x == IdsOf(c)  y == IdsOf(a)  z == IdsOf(b)
  <2>2. w \in Seq(TokenId) /\ x \in Seq(TokenId) /\ y \in Seq(TokenId) /\ z \in Seq(TokenId)
    BY <1>1
  <2>. HIDE DEF w, x, y, z, m
  <2>3. w \o x \in Seq(TokenId) /\ x \o y \in Seq(TokenId) /\ w \o (x \o y) \in Seq(TokenId)
    BY <2>2, ConcatProperties
  <2>4. (w \o x) \o y = w \o (x \o y)
    BY <2>2, ConcatAssociative, SMTT(60)
  <2>5. \A p \in Seq(TokenId) : (p \o y) \o z = p \o (y \o z)
    BY <2>2, ConcatAssociative, SMTT(40)
  <2>6. (w \o (x \o y)) \o z = (w \o x) \o (y \o z)
    BY <2>3, <2>4, <2>5, Zenon
  <2>. QED  BY <1>1, <1>3, <2>1, <2>3, <2>6, Zenon DEF w, x, y, z
<1>. QED  BY <1>2, <1>4, <1>7, <1>8 DEF r, c, b, n

\* What flush_slot does with the slot, by its outcome.
LEMMA FlushOutcomes ==
  ASSUME FrontTypeOK, NEW s \in Slot, NEW st \in SlotState, st.req \in Request,
         FlushSlot(s, st)
  PROVE  /\ UNCHANGED <<server, client, got, cmds, queue, cut>>
         /\ \A t \in Slot : t # s => slots'[t] = slots[t]
         /\ \A q \in Request : q # st.req => chan'[q] = chan[q]
         /\ \/ /\ FlushOutcome(st) = "Live"
               /\ slots'[s] \in SlotState /\ slots'[s].req = st.req
               /\ slots'[s].emitted = st.emitted /\ slots'[s].finished = st.finished
               /\ slots'[s].pending = Refused(st)
               /\ st.pending # <<>> => RxOpen(st.req)
               /\ ~(Len(st.pending) <= Room(st.req)) \/ ~st.finished
               /\ chan' = [chan EXCEPT ![st.req] = @ \o Accepted(st)]
            \/ /\ FlushOutcome(st) = "Drained"
               /\ slots'[s] = NoSlot
               /\ st.pending # <<>> => RxOpen(st.req)
               /\ Len(st.pending) <= Room(st.req) /\ st.finished
               /\ chan' = [chan EXCEPT ![st.req] = @ \o Accepted(st)]
            \/ /\ FlushOutcome(st) = "Closed"
               /\ slots'[s] = NoSlot
               /\ st.pending # <<>> /\ ~RxOpen(st.req)
               /\ chan' = chan
<1>1. /\ UNCHANGED <<server, client, got, cmds, queue, cut>>
      /\ \A t \in Slot : t # s => slots'[t] = slots[t]
      /\ \A q \in Request : q # st.req => chan'[q] = chan[q]
  BY DEF FlushSlot, FrontTypeOK
<1>2. CASE FlushOutcome(st) = "Live"
  <2>1. slots'[s] = [st EXCEPT !.pending = Refused(st)]
        /\ chan' = [chan EXCEPT ![st.req] = @ \o Accepted(st)]
    BY <1>2 DEF FlushSlot, FrontTypeOK
  <2>2. slots'[s] \in SlotState
    BY <2>1, FlushSplits DEF SlotState
  <2>3. /\ slots'[s].req = st.req /\ slots'[s].emitted = st.emitted
        /\ slots'[s].finished = st.finished /\ slots'[s].pending = Refused(st)
    BY <2>1 DEF SlotState
  <2>4. /\ st.pending # <<>> => RxOpen(st.req)
        /\ ~(Len(st.pending) <= Room(st.req)) \/ ~st.finished
    BY <1>2 DEF FlushOutcome
  <2>. QED  BY <1>1, <1>2, <2>1, <2>2, <2>3, <2>4
<1>3. CASE FlushOutcome(st) = "Drained"
  <2>1. slots'[s] = NoSlot /\ chan' = [chan EXCEPT ![st.req] = @ \o Accepted(st)]
    BY <1>3 DEF FlushSlot, FrontTypeOK
  <2>2. /\ st.pending # <<>> => RxOpen(st.req)
        /\ Len(st.pending) <= Room(st.req) /\ st.finished
    BY <1>3 DEF FlushOutcome
  <2>. QED  BY <1>1, <1>3, <2>1, <2>2
<1>4. CASE FlushOutcome(st) = "Closed"
  <2>1. slots'[s] = NoSlot /\ chan' = chan
    BY <1>4 DEF FlushSlot, FrontTypeOK
  <2>2. st.pending # <<>> /\ ~RxOpen(st.req)
    BY <1>4 DEF FlushOutcome
  <2>. QED  BY <1>1, <1>4, <2>1, <2>2
<1>. QED  BY <1>2, <1>3, <1>4 DEF FlushOutcome

LEMMA FlushFront ==
  ASSUME FrontTypeOK, FrontInv, NEW s \in Slot, NEW st \in SlotState, st.req \in Request,
         slots[s].req = st.req, SlotOK(st), FlushSlot(s, st)
  PROVE  FrontInv' /\ (ExactInv /\ (RxOpen(st.req) => Exact(st.req, Owed(st))) => ExactInv')
<1>. DEFINE r == st.req  c == chan[r]  m == Len(c)  p == st.pending  n == Fit(st)
            b == Refused(st)
<1>1. /\ InSlot(r) /\ Held(r) /\ ~Submitted(r) /\ ~Queued(r)
      /\ \A t \in Slot : slots[t].req = r => t = s
      /\ WaitOK(r) /\ ChanOK(r) /\ EndOK(r)
      /\ \A q \in Request : PlacedOnce(q)
  BY DEF FrontInv, RequestOK, PlacedOnce, InSlot, Held
<1>2. /\ UNCHANGED <<server, client, got, cmds, queue, cut>>
      /\ \A t \in Slot : t # s => slots'[t] = slots[t]
      /\ \A q \in Request : q # r => chan'[q] = chan[q]
  BY FlushOutcomes
<1>3. \A i \in 1 .. m : ~IsEnd(c[i])
  BY <1>1 DEF ChanOK
<1>4. r # None /\ client[r] # "new" /\ (RxOpen(r)' <=> RxOpen(r))
  BY <1>1, <1>2 DEF WaitOK, RxOpen, RequestsAssumption
<1>5. slots'[s].req = r \/ slots'[s] = NoSlot
  BY FlushOutcomes
<1>6. \A q \in Request : /\ Submitted(q)' <=> Submitted(q)
                         /\ Queued(q)' <=> Queued(q)
                         /\ InSlot(q)' <=> InSlot(q) /\ (q = r => slots'[s].req = r)
                         /\ PlacedOnce(q)'
  <2>. TAKE q \in Request
  <2>1. (Submitted(q)' <=> Submitted(q)) /\ (Queued(q)' <=> Queued(q))
    BY <1>2 DEF Submitted, Queued
  <2>2. InSlot(q)' <=> InSlot(q) /\ (q = r => slots'[s].req = r)
    <3>1. CASE q = r
      BY <1>1, <1>2, <3>1 DEF InSlot
    <3>2. CASE q # r
      BY <1>2, <1>5, <3>2 DEF InSlot, NoSlot, RequestsAssumption
    <3>. QED  BY <3>1, <3>2
  <2>3. \A t, u \in Slot : slots'[t].req = q /\ slots'[u].req = q => t = u
    <3>1. \A t \in Slot : slots'[t].req = q => slots[t].req = q
      BY <1>2, <1>5 DEF NoSlot, RequestsAssumption
    <3>. QED  BY <1>1, <3>1 DEF PlacedOnce
  <2>. QED  BY <1>1, <1>2, <2>1, <2>2, <2>3 DEF PlacedOnce
<1>7. \A q \in Request : q # r => Untouched(q) /\ (Held(q)' <=> Held(q))
                           /\ ((Submitted(q) \/ Queued(q))' => Submitted(q) \/ Queued(q))
  <2>. TAKE q \in Request
  <2>. HAVE q # r
  <2>1. \A t \in Slot : slots'[t].req = q => slots'[t] = slots[t]
    BY <1>2, <1>5 DEF NoSlot, RequestsAssumption
  <2>. QED  BY <1>2, <1>6, <2>1 DEF Untouched, Held
<1>8. DownOK'
  BY <1>2 DEF FrontInv, DownOK, ShutdownIn, RxOpen
<1>9. \A t \in Slot : slots'[t].req = r => t = s
  BY <1>1, <1>2
<1>10. WaitOK(r)' /\ EndOK(r)'
  BY <1>1, <1>2, <1>4, <1>6 DEF WaitOK, EndOK
<1>11. p \in Seq(Event) /\ Len(p) \in Nat /\ n \in Nat /\ n <= Len(p)
       /\ b \in Seq(Event) /\ Len(b) = Len(p) - n
       /\ \A i \in 1 .. Len(p) - n : b[i] = p[n + i]
  BY FlushSplits DEF SlotState
<1>12. CASE FlushOutcome(st) = "Live"
  <2>1. /\ slots'[s].req = r /\ slots'[s].emitted = st.emitted /\ slots'[s].finished = st.finished
        /\ slots'[s].pending = b /\ (p # <<>> => RxOpen(r))
        /\ ~(Len(p) <= Room(r)) \/ ~st.finished
        /\ chan' = [chan EXCEPT ![r] = @ \o Accepted(st)]
    BY <1>12, FlushOutcomes
  <2>2. /\ chan'[r] \in Seq(Event) /\ m \in Nat /\ Len(chan'[r]) = m + n
        /\ \A i \in 1 .. m : chan'[r][i] = c[i]
        /\ \A i \in 1 .. n : chan'[r][m + i] = p[i]
        /\ Delivered(r)' \in Seq(TokenId) /\ Delivered(r)' \o IdsOf(b) = Owed(st)
    BY <1>2, <2>1, FlushDelivers
  <2>3. st.finished => n < Len(p)
    BY <2>1, FlushSplits
  <2>4. \A i \in 1 .. n : ~IsEnd(p[i])
    <3>1. \A i \in 1 .. n : i \in 1 .. Len(p) /\ (i = Len(p) => ~(n < Len(p)))
      BY <1>11
    <3>. QED  BY <2>3, <3>1 DEF SlotOK
  <2>5. \A i \in 1 .. m + n : ~IsEnd(chan'[r][i])
    <3>1. \A i \in 1 .. m + n : i \in 1 .. m \/ (i - m \in 1 .. n /\ m + (i - m) = i)
      BY <1>11, <2>2, SMTT(60)
    <3>. DEFINE d == chan'[r]
    <3>2. /\ \A i \in 1 .. m : ~IsEnd(c[i]) /\ d[i] = c[i]
          /\ \A i \in 1 .. n : ~IsEnd(p[i]) /\ d[m + i] = p[i]
      BY <1>3, <2>2, <2>4
    <3>. HIDE DEF d
    <3>3. ASSUME NEW i \in 1 .. m + n
          PROVE  ~IsEnd(d[i])
      <4>1. i \in 1 .. m => ~IsEnd(d[i])
        BY <3>2, Zenon
      <4>2. i - m \in 1 .. n /\ m + (i - m) = i => ~IsEnd(d[i])
        BY <3>2, Zenon
      <4>. QED  BY <3>1, <3>3, <4>1, <4>2, Zenon
    <3>. QED  BY <3>3, Zenon DEF d
  <2>6. chan'[r] # <<>> => RxOpen(r)
    <3>. SUFFICES ASSUME ~RxOpen(r) PROVE chan'[r] = <<>>
      OBVIOUS
    <3>1. m = 0 /\ Len(p) = 0
      BY <1>1, <2>1 DEF ChanOK
    <3>2. Len(chan'[r]) = 0
      BY <1>11, <2>2, <3>1
    <3>. QED  BY <2>2, <3>2
  <2>7. InSlot(r)' /\ Held(r)'
    BY <2>1 DEF InSlot, Held
  <2>8. ChanOK(r)'
    BY <1>4, <2>2, <2>5, <2>6, <2>7 DEF ChanOK
  <2>9. Owed(slots[s])' = Owed(st)
    BY <2>1, <2>2 DEF Owed
  <2>10. SlotOK(slots[s])'
    <3>1. RxOpen(r)' => Len(Owed(slots[s])') = slots'[s].emitted
      BY <1>4, <2>1, <2>9 DEF SlotOK
    <3>2. \A i \in 1 .. Len(p) - n : n + i \in 1 .. Len(p) /\ (n + i = Len(p) => i = Len(p) - n)
      BY <1>11
    <3>3. \A i \in 1 .. Len(b) : IsEnd(b[i]) =>
            /\ i = Len(b) /\ st.finished /\ b[i].kind \in {"Eos", "Limit"}
            /\ EndsAs(b[i].kind, r, st.emitted)
      BY <1>11, <3>2 DEF SlotOK
    <3>4. st.finished => b # <<>> /\ IsEnd(b[Len(b)])
      <4>. SUFFICES ASSUME st.finished PROVE b # <<>> /\ IsEnd(b[Len(b)])
        OBVIOUS
      <4>1. Len(p) - n \in 1 .. Len(p) - n /\ n + (Len(p) - n) = Len(p) /\ Len(p) - n # 0
        BY <1>11, <2>3
      <4>2. b[Len(b)] = p[Len(p)]
        BY <1>11, <4>1
      <4>. QED  BY <1>11, <4>1, <4>2 DEF SlotOK
    <3>. HIDE DEF b
    <3>. QED  BY <2>1, <3>1, <3>3, <3>4 DEF SlotOK
  <2>11. RequestOK(r)'
    BY <1>9, <1>10, <2>8, <2>10 DEF RequestOK
  <2>12. ExactInv /\ (RxOpen(r) => Exact(r, Owed(st))) => ExactOK(r)'
    <3>. SUFFICES ASSUME ExactInv, RxOpen(r) => Exact(r, Owed(st)) PROVE ExactOK(r)'
      OBVIOUS
    <3>1. IdsOf(b) \in Seq(TokenId)
      BY <1>11, IdsType
    <3>2. RxOpen(r) => Exact(r, Delivered(r)')
      BY <2>2, <3>1, ExactPrefix
    <3>. QED  BY <1>2, <1>4, <1>9, <2>9, <3>2 DEF ExactInv, ExactOK, Exact
  <2>. QED  BY <1>6, <1>7, <1>8, <2>11, <2>12, OnlyRequest
<1>13. CASE FlushOutcome(st) = "Drained"
  <2>1. /\ slots'[s] = NoSlot /\ (p # <<>> => RxOpen(r))
        /\ Len(p) <= Room(r) /\ st.finished
        /\ chan' = [chan EXCEPT ![r] = @ \o Accepted(st)]
    BY <1>13, FlushOutcomes
  <2>2. /\ chan'[r] \in Seq(Event) /\ m \in Nat /\ Len(chan'[r]) = m + n
        /\ \A i \in 1 .. m : chan'[r][i] = c[i]
        /\ \A i \in 1 .. n : chan'[r][m + i] = p[i]
        /\ Delivered(r)' \in Seq(TokenId) /\ Delivered(r)' \o IdsOf(b) = Owed(st)
    BY <1>2, <2>1, FlushDelivers
  <2>3. n = Len(p) /\ n # 0 /\ RxOpen(r) /\ IsEnd(p[n])
    <3>1. n = Len(p)
      BY <2>1, FlushSplits
    <3>2. p # <<>> /\ IsEnd(p[Len(p)])
      BY <2>1 DEF SlotOK
    <3>. QED  BY <1>11, <2>1, <3>1, <3>2
  <2>4. Delivered(r)' = Owed(st) /\ Len(Delivered(r)') = st.emitted
    <3>1. Len(b) = 0
      BY <1>11, <2>3
    <3>2. IdsOf(b) = <<>>
      BY <1>11, <3>1, IdsNone
    <3>3. Delivered(r)' \o <<>> = Delivered(r)'
      BY <2>2, ConcatEmptySeq
    <3>. QED  BY <2>2, <2>3, <3>2, <3>3 DEF SlotOK
  <2>5. ~Held(r)'
    BY <1>1, <1>4, <1>6, <2>1 DEF Held, NoSlot
  <2>6. chan'[r] # <<>> /\ IsEnd(chan'[r][Len(chan'[r])])
    <3>1. m + n # 0 /\ n \in 1 .. n
      <4>1. m \in Nat /\ n \in Nat /\ n # 0
        BY <1>11, <2>2, <2>3
      <4>. HIDE DEF m, n
      <4>. QED  BY <4>1
    <3>. QED  BY <2>2, <2>3, <3>1
  <2>7. \A i \in 1 .. m + n : IsEnd(chan'[r][i]) =>
          i = m + n /\ EndsAs(chan'[r][i].kind, r, st.emitted)
    <3>1. \A i \in 1 .. m + n : i \in 1 .. m \/ (i - m \in 1 .. n /\ m + (i - m) = i)
      BY <1>11, <2>2, SMTT(60)
    <3>2. \A i \in 1 .. n : IsEnd(p[i]) => i = n /\ EndsAs(p[i].kind, r, st.emitted)
      BY <2>3 DEF SlotOK
    <3>. TAKE i \in 1 .. m + n
    <3>3. CASE i \in 1 .. m
      BY <1>3, <2>2, <3>3
    <3>4. CASE i - m \in 1 .. n /\ m + (i - m) = i
      <4>1. chan'[r][i] = p[i - m] /\ (i - m = n => i = m + n)
        BY <2>2, <3>4
      <4>. QED  BY <3>2, <3>4, <4>1
    <3>. QED  BY <3>1, <3>3, <3>4
  <2>8. ChanOK(r)'
    BY <1>4, <2>2, <2>3, <2>4, <2>5, <2>6, <2>7 DEF ChanOK
  <2>9. \A t \in Slot : slots'[t].req # r
    BY <1>4, <1>9, <2>1 DEF NoSlot
  <2>10. RequestOK(r)'
    BY <1>10, <2>8, <2>9 DEF RequestOK
  <2>11. ExactInv /\ (RxOpen(r) => Exact(r, Owed(st))) => ExactOK(r)'
    BY <1>2, <1>4, <2>4, <2>9 DEF ExactInv, ExactOK, Exact
  <2>. QED  BY <1>6, <1>7, <1>8, <2>10, <2>11, OnlyRequest
<1>14. CASE FlushOutcome(st) = "Closed"
  <2>1. slots'[s] = NoSlot /\ ~RxOpen(r) /\ chan' = chan
    BY <1>14, FlushOutcomes
  <2>2. chan'[r] = <<>> /\ Len(chan'[r]) = 0 /\ 1 .. 0 = {}
    BY <1>1, <2>1 DEF ChanOK
  <2>3. ChanOK(r)'
    BY <1>4, <2>1, <2>2 DEF ChanOK
  <2>4. \A t \in Slot : slots'[t].req # r
    BY <1>4, <1>9, <2>1 DEF NoSlot
  <2>5. RequestOK(r)'
    BY <1>10, <2>3, <2>4 DEF RequestOK
  <2>6. ExactInv => ExactOK(r)'
    BY <1>2, <1>4, <2>1, <2>4 DEF ExactInv, ExactOK, Exact
  <2>. QED  BY <1>6, <1>7, <1>8, <2>5, <2>6, OnlyRequest
<1>. QED  BY <1>12, <1>13, <1>14 DEF FlushOutcome

-------------------------------------------------------------------------------
(* A slot's buffer grows.                                                     *)

\* One more event that is no end.
LEMMA EventMore ==
  ASSUME NEW p \in Seq(Event), \A i \in 1 .. Len(p) : ~IsEnd(p[i]),
         NEW e \in Event, ~IsEnd(e)
  PROVE  /\ p \o <<e>> \in Seq(Event) /\ IdsOf(p \o <<e>>) = IdsOf(p) \o e.ids
         /\ \A i \in 1 .. Len(p \o <<e>>) : ~IsEnd((p \o <<e>>)[i])
<1>. DEFINE body == p \o <<e>>
<1>1. body = Append(p, e)
  BY AppendIsConcat
<1>. HIDE DEF body
<1>2. body \in Seq(Event) /\ Len(body) = Len(p) + 1 /\ Len(p) \in Nat
      /\ body[Len(p) + 1] = e /\ \A i \in 1 .. Len(p) : body[i] = p[i]
  BY <1>1, AppendProperties
<1>3. \A i \in 1 .. Len(p) + 1 : i \in 1 .. Len(p) \/ i = Len(p) + 1
  BY <1>2
<1>4. \A i \in 1 .. Len(body) : ~IsEnd(body[i])
  BY <1>2, <1>3
<1>5. IdsOf(body) = IdsOf(p) \o e.ids
  BY <1>1, IdsAppend
<1>. QED  BY <1>2, <1>4, <1>5 DEF body

(* A driver adds `toks` to what the unfinished record st owes, and perhaps the *)
(* end of the stream: the record stays sound, and exact if the tokens are the  *)
(* next ones.                                                                  *)
LEMMA SlotGrows ==
  ASSUME FrontTypeOK, NEW st \in SlotState, st.req \in Request, ~st.finished, SlotOK(st),
         NEW nst \in SlotState, nst.req = st.req,
         NEW toks \in Seq(TokenId), nst.emitted = st.emitted + Len(toks),
         NEW body \in Seq(Event), \A i \in 1 .. Len(body) : ~IsEnd(body[i]),
         IdsOf(body) = IdsOf(st.pending) \o toks,
         NEW reason \in {"Eos", "Limit"},
         nst.pending = IF nst.finished THEN Append(body, Done(reason)) ELSE body,
         nst.finished => EndsAs(reason, st.req, nst.emitted)
  PROVE  /\ SlotOK(nst)
         /\ toks = [i \in 1 .. Len(toks) |-> <<st.req, st.emitted + i>>] =>
              (RxOpen(st.req) /\ Exact(st.req, Owed(st)) => Exact(st.req, Owed(nst)))
<1>. DEFINE r == st.req  n == nst.emitted
<1>4. /\ st.emitted \in Nat /\ Len(toks) \in Nat /\ n \in Nat
      /\ Owed(st) \in Seq(TokenId) /\ Delivered(r) \in Seq(TokenId)
      /\ IdsOf(st.pending) \in Seq(TokenId) /\ IdsOf(body) \in Seq(TokenId)
  <2>1. st.emitted \in Nat /\ Len(toks) \in Nat /\ n \in Nat
    BY DEF SlotState
  <2>2. Owed(st) \in Seq(TokenId) /\ Delivered(r) \in Seq(TokenId) /\ IdsOf(st.pending) \in Seq(TokenId)
    BY StreamTypes
  <2>. QED  BY <2>1, <2>2, IdsType
<1>5. Done(reason) \in Event /\ Done(reason).kind = reason /\ Done(reason).ids = <<>>
  <2>1. <<>> \in Seq(TokenId)
    OBVIOUS
  <2>. QED  BY <2>1 DEF Done, Event
<1>6. IdsOf(nst.pending) = IdsOf(st.pending) \o toks
  <2>1. CASE nst.finished
    <3>1. IdsOf(nst.pending) = IdsOf(body) \o <<>>
      BY <1>5, <2>1, IdsAppend
    <3>. QED  BY <1>4, <3>1, ConcatEmptySeq
  <2>2. CASE ~nst.finished
    BY <2>2
  <2>. QED  BY <2>1, <2>2
<1>7. Owed(nst) = Owed(st) \o toks
  <2>. DEFINE a == Delivered(r)  b == IdsOf(st.pending)
  <2>1. a \in Seq(TokenId) /\ b \in Seq(TokenId)
    BY <1>4
  <2>2. Owed(nst) = a \o (b \o toks) /\ Owed(st) = a \o b
    BY <1>6 DEF Owed
  <2>. HIDE DEF a, b
  <2>3. a \o b \in Seq(TokenId) /\ (a \o b) \o toks = a \o (b \o toks)
    BY <2>1, TokensConcat, SMTT(60)
  <2>. QED  BY <2>2, <2>3
<1>8. RxOpen(r) => Len(Owed(nst)) = n
  <2>. DEFINE a == Owed(st)
  <2>1. RxOpen(r) => Len(a) = st.emitted
    BY DEF SlotOK
  <2>2. a \in Seq(TokenId) /\ Owed(nst) = a \o toks
    BY <1>4, <1>7
  <2>. HIDE DEF a
  <2>3. Len(a \o toks) = Len(a) + Len(toks)
    BY <2>2, TokensConcat
  <2>. QED  BY <2>1, <2>2, <2>3
<1>9. /\ \A i \in 1 .. Len(nst.pending) : IsEnd(nst.pending[i]) =>
            i = Len(nst.pending) /\ nst.finished /\ nst.pending[i].kind = reason
      /\ nst.finished => nst.pending # <<>> /\ IsEnd(nst.pending[Len(nst.pending)])
  <2>1. CASE ~nst.finished
    BY <2>1
  <2>2. CASE nst.finished
    <3>. DEFINE p == nst.pending  d == Done(reason)
    <3>0. p = Append(body, d) /\ d \in Event /\ d.kind = reason /\ IsEnd(d)
      BY <1>5, <2>2 DEF IsEnd
    <3>. HIDE DEF p, d
    <3>1. Len(p) = Len(body) + 1 /\ Len(body) \in Nat
          /\ p[Len(body) + 1] = d /\ \A i \in 1 .. Len(body) : p[i] = body[i]
      BY <3>0, AppendProperties
    <3>2. \A i \in 1 .. Len(body) + 1 : i \in 1 .. Len(body) \/ i = Len(body) + 1
      BY <3>1
    <3>3. \A i \in 1 .. Len(p) : IsEnd(p[i]) => i = Len(p) /\ p[i].kind = reason
      BY <3>0, <3>1, <3>2
    <3>4. p # <<>> /\ IsEnd(p[Len(p)])
      <4>1. Len(p) # 0 /\ p[Len(p)] = d
        BY <3>1
      <4>. QED  BY <3>0, <4>1
    <3>. QED  BY <2>2, <3>3, <3>4, Zenon DEF p
  <2>. QED  BY <2>1, <2>2
<1>10. SlotOK(nst)
  <2>1. nst.finished => EndsAs(reason, nst.req, n)
    OBVIOUS
  <2>. HIDE DEF n
  <2>. QED  BY <1>8, <1>9, <2>1 DEF SlotOK, n
<1>11. ASSUME RxOpen(r), Exact(r, Owed(st)), toks = [i \in 1 .. Len(toks) |-> <<r, st.emitted + i>>]
       PROVE  Exact(r, Owed(nst))
  <2>. DEFINE a == Owed(st)  k == Len(toks)
  <2>1. a \in Seq(TokenId) /\ Len(a) = st.emitted /\ k \in Nat /\ Exact(r, a)
    BY <1>4, <1>11 DEF SlotOK
  <2>2. toks = [i \in 1 .. k |-> <<r, Len(a) + i>>]
    BY <1>11, <2>1
  <2>. HIDE DEF a, k
  <2>3. Exact(r, a \o [i \in 1 .. k |-> <<r, Len(a) + i>>])
    BY <2>1, ExactMore
  <2>. QED  BY <1>7, <2>2, <2>3 DEF a
<1>. QED  BY <1>10, <1>11

-------------------------------------------------------------------------------
(* A request is failed.                                                       *)

\* Its Error is the last event of its channel, or the request is cut.
LEMMA ErrorEnds ==
  ASSUME FrontTypeOK, NEW r \in Request, ChanOK(r), Held(r), ~Held(r)', SendError(r),
         UNCHANGED <<client, got>>
  PROVE  /\ ChanOK(r)' /\ Delivered(r)' = Delivered(r)
         /\ \A q \in Request : q # r => chan'[q] = chan[q] /\ (q \in cut => q \in cut')
         /\ EndOK(r) => EndOK(r)'
         /\ (RxOpen(r)' <=> RxOpen(r))
<1>. DEFINE c == chan[r]  m == Len(c)
<1>1. /\ c \in Seq(Event) /\ m \in Nat /\ Error \in Event /\ Error.ids = <<>>
      /\ Error.kind = "Error" /\ got[r] \in Seq(TokenId)
  <2>1. <<>> \in Seq(TokenId)
    OBVIOUS
  <2>2. Error \in Event /\ Error.ids = <<>> /\ Error.kind = "Error"
    BY <2>1 DEF Error, Event
  <2>3. c \in Seq(Event) /\ got[r] \in Seq(TokenId)
    BY DEF FrontTypeOK, Channel
  <2>. QED  BY <2>2, <2>3
<1>2. \A i \in 1 .. m : ~IsEnd(c[i])
  BY DEF ChanOK
<1>3. RxOpen(r)' <=> RxOpen(r)
  BY DEF RxOpen
<1>4. \A q \in Request : q # r => chan'[q] = chan[q] /\ (q \in cut => q \in cut')
  BY DEF SendError, FrontTypeOK
<1>5. CASE RxOpen(r) /\ Room(r) > 0
  <2>1. chan'[r] = Append(c, Error)
    BY <1>5 DEF SendError, FrontTypeOK
  <2>2. /\ Len(chan'[r]) = m + 1 /\ chan'[r][m + 1] = Error
        /\ \A i \in 1 .. m : chan'[r][i] = c[i]
    <3>. HIDE DEF c
    <3>. QED  BY <1>1, <2>1, AppendProperties
  <2>3. \A i \in 1 .. m + 1 : i \in 1 .. m \/ i = m + 1
    BY <1>1
  <2>4. m + 1 \in 1 .. m + 1 /\ m + 1 # 0
    BY <1>1
  <2>5. \A i \in 1 .. m + 1 : IsEnd(chan'[r][i]) => i = m + 1 /\ chan'[r][i].kind = "Error"
    BY <1>1, <1>2, <2>2, <2>3
  <2>6. chan'[r] # <<>> /\ IsEnd(chan'[r][Len(chan'[r])])
    BY <1>1, <2>2, <2>4 DEF IsEnd
  <2>7. ChanOK(r)'
    BY <1>3, <1>5, <2>2, <2>5, <2>6 DEF ChanOK, EndsAs
  <2>8. Delivered(r)' = Delivered(r)
    <3>1. IdsOf(chan'[r]) = IdsOf(c) \o <<>> /\ IdsOf(c) \in Seq(TokenId)
      BY <1>1, <2>1, IdsAppend, IdsType
    <3>2. IdsOf(c) \o <<>> = IdsOf(c)
      BY <3>1, ConcatEmptySeq
    <3>. QED  BY <3>1, <3>2 DEF Delivered
  <2>9. EndOK(r) => EndOK(r)'
    BY <1>5 DEF EndOK, SendError
  <2>. QED  BY <1>3, <1>4, <2>7, <2>8, <2>9
<1>6. CASE ~(RxOpen(r) /\ Room(r) > 0)
  <2>1. chan' = chan /\ (RxOpen(r) => r \in cut') /\ (r \in cut => r \in cut')
    BY <1>6 DEF SendError
  <2>2. ChanOK(r)' /\ Delivered(r)' = Delivered(r)
    BY <1>2, <1>3, <2>1 DEF ChanOK, Delivered
  <2>3. EndOK(r) => EndOK(r)'
    BY <2>1 DEF EndOK
  <2>. QED  BY <1>3, <1>4, <2>2, <2>3
<1>. QED  BY <1>5, <1>6

\* The request of a slot.
LEMMA FailFront ==
  ASSUME FrontTypeOK, FrontInv, NEW s \in Slot, Occupied(s), FailSlot(s)
  PROVE  FrontInv' /\ (ExactInv => ExactInv')
<1>1. PICK r \in Request : r = slots[s].req
  BY DEF FrontTypeOK, Occupied, SlotState
<1>2. /\ InSlot(r) /\ Held(r) /\ ~Submitted(r) /\ ~Queued(r)
      /\ \A t \in Slot : slots[t].req = r => t = s
      /\ WaitOK(r) /\ ChanOK(r) /\ EndOK(r)
      /\ \A q \in Request : PlacedOnce(q)
  BY <1>1 DEF FrontInv, RequestOK, PlacedOnce, InSlot, Held
<1>3. /\ UNCHANGED <<server, client, got, cmds, queue>> /\ SendError(r)
      /\ slots'[s] = NoSlot /\ \A t \in Slot : t # s => slots'[t] = slots[t]
  BY <1>1 DEF FailSlot, FrontTypeOK
<1>4. \A q \in Request : slots'[s].req # q
  BY <1>3 DEF NoSlot, RequestsAssumption
<1>5. \A q \in Request : /\ Submitted(q)' <=> Submitted(q)
                         /\ Queued(q)' <=> Queued(q)
                         /\ InSlot(q)' <=> InSlot(q) /\ q # r
                         /\ PlacedOnce(q)'
  <2>. TAKE q \in Request
  <2>1. (Submitted(q)' <=> Submitted(q)) /\ (Queued(q)' <=> Queued(q))
    BY <1>3 DEF Submitted, Queued
  <2>2. \A t \in Slot : slots'[t].req = q <=> slots[t].req = q /\ q # r
    BY <1>1, <1>2, <1>3, <1>4
  <2>3. InSlot(q)' <=> InSlot(q) /\ q # r
    BY <2>2 DEF InSlot
  <2>. QED  BY <1>2, <1>3, <2>1, <2>2, <2>3 DEF PlacedOnce
<1>6. ~Held(r)'
  BY <1>2, <1>5 DEF Held
<1>7. /\ ChanOK(r)' /\ Delivered(r)' = Delivered(r) /\ EndOK(r)'
      /\ \A q \in Request : q # r => chan'[q] = chan[q] /\ (q \in cut => q \in cut')
      /\ (RxOpen(r)' <=> RxOpen(r))
  BY <1>2, <1>3, <1>6, ErrorEnds
<1>8. \A q \in Request : q # r => Untouched(q) /\ (Held(q)' <=> Held(q))
                           /\ ((Submitted(q) \/ Queued(q))' => Submitted(q) \/ Queued(q))
  BY <1>3, <1>4, <1>5, <1>7 DEF Untouched, Held
<1>9. DownOK'
  BY <1>3 DEF FrontInv, DownOK, ShutdownIn, RxOpen
<1>10. WaitOK(r)'
  BY <1>2, <1>3, <1>5, <1>6 DEF WaitOK
<1>11. \A t \in Slot : slots'[t].req # r
  BY <1>2, <1>3, <1>4
<1>12. RequestOK(r)'
  BY <1>7, <1>10, <1>11 DEF RequestOK
<1>13. ExactInv => ExactOK(r)'
  BY <1>3, <1>7, <1>11 DEF ExactInv, ExactOK
<1>. QED  BY <1>5, <1>8, <1>9, <1>12, <1>13, OnlyRequest

\* The first job of the queue.
LEMMA RejectFront ==
  ASSUME FrontTypeOK, FrontInv, queue # <<>>, SendError(Head(queue)), queue' = Tail(queue),
         UNCHANGED <<server, client, got, cmds, slots>>
  PROVE  FrontInv' /\ (ExactInv => ExactInv')
<1>1. PICK r \in Request : r = Head(queue)
  BY DEF FrontTypeOK
<1>2. /\ \A q \in Request : PlacedOnce(q)
      /\ WaitOK(r) /\ ChanOK(r) /\ EndOK(r)
  BY <1>1 DEF FrontInv, RequestOK
<1>3. Queued(r) /\ \A q \in Request :
              /\ Queued(q)' <=> Queued(q) /\ q # r
              /\ \A i, j \in 1 .. Len(queue') : queue'[i] = q /\ queue'[j] = q => i = j
  BY <1>1, <1>2, TailPlaces DEF PlacedOnce
<1>4. ~Submitted(r) /\ ~InSlot(r) /\ Held(r)
  BY <1>2, <1>3 DEF PlacedOnce, Held
<1>5. \A q \in Request : (Submitted(q)' <=> Submitted(q)) /\ (InSlot(q)' <=> InSlot(q))
  BY DEF Submitted, InSlot
<1>6. \A q \in Request : PlacedOnce(q)'
  BY <1>2, <1>3, <1>5 DEF PlacedOnce
<1>7. ~Held(r)' /\ \A q \in Request : q # r => (Held(q)' <=> Held(q))
  BY <1>3, <1>4, <1>5 DEF Held
<1>8. /\ ChanOK(r)' /\ Delivered(r)' = Delivered(r) /\ EndOK(r)'
      /\ \A q \in Request : q # r => chan'[q] = chan[q] /\ (q \in cut => q \in cut')
      /\ (RxOpen(r)' <=> RxOpen(r))
  BY <1>1, <1>2, <1>4, <1>7, ErrorEnds
<1>9. \A q \in Request : q # r => Untouched(q)
                           /\ ((Submitted(q) \/ Queued(q))' => Submitted(q) \/ Queued(q))
  BY <1>3, <1>5, <1>8 DEF Untouched
<1>10. DownOK'
  BY DEF FrontInv, DownOK, ShutdownIn, RxOpen
<1>11. WaitOK(r)'
  BY <1>2, <1>3, <1>4, <1>5, <1>7 DEF WaitOK
<1>12. \A t \in Slot : slots'[t].req # r
  BY <1>4 DEF InSlot
<1>13. RequestOK(r)'
  BY <1>8, <1>11, <1>12 DEF RequestOK
<1>14. ExactInv => ExactOK(r)'
  BY <1>8, <1>12 DEF ExactInv, ExactOK
<1>. QED  BY <1>6, <1>7, <1>9, <1>10, <1>13, <1>14, OnlyRequest

\* A step of the engine alone.
LEMMA FrontStill ==
  ASSUME FrontInv, UNCHANGED frontVars
  PROVE  FrontInv' /\ (ExactInv => ExactInv')
<1>1. \A q \in Request : Untouched(q) /\ SamePlace(q) /\ (Held(q)' <=> Held(q)) /\ PlacedOnce(q)'
  BY PlacesStill DEF frontVars, Untouched, FrontInv
<1>2. \A q \in Request : RequestOK(q)' /\ (ExactOK(q) => ExactOK(q)')
  BY <1>1, RequestKept DEF FrontInv, SamePlace
<1>3. DownOK'
  BY DEF frontVars, FrontInv, DownOK, ShutdownIn, RxOpen
<1>. QED  BY <1>1, <1>2, <1>3 DEF FrontInv, ExactInv

-------------------------------------------------------------------------------
(* What is in flight for a request.                                           *)

\* Of the slots' sequences, those of the slots in P, joined: at most one.
OfSlots(P, f) == FlattenSeq([i \in 1 .. NSlots |-> IF i - 1 \in P THEN f[i - 1] ELSE <<>>])

LEMMA OfOneSlot ==
  ASSUME NEW S, NEW f \in [Slot -> Seq(S)]
  PROVE  /\ OfSlots({}, f) = <<>>
         /\ \A s \in Slot : OfSlots({s}, f) = f[s]
<1>. DEFINE parts(P) == [i \in 1 .. NSlots |-> IF i - 1 \in P THEN f[i - 1] ELSE <<>>]
<1>0. /\ NSlots \in Nat /\ 1 \in 1 .. NSlots /\ <<>> \in Seq(S)
      /\ \A i \in 1 .. NSlots : i - 1 \in Slot
      /\ \A s \in Slot : s + 1 \in 1 .. NSlots /\ (s + 1) - 1 = s
      /\ \A s \in Slot : \A i \in 1 .. NSlots : i - 1 = s => i = s + 1
  BY DEF Slot, RequestsAssumption
<1>1. \A P : parts(P) \in Seq(Seq(S)) /\ Len(parts(P)) = NSlots
             /\ \A i \in 1 .. NSlots : parts(P)[i] = IF i - 1 \in P THEN f[i - 1] ELSE <<>>
  <2>. TAKE P
  <2>1. \A i \in 1 .. NSlots : (IF i - 1 \in P THEN f[i - 1] ELSE <<>>) \in Seq(S)
    BY <1>0
  <2>. QED  BY <1>0, <2>1
<1>. HIDE DEF parts
<1>2. FlattenSeq(parts({})) = <<>>
  <2>. DEFINE q == parts({})
  <2>1. q \in Seq(Seq(S)) /\ Len(q) = NSlots /\ (\A i \in 1 .. NSlots : q[i] = <<>>)
    BY <1>1
  <2>. HIDE DEF q
  <2>2. FlattenSeq(q) = q[1]
    BY <1>0, <2>1, FlattenSingle
  <2>. QED  BY <1>0, <2>1, <2>2 DEF q
<1>3. ASSUME NEW s \in Slot PROVE FlattenSeq(parts({s})) = f[s]
  <2>. DEFINE q == parts({s})
  <2>1. q \in Seq(Seq(S)) /\ Len(q) = NSlots
        /\ (\A i \in 1 .. NSlots : i # s + 1 => q[i] = <<>>) /\ q[s + 1] = f[s]
    BY <1>0, <1>1
  <2>. HIDE DEF q
  <2>2. s + 1 \in 1 .. Len(q)
    BY <1>0, <2>1
  <2>3. FlattenSeq(q) = q[s + 1]
    BY <2>1, <2>2, FlattenSingle
  <2>. QED  BY <2>1, <2>3 DEF q
<1>. QED  BY <1>2, <1>3 DEF OfSlots, parts

\* The buffer of a request is that of its slot.
LEMMA BufferOfSlot ==
  ASSUME FrontTypeOK, NEW r \in Request, PlacedOnce(r)
  PROVE  /\ ~InSlot(r) => Buffer(r) = <<>>
         /\ \A s \in Slot : slots[s].req = r => Buffer(r) = slots[s].pending
<1>. DEFINE P == {s \in Slot : slots[s].req = r}  f == [s \in Slot |-> slots[s].pending]
<1>1. f \in [Slot -> Seq(Event)]
  BY DEF FrontTypeOK, SlotState
<1>2. Buffer(r) = OfSlots(P, f)
  <2>1. \A i \in 1 .. NSlots : i - 1 \in Slot
    BY DEF Slot, RequestsAssumption
  <2>2. [i \in 1 .. NSlots |-> IF slots[i - 1].req = r THEN slots[i - 1].pending ELSE <<>>]
          = [i \in 1 .. NSlots |-> IF i - 1 \in P THEN f[i - 1] ELSE <<>>]
    BY <2>1
  <2>. QED  BY <2>2 DEF Buffer, OfSlots
<1>3. ~InSlot(r) => P = {}
  BY DEF InSlot
<1>4. \A s \in Slot : slots[s].req = r => P = {s} /\ f[s] = slots[s].pending
  BY DEF PlacedOnce
<1>. HIDE DEF P, f
<1>5. OfSlots({}, f) = <<>> /\ \A s \in Slot : OfSlots({s}, f) = f[s]
  BY <1>1, OfOneSlot
<1>6. ASSUME NEW s \in Slot, slots[s].req = r PROVE Buffer(r) = slots[s].pending
  BY <1>2, <1>4, <1>5, <1>6
<1>. QED  BY <1>2, <1>3, <1>5, <1>6

\* Nothing follows the end of a stream, which nobody goes on working for; what
\* is in flight is in flight for somebody.
LEMMA InFlightEnds ==
  ASSUME FrontTypeOK, FrontInv, NEW r \in Request
  PROVE  /\ \A i \in 1 .. Len(InFlight(r)) : IsEnd(InFlight(r)[i]) =>
              /\ i = Len(InFlight(r))
              /\ ~Queued(r) /\ \A s \in Slot : slots[s].req = r => slots[s].finished
         /\ InFlight(r) # <<>> => RxOpen(r) \/ InSlot(r)
<1>. DEFINE c == chan[r]  m == Len(c)
<1>1. PlacedOnce(r) /\ ChanOK(r) /\ \A s \in Slot : slots[s].req = r => SlotOK(slots[s])
  BY DEF FrontInv, RequestOK
<1>2. c \in Seq(Event) /\ m \in Nat /\ \A s \in Slot : slots[s].pending \in Seq(Event)
  BY DEF FrontTypeOK, Channel, SlotState
<1>3. CASE ~InSlot(r)
  <2>1. InFlight(r) = c
    BY <1>1, <1>2, <1>3, BufferOfSlot, ConcatEmptySeq DEF InFlight
  <2>. QED  BY <1>1, <1>3, <2>1 DEF ChanOK, Held, InSlot
<1>4. ASSUME NEW s \in Slot, slots[s].req = r
      PROVE  \A i \in 1 .. Len(InFlight(r)) : IsEnd(InFlight(r)[i]) =>
               /\ i = Len(InFlight(r))
               /\ ~Queued(r) /\ \A t \in Slot : slots[t].req = r => slots[t].finished
  <2>. DEFINE p == slots[s].pending  n == Len(p)  fl == InFlight(r)
  <2>1. fl = c \o p /\ SlotOK(slots[s]) /\ p \in Seq(Event) /\ n \in Nat
        /\ InSlot(r) /\ Held(r) /\ ~Queued(r)
        /\ \A t \in Slot : slots[t].req = r => t = s
    <3>1. fl = c \o p
      BY <1>1, <1>4, BufferOfSlot DEF InFlight
    <3>2. SlotOK(slots[s]) /\ p \in Seq(Event) /\ n \in Nat
      BY <1>1, <1>2, <1>4
    <3>3. /\ InSlot(r) /\ Held(r) /\ ~Queued(r)
          /\ \A t \in Slot : slots[t].req = r => t = s
      BY <1>1, <1>4 DEF PlacedOnce, InSlot, Held
    <3>. QED  BY <3>1, <3>2, <3>3
  <2>2. \A i \in 1 .. m : ~IsEnd(c[i])
    BY <1>1, <2>1 DEF ChanOK
  <2>3. \A i \in 1 .. n : IsEnd(p[i]) => i = n /\ slots[s].finished
    BY <2>1 DEF SlotOK
  <2>. HIDE DEF fl, c, p
  <2>4. Len(fl) = m + n /\ \A i \in 1 .. m + n : fl[i] = IF i <= m THEN c[i] ELSE p[i - m]
    <3>1. \A x, y \in Seq(Event) :
            /\ Len(x \o y) = Len(x) + Len(y)
            /\ \A i \in 1 .. Len(x) + Len(y) : (x \o y)[i] = IF i <= Len(x) THEN x[i] ELSE y[i - Len(x)]
      BY ConcatProperties
    <3>. QED  BY <1>2, <2>1, <3>1
  <2>5. \A i \in 1 .. m + n : \/ i \in 1 .. m /\ i <= m
                              \/ i - m \in 1 .. n /\ ~(i <= m) /\ (i - m = n => i = m + n)
    BY <1>2, <2>1
  <2>6. \A i \in 1 .. m + n : IsEnd(fl[i]) => i = m + n /\ slots[s].finished
    BY <2>2, <2>3, <2>4, <2>5
  <2>. QED  BY <2>1, <2>4, <2>6 DEF fl
<1>5. InSlot(r) => \E s \in Slot : slots[s].req = r
  BY DEF InSlot
<1>. QED  BY <1>3, <1>4, <1>5

\* The tokens with the handler and in flight are what the slot owes, or what
\* was delivered when there is no slot.
LEMMA StreamOfSlot ==
  ASSUME FrontTypeOK, FrontInv, NEW r \in Request
  PROVE  /\ ~InSlot(r) => got[r] \o IdsOf(InFlight(r)) = Delivered(r)
         /\ \A s \in Slot : slots[s].req = r =>
              got[r] \o IdsOf(InFlight(r)) = Owed(slots[s])
<1>1. PlacedOnce(r) /\ chan[r] \in Seq(Event)
  BY DEF FrontInv, FrontTypeOK, Channel
<1>2. CASE ~InSlot(r)
  <2>1. InFlight(r) = chan[r]
    BY <1>1, <1>2, BufferOfSlot, ConcatEmptySeq DEF InFlight
  <2>. QED  BY <1>2, <2>1 DEF Delivered, InSlot
<1>3. ASSUME NEW s \in Slot, slots[s].req = r
      PROVE  got[r] \o IdsOf(InFlight(r)) = Owed(slots[s])
  <2>. DEFINE c == chan[r]  p == slots[s].pending  g == got[r]  x == IdsOf(c)  y == IdsOf(p)
  <2>1. p \in Seq(Event) /\ g \in Seq(TokenId)
    BY DEF FrontTypeOK, SlotState
  <2>2. InFlight(r) = c \o p
    BY <1>1, <1>3, BufferOfSlot DEF InFlight
  <2>3. IdsOf(InFlight(r)) = x \o y /\ x \in Seq(TokenId) /\ y \in Seq(TokenId)
    <3>. HIDE DEF c, p
    <3>. QED  BY <1>1, <2>1, <2>2, IdsConcat, IdsType DEF c
  <2>4. Owed(slots[s]) = (g \o x) \o y
    BY <1>3 DEF Owed, Delivered
  <2>. HIDE DEF g, x, y
  <2>5. g \o x \in Seq(TokenId) /\ (g \o x) \o y = g \o (x \o y)
    BY <2>1, <2>3, TokensConcat, SMTT(60)
  <2>. QED  BY <2>3, <2>4, <2>5 DEF g
<1>4. InSlot(r) => \E s \in Slot : slots[s].req = r
  BY DEF InSlot
<1>. QED  BY <1>2, <1>3, <1>4
===============================================================================
