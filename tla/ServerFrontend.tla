---------------------------- MODULE ServerFrontend ----------------------------
(* What surrounds an engine thread of qk-server (server/src/http.rs,          *)
(* main.rs and the slot bookkeeping of engine.rs): request handlers that take *)
(* a queue permit and submit a job, the command channel, one bounded event    *)
(* channel per request, and the per-slot buffer in front of it (SlotState,    *)
(* flush_slot).  Both drivers are built on it: EngineThread (engine.rs) and   *)
(* SplitServing (split.rs).                                                   *)
EXTENDS Requests, SequencesExt, FiniteSets

CONSTANTS QueueCap,      \* --queue
          ChanCap        \* capacity of a request's event channel (64 in the code)

ASSUME FrontendAssumption ==
  /\ QueueCap \in Nat
  /\ ChanCap \in Nat \ {0}

VARIABLES
  server,    \* axum: "open", "draining" (signalled), "down" (serve returned)
  client,    \* per request: what its handler knows
  got,       \* per request: the token ids its handler has received
  chan,      \* per request: events sent and not received
  permits,   \* free permits of the request semaphore
  cmds,      \* the std mpsc channel to the engine thread
  queue,     \* the engine thread's own FIFO of jobs
  slots,     \* the engine thread's Vec<Option<SlotState>>
  cut        \* history: requests whose Error event found the channel full

frontVars == <<server, client, got, chan, permits, cmds, queue, slots, cut>>

Permits == QueueCap + NSlots

\* SlotEvent
Tokens(ids) == [kind |-> "Tokens", ids |-> ids]
Done(reason) == [kind |-> reason, ids |-> <<>>]     \* reason: "Eos" or "Limit"
Error == [kind |-> "Error", ids |-> <<>>]

\* Option<SlotState>: req = None is the Rust None.
NoSlot == [req |-> None, emitted |-> 0, finished |-> FALSE, pending |-> <<>>]
NewSlot(r) == [NoSlot EXCEPT !.req = r]

Occupied(s) == slots[s].req # None
Unfinished(s) == Occupied(s) /\ ~slots[s].finished
AllFree == \A s \in Slot : ~Occupied(s)

(* The receiver half lives as long as the handler reads; the sender half as   *)
(* long as a job or a slot of the request exists.                             *)
RxOpen(r) == client[r] = "reading"
Submitted(r) == \E i \in 1 .. Len(cmds) : cmds[i].job = r
Queued(r) == \E i \in 1 .. Len(queue) : queue[i] = r
InSlot(r) == \E s \in Slot : slots[s].req = r
Held(r) == Submitted(r) \/ Queued(r) \/ InSlot(r)

FrontInit ==
  /\ server = "open"
  /\ client = [r \in Request |-> "new"]
  /\ got = [r \in Request |-> <<>>]
  /\ chan = [r \in Request |-> <<>>]
  /\ permits = Permits
  /\ cmds = <<>>
  /\ queue = <<>>
  /\ slots = [s \in Slot |-> NoSlot]
  /\ cut = {}

-------------------------------------------------------------------------------
(* The request handlers (tokio tasks).                                        *)

\* submit_generation: 503 at once without a permit, else the job is sent.  Also in
\* the drain: by a handler that ctrl_c found before this point, or by the retry of a
\* messages stream.
Submit(r) ==
  /\ server # "down" /\ client[r] = "new"
  /\ \/ /\ permits = 0
        /\ client' = [client EXCEPT ![r] = "refused"]
        /\ UNCHANGED <<permits, cmds>>
     \/ /\ permits > 0
        /\ permits' = permits - 1
        /\ client' = [client EXCEPT ![r] = "reading"]
        /\ cmds' = Append(cmds, [cmd |-> "Submit", job |-> r])
  /\ UNCHANGED <<server, got, chan, queue, slots, cut>>

(* collect_generation takes one event: tokens are kept and may complete a     *)
(* stop string, which ends the request and drops the receiver; Done and Error *)
(* end it too.                                                                *)
AfterEvent(e) ==
  CASE e.kind = "Tokens" -> {"reading", "stopped"}
    [] e.kind = "Eos"    -> {"eos"}
    [] e.kind = "Limit"  -> {"limit"}
    [] e.kind = "Error"  -> {"error"}

Receive(r) ==
  /\ RxOpen(r) /\ chan[r] # <<>>
  /\ got' = [got EXCEPT ![r] = @ \o Head(chan[r]).ids]
  /\ \E next \in AfterEvent(Head(chan[r])) :
       /\ client' = [client EXCEPT ![r] = next]
       /\ chan' = [chan EXCEPT ![r] = IF next = "reading" THEN Tail(@) ELSE <<>>]
  /\ UNCHANGED <<server, permits, cmds, queue, slots, cut>>

\* Mutant of ReceiveClosed: an empty channel counts as a closed one (try_recv).
ReceiveClosedEarly(r) ==
  /\ RxOpen(r) /\ chan[r] = <<>>
  /\ client' = [client EXCEPT ![r] = "limit"]
  /\ UNCHANGED <<server, got, chan, permits, cmds, queue, slots, cut>>

(* recv() returns None once every sender is gone and the channel is empty:    *)
(* the loop falls through with the finish it started from, Limit.             *)
ReceiveClosed(r) ==
  /\ RxOpen(r) /\ chan[r] = <<>> /\ ~Held(r)
  /\ client' = [client EXCEPT ![r] = "limit"]
  /\ UNCHANGED <<server, got, chan, permits, cmds, queue, slots, cut>>

\* The HTTP connection goes away: the handler, and its receiver, are dropped.
Disconnect(r) ==
  /\ RxOpen(r)
  /\ client' = [client EXCEPT ![r] = "gone"]
  /\ chan' = [chan EXCEPT ![r] = <<>>]
  /\ UNCHANGED <<server, got, permits, cmds, queue, slots, cut>>

\* ctrl_c: axum accepts no more connections; handlers in progress go on.
Signal ==
  /\ server = "open"
  /\ server' = "draining"
  /\ UNCHANGED <<client, got, chan, permits, cmds, queue, slots, cut>>

\* Mutant of ShutdownEngine: the command is not sent.
ShutdownEngineUntold ==
  /\ server = "draining" /\ \A r \in Request : ~RxOpen(r)
  /\ server' = "down"
  /\ UNCHANGED <<client, got, chan, permits, cmds, queue, slots, cut>>

\* serve() returns when no handler is left; EngineThread::shutdown follows.
ShutdownEngine ==
  /\ server = "draining" /\ \A r \in Request : ~RxOpen(r)
  /\ server' = "down"
  /\ cmds' = Append(cmds, [cmd |-> "Shutdown", job |-> None])
  /\ UNCHANGED <<client, got, chan, permits, queue, slots, cut>>

Handler(r) == Submit(r) \/ Receive(r) \/ ReceiveClosed(r) \/ Disconnect(r)

-------------------------------------------------------------------------------
(* What the engine thread does with commands, slots and channels.             *)

ShutdownIn(c) == \E i \in 1 .. Len(c) : c[i].cmd = "Shutdown"
JobsOf(c) == [i \in 1 .. Len(c) |-> c[i].job]

\* recv / try_recv until the channel is empty; no Shutdown among the commands.
DrainCmds ==
  /\ ~ShutdownIn(cmds)
  /\ queue' = queue \o JobsOf(cmds)
  /\ cmds' = <<>>
  /\ UNCHANGED <<server, client, got, chan, permits, slots, cut>>

\* Shutdown: the thread returns, which drops every job, slot and permit.
DropAll ==
  /\ ShutdownIn(cmds)
  /\ permits' = Permits
  /\ queue' = <<>> /\ cmds' = <<>>
  /\ slots' = [s \in Slot |-> NoSlot]
  /\ UNCHANGED <<server, client, got, chan, cut>>

(* flush_slot: hand over buffered events until the channel is full.  A closed *)
(* receiver is only noticed by an event that is refused.                      *)
Room(r) == ChanCap - Len(chan[r])

\* Mutant of FlushOutcome: a closed receiver is taken for a full channel.
FlushOutcomeNeverClosed(st) ==
  IF Len(st.pending) <= Room(st.req) /\ st.finished THEN "Drained" ELSE "Live"

FlushOutcome(st) ==
  IF st.pending # <<>> /\ ~RxOpen(st.req) THEN "Closed"
  ELSE IF Len(st.pending) <= Room(st.req) /\ st.finished THEN "Drained" ELSE "Live"

\* Mutant of Fit: events are sent on whether or not there is room.
FitAll(st) == Len(st.pending)

Fit(st) == IF Room(st.req) < Len(st.pending) THEN Room(st.req) ELSE Len(st.pending)
Accepted(st) == SubSeq(st.pending, 1, Fit(st))
\* Mutant of Refused: the event is popped before it is offered.
RefusedPopped(st) == SubSeq(st.pending, Fit(st) + 2, Len(st.pending))

Refused(st) == SubSeq(st.pending, Fit(st) + 1, Len(st.pending))

\* Mutant of FlushSlot: a blocking send.
FlushSlotBlocks(s, st) ==
  LET out == FlushOutcome(st) IN
  /\ out = "Live" => Refused(st) = <<>>
  /\ slots' = [slots EXCEPT ![s] = IF out = "Live" THEN [st EXCEPT !.pending = <<>>] ELSE NoSlot]
  /\ permits' = permits + (IF out = "Live" THEN 0 ELSE 1)
  /\ chan' = IF out = "Closed" THEN chan ELSE [chan EXCEPT ![st.req] = @ \o Accepted(st)]
  /\ UNCHANGED <<server, client, got, cmds, queue, cut>>

\* Slot s holds st (as updated by the caller) and is flushed.
FlushSlot(s, st) ==
  LET out == FlushOutcome(st) IN
  /\ slots' = [slots EXCEPT ![s] = IF out = "Live" THEN [st EXCEPT !.pending = Refused(st)]
                                   ELSE NoSlot]
  /\ permits' = permits + (IF out = "Live" THEN 0 ELSE 1)
  /\ chan' = IF out = "Closed" THEN chan ELSE [chan EXCEPT ![st.req] = @ \o Accepted(st)]
  /\ UNCHANGED <<server, client, got, cmds, queue, cut>>

\* Mutant of SendError: the permit is forgotten with the job.
SendErrorLeaks(r) ==
  LET fits == RxOpen(r) /\ Room(r) > 0 IN
  /\ chan' = IF fits THEN [chan EXCEPT ![r] = Append(@, Error)] ELSE chan
  /\ cut' = IF RxOpen(r) /\ ~fits THEN cut \cup {r} ELSE cut
  /\ permits' = permits

(* events.try_send(Error): one attempt.  The job or slot, and with it the     *)
(* permit, is gone afterwards whether or not the event got through.           *)
SendError(r) ==
  LET fits == RxOpen(r) /\ Room(r) > 0 IN
  /\ chan' = IF fits THEN [chan EXCEPT ![r] = Append(@, Error)] ELSE chan
  /\ cut' = IF RxOpen(r) /\ ~fits THEN cut \cup {r} ELSE cut
  /\ permits' = permits + 1

\* An unfinished slot is failed.
FailSlot(s) ==
  /\ SendError(slots[s].req)
  /\ slots' = [slots EXCEPT ![s] = NoSlot]
  /\ UNCHANGED <<server, client, got, cmds, queue>>

-------------------------------------------------------------------------------
(* Words the properties of both drivers use.                                  *)

TokenId == Request \X Nat
Event == [kind : {"Tokens", "Eos", "Limit", "Error"}, ids : Seq(TokenId)]
SlotState == [req : Request \cup {None}, emitted : Nat, finished : BOOLEAN,
              pending : Seq(Event)]
Command == [cmd : {"Submit"}, job : Request] \cup [cmd : {"Shutdown"}, job : {None}]

Channel == {q \in Seq(Event) : Len(q) <= ChanCap}

FrontTypeOK ==
  /\ server \in {"open", "draining", "down"}
  /\ client \in [Request -> {"new", "refused", "reading", "stopped", "eos", "limit",
                             "error", "gone"}]
  /\ got \in [Request -> Seq(TokenId)]
  /\ chan \in [Request -> Channel]
  /\ permits \in Nat
  /\ cmds \in Seq(Command)
  /\ queue \in Seq(Request)
  /\ slots \in [Slot -> SlotState]
  /\ cut \in SUBSET Request

IdsOf(evs) == FlattenSeq([i \in 1 .. Len(evs) |-> evs[i].ids])
FirstTokens(r, n) == [i \in 1 .. n |-> <<r, i>>]
Buffer(r) == FlattenSeq([i \in 1 .. NSlots |->
               IF slots[i - 1].req = r THEN slots[i - 1].pending ELSE <<>>])

\* Every event of r not received yet, in order.
InFlight(r) == chan[r] \o Buffer(r)

(* What the client is told is true: "eos" means the model ended short of      *)
(* max_gen, "limit" that max_gen tokens arrived -- unless the request was     *)
(* failed and its Error found the channel full (cut), or dropped at shutdown. *)
EndIsTruthful ==
  \A r \in Request :
    /\ client[r] = "eos" => Len(got[r]) < MaxGen[r]
    /\ client[r] = "limit" => Len(got[r]) = MaxGen[r] \/ r \in cut

(* A permit is held exactly by the jobs in the command channel, in the queue  *)
(* and in slots: --queue bounds what is accepted, and nothing leaks a permit  *)
(* whichever way a request ends.                                              *)
PermitsConserved ==
  permits + Cardinality({i \in 1 .. Len(cmds) : cmds[i].cmd = "Submit"})
          + Len(queue) + Cardinality({s \in Slot : Occupied(s)}) = Permits

\* Every accepted request comes to an end.
RequestsEnd == \A r \in Request : RxOpen(r) ~> ~RxOpen(r)

\* Every permit comes back: no request holds its place for ever.
PermitsReturn == \A r \in Request : Held(r) ~> ~Held(r)
===============================================================================
