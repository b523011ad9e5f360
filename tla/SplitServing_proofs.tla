-------------------------- MODULE SplitServing_proofs --------------------------
(* Proofs about SplitServing, for any number of requests and slots and any    *)
(* capacities: replies match the frames they answer, however often the link   *)
(* breaks and the worker restarts, and permits are conserved; what a client   *)
(* is told is true; as long as the worker does not restart, every token is    *)
(* computed from its request's own history on both stages and every           *)
(* registered snapshot is held whole by both, however frames are pipelined,   *)
(* restored and lost; if it restarts, no token is wrong before the link has   *)
(* refused a state operation.                                                 *)
EXTENDS SplitServing, ServerFrontend_proofs

-------------------------------------------------------------------------------
(* Sequences of frames and answers.  What matters of a row is whose it is, so *)
(* their contents have no type: a sequence of whatever it holds.              *)

IsSeq(q) == q \in Seq(ToSet(q))

\* A function on 1 .. n is a sequence of its values.
LEMMA MakeSeq ==
  ASSUME NEW q, NEW T, q \in Seq(T)
  PROVE  IsSeq(q) /\ Len(q) \in Nat /\ DOMAIN q = 1 .. Len(q)
<1>1. Len(q) \in Nat /\ q \in [1 .. Len(q) -> T]
  OBVIOUS
<1>2. q \in [1 .. Len(q) -> ToSet(q)]
  BY <1>1 DEF ToSet
<1>. QED  BY <1>1, <1>2 DEF IsSeq

\* Nothing is in the empty sequence.
LEMMA EmptyIsSeq == \A q : q = <<>> => IsSeq(q)
<1>. SUFFICES ASSUME NEW q, q = <<>> PROVE IsSeq(q)
  OBVIOUS
<1>1. <<>> \in Seq(Nat)
  OBVIOUS
<1>. QED  BY <1>1, MakeSeq

\* One more at the end.
LEMMA AppendSeq ==
  ASSUME NEW q, IsSeq(q), NEW e
  PROVE  /\ IsSeq(Append(q, e)) /\ Len(q) \in Nat /\ Len(Append(q, e)) = Len(q) + 1
         /\ \A i \in 1 .. Len(q) : Append(q, e)[i] = q[i]
         /\ Append(q, e)[Len(q) + 1] = e
<1>. DEFINE T == ToSet(q) \cup {e}
<1>1. q \in Seq(T) /\ e \in T
  <2>1. q \in Seq(ToSet(q)) /\ ToSet(q) \subseteq T
    BY DEF IsSeq
  <2>. HIDE DEF T
  <2>2. q \in Seq(T)
    BY <2>1
  <2>. QED  BY <2>2 DEF T
<1>. HIDE DEF T
<1>2. Append(q, e) \in Seq(T) /\ Len(q) \in Nat /\ Len(Append(q, e)) = Len(q) + 1
  BY <1>1
<1>3. \A i \in 1 .. Len(q) + 1 : Append(q, e)[i] = IF i = Len(q) + 1 THEN e ELSE q[i]
  BY <1>1
<1>4. IsSeq(Append(q, e))
  BY <1>2, MakeSeq
<1>5. Len(q) + 1 \in 1 .. Len(q) + 1 /\ \A i \in 1 .. Len(q) : i \in 1 .. Len(q) + 1 /\ i # Len(q) + 1
  BY <1>2
<1>6. Append(q, e)[Len(q) + 1] = e /\ \A i \in 1 .. Len(q) : Append(q, e)[i] = q[i]
  BY <1>3, <1>5
<1>. QED  BY <1>2, <1>4, <1>6

\* One less at the front.
LEMMA TailSeq ==
  ASSUME NEW q, IsSeq(q), q # <<>>
  PROVE  /\ IsSeq(Tail(q)) /\ Len(q) \in Nat \ {0} /\ Len(Tail(q)) = Len(q) - 1
         /\ Head(q) = q[1]
         /\ \A i \in 1 .. Len(q) - 1 : Tail(q)[i] = q[i + 1]
<1>. DEFINE T == ToSet(q)
<1>1. q \in Seq(T)
  BY DEF IsSeq
<1>. HIDE DEF T
<1>2. Tail(q) \in Seq(T) /\ Len(q) \in Nat \ {0} /\ Len(Tail(q)) = Len(q) - 1 /\ Head(q) = q[1]
  BY <1>1
<1>3. \A i \in 1 .. Len(q) - 1 : Tail(q)[i] = q[i + 1]
  BY <1>1
<1>. QED  BY <1>2, <1>3, MakeSeq

\* A prefix.
LEMMA PrefixSeq ==
  ASSUME NEW q, IsSeq(q), NEW n \in 0 .. Len(q)
  PROVE  /\ IsSeq(SubSeq(q, 1, n)) /\ Len(SubSeq(q, 1, n)) = n /\ Len(q) \in Nat
         /\ \A i \in 1 .. n : SubSeq(q, 1, n)[i] = q[i]
<1>. DEFINE T == ToSet(q)
<1>1. q \in Seq(T)
  BY DEF IsSeq
<1>. HIDE DEF T
<1>2. SubSeq(q, 1, n) \in Seq(T) /\ Len(SubSeq(q, 1, n)) = n /\ Len(q) \in Nat
  BY <1>1
<1>3. \A i \in 1 .. n : SubSeq(q, 1, n)[i] = q[i]
  BY <1>1
<1>. QED  BY <1>2, <1>3, MakeSeq

\* Only the empty sequence has no element.
LEMMA NoneSeq == ASSUME NEW q, IsSeq(q), Len(q) = 0 PROVE q = <<>>
<1>. DEFINE T == ToSet(q)
<1>1. q \in Seq(T)
  BY DEF IsSeq
<1>. HIDE DEF T
<1>. QED  BY <1>1

-------------------------------------------------------------------------------
(* Replies match frames.  RepliesMatch says of the replies that have arrived  *)
(* what must be true of them; the frames still on the wire must be known as   *)
(* well, and that nothing is under way where the head does not wait.          *)

Phases == {"top", "admit", "loading", "flush", "send", "recv", "fail", "barrier", "saving",
           "stopped"}

\* The frame or answer f belongs to a run of slot s.
RunOf(f, s) == f.op = "run" /\ f.slot = s

\* In a pass the answers, and then the frames not answered, are those of sent.
PassMatched ==
  /\ Len(replies) <= Len(sent)
  /\ \A i \in 1 .. Len(replies) : RunOf(replies[i], sent[i])
  /\ link = "up" =>
       /\ Len(replies) + Len(wire) = Len(sent)
       /\ \A j \in 1 .. Len(wire) : RunOf(wire[j], sent[Len(replies) + j])

\* The inductive invariant.
MatchInv ==
  /\ pc \in Phases /\ link \in {"down", "up", "broken"}
  /\ IsSeq(sent) /\ IsSeq(wire) /\ IsSeq(replies)
  /\ pending = sent
  /\ link = "down" => replies = <<>> /\ sent = <<>>
  /\ pc \notin {"send", "recv"} => sent = <<>>
  /\ pc \in {"send", "recv"} => PassMatched
  /\ pc \in {"loading", "saving"} =>
       Len(replies) <= 1 /\ (link = "up" => Len(replies) + Len(wire) = 1)
  /\ pc \notin {"send", "recv", "loading", "saving"} =>
       replies = <<>> /\ (link = "up" => wire = <<>>)

\* Nothing is under way at the start.
LEMMA InitMatch == Init => MatchInv
BY EmptyIsSeq DEF Init, MatchInv, Phases

\* Nothing of it changes.
LEMMA MatchKept ==
  ASSUME MatchInv, UNCHANGED <<pc, link, sent, pending, wire, replies>>
  PROVE  MatchInv'
BY DEF MatchInv, PassMatched, RunOf

Quiet == {"top", "admit", "flush", "fail", "barrier", "stopped"}

\* The head moves on while nothing is under way: into a pass, too.
LEMMA QuietMatch ==
  ASSUME MatchInv, pc \in Quiet, pc' \in Quiet \cup {"send"},
         UNCHANGED <<link, sent, pending, wire, replies>>
  PROVE  MatchInv'
<1>1. sent = <<>> /\ replies = <<>> /\ (link = "up" => wire = <<>>) /\ Len(<<>>) = 0
  BY DEF MatchInv, Quiet
<1>2. PassMatched'
  BY <1>1 DEF PassMatched
<1>. QED  BY <1>1, <1>2 DEF MatchInv, Quiet, Phases

\* A state operation asks.
LEMMA AskMatch ==
  ASSUME MatchInv, pc \in Quiet, pc' \in {"loading", "saving"}, NEW f, Write(f),
         UNCHANGED <<sent, pending>>
  PROVE  MatchInv'
<1>1. sent = <<>> /\ replies = <<>> /\ Len(<<>>) = 0 /\ IsSeq(wire) /\ IsSeq(sent) /\ IsSeq(replies)
      /\ pending = sent /\ (link = "up" => wire = <<>>) /\ replies' = replies
  BY DEF MatchInv, Quiet, Write
<1>2. CASE (link = "up" \/ (link = "down" /\ wire = <<>>)) /\ link' = "up" /\ wire' = Append(wire, f)
  <2>1. wire = <<>>
    BY <1>1, <1>2
  <2>2. IsSeq(wire') /\ Len(wire') = Len(wire) + 1
    BY <1>1, <1>2, AppendSeq
  <2>3. Len(wire') = 1
    BY <1>1, <2>1, <2>2
  <2>. QED  BY <1>1, <1>2, <2>2, <2>3 DEF MatchInv, Phases
<1>3. CASE link = "broken" /\ link' = link /\ wire' = wire
  BY <1>1, <1>3 DEF MatchInv, Phases
<1>. QED  BY <1>2, <1>3 DEF Write

\* And is answered.
LEMMA AnswerMatch ==
  ASSUME MatchInv, pc \in {"loading", "saving"}, pc' \in {"admit", "flush", "barrier"},
         replies # <<>>, replies' = Tail(replies), UNCHANGED <<link, sent, pending, wire>>
  PROVE  MatchInv'
<1>1. IsSeq(replies) /\ Len(replies) <= 1 /\ (link = "up" => Len(replies) + Len(wire) = 1)
      /\ sent = <<>> /\ IsSeq(wire)
  BY DEF MatchInv
<1>2. Len(replies) = 1 /\ IsSeq(Tail(replies)) /\ Len(Tail(replies)) = 0
  BY <1>1, TailSeq
<1>3. Tail(replies) = <<>>
  BY <1>2, NoneSeq
<1>4. link = "up" => wire = <<>>
  <2>1. link = "up" => Len(wire) = 0
    BY <1>1, <1>2, MakeSeq DEF IsSeq
  <2>. QED  BY <1>1, <2>1, NoneSeq
<1>. QED  BY <1>1, <1>2, <1>3, <1>4 DEF MatchInv, Phases

\* The link is given up, with everything that was under way on it.
LEMMA PoisonMatch ==
  ASSUME MatchInv, Poison, sent' = <<>>, pc' \in Quiet
  PROVE  MatchInv'
BY EmptyIsSeq DEF MatchInv, Poison, Quiet, Phases

\* A frame of the pass goes out.
LEMMA SendMatch ==
  ASSUME MatchInv, SendFrame
  PROVE  MatchInv'
<1>. DEFINE f == RunFrame(cur, phase[cur].pos, NextRows)
<1>1. RunOf(f, cur)
  BY DEF RunOf, RunFrame
<1>2. /\ pc = "send" /\ pc' = pc /\ Write(f) /\ replies' = replies
      /\ pending' = Append(pending, cur) /\ sent' = Append(sent, cur)
  BY DEF SendFrame, Write
<1>. HIDE DEF f
<1>3. /\ IsSeq(sent) /\ IsSeq(wire) /\ IsSeq(replies) /\ pending = sent /\ PassMatched
      /\ (link = "down" => replies = <<>> /\ sent = <<>>) /\ Len(<<>>) = 0
  BY <1>2 DEF MatchInv
<1>4. Len(replies) \in Nat /\ Len(wire) \in Nat /\ Len(sent) \in Nat
  BY <1>3, MakeSeq DEF IsSeq
<1>5. /\ IsSeq(sent') /\ Len(sent') = Len(sent) + 1 /\ sent'[Len(sent) + 1] = cur
      /\ \A i \in 1 .. Len(sent) : sent'[i] = sent[i]
  BY <1>2, <1>3, AppendSeq
<1>6. \A i \in 1 .. Len(replies) : RunOf(replies[i], sent'[i])
  BY <1>3, <1>4, <1>5 DEF PassMatched
<1>7. CASE (link = "up" \/ (link = "down" /\ wire = <<>>)) /\ link' = "up" /\ wire' = Append(wire, f)
  <2>1. Len(replies) + Len(wire) = Len(sent)
        /\ \A j \in 1 .. Len(wire) : RunOf(wire[j], sent[Len(replies) + j])
    BY <1>3, <1>7 DEF PassMatched
  <2>2. /\ IsSeq(wire') /\ Len(wire') = Len(wire) + 1 /\ wire'[Len(wire) + 1] = f
        /\ \A j \in 1 .. Len(wire) : wire'[j] = wire[j]
    BY <1>3, <1>7, AppendSeq
  <2>3. \A j \in 1 .. Len(wire') : RunOf(wire'[j], sent'[Len(replies) + j])
    <3>. TAKE j \in 1 .. Len(wire')
    <3>1. CASE j = Len(wire) + 1
      <4>1. Len(replies) + j = Len(sent) + 1
        BY <1>4, <2>1, <3>1
      <4>. QED  BY <1>1, <1>5, <2>2, <3>1, <4>1
    <3>2. CASE j # Len(wire) + 1
      <4>1. j \in 1 .. Len(wire) /\ Len(replies) + j \in 1 .. Len(sent)
        BY <1>4, <2>1, <2>2, <3>2
      <4>. QED  BY <1>5, <2>1, <2>2, <4>1
    <3>. QED  BY <3>1, <3>2
  <2>4. Len(replies) <= Len(sent') /\ Len(replies) + Len(wire') = Len(sent')
    <3>1. Len(replies) + Len(wire) = Len(sent) /\ Len(sent') = Len(sent) + 1
          /\ Len(wire') = Len(wire) + 1
      BY <1>5, <2>1, <2>2
    <3>. QED  BY <1>4, <3>1
  <2>5. PassMatched'
    BY <1>2, <1>6, <2>3, <2>4 DEF PassMatched, RunOf
  <2>. QED  BY <1>2, <1>3, <1>5, <1>7, <2>2, <2>5 DEF MatchInv
<1>8. CASE link = "broken" /\ link' = link /\ wire' = wire
  <2>1. Len(replies) <= Len(sent')
    BY <1>3, <1>4, <1>5 DEF PassMatched
  <2>2. PassMatched'
    BY <1>2, <1>6, <1>8, <2>1 DEF PassMatched, RunOf
  <2>. QED  BY <1>2, <1>3, <1>5, <1>8, <2>2 DEF MatchInv
<1>. QED  BY <1>2, <1>7, <1>8 DEF Write

\* An answer is taken for the oldest frame.
LEMMA RecvMatch ==
  ASSUME MatchInv, RecvFrame
  PROVE  MatchInv'
<1>1. /\ pc = "recv" /\ pc' = pc /\ sent # <<>> /\ replies # <<>>
      /\ sent' = Tail(sent) /\ pending' = Tail(pending) /\ replies' = Tail(replies)
      /\ link' = link /\ wire' = wire
  BY DEF RecvFrame
<1>2. /\ IsSeq(sent) /\ IsSeq(wire) /\ IsSeq(replies) /\ pending = sent /\ PassMatched
      /\ link \in {"down", "up", "broken"} /\ link # "down"
  BY <1>1 DEF MatchInv
<1>3. Len(wire) \in Nat
  BY <1>2, MakeSeq DEF IsSeq
<1>4. /\ IsSeq(sent') /\ Len(sent) \in Nat \ {0} /\ Len(sent') = Len(sent) - 1
      /\ \A i \in 1 .. Len(sent) - 1 : sent'[i] = sent[i + 1]
  BY <1>1, <1>2, TailSeq
<1>5. /\ IsSeq(replies') /\ Len(replies) \in Nat \ {0} /\ Len(replies') = Len(replies) - 1
      /\ \A i \in 1 .. Len(replies) - 1 : replies'[i] = replies[i + 1]
  BY <1>1, <1>2, TailSeq
<1>6. Len(replies') <= Len(sent')
  BY <1>2, <1>4, <1>5 DEF PassMatched
<1>7. \A i \in 1 .. Len(replies') : RunOf(replies'[i], sent'[i])
  <2>. TAKE i \in 1 .. Len(replies')
  <2>1. i \in 1 .. Len(replies) - 1 /\ i + 1 \in 1 .. Len(replies) /\ Len(replies) <= Len(sent)
    BY <1>2, <1>5 DEF PassMatched
  <2>2. replies'[i] = replies[i + 1] /\ sent'[i] = sent[i + 1]
    BY <1>4, <1>5, <2>1
  <2>. QED  BY <1>2, <2>1, <2>2 DEF PassMatched
<1>8. ASSUME link = "up"
      PROVE  /\ Len(replies') + Len(wire) = Len(sent')
             /\ \A j \in 1 .. Len(wire) : RunOf(wire[j], sent'[Len(replies') + j])
  <2>1. Len(replies) + Len(wire) = Len(sent)
        /\ \A j \in 1 .. Len(wire) : RunOf(wire[j], sent[Len(replies) + j])
    BY <1>2, <1>8 DEF PassMatched
  <2>2. Len(replies') + Len(wire) = Len(sent')
    <3>1. Len(replies) + Len(wire) = Len(sent) /\ Len(sent') = Len(sent) - 1
          /\ Len(replies') = Len(replies) - 1
      BY <1>4, <1>5, <2>1
    <3>. QED  BY <1>3, <1>4, <1>5, <3>1
  <2>3. ASSUME NEW j \in 1 .. Len(wire)
        PROVE  RunOf(wire[j], sent'[Len(replies') + j])
    <3>1. Len(replies') + j \in 1 .. Len(sent) - 1 /\ Len(replies') + j + 1 = Len(replies) + j
      BY <1>3, <1>4, <1>5, <2>2
    <3>2. sent'[Len(replies') + j] = sent[Len(replies) + j]
      BY <1>4, <3>1
    <3>. QED  BY <2>1, <3>2
  <2>. QED  BY <2>2, <2>3
<1>9. PassMatched'
  BY <1>1, <1>6, <1>7, <1>8 DEF PassMatched, RunOf
<1>. QED  BY <1>1, <1>2, <1>4, <1>5, <1>9 DEF MatchInv, Phases

\* The pass goes on to the next slot, to the answers, and to its end.
LEMMA PassMatch ==
  ASSUME MatchInv, SendNext \/ RecvOver
  PROVE  MatchInv'
<1>1. CASE SendNext
  <2>1. pc = "send" /\ pc' \in {"send", "recv"} /\ UNCHANGED <<link, sent, pending, wire, replies>>
    BY <1>1 DEF SendNext, netVars
  <2>. QED  BY <2>1 DEF MatchInv, PassMatched, RunOf, Phases
<1>2. CASE RecvOver
  <2>1. pc = "recv" /\ pc' = "barrier" /\ sent = <<>> /\ UNCHANGED <<link, sent, pending, wire, replies>>
    BY <1>2 DEF RecvOver, netVars
  <2>2. IsSeq(wire) /\ IsSeq(replies) /\ PassMatched /\ Len(<<>>) = 0
    BY <2>1 DEF MatchInv
  <2>3. Len(replies) \in Nat /\ Len(wire) \in Nat
    BY <2>2, MakeSeq DEF IsSeq
  <2>4. Len(replies) = 0 /\ (link = "up" => Len(wire) = 0)
    BY <2>1, <2>2, <2>3 DEF PassMatched
  <2>5. replies = <<>> /\ (link = "up" => wire = <<>>)
    BY <2>2, <2>4, NoneSeq
  <2>. QED  BY <2>1, <2>5 DEF MatchInv, Phases
<1>. QED  BY <1>1, <1>2

\* Replies are lost with the connection, the last ones first.
LEMMA LossMatch ==
  ASSUME MatchInv, UNCHANGED <<pc, sent, pending>>, IsSeq(wire'),
         link' = (IF link = "up" THEN "broken" ELSE link),
         NEW n \in 0 .. Len(replies), replies' = SubSeq(replies, 1, n)
  PROVE  MatchInv'
<1>1. IsSeq(replies)
  BY DEF MatchInv
<1>2. /\ IsSeq(replies') /\ Len(replies') = n /\ Len(replies) \in Nat
      /\ \A i \in 1 .. n : replies'[i] = replies[i]
  BY <1>1, PrefixSeq
<1>3. link' \in {"down", "broken"} /\ (link' = "down" => link = "down")
  BY DEF MatchInv
<1>4. replies = <<>> => replies' = <<>>
  <2>1. replies = <<>> => n = 0
    OBVIOUS
  <2>. QED  BY <1>2, <2>1, NoneSeq
<1>5. PassMatched /\ IsSeq(sent) => PassMatched'
  <2>. SUFFICES ASSUME PassMatched, IsSeq(sent) PROVE PassMatched'
    OBVIOUS
  <2>1. Len(sent) \in Nat
    BY MakeSeq DEF IsSeq
  <2>2. n <= Len(sent) /\ \A i \in 1 .. n : RunOf(replies[i], sent[i])
    BY <1>2, <2>1 DEF PassMatched
  <2>. QED  BY <1>2, <1>3, <2>2 DEF PassMatched, RunOf
<1>6. Len(replies) <= 1 => Len(replies') <= 1
  BY <1>2
<1>. QED  BY <1>2, <1>3, <1>4, <1>5, <1>6 DEF MatchInv

\* The worker answers the oldest frame it has, if anyone can hear it.
LEMMA WorkerMatch ==
  ASSUME MatchInv, WorkerStep, UNCHANGED <<pc, sent>>
  PROVE  MatchInv'
<1>. DEFINE f == Head(wire)
            answer == Reply(f, IF f.op = "run" THEN WorkerRun(worker[f.slot], f) ELSE <<>>)
<1>1. \A s : RunOf(f, s) => RunOf(answer, s)
  BY DEF RunOf, Reply
<1>2. /\ wire # <<>> /\ wire' = Tail(wire) /\ UNCHANGED <<link, pending>>
      /\ replies' = IF link = "up" THEN Append(replies, answer) ELSE replies
  BY DEF WorkerStep
<1>. HIDE DEF f, answer
<1>3. IsSeq(sent) /\ IsSeq(wire) /\ IsSeq(replies)
  BY DEF MatchInv
<1>4. /\ IsSeq(wire') /\ Len(wire) \in Nat \ {0} /\ Len(wire') = Len(wire) - 1 /\ f = wire[1]
      /\ \A j \in 1 .. Len(wire) - 1 : wire'[j] = wire[j + 1]
  BY <1>2, <1>3, TailSeq DEF f
<1>5. CASE link # "up"
  <2>1. replies' = replies /\ link' # "up"
    BY <1>2, <1>5
  <2>. QED  BY <1>2, <1>4, <1>5, <2>1 DEF MatchInv, PassMatched, RunOf
<1>6. CASE link = "up"
  <2>1. /\ IsSeq(replies') /\ Len(replies) \in Nat /\ Len(replies') = Len(replies) + 1
        /\ \A i \in 1 .. Len(replies) : replies'[i] = replies[i]
        /\ replies'[Len(replies) + 1] = answer
    BY <1>2, <1>3, <1>6, AppendSeq
  <2>0. /\ Len(replies) \in Nat /\ Len(replies') = Len(replies) + 1
        /\ Len(wire) \in Nat \ {0} /\ Len(wire') = Len(wire) - 1
    BY <1>4, <2>1
  <2>2. CASE pc \in {"send", "recv"}
    <3>1. PassMatched /\ Len(sent) \in Nat
      BY <1>3, <2>2, MakeSeq DEF MatchInv, IsSeq
    <3>2. Len(replies) + Len(wire) = Len(sent)
          /\ \A j \in 1 .. Len(wire) : RunOf(wire[j], sent[Len(replies) + j])
      BY <1>6, <3>1 DEF PassMatched
    <3>3. Len(replies') + Len(wire') = Len(sent) /\ Len(replies') <= Len(sent)
      <4>1. Len(replies) + Len(wire) = Len(sent)
        BY <3>2
      <4>. QED  BY <2>0, <4>1
    <3>4. RunOf(answer, sent[Len(replies) + 1])
      <4>1. 1 \in 1 .. Len(wire)
        BY <1>4
      <4>. QED  BY <1>1, <1>4, <3>2, <4>1
    <3>5. ASSUME NEW i \in 1 .. Len(replies') PROVE RunOf(replies'[i], sent[i])
      <4>1. CASE i = Len(replies) + 1
        BY <2>1, <3>4, <4>1
      <4>2. CASE i # Len(replies) + 1
        <5>1. i \in 1 .. Len(replies)
          BY <2>1, <4>2
        <5>. QED  BY <2>1, <3>1, <5>1 DEF PassMatched
      <4>. QED  BY <4>1, <4>2
    <3>6. ASSUME NEW j \in 1 .. Len(wire') PROVE RunOf(wire'[j], sent[Len(replies') + j])
      <4>1. j \in 1 .. Len(wire) - 1 /\ j + 1 \in 1 .. Len(wire)
            /\ Len(replies') + j = Len(replies) + (j + 1)
        BY <2>0
      <4>. QED  BY <1>4, <3>2, <4>1
    <3>7. PassMatched'
      BY <3>3, <3>5, <3>6 DEF PassMatched, RunOf
    <3>. QED  BY <1>2, <1>4, <1>6, <2>1, <2>2, <3>7 DEF MatchInv
  <2>3. CASE pc \in {"loading", "saving"}
    <3>1. Len(replies) + Len(wire) = 1
      BY <1>6, <2>3 DEF MatchInv
    <3>2. Len(replies') + Len(wire') = 1 /\ Len(replies') <= 1
      BY <1>4, <2>1, <3>1
    <3>. QED  BY <1>2, <1>4, <1>6, <2>1, <2>3, <3>2 DEF MatchInv
  <2>4. pc \in {"send", "recv", "loading", "saving"}
    BY <1>2, <1>6 DEF MatchInv
  <2>. QED  BY <2>2, <2>3, <2>4
<1>. QED  BY <1>5, <1>6

LEMMA NetworkMatch ==
  ASSUME MatchInv, Network, UNCHANGED <<pc, sent>>
  PROVE  MatchInv'
<1>1. CASE WorkerStep
  BY <1>1, WorkerMatch
<1>2. CASE WorkerGivesUp
  BY <1>2, EmptyIsSeq DEF WorkerGivesUp, MatchInv, PassMatched, RunOf
<1>3. CASE Break
  <2>1. IsSeq(wire') /\ pending' = pending
    BY <1>3 DEF Break, MatchInv
  <2>2. PICK n \in 0 .. Len(replies) : replies' = SubSeq(replies, 1, n)
    BY <1>3 DEF Break
  <2>. QED  BY <1>3, <2>1, <2>2, LossMatch DEF Break
<1>4. CASE Restart
  <2>1. IsSeq(wire') /\ pending' = pending
    BY <1>4, EmptyIsSeq DEF Restart
  <2>2. PICK n \in 0 .. Len(replies) : replies' = SubSeq(replies, 1, n)
    BY <1>4 DEF Restart
  <2>. QED  BY <1>4, <2>1, <2>2, LossMatch DEF Restart
<1>. QED  BY <1>1, <1>2, <1>3, <1>4 DEF Network

\* What gives up the link empties what was under way, and waits no longer.
LEMMA FailureMatch ==
  ASSUME MatchInv, AdmitFails \/ SendFails \/ RecvFails \/ BarrierSaveFails
  PROVE  MatchInv'
<1>1. CASE AdmitFails
  <2>1. Poison /\ sent' = sent /\ pc \in {"admit", "loading"} /\ pc' \in {"admit", "flush"}
    BY <1>1 DEF AdmitFails, CanAdmit, WriteFails, ReadFails, Admitted, Advance
  <2>. QED  BY <2>1, PoisonMatch DEF MatchInv, Quiet
<1>2. CASE SendFails \/ RecvFails
  BY <1>2, PoisonMatch DEF SendFails, RecvFails, WriteFails, ReadFails, Abort, Quiet
<1>3. CASE BarrierSaveFails
  <2>1. Poison /\ sent' = sent /\ pc \in {"barrier", "saving"} /\ pc' = "barrier"
    BY <1>3 DEF BarrierSaveFails, WriteFails, ReadFails
  <2>. QED  BY <2>1, PoisonMatch DEF MatchInv, Quiet
<1>. QED  BY <1>1, <1>2, <1>3

\* The steps of the head that neither send nor wait.
LEMMA HostMatch ==
  ASSUME MatchInv,
         TakeCmds \/ AdmitSkip \/ AdmitCold \/ FlushPhase \/ FailPhase \/ BarrierFirst \/ BarrierSkip
  PROVE  MatchInv'
<1>1. CASE TakeCmds
  BY <1>1, QuietMatch DEF TakeCmds, netVars, Quiet
<1>2. CASE AdmitSkip
  BY <1>2, QuietMatch DEF AdmitSkip, Advance, netVars, Quiet
<1>3. CASE AdmitCold
  BY <1>3, QuietMatch DEF AdmitCold, CanAdmit, Admitted, Advance, netVars, Quiet
<1>4. CASE FlushPhase
  BY <1>4, QuietMatch DEF FlushPhase, netVars, Quiet
<1>5. CASE FailPhase
  BY <1>5, QuietMatch DEF FailPhase, netVars, Quiet
<1>6. CASE BarrierFirst
  BY <1>6, QuietMatch DEF BarrierFirst, BarrierNext, netVars, Quiet
<1>7. CASE BarrierSkip
  BY <1>7, QuietMatch DEF BarrierSkip, BarrierNext, netVars, Quiet
<1>. QED  BY <1>1, <1>2, <1>3, <1>4, <1>5, <1>6, <1>7

LEMMA NextMatch == MatchInv /\ [Next]_vars => MatchInv'
<1>. SUFFICES ASSUME MatchInv, [Next]_vars PROVE MatchInv'
  OBVIOUS
<1>1. CASE Stop
  BY <1>1, EmptyIsSeq DEF Stop, MatchInv, Phases
<1>2. CASE AdmitLoad
  BY <1>2, AskMatch DEF AdmitLoad, CanAdmit, Quiet
<1>3. CASE BarrierSave
  BY <1>3, AskMatch DEF BarrierSave, Quiet
<1>4. CASE AdmitLoaded
  BY <1>4, AnswerMatch DEF AdmitLoaded, Admitted, Advance
<1>5. CASE BarrierSaved
  BY <1>5, AnswerMatch DEF BarrierSaved
<1>6. CASE TakeCmds \/ AdmitSkip \/ AdmitCold \/ FlushPhase \/ FailPhase \/ BarrierFirst \/ BarrierSkip
  BY <1>6, HostMatch
<1>7. CASE AdmitFails \/ SendFails \/ RecvFails \/ BarrierSaveFails
  BY <1>7, FailureMatch
<1>8. CASE SendFrame \/ RecvFrame \/ SendNext \/ RecvOver
  BY <1>8, SendMatch, RecvMatch, PassMatch
<1>9. CASE Network /\ UNCHANGED <<frontVars, headVars>>
  BY <1>9, NetworkMatch DEF headVars
<1>10. CASE (Handlers \/ Signal \/ ShutdownEngine) /\ UNCHANGED splitVars
  BY <1>10, MatchKept DEF splitVars, headVars, netVars
<1>11. CASE UNCHANGED vars
  BY <1>11, MatchKept DEF vars, splitVars, headVars, netVars
<1>. QED  BY <1>1, <1>2, <1>3, <1>4, <1>5, <1>6, <1>7, <1>8, <1>9, <1>10, <1>11 DEF Next, HeadLoop

(* Replies match frames (recv_reply and the collection of a pass): wherever   *)
(* the link breaks and whenever the worker restarts, the head never takes one *)
(* slot's answer for another's, nor an answer left over from a connection it  *)
(* gave up, and no snapshot operation finds a frame of a pass in flight.      *)
THEOREM RepliesMatched == Spec => []RepliesMatch
<1>1. MatchInv => RepliesMatch
  <2>. SUFFICES ASSUME MatchInv PROVE RepliesMatch
    OBVIOUS
  <2>1. pc \in {"send", "recv"} => PassMatched
    BY DEF MatchInv
  <2>. QED  BY <2>1 DEF MatchInv, RepliesMatch, PassMatched, RunOf
<1>. QED  BY <1>1, InitMatch, NextMatch, PTL DEF Spec

-------------------------------------------------------------------------------
(* Permits.  The operations on jobs and slots are those ServerFrontend_proofs *)
(* counts.  A restore may hold the job at the head of the queue over several  *)
(* steps: the job and the free slot must still be there when it ends.         *)

SplitInv ==
  /\ FrontTypeOK /\ cur \in Slot /\ sent \in Seq(Slot)
  /\ pc = "loading" => queue # <<>> /\ ~Occupied(cur)
  /\ PermitsConserved

\* A sample leaves the slot its request, with well-typed events.
LEMMA SampleType ==
  ASSUME NEW st \in SlotState, NEW id \in TokenId, NEW eos \in BOOLEAN
  PROVE  ApplySample(st, id, eos) \in SlotState /\ ApplySample(st, id, eos).req = st.req
<1>. DEFINE p == st.pending
<1>1. p \in Seq(Event) /\ st.emitted + 1 \in Nat
  BY DEF SlotState
<1>2. Done("Eos") \in Event /\ Done("Limit") \in Event /\ Tokens(<<id>>) \in Event
  <2>1. <<>> \in Seq(TokenId) /\ <<id>> \in Seq(TokenId)
    OBVIOUS
  <2>. QED  BY <2>1 DEF Done, Tokens, Event
<1>3. ASSUME NEW e \in Event, NEW d \in Event
      PROVE  Append(p, d) \in Seq(Event) /\ p \o <<e>> \o <<d>> \in Seq(Event)
             /\ p \o <<e>> \o <<>> \in Seq(Event)
  <2>. HIDE DEF p
  <2>1. <<e>> \in Seq(Event) /\ <<d>> \in Seq(Event) /\ <<>> \in Seq(Event)
    OBVIOUS
  <2>. QED  BY <1>1, <2>1
<1>4. CASE eos
  <2>1. Append(p, Done("Eos")) \in Seq(Event)
    BY <1>2, <1>3
  <2>. QED  BY <1>4, <2>1 DEF ApplySample, SlotState
<1>5. CASE ~eos
  <2>1. p \o <<Tokens(<<id>>)>> \o <<Done("Limit")>> \in Seq(Event)
        /\ p \o <<Tokens(<<id>>)>> \o <<>> \in Seq(Event)
    BY <1>2, <1>3
  <2>. DEFINE last == st.emitted + 1 >= MaxGen[st.req]
              q == p \o <<Tokens(<<id>>)>> \o (IF last THEN <<Done("Limit")>> ELSE <<>>)
  <2>2. last \in BOOLEAN /\ q \in Seq(Event)
    BY <2>1
  <2>3. ApplySample(st, id, eos) =
          [st EXCEPT !.emitted = st.emitted + 1, !.finished = last, !.pending = q]
    BY <1>5 DEF ApplySample
  <2>. HIDE DEF last, q
  <2>. QED  BY <1>1, <2>2, <2>3 DEF SlotState
<1>. QED  BY <1>4, <1>5

\* A flush of an occupied slot.
LEMMA FlushSplit ==
  ASSUME SplitInv, NEW s \in Slot, Occupied(s), NEW st \in SlotState, st.req = slots[s].req,
         FlushSlot(s, st), cur' \in Slot, sent' \in Seq(Slot), pc' # "loading"
  PROVE  SplitInv'
<1>1. st.req \in Request
  BY DEF SplitInv, FrontTypeOK, SlotState, Occupied
<1>2. FrontTypeOK' /\ PermitsConserved'
  BY <1>1, FlushSlotType, FlushPermits DEF SplitInv
<1>. QED  BY <1>2 DEF SplitInv

\* An id sampled for an occupied slot, flushed.
LEMMA SampleSplit ==
  ASSUME SplitInv, NEW s \in Slot, Occupied(s), NEW rows, NEW eos \in BOOLEAN,
         FlushSlot(s, ApplySample(slots[s], Sampled(s, rows), eos)),
         cur' \in Slot, sent' \in Seq(Slot), pc' # "loading"
  PROVE  SplitInv'
<1>1. slots[s] \in SlotState /\ slots[s].req \in Request /\ slots[s].emitted \in Nat
  BY DEF SplitInv, FrontTypeOK, SlotState, Occupied
<1>2. Sampled(s, rows) \in TokenId
  BY <1>1 DEF Sampled, TokenId
<1>. QED  BY <1>1, <1>2, SampleType, FlushSplit

\* Nothing of the frontend changes.
LEMMA KeptSplit ==
  ASSUME SplitInv, UNCHANGED frontVars, cur' \in Slot, sent' \in Seq(Slot),
         pc' = "loading" => queue # <<>> /\ ~Occupied(cur)'
  PROVE  SplitInv'
<1>1. FrontTypeOK'
  BY DEF SplitInv, FrontTypeOK, frontVars
<1>2. PermitsConserved'
  BY PermitsKept DEF SplitInv, frontVars
<1>. QED  BY <1>1, <1>2 DEF SplitInv, frontVars

\* The slot a phase moves on to.
LEMMA NextSlot == cur \in Slot => 0 \in Slot /\ (cur # NSlots - 1 => cur + 1 \in Slot)
BY SlotFacts

\* A job is admitted.
LEMMA AdmittedSplit ==
  ASSUME SplitInv, queue # <<>>, ~Occupied(cur), NEW start, Admitted(start)
  PROVE  SplitInv'
<1>1. /\ queue' = Tail(queue) /\ slots' = [slots EXCEPT ![cur] = NewSlot(Head(queue))]
      /\ UNCHANGED <<server, client, got, chan, permits, cmds, cut>> /\ sent' = sent
  BY DEF Admitted
<1>2. cur' \in Slot /\ pc' # "loading"
  BY NextSlot DEF Admitted, Advance, SplitInv
<1>3. FrontTypeOK'
  BY <1>1, AdmitType DEF SplitInv
<1>4. PermitsConserved'
  BY <1>1, AdmitPermits DEF SplitInv
<1>. QED  BY <1>1, <1>2, <1>3, <1>4 DEF SplitInv

LEMMA InitSplit == Init => SplitInv
<1>. SUFFICES ASSUME Init PROVE SplitInv
  OBVIOUS
<1>1. FrontTypeOK /\ PermitsConserved
  BY FrontInitType, InitPermits DEF Init
<1>2. cur \in Slot /\ sent \in Seq(Slot)
  BY SlotFacts DEF Init
<1>. QED  BY <1>1, <1>2 DEF Init, SplitInv

\* Commands are taken, or everything is dropped.
LEMMA CommandSplit ==
  ASSUME SplitInv, TakeCmds \/ Stop
  PROVE  SplitInv'
<1>1. CASE TakeCmds
  <2>1. FrontTypeOK' /\ PermitsConserved'
    BY <1>1, DrainType, DrainPermits DEF TakeCmds, SplitInv
  <2>. QED  BY <1>1, <2>1, SlotFacts DEF TakeCmds, SplitInv
<1>2. CASE Stop
  <2>1. FrontTypeOK' /\ PermitsConserved'
    BY <1>2, DropType, DropPermits DEF Stop, SplitInv
  <2>. QED  BY <1>2, <2>1 DEF Stop, SplitInv
<1>. QED  BY <1>1, <1>2

\* A job is admitted, with or without a restored prefix.
LEMMA AdmissionSplit ==
  ASSUME SplitInv, AdmitSkip \/ AdmitCold \/ AdmitLoad \/ AdmitLoaded \/ AdmitFails
  PROVE  SplitInv'
<1>1. CASE AdmitSkip
  <2>1. cur' \in Slot /\ pc' # "loading"
    BY <1>1, NextSlot DEF AdmitSkip, Advance, SplitInv
  <2>. QED  BY <1>1, <2>1, KeptSplit DEF AdmitSkip, SplitInv
<1>2. CASE AdmitCold
  BY <1>2, AdmittedSplit DEF AdmitCold, CanAdmit
<1>3. CASE AdmitLoad
  <2>1. queue # <<>> /\ ~Occupied(cur) /\ UNCHANGED frontVars /\ cur' = cur /\ sent' = sent
    BY <1>3 DEF AdmitLoad, CanAdmit
  <2>2. ~Occupied(cur)'
    BY <2>1 DEF Occupied, frontVars
  <2>. QED  BY <2>1, <2>2, KeptSplit DEF SplitInv
<1>4. CASE AdmitLoaded
  BY <1>4, AdmittedSplit DEF AdmitLoaded, SplitInv
<1>5. CASE AdmitFails
  BY <1>5, AdmittedSplit DEF AdmitFails, CanAdmit, SplitInv
<1>. QED  BY <1>1, <1>2, <1>3, <1>4, <1>5

\* Delivery is retried, and failed slots are told.
LEMMA DeliverySplit ==
  ASSUME SplitInv, FlushPhase \/ FailPhase
  PROVE  SplitInv'
<1>1. slots[cur] \in SlotState /\ cur \in Slot /\ sent \in Seq(Slot)
  BY DEF SplitInv, FrontTypeOK
<1>2. CASE FlushPhase
  <2>1. cur' \in Slot /\ pc' # "loading" /\ sent' = sent
    BY <1>1, <1>2, NextSlot DEF FlushPhase, Slot, RequestsAssumption
  <2>2. CASE Occupied(cur)
    BY <1>1, <1>2, <2>1, <2>2, FlushSplit DEF FlushPhase
  <2>3. CASE ~Occupied(cur)
    BY <1>1, <1>2, <2>1, <2>3, KeptSplit DEF FlushPhase
  <2>. QED  BY <2>2, <2>3
<1>3. CASE FailPhase
  <2>1. cur' \in Slot /\ pc' # "loading" /\ sent' = sent
    BY <1>1, <1>3, NextSlot DEF FailPhase
  <2>2. CASE Unfinished(cur)
    <3>1. FailSlot(cur) /\ Occupied(cur)
      BY <1>3, <2>2 DEF FailPhase, Unfinished
    <3>2. FrontTypeOK' /\ PermitsConserved'
      BY <1>1, <3>1, FailSlotType, FailPermits DEF SplitInv
    <3>. QED  BY <1>1, <2>1, <3>2 DEF SplitInv
  <2>3. CASE ~Unfinished(cur)
    BY <1>1, <1>3, <2>1, <2>3, KeptSplit DEF FailPhase
  <2>. QED  BY <2>2, <2>3
<1>. QED  BY <1>2, <1>3

\* A pass, from its first frame to its last answer.
LEMMA PassSplit ==
  ASSUME SplitInv,
         SendFrame \/ SendNext \/ SendFails \/ RecvFrame \/ RecvOver \/ RecvFails
  PROVE  SplitInv'
<1>1. cur \in Slot /\ sent \in Seq(Slot) /\ 0 \in Slot
  BY SlotFacts DEF SplitInv
<1>2. CASE SendFrame
  <2>1. Append(sent, cur) \in Seq(Slot)
    BY <1>1
  <2>. QED  BY <1>1, <1>2, <2>1, KeptSplit DEF SendFrame
<1>3. CASE SendNext
  BY <1>1, <1>3, NextSlot, KeptSplit DEF SendNext
<1>4. CASE SendFails \/ RecvFails
  <2>1. <<>> \in Seq(Slot)
    OBVIOUS
  <2>. QED  BY <1>1, <1>4, <2>1, KeptSplit DEF SendFails, RecvFails, Abort
<1>5. CASE RecvOver
  BY <1>1, <1>5, KeptSplit DEF RecvOver
<1>6. CASE RecvFrame
  <2>. DEFINE s == Head(sent)  rows == Head(replies).rows
  <2>1. sent # <<>> /\ sent' = Tail(sent) /\ pc' = "recv" /\ cur' = cur
    BY <1>6 DEF RecvFrame
  <2>2. s \in Slot /\ Tail(sent) \in Seq(Slot)
    BY <1>1, <2>1
  <2>3. CASE Occupied(s) /\ phase[s].decoding
    <3>1. PICK eos \in BOOLEAN : FlushSlot(s, ApplySample(slots[s], Sampled(s, rows), eos))
      BY <1>6, <2>3 DEF RecvFrame
    <3>. HIDE DEF s, rows
    <3>. QED  BY <1>1, <2>1, <2>2, <2>3, <3>1, SampleSplit
  <2>4. CASE ~(Occupied(s) /\ phase[s].decoding)
    <3>1. UNCHANGED frontVars
      BY <1>6, <2>4 DEF RecvFrame
    <3>. QED  BY <1>1, <2>1, <2>2, <3>1, KeptSplit
  <2>. QED  BY <2>3, <2>4
<1>. QED  BY <1>2, <1>3, <1>4, <1>5, <1>6

\* The barrier.
LEMMA BarrierSplit ==
  ASSUME SplitInv,
         BarrierSave \/ BarrierSaved \/ BarrierSaveFails \/ BarrierFirst \/ BarrierSkip
  PROVE  SplitInv'
<1>1. cur \in Slot /\ sent \in Seq(Slot)
  BY DEF SplitInv
<1>2. CASE BarrierSave \/ BarrierSaved \/ BarrierSaveFails
  BY <1>1, <1>2, KeptSplit DEF BarrierSave, BarrierSaved, BarrierSaveFails
<1>3. CASE BarrierFirst
  <2>1. Occupied(cur) /\ cur' \in Slot /\ pc' # "loading" /\ sent' = sent
    BY <1>1, <1>3, NextSlot DEF BarrierFirst, BarrierNext, FirstDue
  <2>2. PICK eos \in BOOLEAN :
          FlushSlot(cur, ApplySample(slots[cur], Sampled(cur, phase[cur].last), eos))
    BY <1>3 DEF BarrierFirst
  <2>. QED  BY <1>1, <2>1, <2>2, SampleSplit
<1>4. CASE BarrierSkip
  <2>1. cur' \in Slot /\ pc' # "loading"
    BY <1>1, <1>4, NextSlot DEF BarrierSkip, BarrierNext
  <2>. QED  BY <1>1, <1>4, <2>1, KeptSplit DEF BarrierSkip
<1>. QED  BY <1>2, <1>3, <1>4

\* The handlers and the server leave the queue and the slots to the thread.
LEMMA HandlersSplit ==
  ASSUME SplitInv, Handlers \/ Signal \/ ShutdownEngine, UNCHANGED <<pc, cur, sent>>
  PROVE  SplitInv'
<1>1. FrontTypeOK' /\ PermitsConserved'
  BY HandlerType, HandlerPermits, ServerType, ServerPermits DEF Handlers, SplitInv
<1>2. UNCHANGED <<queue, slots>>
  BY DEF Handlers, Handler, Submit, Receive, ReceiveClosed, Disconnect, Signal, ShutdownEngine
<1>. QED  BY <1>1, <1>2 DEF SplitInv, Occupied

LEMMA NextSplit == SplitInv /\ [Next]_vars => SplitInv'
<1>. SUFFICES ASSUME SplitInv, [Next]_vars PROVE SplitInv'
  OBVIOUS
<1>1. CASE HeadLoop
  BY <1>1, CommandSplit, AdmissionSplit, DeliverySplit, PassSplit, BarrierSplit DEF HeadLoop
<1>2. CASE Network /\ UNCHANGED <<frontVars, headVars>>
  <2>1. UNCHANGED frontVars /\ UNCHANGED <<pc, cur, sent>> /\ UNCHANGED <<queue, slots>>
    BY <1>2 DEF frontVars, headVars
  <2>2. Occupied(cur)' <=> Occupied(cur)
    BY <2>1 DEF Occupied
  <2>. QED  BY <2>1, <2>2, KeptSplit DEF SplitInv
<1>3. CASE (Handlers \/ Signal \/ ShutdownEngine) /\ UNCHANGED splitVars
  BY <1>3, HandlersSplit DEF splitVars, headVars
<1>4. CASE UNCHANGED vars
  <2>1. UNCHANGED frontVars /\ UNCHANGED <<pc, cur, sent>> /\ UNCHANGED <<queue, slots>>
    BY <1>4 DEF vars, frontVars, splitVars, headVars
  <2>2. Occupied(cur)' <=> Occupied(cur)
    BY <2>1 DEF Occupied
  <2>. QED  BY <2>1, <2>2, KeptSplit DEF SplitInv
<1>. QED  BY <1>1, <1>2, <1>3, <1>4 DEF Next

(* In split serving as on one box (run_split_engine_thread): whatever breaks  *)
(* between the machines, and in whatever state a request is when it is        *)
(* failed, a permit is out exactly for each job in the command channel, in    *)
(* the queue or in a slot.                                                    *)
THEOREM SplitPermitsAreConserved == Spec => []PermitsConserved
<1>1. SplitInv => PermitsConserved
  BY DEF SplitInv
<1>. QED  BY <1>1, InitSplit, NextSplit, PTL DEF Spec

-------------------------------------------------------------------------------
(* The states of a stage.                                                     *)

\* The first n tokens of r: its prompt, then what was generated.
Hist(r, n) == [i \in 1 .. n |-> IF i <= Len(Prompt[r]) THEN Prompt[r][i] ELSE Gen]

\* The state x is r's after n tokens; after none it does not matter.
Holds(x, r, n) == n = 0 \/ x = Hist(r, n)

\* Prompts are sequences, with an end.
LEMMA PromptType ==
  ASSUME NEW r \in Request
  PROVE  /\ IsSeq(Prompt[r]) /\ Len(Prompt[r]) \in Nat \ {0}
         /\ DOMAIN Prompt[r] = 1 .. Len(Prompt[r])
<1>. DEFINE p == Prompt[r]  T == ToSet(p)
<1>1. p \in Seq(T) /\ p # <<>>
  BY SplitAssumption
<1>2. IsSeq(p)
  BY <1>1 DEF IsSeq
<1>. HIDE DEF p, T
<1>3. Len(p) \in Nat \ {0} /\ DOMAIN p = 1 .. Len(p)
  BY <1>1
<1>. QED  BY <1>2, <1>3 DEF p

\* What a history is made of.
Marks(r) == ToSet(Prompt[r]) \cup {Gen}

LEMMA PromptMarks ==
  ASSUME NEW r \in Request
  PROVE  Prompt[r] \in Seq(Marks(r))
<1>. DEFINE p == Prompt[r]  T == ToSet(p)  U == Marks(r)
<1>1. p \in Seq(T) /\ T \subseteq U
  BY PromptType DEF IsSeq, Marks
<1>. HIDE DEF p, T, U
<1>2. p \in Seq(U)
  BY <1>1
<1>. QED  BY <1>2 DEF p, U

LEMMA HistType ==
  ASSUME NEW r \in Request, NEW n \in Nat
  PROVE  /\ Hist(r, n) \in Seq(Marks(r)) /\ Len(Hist(r, n)) = n
         /\ DOMAIN Hist(r, n) = 1 .. n
         /\ \A i \in 1 .. n : Hist(r, n)[i] = IF i <= Len(Prompt[r]) THEN Prompt[r][i] ELSE Gen
<1>1. Len(Prompt[r]) \in Nat /\ \A i \in 1 .. Len(Prompt[r]) : Prompt[r][i] \in ToSet(Prompt[r])
  BY PromptType DEF ToSet
<1>2. \A i \in 1 .. n : (IF i <= Len(Prompt[r]) THEN Prompt[r][i] ELSE Gen) \in Marks(r)
  BY <1>1 DEF Marks
<1>3. Hist(r, n) \in [1 .. n -> Marks(r)]
  BY <1>2 DEF Hist
<1>4. Hist(r, n) \in Seq(Marks(r)) /\ Len(Hist(r, n)) = n
  BY <1>3
<1>. QED  BY <1>4 DEF Hist

\* A sequence with the elements of a history is that history.
LEMMA HistIs ==
  ASSUME NEW r \in Request, NEW n \in Nat, NEW q, IsSeq(q), Len(q) = n,
         \A i \in 1 .. n : q[i] = IF i <= Len(Prompt[r]) THEN Prompt[r][i] ELSE Gen
  PROVE  q = Hist(r, n)
<1>1. q \in Seq(ToSet(q))
  BY DEF IsSeq
<1>2. DOMAIN q = 1 .. n /\ q = [i \in DOMAIN q |-> q[i]]
  <2>. DEFINE T == ToSet(q)
  <2>1. q \in Seq(T)
    BY <1>1
  <2>. HIDE DEF T
  <2>. QED  BY <2>1
<1>. QED  BY <1>2 DEF Hist

\* The start of a history.
LEMMA HistPrefix ==
  ASSUME NEW r \in Request, NEW n \in Nat, NEW m \in 0 .. n
  PROVE  SubSeq(Hist(r, n), 1, m) = Hist(r, m)
<1>. DEFINE q == Hist(r, n)
<1>1. q \in Seq(Marks(r)) /\ Len(q) = n
      /\ \A i \in 1 .. n : q[i] = IF i <= Len(Prompt[r]) THEN Prompt[r][i] ELSE Gen
  BY HistType
<1>. HIDE DEF q
<1>2. IsSeq(q)
  BY <1>1, MakeSeq
<1>3. IsSeq(SubSeq(q, 1, m)) /\ Len(SubSeq(q, 1, m)) = m /\ \A i \in 1 .. m : SubSeq(q, 1, m)[i] = q[i]
  BY <1>1, <1>2, PrefixSeq
<1>4. m \in Nat /\ \A i \in 1 .. m : i \in 1 .. n
  OBVIOUS
<1>5. \A i \in 1 .. m : SubSeq(q, 1, m)[i] = IF i <= Len(Prompt[r]) THEN Prompt[r][i] ELSE Gen
  BY <1>1, <1>3, <1>4
<1>. QED  BY <1>3, <1>4, <1>5, HistIs DEF q

\* The start of a prompt.
LEMMA HistPrompt ==
  ASSUME NEW r \in Request, NEW n \in 0 .. Len(Prompt[r])
  PROVE  SubSeq(Prompt[r], 1, n) = Hist(r, n) /\ Prompt[r] = Hist(r, Len(Prompt[r]))
<1>. DEFINE q == Prompt[r]
<1>1. IsSeq(q) /\ Len(q) \in Nat
  BY PromptType
<1>2. \A m \in 0 .. Len(q) : IsSeq(SubSeq(q, 1, m)) /\ Len(SubSeq(q, 1, m)) = m
                            /\ \A i \in 1 .. m : SubSeq(q, 1, m)[i] = q[i]
  BY <1>1, PrefixSeq
<1>3. n \in Nat /\ \A i \in 1 .. n : i <= Len(q)
  BY <1>1
<1>4. \A i \in 1 .. n : SubSeq(q, 1, n)[i] = IF i <= Len(Prompt[r]) THEN Prompt[r][i] ELSE Gen
  BY <1>2, <1>3
<1>5. SubSeq(q, 1, n) = Hist(r, n)
  BY <1>2, <1>3, <1>4, HistIs
<1>6. \A i \in 1 .. Len(q) : q[i] = IF i <= Len(Prompt[r]) THEN Prompt[r][i] ELSE Gen
  BY <1>1
<1>. QED  BY <1>1, <1>5, <1>6, HistIs

\* A history continued by the tokens that follow it.
LEMMA HistJoin ==
  ASSUME NEW r \in Request, NEW n \in Nat, NEW c \in Seq(Marks(r)),
         \A i \in 1 .. Len(c) : c[i] = IF n + i <= Len(Prompt[r]) THEN Prompt[r][n + i] ELSE Gen
  PROVE  Hist(r, n) \o c = Hist(r, n + Len(c))
<1>. DEFINE h == Hist(r, n)  k == Len(c)  q == h \o c
<1>1. h \in Seq(Marks(r)) /\ Len(h) = n /\ k \in Nat
      /\ (\A i \in 1 .. n : h[i] = IF i <= Len(Prompt[r]) THEN Prompt[r][i] ELSE Gen)
  BY HistType, SMTT(60)
<1>2. /\ q \in Seq(Marks(r)) /\ Len(q) = n + k
      /\ \A i \in 1 .. n + k : q[i] = IF i <= n THEN h[i] ELSE c[i - n]
  <2>. HIDE DEF h
  <2>1. /\ q \in Seq(Marks(r)) /\ Len(q) = Len(h) + Len(c)
        /\ \A i \in 1 .. Len(h) + Len(c) : q[i] = IF i <= Len(h) THEN h[i] ELSE c[i - Len(h)]
    BY <1>1, ConcatProperties
  <2>. QED  BY <1>1, <2>1
<1>. HIDE DEF h, k, q
<1>3. \A i \in 1 .. n + k : i <= n => i \in 1 .. n
  BY <1>1
<1>4. \A i \in 1 .. n + k : ~(i <= n) => i - n \in 1 .. k /\ n + (i - n) = i
  BY <1>1
<1>5. \A j \in 1 .. k : c[j] = IF n + j <= Len(Prompt[r]) THEN Prompt[r][n + j] ELSE Gen
  BY DEF k
<1>6. \A i \in 1 .. n + k : q[i] = IF i <= Len(Prompt[r]) THEN Prompt[r][i] ELSE Gen
  <2>. TAKE i \in 1 .. n + k
  <2>1. CASE i <= n
    BY <1>1, <1>2, <1>3, <2>1
  <2>2. CASE ~(i <= n)
    <3>. DEFINE j == i - n
    <3>1. j \in 1 .. k /\ n + j = i /\ q[i] = c[j]
      BY <1>2, <1>4, <2>2
    <3>. HIDE DEF j
    <3>. QED  BY <1>5, <3>1
  <2>. QED  BY <2>1, <2>2
<1>7. IsSeq(q) /\ n + k \in Nat
  BY <1>1, <1>2, MakeSeq
<1>. QED  BY <1>2, <1>6, <1>7, HistIs DEF q, h, k

\* The prompt and e generated tokens.
LEMMA HistTrue ==
  ASSUME NEW r \in Request, NEW e \in Nat
  PROVE  Prompt[r] \o [i \in 1 .. e |-> Gen] = Hist(r, Len(Prompt[r]) + e)
<1>. DEFINE n == Len(Prompt[r])  g == [i \in 1 .. e |-> Gen]
<1>1. n \in Nat /\ Prompt[r] = Hist(r, n)
  BY PromptType, HistPrompt
<1>2. g \in Seq(Marks(r)) /\ Len(g) = e /\ \A i \in 1 .. e : g[i] = Gen
  <2>1. g \in [1 .. e -> Marks(r)]
    BY DEF Marks
  <2>. QED  BY <2>1
<1>. HIDE DEF n, g
<1>3. \A i \in 1 .. Len(g) : g[i] = IF n + i <= Len(Prompt[r]) THEN Prompt[r][n + i] ELSE Gen
  BY <1>1, <1>2 DEF n
<1>4. Hist(r, n) \o g = Hist(r, n + Len(g))
  BY <1>1, <1>2, <1>3, HistJoin
<1>. QED  BY <1>1, <1>2, <1>4 DEF g, n

\* A history continued by a chunk of the prompt.
LEMMA HistChunk ==
  ASSUME NEW r \in Request, NEW n \in Nat, NEW k \in Nat, n + k <= Len(Prompt[r])
  PROVE  LET c == SubSeq(Prompt[r], n + 1, n + k) IN
         IsSeq(c) /\ Len(c) = k /\ Hist(r, n) \o c = Hist(r, n + k)
<1>. DEFINE p == Prompt[r]  c == SubSeq(p, n + 1, n + k)
<1>1. p \in Seq(Marks(r)) /\ Len(p) \in Nat
  BY PromptMarks, PromptType
<1>. HIDE DEF p
<1>2. c \in Seq(Marks(r)) /\ Len(c) = k /\ \A i \in 1 .. k : c[i] = p[n + i]
  <2>1. n + 1 \in Nat /\ n + k \in Nat /\ n + k <= Len(p)
    BY DEF p
  <2>2. \A i \in n + 1 .. n + k : p[i] \in Marks(r)
    BY <1>1, <2>1
  <2>3. /\ c \in Seq(Marks(r)) /\ Len(c) = IF n + 1 <= n + k THEN (n + k) - (n + 1) + 1 ELSE 0
        /\ \A i \in 1 .. (n + k) - (n + 1) + 1 : c[i] = p[(n + 1) + i - 1]
    BY <2>1, <2>2, SubSeqProperties
  <2>4. \A i \in 1 .. k : (n + 1) + i - 1 = n + i /\ i \in 1 .. (n + k) - (n + 1) + 1
    OBVIOUS
  <2>5. (IF n + 1 <= n + k THEN (n + k) - (n + 1) + 1 ELSE 0) = k
    OBVIOUS
  <2>. QED  BY <2>3, <2>4, <2>5
<1>. HIDE DEF c
<1>3. \A i \in 1 .. Len(c) : c[i] = IF n + i <= Len(Prompt[r]) THEN Prompt[r][n + i] ELSE Gen
  <2>1. \A i \in 1 .. k : n + i <= Len(p)
    BY <1>1 DEF p
  <2>. QED  BY <1>2, <2>1 DEF p
<1>4. Hist(r, n) \o c = Hist(r, n + Len(c))
  BY <1>2, <1>3, HistJoin
<1>5. IsSeq(c)
  BY <1>2, MakeSeq
<1>. QED  BY <1>2, <1>4, <1>5 DEF c, p

\* ... and by a generated token.
LEMMA HistGen ==
  ASSUME NEW r \in Request, NEW n \in Nat, Len(Prompt[r]) <= n
  PROVE  Hist(r, n) \o <<Gen>> = Hist(r, n + 1)
<1>. DEFINE c == <<Gen>>
<1>1. c \in Seq(Marks(r)) /\ Len(c) = 1 /\ c[1] = Gen
  BY DEF Marks
<1>. HIDE DEF c
<1>2. Len(Prompt[r]) \in Nat
  BY PromptType
<1>3. \A i \in 1 .. Len(c) : c[i] = IF n + i <= Len(Prompt[r]) THEN Prompt[r][n + i] ELSE Gen
  BY <1>1, <1>2
<1>4. Hist(r, n) \o c = Hist(r, n + Len(c))
  BY <1>1, <1>3, HistJoin
<1>. QED  BY <1>1, <1>4 DEF c

\* A registered prefix of a prompt.
LEMMA HistStart ==
  ASSUME NEW r \in Request, NEW t, IsSeq(t), IsStrictPrefix(t, Prompt[r])
  PROVE  Len(t) \in Nat /\ Len(t) < Len(Prompt[r]) /\ t = Hist(r, Len(t))
<1>. DEFINE p == Prompt[r]  T == ToSet(p)  U == ToSet(t)
<1>1. p \in Seq(T) /\ t \in Seq(U) /\ IsSeq(p)
  BY PromptType DEF IsSeq
<1>. HIDE DEF p, T, U
<1>2. Len(t) \in Nat /\ Len(p) \in Nat /\ SubSeq(t, 1, Len(t)) = t /\ SubSeq(p, 1, Len(p)) = p
  BY <1>1
<1>3. Len(t) <= Len(p) /\ SubSeq(t, 1, Len(t)) = SubSeq(p, 1, Len(t)) /\ t # p
  BY DEF IsStrictPrefix, IsPrefix, p
<1>4. Len(t) # Len(p)
  BY <1>2, <1>3
<1>5. Len(t) \in 0 .. Len(p) /\ Len(t) < Len(p)
  <2>. DEFINE a == Len(t)  b == Len(p)
  <2>1. a \in Nat /\ b \in Nat /\ a <= b /\ a # b
    BY <1>2, <1>3, <1>4
  <2>. HIDE DEF a, b
  <2>2. a \in 0 .. b /\ a < b
    BY <2>1
  <2>. QED  BY <2>2 DEF a, b
<1>. QED  BY <1>2, <1>3, <1>5, HistPrompt DEF p

-------------------------------------------------------------------------------
(* The invariant.  Upto(s) is how much of its history slot s has been fed: a  *)
(* token under way counts, a prefill counts its chunks when they are sent.    *)

InPass == pc \in {"send", "recv"}
InSent(s) == \E i \in 1 .. Len(sent) : sent[i] = s
Upto(s) == IF phase[s].decoding /\ InSent(s) THEN phase[s].pos + 1 ELSE phase[s].pos

\* A Phase.  The rows it keeps have no type.
IsPhase(p) == p \in [decoding : BOOLEAN, pos : Nat, snapAt : Nat, snapped : BOOLEAN, last : {p.last}]

\* The entry a restore uses.
Best == BestSnap(Prompt[Head(queue)])

\* What the registry registers.
Histories == {<<>>} \cup {Hist(r, n) : r \in Request, n \in Nat}

PhaseType == DOMAIN phase = Slot /\ \A s \in Slot : IsPhase(phase[s])
SnapType == /\ snaps \in [Snap -> [valid : BOOLEAN, tokens : Histories, lru : Nat]]
            /\ lruClock \in Nat

\* Where a slot stands: a prefill has generated nothing and stops at its
\* boundary, a decode is one token behind what it generated.
PrefillOK(s) ==
  /\ slots[s].emitted = 0 /\ phase[s].pos <= Len(PromptOf(s))
  /\ phase[s].snapAt < Len(PromptOf(s))
  /\ phase[s].snapAt > 0 /\ ~phase[s].snapped => phase[s].pos <= phase[s].snapAt
DecodeOK(s) == slots[s].emitted >= 1 /\ phase[s].pos + 1 = Len(PromptOf(s)) + slots[s].emitted
PhaseOK(s) ==
  /\ Unfinished(s) => /\ slots[s].emitted < MaxGen[slots[s].req]
                      /\ phase[s].decoding => DecodeOK(s)
                      /\ ~phase[s].decoding => PrefillOK(s)
  /\ Occupied(s) /\ slots[s].finished => phase[s].decoding

\* The frames of a pass belong to slots that go on, a decode has one of them.
SentOK ==
  /\ \A i \in 1 .. Len(sent) : Unfinished(sent[i])
  /\ \A i, j \in 1 .. Len(sent) : sent[i] = sent[j] /\ phase[sent[i]].decoding => i = j
  /\ pc = "send" => \A i \in 1 .. Len(sent) :
       sent[i] < cur \/ (sent[i] = cur /\ (phase[cur].decoding => ~(burst < Bursts)))

\* After a failed pass slots are failed in order.
FailOK == pc = "fail" => \A s \in Slot : s < cur => ~Unfinished(s)

PhaseInv == /\ \A s \in Slot : PhaseOK(s)
            /\ SentOK /\ FailOK

\* An operation on a snapshot under way is still due.
WaitInv ==
  /\ pc = "loading" => Usable(Prompt[Head(queue)]) # {}
  /\ pc = "saving" => SnapDue

CoreInv == /\ SplitInv /\ MatchInv /\ FrontInv
           /\ PhaseType /\ SnapType /\ PhaseInv /\ WaitInv

-------------------------------------------------------------------------------
(* What an answered frame does to its slot, and the events of the clients.    *)

\* What a sample adds: a token or the end, or with the last token both.
SampleIds(id, eos) == IF eos THEN <<>> ELSE <<id>>
SampleEnd(eos) == IF eos THEN "Eos" ELSE "Limit"

LEMMA SampleParts ==
  ASSUME NEW st \in SlotState, NEW id \in TokenId, NEW eos \in BOOLEAN, st.req \in Request,
         st.emitted < MaxGen[st.req], \A i \in 1 .. Len(st.pending) : ~IsEnd(st.pending[i]),
         NEW nst, nst = ApplySample(st, id, eos)
  PROVE  /\ SampleIds(id, eos) \in Seq(TokenId) /\ nst.req = st.req
         /\ nst.emitted = st.emitted + Len(SampleIds(id, eos))
         /\ Len(SampleIds(id, eos)) = IF eos THEN 0 ELSE 1
         /\ nst.finished => EndsAs(SampleEnd(eos), st.req, nst.emitted)
         /\ eos => nst.finished
         /\ ~nst.finished => nst.emitted < MaxGen[st.req]
         /\ \E body \in Seq(Event) :
              /\ nst.pending = IF nst.finished THEN Append(body, Done(SampleEnd(eos))) ELSE body
              /\ \A i \in 1 .. Len(body) : ~IsEnd(body[i])
              /\ IdsOf(body) = IdsOf(st.pending) \o SampleIds(id, eos)
<1>. DEFINE p == st.pending  e == Tokens(<<id>>)  m == MaxGen[st.req]  n == st.emitted
            last == n + 1 >= m
<1>1. /\ p \in Seq(Event) /\ n \in Nat /\ m \in Nat /\ n < m
      /\ <<id>> \in Seq(TokenId) /\ Len(<<id>>) = 1 /\ <<>> \in Seq(TokenId) /\ Len(<<>>) = 0
  BY RequestsAssumption DEF SlotState
<1>2. e \in Event /\ ~IsEnd(e) /\ e.ids = <<id>> /\ Done("Limit") \in Event
  BY <1>1 DEF Tokens, Event, IsEnd, Done
<1>3. CASE eos
  <2>0. SampleIds(id, eos) = <<>> /\ SampleEnd(eos) = "Eos"
    BY <1>3 DEF SampleIds, SampleEnd
  <2>1. nst.emitted = n /\ nst.req = st.req /\ nst.finished /\ nst.pending = Append(p, Done("Eos"))
    BY <1>3 DEF ApplySample, SlotState
  <2>2. IdsOf(p) \o <<>> = IdsOf(p)
    BY <1>1, IdsType, ConcatEmptySeq
  <2>3. n + 0 = n /\ EndsAs("Eos", st.req, n)
    BY <1>1 DEF EndsAs
  <2>4. \E body \in Seq(Event) :
              /\ nst.pending = IF nst.finished THEN Append(body, Done("Eos")) ELSE body
              /\ \A i \in 1 .. Len(body) : ~IsEnd(body[i])
              /\ IdsOf(body) = IdsOf(st.pending) \o <<>>
    BY <1>1, <2>1, <2>2
  <2>5. nst.emitted = st.emitted + Len(<<>>)
    BY <1>1, <2>1, <2>3
  <2>6. nst.finished => EndsAs("Eos", st.req, nst.emitted)
    BY <2>1, <2>3
  <2>7. SampleIds(id, eos) \in Seq(TokenId) /\ Len(SampleIds(id, eos)) = IF eos THEN 0 ELSE 1
    <3>1. (IF eos THEN 0 ELSE 1) = 0
      BY <1>3
    <3>. QED  BY <1>1, <2>0, <3>1, Zenon
  <2>8. /\ SampleIds(id, eos) \in Seq(TokenId) /\ nst.req = st.req
        /\ nst.emitted = st.emitted + Len(SampleIds(id, eos))
        /\ Len(SampleIds(id, eos)) = IF eos THEN 0 ELSE 1
        /\ nst.finished => EndsAs(SampleEnd(eos), st.req, nst.emitted)
        /\ eos => nst.finished
        /\ ~nst.finished => nst.emitted < MaxGen[st.req]
    BY <2>0, <2>1, <2>5, <2>6, <2>7, Zenon
  <2>9. \E b \in Seq(Event) :
              /\ nst.pending = IF nst.finished THEN Append(b, Done(SampleEnd(eos))) ELSE b
              /\ \A i \in 1 .. Len(b) : ~IsEnd(b[i])
              /\ IdsOf(b) = IdsOf(st.pending) \o SampleIds(id, eos)
    BY <2>0, <2>4
  <2>. QED  BY <2>8, <2>9, Zenon
<1>4. CASE ~eos
  <2>. DEFINE body == p \o <<e>>
  <2>0. SampleIds(id, eos) = <<id>> /\ SampleEnd(eos) = "Limit"
    BY <1>4 DEF SampleIds, SampleEnd
  <2>1. /\ body \in Seq(Event) /\ IdsOf(body) = IdsOf(p) \o <<id>>
        /\ \A i \in 1 .. Len(body) : ~IsEnd(body[i])
    <3>1. \A i \in 1 .. Len(p) : ~IsEnd(p[i])
      OBVIOUS
    <3>. HIDE DEF p, e
    <3>. QED  BY <1>1, <1>2, <3>1, EventMore
  <2>2. /\ nst.emitted = n + 1 /\ nst.req = st.req /\ nst.finished = last
        /\ nst.pending = body \o (IF last THEN <<Done("Limit")>> ELSE <<>>)
    BY <1>4 DEF ApplySample, SlotState
  <2>3. nst.pending = IF nst.finished THEN Append(body, Done("Limit")) ELSE body
    <3>. DEFINE d == Done("Limit")
    <3>. HIDE DEF body, d
    <3>1. body \o <<d>> = Append(body, d) /\ body \o <<>> = body
      BY <1>2, <2>1, AppendIsConcat, ConcatEmptySeq DEF d
    <3>. QED  BY <2>2, <3>1 DEF d
  <2>4. (last => EndsAs("Limit", st.req, n + 1)) /\ (~last => n + 1 < m)
    BY <1>1 DEF EndsAs
  <2>5. nst.emitted = st.emitted + Len(<<id>>)
    BY <1>1, <2>2
  <2>. HIDE DEF body
  <2>6. \E b \in Seq(Event) :
              /\ nst.pending = IF nst.finished THEN Append(b, Done("Limit")) ELSE b
              /\ \A i \in 1 .. Len(b) : ~IsEnd(b[i])
              /\ IdsOf(b) = IdsOf(st.pending) \o <<id>>
    BY <2>1, <2>3
  <2>7. (nst.finished => EndsAs("Limit", st.req, nst.emitted))
        /\ (~nst.finished => nst.emitted < MaxGen[st.req])
    BY <2>2, <2>4
  <2>8. /\ SampleIds(id, eos) \in Seq(TokenId) /\ nst.req = st.req
        /\ nst.emitted = st.emitted + Len(SampleIds(id, eos))
        /\ Len(SampleIds(id, eos)) = IF eos THEN 0 ELSE 1
        /\ nst.finished => EndsAs(SampleEnd(eos), st.req, nst.emitted)
        /\ eos => nst.finished
        /\ ~nst.finished => nst.emitted < MaxGen[st.req]
    BY <1>1, <1>4, <2>0, <2>2, <2>5, <2>7
  <2>9. \E b \in Seq(Event) :
              /\ nst.pending = IF nst.finished THEN Append(b, Done(SampleEnd(eos))) ELSE b
              /\ \A i \in 1 .. Len(b) : ~IsEnd(b[i])
              /\ IdsOf(b) = IdsOf(st.pending) \o SampleIds(id, eos)
    BY <2>0, <2>6
  <2>. QED  BY <2>8, <2>9, Zenon
<1>. QED  BY <1>3, <1>4

\* Exactly the next token, if the id is right.
LEMMA SampleOK ==
  ASSUME FrontTypeOK, NEW st \in SlotState, NEW id \in TokenId, NEW eos \in BOOLEAN,
         st.req \in Request, ~st.finished, SlotOK(st), st.emitted < MaxGen[st.req]
  PROVE  LET nst == ApplySample(st, id, eos) IN
         /\ SlotOK(nst)
         /\ RxOpen(st.req) /\ Exact(st.req, Owed(st)) /\ id = <<st.req, st.emitted + 1>>
              => Exact(st.req, Owed(nst))
<1>. DEFINE nst == ApplySample(st, id, eos)  toks == SampleIds(id, eos)
            reason == SampleEnd(eos)
<1>1. \A i \in 1 .. Len(st.pending) : ~IsEnd(st.pending[i])
  BY DEF SlotOK
<1>2. /\ nst.emitted = st.emitted + Len(toks) /\ nst.req = st.req /\ toks \in Seq(TokenId)
      /\ nst.finished => EndsAs(reason, st.req, nst.emitted)
  BY <1>1, SampleParts
<1>3. PICK body \in Seq(Event) :
              /\ nst.pending = IF nst.finished THEN Append(body, Done(reason)) ELSE body
              /\ \A i \in 1 .. Len(body) : ~IsEnd(body[i])
              /\ IdsOf(body) = IdsOf(st.pending) \o toks
  BY <1>1, SampleParts
<1>4. nst \in SlotState /\ reason \in {"Eos", "Limit"}
  BY SampleType DEF SampleEnd
<1>5. id = <<st.req, st.emitted + 1>> => toks = [i \in 1 .. Len(toks) |-> <<st.req, st.emitted + i>>]
  <2>1. <<>> = [i \in 1 .. Len(<<>>) |-> <<st.req, st.emitted + i>>]
    OBVIOUS
  <2>2. <<id>> = [i \in 1 .. Len(<<id>>) |-> id] /\ \A i \in 1 .. Len(<<id>>) : i = 1
    OBVIOUS
  <2>. QED  BY <2>1, <2>2 DEF SampleIds
<1>. HIDE DEF nst, toks, reason
<1>6. /\ SlotOK(nst)
      /\ toks = [i \in 1 .. Len(toks) |-> <<st.req, st.emitted + i>>] =>
           (RxOpen(st.req) /\ Exact(st.req, Owed(st)) => Exact(st.req, Owed(nst)))
  BY <1>2, <1>3, <1>4, SlotGrows, Zenon
<1>. QED  BY <1>5, <1>6 DEF nst

\* A sample applied to a slot that goes on, and flushed.
LEMMA SampleFront ==
  ASSUME SplitInv, FrontInv, NEW s \in Slot, Unfinished(s), slots[s].emitted < MaxGen[slots[s].req],
         NEW rows, NEW eos \in BOOLEAN, FlushSlot(s, ApplySample(slots[s], Sampled(s, rows), eos))
  PROVE  FrontInv' /\ (ExactInv /\ rows = TrueHistory(s) => ExactInv')
<1>. DEFINE st == slots[s]  id == Sampled(s, rows)  nst == ApplySample(st, id, eos)  r == st.req
<1>1. /\ FrontTypeOK /\ st \in SlotState /\ r \in Request /\ ~st.finished /\ st.emitted \in Nat
      /\ st.emitted < MaxGen[r]
  BY DEF SplitInv, FrontTypeOK, SlotState, Unfinished, Occupied
<1>2. id \in TokenId /\ (rows = TrueHistory(s) => id = <<r, st.emitted + 1>>)
  BY <1>1 DEF Sampled, TokenId
<1>3. SlotOK(st) /\ (ExactInv /\ RxOpen(r) => Exact(r, Owed(st)))
  BY <1>1 DEF FrontInv, RequestOK, ExactInv, ExactOK
<1>4. FlushSlot(s, nst) /\ slots[s].req = r
  OBVIOUS
<1>. HIDE DEF st, id
<1>5. nst \in SlotState /\ nst.req = r
  BY <1>1, <1>2, SampleType
<1>6. SlotOK(nst) /\ (RxOpen(r) /\ Exact(r, Owed(st)) /\ id = <<r, st.emitted + 1>> => Exact(r, Owed(nst)))
  BY <1>1, <1>2, <1>3, SampleOK
<1>. HIDE DEF nst, r
<1>7. FrontInv' /\ (ExactInv /\ (RxOpen(r) => Exact(r, Owed(nst))) => ExactInv')
  BY <1>1, <1>4, <1>5, <1>6, FlushFront
<1>. QED  BY <1>2, <1>3, <1>6, <1>7

\* What the flush leaves of the slot.
LEMMA SampleSlots ==
  ASSUME SplitInv, NEW s \in Slot, Occupied(s), slots[s].emitted < MaxGen[slots[s].req],
         NEW rows, NEW eos \in BOOLEAN, FlushSlot(s, ApplySample(slots[s], Sampled(s, rows), eos)),
         \A i \in 1 .. Len(slots[s].pending) : ~IsEnd(slots[s].pending[i])
  PROVE  /\ \A t \in Slot : t # s => slots'[t] = slots[t]
         /\ queue' = queue
         /\ \/ slots'[s] = NoSlot
            \/ /\ slots'[s] \in SlotState /\ slots'[s].req = slots[s].req
               /\ ~slots'[s].finished => /\ slots'[s].emitted = slots[s].emitted + 1
                                         /\ slots'[s].emitted < MaxGen[slots[s].req]
<1>. DEFINE st == slots[s]  id == Sampled(s, rows)  nst == ApplySample(st, id, eos)  r == st.req
            toks == SampleIds(id, eos)
<1>1. FrontTypeOK /\ st \in SlotState /\ r \in Request /\ st.emitted \in Nat
  BY DEF SplitInv, FrontTypeOK, SlotState, Occupied
<1>2. id \in TokenId
  BY <1>1 DEF Sampled, TokenId
<1>3. FlushSlot(s, nst)
  OBVIOUS
<1>4. st.emitted < MaxGen[r] /\ \A i \in 1 .. Len(st.pending) : ~IsEnd(st.pending[i])
  OBVIOUS
<1>. HIDE DEF st, id
<1>5. nst \in SlotState /\ nst.req = r
  BY <1>1, <1>2, SampleType
<1>6. /\ nst.emitted = st.emitted + Len(toks) /\ Len(toks) = IF eos THEN 0 ELSE 1
      /\ eos => nst.finished
      /\ ~nst.finished => nst.emitted < MaxGen[r]
  BY <1>1, <1>2, <1>4, SampleParts
<1>. HIDE DEF toks, nst
<1>7. ~nst.finished => nst.emitted = st.emitted + 1 /\ nst.emitted < MaxGen[r]
  BY <1>1, <1>6
<1>8. /\ \A t \in Slot : t # s => slots'[t] = slots[t]
      /\ queue' = queue
      /\ \/ slots'[s] = NoSlot
         \/ /\ slots'[s] \in SlotState /\ slots'[s].req = nst.req
            /\ slots'[s].emitted = nst.emitted /\ slots'[s].finished = nst.finished
  BY <1>1, <1>3, <1>5, FlushOutcomes
<1>. QED  BY <1>5, <1>7, <1>8 DEF st

-------------------------------------------------------------------------------
(* The registry and the phases.                                               *)

\* The fields of a phase.
LEMMA PhaseFields ==
  ASSUME NEW p, IsPhase(p)
  PROVE  p.decoding \in BOOLEAN /\ p.pos \in Nat /\ p.snapAt \in Nat /\ p.snapped \in BOOLEAN
BY DEF IsPhase

\* New phases.
LEMMA NewPhases ==
  /\ IsPhase(NoPhase)
  /\ \A n \in Nat : LET q == [NoPhase EXCEPT !.decoding = TRUE, !.pos = n] IN
       IsPhase(q) /\ q.decoding = TRUE /\ q.pos = n
  /\ \A r \in Request, n \in Nat : LET q == NewPrefill(r, n) IN
       /\ IsPhase(q) /\ q.decoding = FALSE /\ q.pos = n /\ q.snapped = FALSE
       /\ q.snapAt = 0 \/ (q.snapAt > n /\ q.snapAt < Len(Prompt[r]))
<1>1. IsPhase(NoPhase)
  BY DEF IsPhase, NoPhase
<1>2. ASSUME NEW n \in Nat
      PROVE  LET q == [NoPhase EXCEPT !.decoding = TRUE, !.pos = n] IN
             IsPhase(q) /\ q.decoding = TRUE /\ q.pos = n
  BY DEF IsPhase, NoPhase
<1>3. ASSUME NEW r \in Request, NEW n \in Nat
      PROVE  LET q == NewPrefill(r, n) IN
             /\ IsPhase(q) /\ q.decoding = FALSE /\ q.pos = n /\ q.snapped = FALSE
             /\ q.snapAt = 0 \/ (q.snapAt > n /\ q.snapAt < Len(Prompt[r]))
  <2>1. SnapPrefix[r] \in Nat
    BY SplitAssumption
  <2>. DEFINE at == IF SnapPrefix[r] > n /\ SnapPrefix[r] < Len(Prompt[r]) THEN SnapPrefix[r] ELSE 0
  <2>2. at \in Nat /\ (at = 0 \/ (at > n /\ at < Len(Prompt[r])))
    BY <2>1
  <2>3. NewPrefill(r, n) = [NoPhase EXCEPT !.pos = n, !.snapAt = at]
    BY DEF NewPrefill
  <2>. HIDE DEF at
  <2>. QED  BY <2>2, <2>3 DEF IsPhase, NoPhase
<1>. QED  BY <1>1, <1>2, <1>3

\* What is registered is a sequence.
LEMMA HistoriesSeq == \A t \in Histories : IsSeq(t) /\ Len(t) \in Nat
<1>. SUFFICES ASSUME NEW t \in Histories PROVE IsSeq(t) /\ Len(t) \in Nat
  OBVIOUS
<1>1. CASE t = <<>>
  BY <1>1, EmptyIsSeq
<1>2. CASE t # <<>>
  <2>1. PICK r \in Request, n \in Nat : t = Hist(r, n)
    BY <1>2 DEF Histories
  <2>2. t \in Seq(Marks(r))
    BY <2>1, HistType
  <2>. QED  BY <2>2, MakeSeq
<1>. QED  BY <1>1, <1>2

\* best_snap finds an entry when there is one, and it holds a history.
LEMMA BestUsable ==
  ASSUME SnapType, NEW r \in Request, Usable(Prompt[r]) # {}
  PROVE  LET i == BestSnap(Prompt[r])  t == snaps[i].tokens IN
         /\ i \in Snap /\ i \in Usable(Prompt[r]) /\ snaps[i].valid
         /\ Len(t) \in Nat \ {0} /\ Len(t) < Len(Prompt[r]) /\ t = Hist(r, Len(t))
<1>. DEFINE p == Prompt[r]  U == Usable(p)  n(i) == Len(snaps[i].tokens)  m == Len(p)
<1>1. m \in Nat /\ U \subseteq Snap /\ Snap \subseteq Nat
  BY PromptType DEF Usable, Snap
<1>2. ASSUME NEW i \in U
      PROVE  /\ n(i) \in Nat \ {0} /\ n(i) < m /\ snaps[i].tokens = Hist(r, n(i))
             /\ snaps[i].valid
  <2>1. /\ snaps[i].valid /\ n(i) >= MinKeep /\ IsStrictPrefix(snaps[i].tokens, p)
        /\ i \in Snap
    BY DEF Usable
  <2>2. IsSeq(snaps[i].tokens)
    BY <2>1, HistoriesSeq DEF SnapType
  <2>3. MinKeep \in Nat \ {0}
    BY SplitAssumption
  <2>. QED  BY <2>1, <2>2, <2>3, HistStart
<1>3. U # {}
  OBVIOUS
<1>. HIDE DEF p, U, n, m
<1>4. PICK i0 \in U : \A j \in U : n(j) <= n(i0)
  <2>. DEFINE D == {m - n(i) : i \in U}
  <2>1. D \in SUBSET Nat
    <3>1. \A i \in U : m - n(i) \in Nat
      BY <1>1, <1>2
    <3>. QED  BY <3>1
  <2>2. D # {}
    BY <1>3
  <2>. HIDE DEF D
  <2>3. PICK d \in D : \A x \in D : d <= x
    BY <2>1, <2>2, LeastNumber
  <2>4. PICK i \in U : d = m - n(i)
    BY DEF D
  <2>5. \A j \in U : m - n(i) <= m - n(j)
    BY <2>3, <2>4 DEF D
  <2>6. \A j \in U : n(j) <= n(i)
    BY <1>1, <1>2, <2>5
  <2>. QED  BY <2>6
<1>5. PICK e \in U : n(e) = n(i0) /\ \A j \in U : n(j) = n(i0) => e <= j
  <2>. DEFINE E == {i \in U : n(i) = n(i0)}
  <2>1. E \in SUBSET Nat /\ E # {}
    BY <1>1
  <2>. HIDE DEF E
  <2>2. PICK e \in E : \A j \in E : e <= j
    BY <2>1, LeastNumber
  <2>. QED  BY <2>2 DEF E
<1>6. \A j \in U : n(e) > n(j) \/ (n(e) = n(j) /\ e <= j)
  <2>. TAKE j \in U
  <2>1. n(j) <= n(i0) /\ (n(j) = n(i0) => e <= j) /\ n(e) = n(i0)
    BY <1>4, <1>5
  <2>2. n(j) \in Nat /\ n(e) \in Nat
    BY <1>2
  <2>. QED  BY <2>1, <2>2
<1>7. BestSnap(p) \in U
  <2>1. BestSnap(p) = CHOOSE i \in U : \A j \in U : n(i) > n(j) \/ (n(i) = n(j) /\ i <= j)
    BY DEF BestSnap, U, n
  <2>. QED  BY <1>6, <2>1
<1>. QED  BY <1>1, <1>2, <1>7 DEF p, U, n, m

\* pick_entry finds one.
LEMMA PickIn ==
  ASSUME SnapType
  PROVE  PickEntry \in Snap
<1>. DEFINE empty == {i \in Snap : ~snaps[i].valid}  u(i) == snaps[i].lru
<1>1. Snap \subseteq Nat /\ 0 \in Snap
  BY SplitAssumption DEF Snap
<1>2. \A i \in Snap : u(i) \in Nat
  BY DEF SnapType
<1>3. \E e \in Snap : IF empty # {} THEN e \in empty /\ \A i \in empty : e <= i
                      ELSE \A i \in Snap : u(e) <= u(i)
  <2>1. CASE empty # {}
    <3>1. empty \in SUBSET Nat
      BY <1>1
    <3>2. empty \subseteq Snap
      OBVIOUS
    <3>. HIDE DEF empty
    <3>3. PICK e \in empty : \A i \in empty : e <= i
      BY <2>1, <3>1, LeastNumber
    <3>. QED  BY <2>1, <3>2, <3>3
  <2>2. CASE empty = {}
    <3>. DEFINE L == {u(i) : i \in Snap}
    <3>. HIDE DEF empty, u
    <3>1. L \in SUBSET Nat /\ L # {}
      BY <1>1, <1>2
    <3>. HIDE DEF L
    <3>2. PICK l \in L : \A x \in L : l <= x
      BY <3>1, LeastNumber
    <3>3. PICK e \in Snap : l = u(e)
      BY DEF L
    <3>4. \A i \in Snap : u(e) <= u(i)
      BY <3>2, <3>3 DEF L
    <3>. QED  BY <2>2, <3>4
  <2>. QED  BY <2>1, <2>2
<1>4. PickEntry = CHOOSE e \in Snap : IF empty # {} THEN e \in empty /\ \A i \in empty : e <= i
                                      ELSE \A i \in Snap : u(e) <= u(i)
  BY DEF PickEntry
<1>. HIDE DEF empty, u
<1>. QED  BY <1>3, <1>4

\* What a prefilling slot feeds next.
LEMMA ChunkFeeds ==
  ASSUME NEW s \in Slot, PhaseType, slots[s].req \in Request, PrefillOK(s), ~phase[s].decoding
  PROVE  LET k == Len(Feeds(s))  p == phase[s] IN
         /\ IsSeq(Feeds(s)) /\ k \in Nat /\ p.pos + k \in Nat /\ p.pos + k <= Len(PromptOf(s))
         /\ p.snapAt > 0 /\ ~p.snapped => p.pos + k <= p.snapAt
         /\ Hist(slots[s].req, p.pos) \o Feeds(s) = Hist(slots[s].req, p.pos + k)
         /\ p.pos = 0 => Feeds(s) = Hist(slots[s].req, p.pos + k)
<1>. DEFINE r == slots[s].req  m == Len(Prompt[r])  p == phase[s]
            stop == IF p.snapAt > 0 /\ ~p.snapped THEN p.snapAt ELSE m
            cap == IF Shared THEN ChunkShared ELSE ChunkAlone
            left == stop - p.pos
            k == IF left < cap THEN left ELSE cap
<1>1. /\ p.pos \in Nat /\ p.snapAt \in Nat /\ m \in Nat /\ p.pos <= m /\ p.snapAt < m
      /\ (p.snapAt > 0 /\ ~p.snapped => p.pos <= p.snapAt)
  BY PromptType, PhaseFields DEF PhaseType, PrefillOK, PromptOf
<1>2. cap \in Nat
  BY SplitAssumption
<1>3. ChunkLen(s) = k /\ Feeds(s) = SubSeq(Prompt[r], p.pos + 1, p.pos + k)
  BY DEF ChunkLen, PromptOf, Feeds
<1>. HIDE DEF cap
<1>4. stop \in Nat /\ stop <= m /\ p.pos <= stop /\ (p.snapAt > 0 /\ ~p.snapped => stop = p.snapAt)
  BY <1>1
<1>. HIDE DEF stop, p, m
<1>5. left \in Nat /\ p.pos + left = stop
  BY <1>1, <1>4
<1>. HIDE DEF left
<1>6. k \in Nat /\ k <= left
  BY <1>2, <1>5
<1>. HIDE DEF k
<1>7. p.pos + k \in Nat /\ p.pos + k <= stop /\ p.pos + k <= m
  BY <1>1, <1>4, <1>5, <1>6
<1>8. IsSeq(Feeds(s)) /\ Len(Feeds(s)) = k /\ Hist(r, p.pos) \o Feeds(s) = Hist(r, p.pos + k)
  <2>1. p.pos + k <= Len(Prompt[r]) /\ p.pos \in Nat /\ r \in Request
    BY <1>1, <1>7 DEF m
  <2>. HIDE DEF r
  <2>2. LET c == SubSeq(Prompt[r], p.pos + 1, p.pos + k) IN
        IsSeq(c) /\ Len(c) = k /\ Hist(r, p.pos) \o c = Hist(r, p.pos + k)
    BY <1>6, <2>1, HistChunk
  <2>. QED  BY <1>3, <2>2
<1>9. p.pos = 0 => Feeds(s) = Hist(r, p.pos + k)
  <2>. SUFFICES ASSUME p.pos = 0 PROVE Feeds(s) = Hist(r, p.pos + k)
    OBVIOUS
  <2>1. 0 + k = k /\ 0 + 1 = 1 /\ k \in 0 .. m
    BY <1>1, <1>6, <1>7
  <2>. QED  BY <1>3, <2>1, HistPrompt DEF m
<1>. QED  BY <1>4, <1>6, <1>7, <1>8, <1>9 DEF p, m, PromptOf

-------------------------------------------------------------------------------
(* What a step does to the slots and their phases.                            *)

\* Slot t is as before, or free.
Still(t) ==
  \/ slots'[t].req = None
  \/ /\ phase'[t] = phase[t] /\ slots'[t].req = slots[t].req
     /\ slots'[t].emitted = slots[t].emitted /\ slots'[t].finished = slots[t].finished

LEMMA StillPhase ==
  ASSUME NEW t, PhaseOK(t), Still(t)
  PROVE  PhaseOK(t)'
BY DEF PhaseOK, Still, Unfinished, Occupied, DecodeOK, PrefillOK, PromptOf

\* Steps that leave every slot so.
Beside ==
  \/ TakeCmds \/ AdmitSkip \/ AdmitLoad \/ SendNext \/ SendFails \/ RecvFails \/ RecvOver
  \/ BarrierSave \/ BarrierSkip
  \/ Network /\ UNCHANGED <<frontVars, headVars>>
  \/ (Handlers \/ Signal \/ ShutdownEngine) /\ UNCHANGED splitVars
  \/ UNCHANGED vars

LEMMA BesideStill ==
  ASSUME SplitInv, PhaseType, Beside
  PROVE  slots' = slots /\ phase' = phase /\ PhaseType' /\ \A t \in Slot : Still(t)
<1>1. slots' = slots /\ phase' = phase
  <2>1. CASE TakeCmds
    BY <2>1 DEF TakeCmds, DrainCmds
  <2>2. CASE AdmitSkip \/ AdmitLoad \/ SendNext \/ RecvOver \/ BarrierSave \/ BarrierSkip
    BY <2>2 DEF AdmitSkip, AdmitLoad, SendNext, RecvOver, BarrierSave, BarrierSkip, frontVars
  <2>3. CASE SendFails \/ RecvFails
    BY <2>3 DEF SendFails, RecvFails, Abort, frontVars
  <2>4. CASE Network /\ UNCHANGED <<frontVars, headVars>>
    BY <2>4 DEF frontVars, headVars
  <2>5. CASE (Handlers \/ Signal \/ ShutdownEngine) /\ UNCHANGED splitVars
    BY <2>5 DEF Handlers, Handler, Submit, Receive, ReceiveClosed, Disconnect, Signal,
                ShutdownEngine, splitVars, headVars
  <2>6. CASE UNCHANGED vars
    BY <2>6 DEF vars, frontVars, splitVars, headVars
  <2>. QED  BY <2>1, <2>2, <2>3, <2>4, <2>5, <2>6 DEF Beside
<1>. QED  BY <1>1 DEF PhaseType, Still, IsPhase

\* The phases that are kept.
LEMMA KeptPhases ==
  ASSUME NEW ph, \A t \in Slot : IsPhase(ph[t]), KeepPhases(ph)
  PROVE  PhaseType' /\ \A t \in Slot : slots'[t].req # None => phase'[t] = ph[t]
<1>1. phase' = [s \in Slot |-> IF slots'[s] = NoSlot THEN NoPhase ELSE ph[s]]
  BY DEF KeepPhases
<1>2. DOMAIN phase' = Slot
  BY <1>1
<1>3. \A t \in Slot : IsPhase(phase'[t])
  <2>. TAKE t \in Slot
  <2>1. phase'[t] = NoPhase \/ phase'[t] = ph[t]
    BY <1>1
  <2>2. IsPhase(NoPhase) /\ IsPhase(ph[t])
    BY NewPhases
  <2>. QED  BY <2>1, <2>2
<1>4. NoSlot.req = None
  BY DEF NoSlot
<1>5. \A t \in Slot : slots'[t].req # None => phase'[t] = ph[t]
  BY <1>1, <1>4
<1>6. PhaseType'
  BY <1>2, <1>3 DEF PhaseType, IsPhase
<1>. QED  BY <1>5, <1>6

\* A flush, a failed slot and the end leave a slot or free it.
LEMMA DeliveryStill ==
  ASSUME SplitInv, PhaseType, FlushPhase \/ FailPhase \/ Stop
  PROVE  PhaseType' /\ \A t \in Slot : Still(t)
<1>1. FrontTypeOK /\ cur \in Slot
  BY DEF SplitInv
<1>2. CASE FlushPhase
  <2>1. KeepPhases(phase)
    BY <1>2 DEF FlushPhase
  <2>2. PhaseType' /\ \A t \in Slot : slots'[t].req # None => phase'[t] = phase[t]
    BY <2>1, KeptPhases DEF PhaseType
  <2>3. \A t \in Slot : slots'[t].req = None \/
          /\ slots'[t].req = slots[t].req
          /\ slots'[t].emitted = slots[t].emitted /\ slots'[t].finished = slots[t].finished
    <3>1. CASE Occupied(cur)
      <4>1. slots[cur] \in SlotState /\ slots[cur].req \in Request /\ FlushSlot(cur, slots[cur])
        BY <1>1, <1>2, <3>1 DEF FrontTypeOK, SlotState, Occupied, FlushPhase
      <4>. DEFINE st == slots[cur]
      <4>2. st \in SlotState /\ st.req \in Request /\ FlushSlot(cur, st)
        BY <4>1
      <4>3. NoSlot.req = None
        BY DEF NoSlot
      <4>. HIDE DEF st
      <4>4. /\ \A t \in Slot : t # cur => slots'[t] = slots[t]
            /\ \/ /\ slots'[cur].req = st.req /\ slots'[cur].emitted = st.emitted
                  /\ slots'[cur].finished = st.finished
               \/ slots'[cur] = NoSlot
        BY <1>1, <4>2, FlushOutcomes
      <4>. QED  BY <4>3, <4>4 DEF st
    <3>2. CASE ~Occupied(cur)
      BY <1>2, <3>2 DEF FlushPhase, frontVars
    <3>. QED  BY <3>1, <3>2
  <2>. QED  BY <2>2, <2>3 DEF Still
<1>3. CASE FailPhase
  <2>1. KeepPhases(phase)
    BY <1>3 DEF FailPhase
  <2>2. PhaseType' /\ \A t \in Slot : slots'[t].req # None => phase'[t] = phase[t]
    BY <2>1, KeptPhases DEF PhaseType
  <2>3. \A t \in Slot : slots'[t].req = None \/ slots'[t] = slots[t]
    <3>1. CASE Unfinished(cur)
      BY <1>1, <1>3, <3>1 DEF FailPhase, FailSlot, FrontTypeOK, NoSlot
    <3>2. CASE ~Unfinished(cur)
      BY <1>3, <3>2 DEF FailPhase, frontVars
    <3>. QED  BY <3>1, <3>2
  <2>. QED  BY <2>2, <2>3 DEF Still
<1>4. CASE Stop
  <2>1. phase' = phase /\ slots' = [s \in Slot |-> NoSlot]
    BY <1>4 DEF Stop, DropAll
  <2>. QED  BY <2>1 DEF PhaseType, IsPhase, Still, NoSlot
<1>. QED  BY <1>2, <1>3, <1>4

\* A new prefill stands where its restored prefix ends.
LEMMA AdmittedPhase ==
  ASSUME SplitInv, PhaseType, NEW c \in Slot, c = cur, queue # <<>>,
         NEW start \in Nat, Admitted(start), start < Len(Prompt[Head(queue)])
  PROVE  /\ PhaseType' /\ \A t \in Slot : t # c => Still(t)
         /\ Head(queue) \in Request /\ slots'[c].req = Head(queue) /\ Unfinished(c)'
         /\ phase'[c].decoding = FALSE /\ phase'[c].pos = start
         /\ PhaseOK(c)'
<1>. DEFINE r == Head(queue)  p == NewPrefill(r, start)
<1>1. r \in Request /\ slots \in [Slot -> SlotState]
  BY DEF SplitInv, FrontTypeOK
<1>2. slots' = [slots EXCEPT ![c] = NewSlot(r)] /\ phase' = [phase EXCEPT ![c] = p]
  BY DEF Admitted
<1>. HIDE DEF r
<1>3. /\ IsPhase(p) /\ p.decoding = FALSE /\ p.pos = start /\ p.snapped = FALSE
      /\ p.snapAt = 0 \/ (p.snapAt > start /\ p.snapAt < Len(Prompt[r]))
  BY <1>1, NewPhases
<1>. HIDE DEF p
<1>4. phase'[c] = p /\ \A t \in Slot : t # c => phase'[t] = phase[t] /\ slots'[t] = slots[t]
  BY <1>1, <1>2 DEF PhaseType
<1>5. PhaseType'
  BY <1>2, <1>3, <1>4 DEF PhaseType, IsPhase
<1>6. slots'[c].req = r /\ slots'[c].emitted = 0 /\ slots'[c].finished = FALSE
  BY <1>1, <1>2 DEF NewSlot, NoSlot
<1>7. r # None /\ 0 < MaxGen[r]
  BY <1>1, RequestsAssumption
<1>8. Unfinished(c)'
  BY <1>6, <1>7 DEF Unfinished, Occupied
<1>9. Len(Prompt[r]) \in Nat \ {0} /\ start <= Len(Prompt[r]) /\ start < Len(Prompt[r])
  BY <1>1, PromptType DEF r
<1>10. p.snapAt \in Nat
  BY <1>3, PhaseFields
<1>11. PrefillOK(c)'
  BY <1>3, <1>4, <1>6, <1>9, <1>10 DEF PrefillOK, PromptOf
<1>12. PhaseOK(c)'
  BY <1>3, <1>4, <1>6, <1>7, <1>11 DEF PhaseOK
<1>. QED  BY <1>1, <1>3, <1>4, <1>5, <1>6, <1>8, <1>12 DEF Still, r

\* A job gets a slot with nothing restored, or behind the longest prefix.
LEMMA ColdAdmission ==
  ASSUME SplitInv, AdmitCold \/ AdmitFails
  PROVE  queue # <<>> /\ ~Occupied(cur) /\ Admitted(0) /\ 0 < Len(Prompt[Head(queue)])
<1>1. queue # <<>> /\ ~Occupied(cur) /\ Admitted(0)
  BY DEF AdmitCold, AdmitFails, CanAdmit, SplitInv
<1>2. Head(queue) \in Request
  BY <1>1 DEF SplitInv, FrontTypeOK
<1>. QED  BY <1>1, <1>2, PromptType

LEMMA WarmAdmission ==
  ASSUME SplitInv, SnapType, pc = "loading" => Usable(Prompt[Head(queue)]) # {}, AdmitLoaded
  PROVE  LET t == snaps[Best].tokens IN
         /\ queue # <<>> /\ ~Occupied(cur) /\ Best \in Snap /\ snaps[Best].valid
         /\ Len(t) \in Nat \ {0} /\ Len(t) < Len(Prompt[Head(queue)]) /\ Admitted(Len(t))
         /\ t = Hist(Head(queue), Len(t))
<1>. DEFINE r == Head(queue)
<1>1. queue # <<>> /\ ~Occupied(cur) /\ pc = "loading" /\ Admitted(Len(snaps[Best].tokens))
  BY DEF AdmitLoaded, SplitInv, Best
<1>2. r \in Request
  BY <1>1 DEF SplitInv, FrontTypeOK
<1>3. Usable(Prompt[r]) # {}
  BY <1>1
<1>. HIDE DEF r
<1>4. LET i == BestSnap(Prompt[r])  t == snaps[i].tokens IN
         /\ i \in Snap /\ i \in Usable(Prompt[r]) /\ snaps[i].valid
         /\ Len(t) \in Nat \ {0} /\ Len(t) < Len(Prompt[r]) /\ t = Hist(r, Len(t))
  BY <1>2, <1>3, BestUsable
<1>. QED  BY <1>1, <1>4 DEF Best, r

\* A chunk is sent, or a token.
LEMMA SendPhase ==
  ASSUME SplitInv, PhaseType, PhaseInv, SendFrame \/ SendFails
  PROVE  LET r == slots[cur].req  p == phase[cur]  k == Len(Feeds(cur)) IN
         /\ Unfinished(cur) /\ r \in Request /\ IsSeq(Feeds(cur)) /\ k \in Nat
         /\ Hist(r, p.pos) \o Feeds(cur) = Hist(r, p.pos + k)
         /\ p.pos = 0 => Feeds(cur) = Hist(r, p.pos + k)
         /\ p.decoding => k = 1
         /\ ~p.decoding => p.pos + k <= Len(Prompt[r])
                           /\ (p.snapAt > 0 /\ ~p.snapped => p.pos + k <= p.snapAt)
<1>. DEFINE r == slots[cur].req  p == phase[cur]
<1>1. /\ cur \in Slot /\ Unfinished(cur) /\ r \in Request
  BY DEF SplitInv, FrontTypeOK, SlotState, SendFrame, SendFails, Sending, Unfinished, Occupied
<1>2. /\ p.decoding \in BOOLEAN /\ p.pos \in Nat
      /\ p.decoding => DecodeOK(cur)
      /\ ~p.decoding => PrefillOK(cur)
  BY <1>1, PhaseFields DEF PhaseInv, PhaseOK, PhaseType
<1>3. CASE ~p.decoding
  BY <1>1, <1>2, <1>3, ChunkFeeds DEF PromptOf
<1>4. CASE p.decoding
  <2>1. Feeds(cur) = <<Gen>> /\ Len(<<Gen>>) = 1
    BY <1>4 DEF Feeds
  <2>2. Len(Prompt[r]) \in Nat \ {0} /\ slots[cur].emitted \in Nat
    BY <1>1, PromptType DEF SplitInv, FrontTypeOK, SlotState
  <2>3. slots[cur].emitted >= 1 /\ p.pos + 1 = Len(Prompt[r]) + slots[cur].emitted
    BY <1>2, <1>4 DEF DecodeOK, PromptOf
  <2>4. Len(Prompt[r]) <= p.pos /\ p.pos # 0
    BY <1>2, <2>2, <2>3
  <2>5. Hist(r, p.pos) \o <<Gen>> = Hist(r, p.pos + 1)
    BY <1>1, <1>2, <2>4, HistGen
  <2>6. IsSeq(<<Gen>>)
    <3>1. <<Gen>> \in Seq({Gen})
      OBVIOUS
    <3>. QED  BY <3>1, MakeSeq
  <2>. QED  BY <1>1, <1>4, <2>1, <2>4, <2>5, <2>6
<1>. QED  BY <1>3, <1>4

LEMMA SentPhase ==
  ASSUME SplitInv, PhaseType, PhaseInv, NEW c \in Slot, c = cur, SendFrame
  PROVE  /\ PhaseType' /\ \A t \in Slot : t # c => Still(t)
         /\ slots' = slots /\ phase'[c].decoding = phase[c].decoding
         /\ phase'[c].pos = IF phase[c].decoding THEN phase[c].pos
                            ELSE phase[c].pos + Len(Feeds(c))
         /\ PhaseOK(c)'
<1>. DEFINE r == slots[c].req  p == phase[c]  k == Len(Feeds(c))
<1>1. /\ Unfinished(c) /\ r \in Request /\ k \in Nat /\ IsPhase(p) /\ PhaseOK(c)
      /\ ~p.decoding => p.pos + k <= Len(Prompt[r])
                           /\ (p.snapAt > 0 /\ ~p.snapped => p.pos + k <= p.snapAt)
  BY SendPhase DEF PhaseType, PhaseInv
<1>2. slots' = slots /\ phase' = IF p.decoding THEN phase ELSE [phase EXCEPT ![c] = [p EXCEPT !.pos = p.pos + k]]
  BY DEF SendFrame, frontVars
<1>. HIDE DEF k
<1>3. CASE p.decoding
  <2>1. PhaseType' /\ \A t \in Slot : Still(t)
    BY <1>2, <1>3 DEF Still, PhaseType, IsPhase
  <2>. QED  BY <1>1, <1>2, <1>3, <2>1, StillPhase
<1>4. CASE ~p.decoding
  <2>. DEFINE q == [p EXCEPT !.pos = p.pos + k]
  <2>0. phase' = [phase EXCEPT ![c] = q] /\ p = phase[c]
    BY <1>2, <1>4
  <2>. HIDE DEF p
  <2>1. p.pos + k \in Nat
    <3>1. p.pos \in Nat
      BY <1>1, PhaseFields
    <3>. QED  BY <1>1, <3>1
  <2>3. /\ IsPhase(q) /\ q.pos = p.pos + k /\ q.decoding = p.decoding
        /\ q.snapAt = p.snapAt /\ q.snapped = p.snapped
    <3>. DEFINE n == p.pos + k
    <3>1. n \in Nat /\ IsPhase(p) /\ q = [p EXCEPT !.pos = n]
      BY <1>1, <2>1
    <3>. HIDE DEF n, q
    <3>2. /\ IsPhase(q) /\ q.pos = n /\ q.decoding = p.decoding
          /\ q.snapAt = p.snapAt /\ q.snapped = p.snapped
      BY <3>1 DEF IsPhase
    <3>. QED  BY <3>2 DEF n
  <2>. HIDE DEF q
  <2>4. phase'[c] = q /\ \A t \in Slot : t # c => phase'[t] = phase[t]
    BY <2>0 DEF PhaseType
  <2>5. PhaseType'
    BY <2>0, <2>3, <2>4 DEF PhaseType, IsPhase
  <2>6. PhaseOK(c)'
    BY <1>1, <1>2, <1>4, <2>0, <2>3, <2>4 DEF PhaseOK, PrefillOK, PromptOf, Unfinished, Occupied
  <2>7. \A t \in Slot : t # c => Still(t)
    BY <1>2, <2>4 DEF Still
  <2>. QED  BY <1>2, <1>4, <2>0, <2>3, <2>4, <2>5, <2>6, <2>7 DEF k
<1>. QED  BY <1>3, <1>4 DEF k

\* A sample is applied: the slot decodes on, has finished or is free.
LEMMA SampledPhase ==
  ASSUME SplitInv, FrontInv, PhaseType, NEW c \in Slot, Unfinished(c),
         slots[c].emitted < MaxGen[slots[c].req],
         NEW rows, NEW eos \in BOOLEAN, FlushSlot(c, ApplySample(slots[c], Sampled(c, rows), eos)),
         NEW p, IsPhase(p), p.decoding = TRUE, p.pos = Len(PromptOf(c)) + slots[c].emitted,
         KeepPhases([phase EXCEPT ![c] = p])
  PROVE  /\ PhaseType' /\ PhaseOK(c)' /\ queue' = queue
         /\ \A t \in Slot : t # c => Still(t) /\ slots'[t] = slots[t]
         /\ slots'[c].req = None \/ (slots'[c].req = slots[c].req /\ phase'[c] = p)
<1>. DEFINE r == slots[c].req  n == slots[c].emitted  ph == [phase EXCEPT ![c] = p]
<1>1. r \in Request /\ n \in Nat /\ Occupied(c) /\ ~slots[c].finished
  BY DEF SplitInv, FrontTypeOK, SlotState, Unfinished, Occupied
<1>2. \A i \in 1 .. Len(slots[c].pending) : ~IsEnd(slots[c].pending[i])
  BY <1>1 DEF FrontInv, RequestOK, SlotOK
<1>3. /\ \A t \in Slot : t # c => slots'[t] = slots[t]
      /\ queue' = queue
      /\ \/ slots'[c] = NoSlot
         \/ /\ slots'[c] \in SlotState /\ slots'[c].req = r
            /\ ~slots'[c].finished => slots'[c].emitted = n + 1 /\ slots'[c].emitted < MaxGen[r]
  BY <1>1, <1>2, SampleSlots
<1>4. /\ \A t \in Slot : IsPhase(ph[t])
      /\ ph[c] = p /\ \A t \in Slot : t # c => ph[t] = phase[t]
  BY DEF PhaseType
<1>5. KeepPhases(ph)
  OBVIOUS
<1>. HIDE DEF ph
<1>6. PhaseType' /\ \A t \in Slot : slots'[t].req # None => phase'[t] = ph[t]
  BY <1>4, <1>5, KeptPhases
<1>7. \A t \in Slot : t # c => Still(t)
  BY <1>3, <1>4, <1>6 DEF Still
<1>8. NoSlot.req = None
  BY DEF NoSlot
<1>9. slots'[c].req = None \/ (slots'[c].req = r /\ phase'[c] = p)
  BY <1>3, <1>4, <1>6, <1>8
<1>10. PhaseOK(c)'
  <2>1. CASE slots'[c].req = None
    BY <2>1 DEF PhaseOK, Unfinished, Occupied
  <2>2. CASE slots'[c].req # None
    <3>1. /\ slots'[c].req = r /\ phase'[c] = p
          /\ ~slots'[c].finished => slots'[c].emitted = n + 1 /\ slots'[c].emitted < MaxGen[r]
      BY <1>3, <1>8, <1>9, <2>2
    <3>2. n + 1 >= 1 /\ p.pos + 1 = Len(Prompt[r]) + (n + 1)
      BY <1>1, PromptType DEF PromptOf
    <3>. QED  BY <3>1, <3>2 DEF PhaseOK, DecodeOK, PromptOf, Unfinished, Occupied
  <2>. QED  BY <2>1, <2>2
<1>. QED  BY <1>3, <1>6, <1>7, <1>9, <1>10

\* An answer is taken.
LEMMA RecvPhase ==
  ASSUME SplitInv, FrontInv, PhaseType, PhaseInv, NEW s \in Slot, sent # <<>>, s = Head(sent),
         RecvFrame
  PROVE  /\ Unfinished(s) /\ PhaseType' /\ PhaseOK(s)' /\ queue' = queue
         /\ \A t \in Slot : t # s => Still(t) /\ slots'[t] = slots[t]
         /\ phase[s].decoding =>
              \/ slots'[s].req = None
              \/ /\ slots'[s].req = slots[s].req
                 /\ phase'[s].decoding = TRUE /\ phase'[s].pos = phase[s].pos + 1
         /\ ~phase[s].decoding =>
              /\ UNCHANGED frontVars /\ phase'[s].last = Head(replies).rows
              /\ phase'[s].decoding = phase[s].decoding /\ phase'[s].pos = phase[s].pos
<1>. DEFINE st == slots[s]  p == phase[s]  rows == Head(replies).rows
<1>1. Unfinished(s)
  <2>1. sent \in Seq(Slot) /\ \A i \in 1 .. Len(sent) : Unfinished(sent[i])
    BY DEF SplitInv, PhaseInv, SentOK
  <2>2. s = sent[1] /\ 1 \in 1 .. Len(sent)
    BY <2>1
  <2>. QED  BY <2>1, <2>2
<1>2. /\ st.req \in Request /\ st.emitted \in Nat /\ Occupied(s) /\ IsPhase(p) /\ PhaseOK(s)
      /\ st.emitted < MaxGen[st.req] /\ (p.decoding => DecodeOK(s))
      /\ p.pos \in Nat /\ p.decoding \in BOOLEAN
  <2>1. st \in SlotState /\ st.req # None /\ IsPhase(p) /\ PhaseOK(s)
    BY <1>1 DEF SplitInv, FrontTypeOK, Unfinished, Occupied, PhaseType, PhaseInv
  <2>2. p.pos \in Nat /\ p.decoding \in BOOLEAN
    <3>. HIDE DEF p
    <3>. QED  BY <2>1, PhaseFields
  <2>. QED  BY <1>1, <2>1, <2>2 DEF SlotState, Occupied, PhaseOK
<1>3. CASE p.decoding
  <2>1. PICK eos \in BOOLEAN : FlushSlot(s, ApplySample(st, Sampled(s, rows), eos))
    BY <1>2, <1>3 DEF RecvFrame
  <2>. DEFINE q == [p EXCEPT !.pos = p.pos + 1]
  <2>2. KeepPhases([phase EXCEPT ![s] = q])
    BY <1>2, <1>3 DEF RecvFrame
  <2>3. p.pos + 1 \in Nat /\ p.pos + 1 = Len(PromptOf(s)) + st.emitted
    BY <1>2, <1>3 DEF DecodeOK
  <2>4. IsPhase(q) /\ q.decoding = TRUE /\ q.pos = p.pos + 1
    <3>. DEFINE n == p.pos + 1
    <3>1. n \in Nat /\ q = [p EXCEPT !.pos = n]
      BY <2>3
    <3>. HIDE DEF n, p, q
    <3>2. IsPhase(q) /\ q.decoding = p.decoding /\ q.pos = n
      BY <1>2, <3>1 DEF IsPhase
    <3>. QED  BY <1>2, <1>3, <3>2 DEF n
  <2>. HIDE DEF q, rows
  <2>5. /\ PhaseType' /\ PhaseOK(s)' /\ queue' = queue
        /\ \A t \in Slot : t # s => Still(t) /\ slots'[t] = slots[t]
        /\ slots'[s].req = None \/ (slots'[s].req = slots[s].req /\ phase'[s] = q)
    BY <1>1, <1>2, <2>1, <2>2, <2>3, <2>4, SampledPhase, ZenonT(60)
  <2>. QED  BY <1>1, <1>3, <2>4, <2>5
<1>4. CASE ~p.decoding
  <2>1. phase' = [phase EXCEPT ![s] = [p EXCEPT !.last = rows]] /\ UNCHANGED frontVars
    BY <1>2, <1>4 DEF RecvFrame
  <2>. DEFINE q == [p EXCEPT !.last = rows]
  <2>2. phase' = [phase EXCEPT ![s] = q]
    BY <2>1
  <2>3. /\ IsPhase(q) /\ q.pos = p.pos /\ q.decoding = p.decoding
        /\ q.snapAt = p.snapAt /\ q.snapped = p.snapped /\ q.last = rows
    <3>. HIDE DEF p, rows
    <3>. QED  BY <1>2 DEF IsPhase
  <2>. HIDE DEF q, rows
  <2>4. phase'[s] = q /\ \A t \in Slot : t # s => phase'[t] = phase[t]
    BY <2>2 DEF PhaseType
  <2>5. PhaseType'
    BY <2>2, <2>3, <2>4 DEF PhaseType, IsPhase
  <2>6. slots' = slots /\ queue' = queue
    BY <2>1 DEF frontVars
  <2>7. PhaseOK(s)'
    BY <1>2, <2>3, <2>4, <2>6 DEF PhaseOK, PrefillOK, DecodeOK, PromptOf, Unfinished, Occupied
  <2>. QED  BY <1>1, <1>4, <2>1, <2>3, <2>4, <2>5, <2>6, <2>7 DEF Still, rows
<1>. QED  BY <1>3, <1>4

\* The first token is sampled.
LEMMA FirstPhase ==
  ASSUME SplitInv, FrontInv, PhaseType, PhaseInv, NEW c \in Slot, c = cur, BarrierFirst
  PROVE  /\ Unfinished(c) /\ ~phase[c].decoding /\ phase[c].pos = Len(PromptOf(c))
         /\ PhaseType' /\ PhaseOK(c)' /\ queue' = queue
         /\ \A t \in Slot : t # c => Still(t) /\ slots'[t] = slots[t]
         /\ \/ slots'[c].req = None
            \/ /\ slots'[c].req = slots[c].req
               /\ phase'[c].decoding = TRUE /\ phase'[c].pos = phase[c].pos
<1>. DEFINE st == slots[c]  p == phase[c]
<1>1. Occupied(c) /\ ~p.decoding /\ p.pos = Len(PromptOf(c)) /\ PhaseOK(c) /\ IsPhase(p)
  BY DEF BarrierFirst, FirstDue, PhaseInv, PhaseType
<1>2. st.finished \in BOOLEAN /\ Unfinished(c)
  BY <1>1 DEF PhaseOK, Unfinished, SplitInv, FrontTypeOK, SlotState
<1>3. p.pos \in Nat /\ st.emitted = 0 /\ st.emitted < MaxGen[st.req]
  BY <1>1, <1>2, PhaseFields DEF PhaseOK, PrefillOK
<1>4. PICK eos \in BOOLEAN : FlushSlot(c, ApplySample(st, Sampled(c, phase[c].last), eos))
  BY DEF BarrierFirst
<1>. DEFINE q == [NoPhase EXCEPT !.decoding = TRUE, !.pos = p.pos]
<1>5. KeepPhases([phase EXCEPT ![c] = q])
  BY DEF BarrierFirst
<1>. HIDE DEF p
<1>6. IsPhase(q) /\ q.decoding = TRUE /\ q.pos = p.pos
  BY <1>3, NewPhases
<1>. HIDE DEF q
<1>7. q.pos = Len(PromptOf(c)) + st.emitted
  BY <1>1, <1>3, <1>6
<1>8. /\ PhaseType' /\ PhaseOK(c)' /\ queue' = queue
      /\ \A t \in Slot : t # c => Still(t) /\ slots'[t] = slots[t]
      /\ slots'[c].req = None \/ (slots'[c].req = slots[c].req /\ phase'[c] = q)
  <2>. DEFINE rows == phase[c].last
  <2>1. FlushSlot(c, ApplySample(slots[c], Sampled(c, rows), eos))
    BY <1>4
  <2>. HIDE DEF rows
  <2>. QED  BY <1>2, <1>3, <1>5, <1>6, <1>7, <2>1, SampledPhase
<1>. QED  BY <1>1, <1>2, <1>6, <1>8 DEF p

\* The boundary snapshot is taken, or given up.
LEMMA SavedPhase ==
  ASSUME SplitInv, PhaseType, PhaseInv, NEW c \in Slot, c = cur, BarrierSaved \/ BarrierSaveFails
  PROVE  /\ PhaseType' /\ PhaseOK(c)' /\ UNCHANGED frontVars /\ slots' = slots
         /\ \A t \in Slot : t # c => Still(t)
         /\ phase'[c].decoding = phase[c].decoding /\ phase'[c].pos = phase[c].pos
         /\ phase'[c].last = phase[c].last
<1>. DEFINE p == phase[c]  q == phase'[c]
<1>1. IsPhase(p) /\ PhaseOK(c) /\ p.snapAt \in Nat
  BY PhaseFields DEF PhaseType, PhaseInv
<1>2. slots' = slots /\ UNCHANGED frontVars
  BY DEF BarrierSaved, BarrierSaveFails, frontVars
<1>3. phase' = [phase EXCEPT ![c] = [p EXCEPT !.snapped = TRUE]]
      \/ phase' = [phase EXCEPT ![c] = [p EXCEPT !.snapped = TRUE, !.snapAt = 0]]
  BY DEF BarrierSaved, BarrierSaveFails
<1>4. \A t \in Slot : t # c => phase'[t] = phase[t]
  BY <1>3 DEF PhaseType
<1>5. q = [p EXCEPT !.snapped = TRUE] \/ q = [p EXCEPT !.snapped = TRUE, !.snapAt = 0]
  BY <1>3 DEF PhaseType
<1>. HIDE DEF p, q
<1>6. /\ IsPhase(q) /\ q.pos = p.pos /\ q.decoding = p.decoding
      /\ q.snapAt \in {p.snapAt, 0} /\ q.snapped = TRUE /\ q.last = p.last
  <2>1. CASE q = [p EXCEPT !.snapped = TRUE]
    BY <1>1, <2>1 DEF IsPhase
  <2>2. CASE q = [p EXCEPT !.snapped = TRUE, !.snapAt = 0]
    BY <1>1, <2>2 DEF IsPhase
  <2>. QED  BY <1>5, <2>1, <2>2
<1>7. DOMAIN phase' = Slot
  BY <1>3 DEF PhaseType
<1>8. PhaseType'
  BY <1>4, <1>6, <1>7 DEF PhaseType, IsPhase, q
<1>9. PhaseOK(c)'
  <2>1. slots'[c] = slots[c] /\ phase'[c] = q
    BY <1>2 DEF q
  <2>2. \A n \in Nat : 0 < n \/ ~(p.snapAt < n)
    BY <1>1
  <2>3. Unfinished(c) => slots[c].req \in Request
    BY DEF Unfinished, Occupied, SplitInv, FrontTypeOK, SlotState
  <2>4. Unfinished(c) => Len(PromptOf(c)) \in Nat
    BY <2>3, PromptType DEF PromptOf
  <2>. QED  BY <1>1, <1>6, <2>1, <2>2, <2>4 DEF PhaseOK, PrefillOK, DecodeOK, PromptOf, Unfinished, Occupied, p
<1>. QED  BY <1>2, <1>4, <1>6, <1>8, <1>9 DEF Still, p, q

-------------------------------------------------------------------------------
(* The phases and the registry, over every step.                              *)

\* What the head does not do leaves the head's state alone.
Outside ==
  \/ Network /\ UNCHANGED <<frontVars, headVars>>
  \/ (Handlers \/ Signal \/ ShutdownEngine) /\ UNCHANGED splitVars
  \/ UNCHANGED vars

LEMMA OutsideKept == Outside => UNCHANGED <<queue, slots, headVars>>
<1>1. Network /\ UNCHANGED <<frontVars, headVars>> => UNCHANGED <<queue, slots, headVars>>
  BY DEF frontVars, headVars
<1>2. (Handlers \/ Signal \/ ShutdownEngine) /\ UNCHANGED splitVars => UNCHANGED <<queue, slots, headVars>>
  BY DEF Handlers, Handler, Submit, Receive, ReceiveClosed, Disconnect, Signal,
         ShutdownEngine, splitVars, headVars
<1>3. UNCHANGED vars => UNCHANGED <<queue, slots, headVars>>
  BY DEF vars, frontVars, splitVars, headVars
<1>. QED  BY <1>1, <1>2, <1>3 DEF Outside

\* Every step, sorted.
LEMMA StepCases ==
  ASSUME [Next]_vars
  PROVE  \/ Outside
         \/ TakeCmds \/ AdmitSkip \/ AdmitLoad \/ SendNext \/ RecvOver \/ BarrierSave \/ BarrierSkip
         \/ SendFails \/ RecvFails
         \/ FlushPhase \/ FailPhase \/ Stop
         \/ AdmitCold \/ AdmitLoaded \/ AdmitFails
         \/ SendFrame \/ RecvFrame \/ BarrierFirst
         \/ BarrierSaved \/ BarrierSaveFails
BY DEF Next, HeadLoop, Outside

LEMMA NextPhases ==
  ASSUME CoreInv, [Next]_vars
  PROVE  PhaseType' /\ \A t \in Slot : PhaseOK(t)'
<1>1. PICK c \in Slot : c = cur
  BY DEF CoreInv, SplitInv
<1>2. \A t \in Slot : PhaseOK(t)
  BY DEF CoreInv, PhaseInv
<1>3. ASSUME PhaseType', \A t \in Slot : Still(t) PROVE PhaseType' /\ \A t \in Slot : PhaseOK(t)'
  BY <1>2, <1>3, StillPhase
<1>4. ASSUME PhaseType', NEW s \in Slot, PhaseOK(s)', \A t \in Slot : t # s => Still(t)
      PROVE  PhaseType' /\ \A t \in Slot : PhaseOK(t)'
  BY <1>2, <1>4, StillPhase
<1>5. CASE Beside
  BY <1>3, <1>5, BesideStill DEF CoreInv
<1>6. CASE FlushPhase \/ FailPhase \/ Stop
  BY <1>3, <1>6, DeliveryStill DEF CoreInv
<1>7. CASE AdmitCold \/ AdmitFails
  <2>1. queue # <<>> /\ Admitted(0) /\ 0 < Len(Prompt[Head(queue)])
    BY <1>7, ColdAdmission DEF CoreInv
  <2>. QED  BY <1>1, <1>4, <2>1, AdmittedPhase DEF CoreInv
<1>8. CASE AdmitLoaded
  <2>. DEFINE n == Len(snaps[Best].tokens)
  <2>1. queue # <<>> /\ n \in Nat /\ n < Len(Prompt[Head(queue)]) /\ Admitted(n)
    BY <1>8, WarmAdmission DEF CoreInv, WaitInv
  <2>. HIDE DEF n
  <2>. QED  BY <1>1, <1>4, <2>1, AdmittedPhase DEF CoreInv
<1>9. CASE SendFrame
  BY <1>1, <1>4, <1>9, SentPhase DEF CoreInv
<1>10. CASE RecvFrame
  <2>1. sent # <<>> /\ sent \in Seq(Slot)
    BY <1>10 DEF RecvFrame, CoreInv, SplitInv
  <2>2. PICK s \in Slot : s = Head(sent)
    BY <2>1
  <2>. QED  BY <1>4, <1>10, <2>1, <2>2, RecvPhase DEF CoreInv
<1>11. CASE BarrierFirst
  BY <1>1, <1>4, <1>11, FirstPhase DEF CoreInv
<1>12. CASE BarrierSaved \/ BarrierSaveFails
  BY <1>1, <1>4, <1>12, SavedPhase DEF CoreInv
<1>. QED  BY <1>5, <1>6, <1>7, <1>8, <1>9, <1>10, <1>11, <1>12, StepCases DEF Beside, Outside

\* A prefix of the prompt of a slot that is to be saved.
LEMMA SavedPrefix ==
  ASSUME CoreInv, SnapDue
  PROVE  LET r == slots[cur].req  n == phase[cur].snapAt IN
         /\ Unfinished(cur) /\ r \in Request /\ n \in Nat \ {0} /\ n = phase[cur].pos
         /\ SubSeq(PromptOf(cur), 1, n) = Hist(r, n)
<1>1. cur \in Slot /\ IsPhase(phase[cur]) /\ PhaseOK(cur) /\ slots[cur] \in SlotState
  BY DEF CoreInv, SplitInv, FrontTypeOK, PhaseType, PhaseInv
<1>2. /\ Occupied(cur) /\ ~phase[cur].decoding /\ phase[cur].snapAt > 0
      /\ phase[cur].pos = phase[cur].snapAt
  BY DEF SnapDue
<1>3. Unfinished(cur) /\ slots[cur].req \in Request
  BY <1>1, <1>2 DEF PhaseOK, Unfinished, Occupied, SlotState
<1>4. phase[cur].snapAt \in Nat
  BY <1>1, PhaseFields
<1>5. phase[cur].snapAt < Len(PromptOf(cur))
  BY <1>1, <1>2, <1>3 DEF PhaseOK, PrefillOK
<1>6. Len(PromptOf(cur)) \in Nat
  BY <1>3, PromptType DEF PromptOf
<1>7. phase[cur].snapAt \in 0 .. Len(PromptOf(cur))
  BY <1>4, <1>5, <1>6
<1>8. SubSeq(PromptOf(cur), 1, phase[cur].snapAt) = Hist(slots[cur].req, phase[cur].snapAt)
  BY <1>3, <1>7, HistPrompt DEF PromptOf
<1>. QED  BY <1>2, <1>3, <1>4, <1>8

LEMMA NextSnaps ==
  ASSUME CoreInv, [Next]_vars
  PROVE  SnapType'
<1>1. SnapType /\ lruClock \in Nat /\ lruClock + 1 \in Nat
  BY DEF CoreInv, SnapType
<1>2. NoSnap \in [valid : BOOLEAN, tokens : Histories, lru : Nat]
  BY DEF NoSnap, Histories
<1>3. CASE UNCHANGED <<snaps, lruClock>>
  BY <1>1, <1>3 DEF SnapType
<1>4. CASE SendFails \/ RecvFails
  <2>1. snaps' = [i \in Snap |-> NoSnap] /\ lruClock' = lruClock
    BY <1>4 DEF SendFails, RecvFails, Abort
  <2>. QED  BY <1>1, <1>2, <2>1 DEF SnapType
<1>5. CASE AdmitLoaded
  <2>1. snaps' = [snaps EXCEPT ![Best].lru = lruClock + 1] /\ lruClock' = lruClock + 1
    BY <1>5 DEF AdmitLoaded, Best
  <2>. QED  BY <1>1, <2>1 DEF SnapType
<1>6. CASE BarrierSaved
  <2>. DEFINE t == SubSeq(PromptOf(cur), 1, phase[cur].snapAt)
  <2>1. /\ lruClock' = lruClock + 1
        /\ snaps' = [snaps EXCEPT ![PickEntry] =
             [valid |-> TRUE, tokens |-> t, lru |-> lruClock + 1]]
    BY <1>6 DEF BarrierSaved
  <2>2. t \in Histories
    <3>1. SnapDue
      BY <1>6 DEF BarrierSaved, CoreInv, WaitInv
    <3>. QED  BY <3>1, SavedPrefix DEF Histories
  <2>. HIDE DEF t
  <2>. QED  BY <1>1, <2>1, <2>2 DEF SnapType
<1>7. CASE BarrierSaveFails
  BY <1>1, <1>2, <1>7 DEF BarrierSaveFails, SnapType
<1>8. Outside => UNCHANGED <<snaps, lruClock>>
  BY OutsideKept DEF headVars
<1>9. TakeCmds \/ AdmitSkip \/ AdmitLoad \/ SendNext \/ RecvOver \/ BarrierSave \/ BarrierSkip
        => UNCHANGED <<snaps, lruClock>>
  BY DEF TakeCmds, AdmitSkip, AdmitLoad, SendNext, RecvOver, BarrierSave, BarrierSkip
<1>10. FlushPhase \/ FailPhase \/ Stop \/ AdmitCold \/ AdmitFails \/ SendFrame \/ RecvFrame
       \/ BarrierFirst => UNCHANGED <<snaps, lruClock>>
  BY DEF FlushPhase, FailPhase, Stop, AdmitCold, AdmitFails, SendFrame, RecvFrame, BarrierFirst
<1>. QED  BY <1>3, <1>4, <1>5, <1>6, <1>7, <1>8, <1>9, <1>10, StepCases

\* Only two steps of the head begin to wait, and two end each wait.
LEMMA NextWait ==
  ASSUME CoreInv, [Next]_vars
  PROVE  WaitInv'
<1>1. CASE Outside
  BY <1>1, OutsideKept DEF CoreInv, WaitInv, headVars, Usable, SnapDue, Occupied
<1>2. CASE AdmitLoad
  <2>1. pc' = "loading" /\ UNCHANGED <<queue, snaps>> /\ Usable(Prompt[Head(queue)]) # {}
    BY <1>2 DEF AdmitLoad, frontVars
  <2>. QED  BY <2>1 DEF WaitInv, Usable
<1>3. CASE BarrierSave
  <2>1. pc' = "saving" /\ UNCHANGED <<slots, phase, cur>> /\ SnapDue
    BY <1>3 DEF BarrierSave, frontVars
  <2>. QED  BY <2>1 DEF WaitInv, SnapDue, Occupied
<1>4. CASE pc' \notin {"loading", "saving"}
  BY <1>4 DEF WaitInv
<1>5. TakeCmds \/ AdmitSkip \/ SendNext \/ RecvOver \/ BarrierSkip \/ SendFails \/ RecvFails
      \/ FlushPhase \/ FailPhase \/ Stop => pc' \notin {"loading", "saving"}
  BY DEF TakeCmds, AdmitSkip, SendNext, RecvOver, BarrierSkip, SendFails, RecvFails, Abort,
         FlushPhase, FailPhase, Stop, Advance, BarrierNext
<1>6. AdmitCold \/ AdmitLoaded \/ AdmitFails \/ SendFrame \/ RecvFrame \/ BarrierFirst
      \/ BarrierSaved \/ BarrierSaveFails => pc' \notin {"loading", "saving"}
  BY DEF AdmitCold, AdmitLoaded, AdmitFails, SendFrame, RecvFrame, BarrierFirst, BarrierSaved,
         BarrierSaveFails, Admitted, Advance, BarrierNext
<1>. QED  BY <1>1, <1>2, <1>3, <1>4, <1>5, <1>6, StepCases

\* The frames of a pass go on belonging to slots that go on.
GoesOn(t) == slots'[t].req # None /\ ~slots'[t].finished

LEMMA NoneSent == ASSUME sent' = <<>> PROVE SentOK'
<1>1. Len(sent') = 0
  OBVIOUS
<1>. QED  BY <1>1 DEF SentOK

LEMMA SendSent ==
  ASSUME CoreInv, SendFrame
  PROVE  SentOK'
<1>. DEFINE n == Len(sent)
<1>1. /\ pc = "send" /\ pc' = pc /\ cur' = cur /\ slots' = slots /\ sent' = Append(sent, cur)
      /\ Unfinished(cur) /\ burst < Bursts
      /\ burst' = IF phase[cur].decoding THEN Bursts ELSE burst + 1
  BY DEF SendFrame, Sending, frontVars
<1>2. sent \in Seq(Slot) /\ cur \in Slot /\ SentOK
  BY DEF CoreInv, SplitInv, PhaseInv
<1>3. /\ n \in Nat /\ Len(sent') = n + 1
      /\ \A i \in 1 .. n + 1 : sent'[i] = IF i = n + 1 THEN cur ELSE sent[i]
      /\ \A i \in 1 .. n + 1 : i # n + 1 => i \in 1 .. n
  BY <1>1, <1>2
<1>4. \A t \in Slot : phase'[t].decoding = phase[t].decoding
  <2>1. PICK c \in Slot : c = cur
    BY <1>2
  <2>2. phase'[c].decoding = phase[c].decoding /\ \A t \in Slot : t # c => Still(t)
    BY <2>1, SentPhase DEF CoreInv
  <2>3. \A t \in Slot : t # c => phase'[t] = phase[t] 
    BY <2>1, <2>2 DEF SendFrame, PhaseType, CoreInv
  <2>. QED  BY <2>2, <2>3
<1>5. \A i \in 1 .. n : sent[i] = cur => ~phase[cur].decoding
  <2>1. ~(cur < cur)
    BY <1>2 DEF Slot
  <2>. QED  BY <1>1, <1>2, <2>1 DEF SentOK
<1>6. Bursts' = Bursts /\ Bursts \in Nat /\ ~(Bursts < Bursts)
  BY <1>1 DEF Bursts, Shared, Occupied
<1>. HIDE DEF n
<1>7. \A i \in 1 .. n + 1 : GoesOn(sent'[i])
  <2>1. \A i \in 1 .. n : GoesOn(sent[i])
    BY <1>1, <1>2 DEF SentOK, Unfinished, Occupied, GoesOn, n
  <2>2. GoesOn(cur)
    BY <1>1 DEF Unfinished, Occupied, GoesOn
  <2>. QED  BY <1>3, <2>1, <2>2
<1>8. \A i, j \in 1 .. n + 1 : sent'[i] = sent'[j] /\ phase'[sent'[i]].decoding => i = j
  <2>. SUFFICES ASSUME NEW i \in 1 .. n + 1, NEW j \in 1 .. n + 1,
                       sent'[i] = sent'[j], phase'[sent'[i]].decoding
                PROVE  i = j
    OBVIOUS
  <2>0. sent'[i] \in Slot
    BY <1>2, <1>3 DEF n
  <2>1. phase[sent'[i]].decoding
    BY <1>4, <2>0
  <2>2. CASE i = n + 1 /\ j # n + 1
    BY <1>3, <1>5, <2>1, <2>2
  <2>3. CASE i # n + 1 /\ j = n + 1
    BY <1>3, <1>5, <2>1, <2>3
  <2>4. CASE i # n + 1 /\ j # n + 1
    <3>1. sent[i] = sent[j] /\ i \in 1 .. n /\ j \in 1 .. n /\ phase[sent[i]].decoding
      BY <1>3, <2>1, <2>4
    <3>. QED  BY <1>2, <3>1 DEF SentOK, n
  <2>. QED  BY <2>2, <2>3, <2>4
<1>9. \A i \in 1 .. n + 1 :
        sent'[i] < cur \/ (sent'[i] = cur /\ (phase'[cur].decoding => ~(burst' < Bursts')))
  <2>. TAKE i \in 1 .. n + 1
  <2>1. phase'[cur].decoding => phase[cur].decoding
    BY <1>2, <1>4
  <2>2. phase[cur].decoding => ~(burst' < Bursts')
    BY <1>1, <1>6
  <2>3. CASE i = n + 1
    BY <1>3, <2>1, <2>2, <2>3
  <2>4. CASE i # n + 1
    <3>1. i \in 1 .. n /\ sent'[i] = sent[i]
      BY <1>3, <2>4
    <3>2. sent[i] < cur \/ sent[i] = cur
      BY <1>1, <1>2, <3>1 DEF SentOK, n
    <3>. QED  BY <2>1, <2>2, <3>1, <3>2
  <2>. QED  BY <2>3, <2>4
<1>. QED  BY <1>1, <1>3, <1>7, <1>8, <1>9 DEF SentOK, GoesOn, Unfinished, Occupied

LEMMA RecvSent ==
  ASSUME CoreInv, RecvFrame
  PROVE  SentOK'
<1>. DEFINE n == Len(sent)
<1>1. sent # <<>> /\ sent' = Tail(sent) /\ pc' # "send"
  BY DEF RecvFrame
<1>2. sent \in Seq(Slot) /\ SentOK
  BY DEF CoreInv, SplitInv, PhaseInv
<1>3. /\ n \in Nat \ {0} /\ Len(sent') = n - 1 /\ sent[1] = Head(sent)
      /\ \A i \in 1 .. n - 1 : sent'[i] = sent[i + 1] /\ i + 1 \in 1 .. n /\ i + 1 # 1
      /\ 1 \in 1 .. n
  BY <1>1, <1>2
<1>4. PICK s \in Slot : s = Head(sent)
  BY <1>1, <1>2
<1>5. /\ \A t \in Slot : t # s => Still(t) /\ slots'[t] = slots[t]
      /\ phase[s].decoding => phase'[s].decoding \/ slots'[s].req = None
      /\ ~phase[s].decoding => UNCHANGED frontVars /\ phase'[s].decoding = phase[s].decoding
  BY <1>1, <1>4, RecvPhase DEF CoreInv
<1>. HIDE DEF n
<1>6. ASSUME NEW i \in 1 .. n - 1
      PROVE  /\ sent[i + 1] \in Slot /\ Unfinished(sent[i + 1]) /\ GoesOn(sent[i + 1])
             /\ phase'[sent[i + 1]].decoding = phase[sent[i + 1]].decoding
  <2>1. sent[i + 1] \in Slot /\ Unfinished(sent[i + 1])
    BY <1>2, <1>3 DEF SentOK, n
  <2>2. CASE sent[i + 1] = s
    <3>1. ~phase[s].decoding
      <4>1. phase[s].decoding => 1 = i + 1
        BY <1>2, <1>3, <1>4, <2>2 DEF SentOK, n
      <4>. QED  BY <1>3, <4>1
    <3>2. slots' = slots
      BY <1>5, <3>1 DEF frontVars
    <3>. QED  BY <1>5, <2>1, <2>2, <3>1, <3>2 DEF Unfinished, Occupied, GoesOn
  <2>3. CASE sent[i + 1] # s
    BY <1>5, <2>1, <2>3 DEF Still, Unfinished, Occupied, GoesOn
  <2>. QED  BY <2>1, <2>2, <2>3
<1>7. \A i \in 1 .. n - 1 : GoesOn(sent'[i])
  BY <1>3, <1>6
<1>8. \A i, j \in 1 .. n - 1 : sent'[i] = sent'[j] /\ phase'[sent'[i]].decoding => i = j
  <2>. SUFFICES ASSUME NEW i \in 1 .. n - 1, NEW j \in 1 .. n - 1,
                       sent'[i] = sent'[j], phase'[sent'[i]].decoding
                PROVE  i = j
    OBVIOUS
  <2>1. sent[i + 1] = sent[j + 1] /\ phase[sent[i + 1]].decoding /\ i + 1 \in 1 .. n /\ j + 1 \in 1 .. n
    BY <1>3, <1>6
  <2>2. i + 1 = j + 1
    BY <1>2, <2>1 DEF SentOK, n
  <2>. QED  BY <1>3, <2>2
<1>. QED  BY <1>1, <1>3, <1>7, <1>8 DEF SentOK, GoesOn, Unfinished, Occupied

LEMMA NextSent ==
  ASSUME CoreInv, [Next]_vars
  PROVE  SentOK'
<1>1. SentOK /\ sent \in Seq(Slot) /\ cur \in Slot /\ (pc \notin {"send", "recv"} => sent = <<>>)
  BY DEF CoreInv, SplitInv, PhaseInv, MatchInv
<1>2. CASE Outside
  BY <1>1, <1>2, OutsideKept DEF SentOK, headVars, Unfinished, Occupied, Bursts, Shared
<1>3. CASE SendFrame
  BY <1>3, SendSent
<1>4. CASE RecvFrame
  BY <1>4, RecvSent
<1>5. CASE SendNext
  <2>1. /\ pc = "send" /\ sent' = sent /\ slots' = slots /\ phase' = phase
        /\ pc' = "recv" \/ cur' = cur + 1
    BY <1>5 DEF SendNext, frontVars
  <2>2. \A i \in 1 .. Len(sent) : sent[i] \in Slot /\ (sent[i] < cur \/ sent[i] = cur)
    BY <1>1, <2>1 DEF SentOK
  <2>3. \A i \in 1 .. Len(sent) : cur' = cur + 1 => sent[i] < cur'
    BY <1>1, <2>2 DEF Slot
  <2>. QED  BY <1>1, <2>1, <2>3 DEF SentOK, Unfinished, Occupied
<1>6. CASE SendFails \/ RecvFails
  BY <1>6, NoneSent DEF SendFails, RecvFails, Abort
<1>7. CASE RecvOver
  BY <1>7, NoneSent DEF RecvOver
<1>8. CASE pc \notin {"send", "recv"} /\ sent' = sent
  BY <1>1, <1>8, NoneSent
<1>9. TakeCmds \/ AdmitSkip \/ AdmitLoad \/ BarrierSave \/ BarrierSkip \/ FlushPhase \/ FailPhase \/ Stop
        => pc \notin {"send", "recv"} /\ sent' = sent
  BY DEF TakeCmds, AdmitSkip, AdmitLoad, CanAdmit, BarrierSave, BarrierSkip, FlushPhase, FailPhase, Stop
<1>10. AdmitCold \/ AdmitLoaded \/ AdmitFails \/ BarrierFirst \/ BarrierSaved \/ BarrierSaveFails
        => pc \notin {"send", "recv"} /\ sent' = sent
  BY DEF AdmitCold, AdmitLoaded, AdmitFails, CanAdmit, Admitted, BarrierFirst, BarrierSaved, BarrierSaveFails
<1>. QED  BY <1>2, <1>3, <1>4, <1>5, <1>6, <1>7, <1>8, <1>9, <1>10, StepCases

\* Failed slots stay failed.
LEMMA NextFail ==
  ASSUME CoreInv, [Next]_vars
  PROVE  FailOK'
<1>1. FailOK /\ cur \in Slot
  BY DEF CoreInv, PhaseInv, SplitInv
<1>2. CASE Outside
  BY <1>1, <1>2, OutsideKept DEF FailOK, headVars, Unfinished, Occupied
<1>3. CASE SendFails \/ RecvFails
  <2>1. cur' = 0
    BY <1>3 DEF SendFails, RecvFails, Abort
  <2>2. \A s \in Slot : ~(s < 0)
    BY DEF Slot
  <2>. QED  BY <2>1, <2>2 DEF FailOK
<1>4. CASE FailPhase
  <2>1. pc = "fail" /\ (pc' = "fail" => cur' = cur + 1)
    BY <1>4 DEF FailPhase
  <2>2. \A t \in Slot : Still(t)
    BY <1>4, DeliveryStill DEF CoreInv
  <2>3. \A t \in Slot : t < cur => ~Unfinished(t)'
    BY <1>1, <2>1, <2>2 DEF FailOK, Still, Unfinished, Occupied
  <2>4. slots'[cur].req = None \/ ~Unfinished(cur)
    BY <1>1, <1>4 DEF FailPhase, FailSlot, CoreInv, SplitInv, FrontTypeOK, NoSlot
  <2>5. \A t \in Slot : t = cur => ~Unfinished(t)'
    BY <2>2, <2>4 DEF Still, Unfinished, Occupied
  <2>6. \A t \in Slot : t < cur + 1 => t < cur \/ t = cur
    BY <1>1 DEF Slot
  <2>. QED  BY <2>1, <2>3, <2>5, <2>6 DEF FailOK
<1>5. CASE pc' # "fail"
  BY <1>5 DEF FailOK
<1>6. TakeCmds \/ AdmitSkip \/ AdmitLoad \/ SendNext \/ RecvOver \/ BarrierSave \/ BarrierSkip
      \/ FlushPhase \/ Stop => pc' # "fail"
  BY DEF TakeCmds, AdmitSkip, AdmitLoad, SendNext, RecvOver, BarrierSave, BarrierSkip,
         FlushPhase, Stop, Advance, BarrierNext
<1>7. AdmitCold \/ AdmitLoaded \/ AdmitFails \/ SendFrame \/ RecvFrame \/ BarrierFirst
      \/ BarrierSaved \/ BarrierSaveFails => pc' # "fail"
  BY DEF AdmitCold, AdmitLoaded, AdmitFails, SendFrame, RecvFrame, BarrierFirst, BarrierSaved,
         BarrierSaveFails, Admitted, Advance, BarrierNext
<1>. QED  BY <1>2, <1>3, <1>4, <1>5, <1>6, <1>7, StepCases

-------------------------------------------------------------------------------
(* The events of the clients.                                                 *)

\* The rows the next sample is taken from are its slot's own history.
RowsTrue ==
  /\ pc = "recv" /\ sent # <<>> /\ replies # <<>> /\ phase[Head(sent)].decoding
       => Head(replies).rows = TrueHistory(Head(sent))
  /\ pc = "barrier" /\ FirstDue => phase[cur].last = TrueHistory(cur)

LEMMA NextFront ==
  ASSUME CoreInv, [Next]_vars
  PROVE  FrontInv' /\ (ExactInv /\ RowsTrue => ExactInv')
<1>0. SplitInv /\ FrontTypeOK /\ FrontInv /\ cur \in Slot /\ PhaseInv /\ PhaseType
  BY DEF CoreInv, SplitInv
<1>1. CASE TakeCmds
  BY <1>0, <1>1, DrainFront DEF TakeCmds
<1>2. CASE Stop
  BY <1>0, <1>2, DropFront DEF Stop
<1>3. CASE AdmitSkip \/ AdmitLoad \/ SendNext \/ RecvOver \/ BarrierSave \/ BarrierSkip
           \/ SendFrame \/ SendFails \/ RecvFails \/ BarrierSaved \/ BarrierSaveFails
  <2>1. UNCHANGED frontVars
    BY <1>3 DEF AdmitSkip, AdmitLoad, SendNext, RecvOver, BarrierSave, BarrierSkip, SendFrame,
                SendFails, RecvFails, Abort, BarrierSaved, BarrierSaveFails
  <2>. QED  BY <1>0, <2>1, FrontStill
<1>4. CASE AdmitCold \/ AdmitLoaded \/ AdmitFails
  <2>1. queue # <<>> /\ ~Occupied(cur)
    BY <1>4 DEF AdmitCold, AdmitLoaded, AdmitFails, CanAdmit, CoreInv, SplitInv
  <2>2. /\ queue' = Tail(queue) /\ slots' = [slots EXCEPT ![cur] = NewSlot(Head(queue))]
        /\ UNCHANGED <<server, client, got, chan, cmds, cut>>
    BY <1>4 DEF AdmitCold, AdmitLoaded, AdmitFails, Admitted
  <2>. QED  BY <1>0, <2>1, <2>2, AdmitFront
<1>5. CASE FlushPhase
  <2>1. CASE ~Occupied(cur)
    BY <1>0, <1>5, <2>1, FrontStill DEF FlushPhase
  <2>2. CASE Occupied(cur)
    <3>. DEFINE st == slots[cur]
    <3>1. st \in SlotState /\ st.req \in Request
      BY <1>0, <2>2 DEF FrontTypeOK, SlotState, Occupied
    <3>2. SlotOK(st) /\ (ExactInv /\ RxOpen(st.req) => Exact(st.req, Owed(st)))
      BY <1>0, <3>1 DEF FrontInv, RequestOK, ExactInv, ExactOK
    <3>3. FlushSlot(cur, st) /\ slots[cur].req = st.req
      BY <1>5, <2>2 DEF FlushPhase
    <3>. HIDE DEF st
    <3>. QED  BY <1>0, <3>1, <3>2, <3>3, FlushFront
  <2>. QED  BY <2>1, <2>2
<1>6. CASE FailPhase
  <2>1. CASE Unfinished(cur)
    BY <1>0, <1>6, <2>1, FailFront DEF FailPhase, Unfinished
  <2>2. CASE ~Unfinished(cur)
    BY <1>0, <1>6, <2>2, FrontStill DEF FailPhase
  <2>. QED  BY <2>1, <2>2
<1>7. CASE RecvFrame
  <2>1. sent # <<>> /\ sent \in Seq(Slot) /\ replies # <<>> /\ pc = "recv"
    BY <1>7 DEF RecvFrame, CoreInv, SplitInv
  <2>2. PICK s \in Slot : s = Head(sent)
    BY <2>1
  <2>3. Unfinished(s) /\ (~phase[s].decoding => UNCHANGED frontVars)
    BY <1>0, <1>7, <2>1, <2>2, RecvPhase
  <2>4. CASE ~phase[s].decoding
    BY <1>0, <2>3, <2>4, FrontStill
  <2>5. CASE phase[s].decoding
    <3>. DEFINE rows == Head(replies).rows
    <3>1. Occupied(s) /\ slots[s].emitted < MaxGen[slots[s].req]
      BY <1>0, <2>3 DEF PhaseInv, PhaseOK, Unfinished
    <3>2. PICK eos \in BOOLEAN : FlushSlot(s, ApplySample(slots[s], Sampled(s, rows), eos))
      BY <1>7, <2>2, <2>5, <3>1 DEF RecvFrame
    <3>3. RowsTrue => rows = TrueHistory(s)
      BY <2>1, <2>2, <2>5 DEF RowsTrue
    <3>. HIDE DEF rows
    <3>. QED  BY <1>0, <2>3, <3>1, <3>2, <3>3, SampleFront
  <2>. QED  BY <2>4, <2>5
<1>8. CASE BarrierFirst
  <2>. DEFINE rows == phase[cur].last
  <2>1. Unfinished(cur)
    BY <1>0, <1>8, FirstPhase
  <2>2. slots[cur].emitted < MaxGen[slots[cur].req]
    BY <1>0, <2>1 DEF PhaseInv, PhaseOK
  <2>3. PICK eos \in BOOLEAN : FlushSlot(cur, ApplySample(slots[cur], Sampled(cur, rows), eos))
    BY <1>8 DEF BarrierFirst
  <2>4. RowsTrue => rows = TrueHistory(cur)
    BY <1>8 DEF BarrierFirst, RowsTrue
  <2>. HIDE DEF rows
  <2>. QED  BY <1>0, <2>1, <2>2, <2>3, <2>4, SampleFront
<1>9. CASE Outside
  <2>1. CASE (Handlers \/ Signal \/ ShutdownEngine) /\ UNCHANGED splitVars
    BY <1>0, <2>1, HandlerFront, ServerFront DEF Handlers
  <2>2. CASE UNCHANGED frontVars
    BY <1>0, <2>2, FrontStill
  <2>. QED  BY <1>9, <2>1, <2>2 DEF Outside, vars
<1>. QED  BY <1>1, <1>2, <1>3, <1>4, <1>5, <1>6, <1>7, <1>8, <1>9, StepCases

LEMMA InitCore == Init => CoreInv /\ ExactInv
<1>. SUFFICES ASSUME Init PROVE CoreInv /\ ExactInv
  OBVIOUS
<1>1. SplitInv /\ MatchInv /\ FrontInv /\ ExactInv
  BY InitSplit, InitMatch, InitFront DEF Init
<1>2. phase = [s \in Slot |-> NoPhase] /\ slots = [s \in Slot |-> NoSlot] /\ sent = <<>> /\ pc = "top"
  BY DEF Init, FrontInit
<1>3. PhaseType
  BY <1>2, NewPhases DEF PhaseType, IsPhase
<1>4. SnapType
  BY DEF Init, SnapType, NoSnap, Histories
<1>5. PhaseInv
  BY <1>2 DEF PhaseInv, PhaseOK, Unfinished, Occupied, NoSlot, SentOK, FailOK
<1>6. WaitInv
  BY <1>2 DEF WaitInv
<1>. QED  BY <1>1, <1>3, <1>4, <1>5, <1>6 DEF CoreInv

LEMMA NextCore == CoreInv /\ [Next]_vars => CoreInv'
<1>. SUFFICES ASSUME CoreInv, [Next]_vars PROVE CoreInv'
  OBVIOUS
<1>1. SplitInv' /\ MatchInv'
  BY NextSplit, NextMatch DEF CoreInv
<1>2. PhaseInv'
  BY NextPhases, NextSent, NextFail DEF PhaseInv
<1>. QED  BY <1>1, <1>2, NextFront, NextPhases, NextSnaps, NextWait DEF CoreInv

(* With the layers split over two machines, too, what a client is told at the *)
(* end is true (apply_sample, flush_slot, fail_everything and the handlers):  *)
(* "eos" is said of an answer shorter than max_gen, "limit" of one of max_gen *)
(* tokens, unless the request was failed or the server stopped.               *)
THEOREM SplitEndsAreTruthful == Spec => []EndIsTruthful
<1>1. CoreInv => EndIsTruthful
  BY FrontInvEnds DEF CoreInv
<1>. QED  BY <1>1, InitCore, NextCore, PTL DEF Spec

-------------------------------------------------------------------------------
(* The head's half of the state, and of the snapshots.                        *)

\* A slot that goes on holds the history it was fed.
HeadOK(s) == Unfinished(s) /\ pc # "fail" => Holds(head[s], slots[s].req, Upto(s))

\* A registered entry that is not being written holds what it is registered for.
Whole(i) == snaps[i].valid /\ ~(pc = "saving" /\ i = PickEntry)
SnapsHeld == \A i \in Snap : Whole(i) => headSnaps[i] = snaps[i].tokens

\* Where an operation on a snapshot waits for the worker, the head's half is done.
WaitHeld == /\ pc = "loading" => head[cur] = headSnaps[Best]
            /\ pc = "saving" => headSnaps[PickEntry] = head[cur]

HeadInv == /\ DOMAIN head = Slot /\ DOMAIN headSnaps = Snap
           /\ (\A s \in Slot : HeadOK(s)) /\ SnapsHeld /\ WaitHeld

\* A slot that goes on has been fed neither more nor less.
SameFed(t) ==
  Unfinished(t)' => Unfinished(t) /\ slots'[t].req = slots[t].req /\ Upto(t)' = Upto(t)

LEMMA StillFed ==
  ASSUME NEW t, Still(t), InSent(t)' <=> InSent(t)
  PROVE  SameFed(t)
<1>1. CASE slots'[t].req = None
  BY <1>1 DEF SameFed, Unfinished, Occupied
<1>2. CASE slots'[t].req # None
  <2>1. /\ phase'[t] = phase[t] /\ slots'[t].req = slots[t].req
        /\ slots'[t].finished = slots[t].finished
    BY <1>2 DEF Still
  <2>. QED  BY <2>1 DEF SameFed, Upto, Unfinished, Occupied
<1>. QED  BY <1>1, <1>2

\* Of a slot that is not the first of sent, the frames stay.
LEMMA SentRest ==
  ASSUME CoreInv, sent # <<>>, sent' = Tail(sent), NEW t, t # Head(sent)
  PROVE  InSent(t)' <=> InSent(t)
<1>. DEFINE n == Len(sent)
<1>1. sent \in Seq(Slot)
  BY DEF CoreInv, SplitInv
<1>2. /\ n \in Nat \ {0} /\ Len(sent') = n - 1 /\ sent[1] = Head(sent)
      /\ \A i \in 1 .. n - 1 : sent'[i] = sent[i + 1] /\ i + 1 \in 1 .. n
      /\ \A i \in 1 .. n : i # 1 => i - 1 \in 1 .. n - 1 /\ (i - 1) + 1 = i
  BY <1>1
<1>. HIDE DEF n
<1>3. InSent(t) => InSent(t)'
  <2>. SUFFICES ASSUME NEW i \in 1 .. n, sent[i] = t PROVE \E j \in 1 .. n - 1 : sent'[j] = t
    BY <1>2 DEF InSent, n
  <2>1. i # 1
    BY <1>2
  <2>2. sent'[i - 1] = t /\ i - 1 \in 1 .. n - 1
    BY <1>2, <2>1
  <2>. QED  BY <2>2
<1>4. InSent(t)' => InSent(t)
  BY <1>2 DEF InSent, n
<1>. QED  BY <1>3, <1>4

LEMMA SentMore ==
  ASSUME CoreInv, NEW c \in Slot, sent' = Append(sent, c), NEW t
  PROVE  InSent(t)' <=> InSent(t) \/ t = c
<1>. DEFINE n == Len(sent)
<1>1. sent \in Seq(Slot)
  BY DEF CoreInv, SplitInv
<1>2. /\ n \in Nat /\ Len(sent') = n + 1
      /\ \A i \in 1 .. n + 1 : sent'[i] = IF i = n + 1 THEN c ELSE sent[i]
      /\ \A i \in 1 .. n + 1 : i # n + 1 => i \in 1 .. n
      /\ n + 1 \in 1 .. n + 1 /\ \A i \in 1 .. n : i \in 1 .. n + 1 /\ i # n + 1
  BY <1>1
<1>. HIDE DEF n
<1>. QED  BY <1>2 DEF InSent, n

\* What the answer to a frame tells of its slot.
LEMMA RecvFed ==
  ASSUME CoreInv, NEW s \in Slot, sent # <<>>, s = Head(sent), RecvFrame
  PROVE  SameFed(s) /\ (phase[s].decoding => ~InSent(s)') /\ InSent(s)
<1>. DEFINE n == Len(sent)
<1>1. sent \in Seq(Slot) /\ SentOK /\ sent' = Tail(sent)
  BY DEF CoreInv, SplitInv, PhaseInv, RecvFrame
<1>2. /\ n \in Nat \ {0} /\ Len(sent') = n - 1 /\ sent[1] = s /\ 1 \in 1 .. n
      /\ \A i \in 1 .. n - 1 : sent'[i] = sent[i + 1] /\ i + 1 \in 1 .. n /\ i + 1 # 1
  BY <1>1
<1>3. InSent(s) /\ Unfinished(s)
  BY <1>1, <1>2 DEF InSent, SentOK
<1>4. phase[s].decoding => ~InSent(s)'
  <2>. SUFFICES ASSUME phase[s].decoding, NEW i \in 1 .. n - 1, sent'[i] = s PROVE FALSE
    BY <1>2 DEF InSent
  <2>1. sent[1] = sent[i + 1] /\ phase[sent[1]].decoding /\ i + 1 \in 1 .. n /\ i + 1 # 1
    BY <1>2
  <2>. QED  BY <1>1, <1>2, <2>1 DEF SentOK
<1>5. CASE phase[s].decoding
  <2>1. slots'[s].req = None \/ (slots'[s].req = slots[s].req /\ phase'[s].pos = phase[s].pos + 1)
    BY <1>5, RecvPhase DEF CoreInv
  <2>2. Upto(s) = phase[s].pos + 1 /\ Upto(s)' = phase'[s].pos
    BY <1>3, <1>4, <1>5 DEF Upto
  <2>. QED  BY <1>3, <1>4, <2>1, <2>2 DEF SameFed, Unfinished, Occupied
<1>6. CASE ~phase[s].decoding
  <2>1. UNCHANGED frontVars /\ phase'[s].decoding = phase[s].decoding /\ phase'[s].pos = phase[s].pos
    BY <1>6, RecvPhase DEF CoreInv
  <2>2. Upto(s)' = Upto(s)
    BY <1>6, <2>1 DEF Upto
  <2>. QED  BY <1>3, <1>6, <2>1, <2>2 DEF SameFed, frontVars
<1>. QED  BY <1>3, <1>4, <1>5, <1>6

\* Only admission and sending feed, and only a failed pass forgets.
Steady ==
  \/ Outside
  \/ TakeCmds \/ AdmitSkip \/ AdmitLoad \/ SendNext \/ RecvOver \/ BarrierSave \/ BarrierSkip
  \/ FlushPhase \/ FailPhase \/ Stop \/ RecvFrame \/ BarrierFirst \/ BarrierSaved
  \/ BarrierSaveFails

LEMMA SteadyFed ==
  ASSUME CoreInv, Steady, NEW t \in Slot
  PROVE  SameFed(t)
<1>1. PICK c \in Slot : c = cur
  BY DEF CoreInv, SplitInv
<1>2. CASE Outside
  BY <1>2, OutsideKept DEF SameFed, Upto, InSent, Unfinished, Occupied, headVars
<1>3. CASE TakeCmds \/ AdmitSkip \/ AdmitLoad \/ SendNext \/ RecvOver \/ BarrierSave \/ BarrierSkip
  <2>1. sent' = sent
    BY <1>3 DEF TakeCmds, AdmitSkip, AdmitLoad, SendNext, RecvOver, BarrierSave, BarrierSkip
  <2>2. Still(t)
    BY <1>3, BesideStill DEF CoreInv, Beside
  <2>. QED  BY <2>1, <2>2, StillFed DEF InSent
<1>4. CASE FlushPhase \/ FailPhase \/ Stop
  <2>1. sent' = sent
    BY <1>4 DEF FlushPhase, FailPhase, Stop
  <2>2. Still(t)
    BY <1>4, DeliveryStill DEF CoreInv
  <2>. QED  BY <2>1, <2>2, StillFed DEF InSent
<1>5. CASE RecvFrame
  <2>1. sent # <<>> /\ sent \in Seq(Slot) /\ sent' = Tail(sent)
    BY <1>5 DEF RecvFrame, CoreInv, SplitInv
  <2>2. PICK s \in Slot : s = Head(sent)
    BY <2>1
  <2>3. CASE t = s
    BY <1>5, <2>1, <2>2, <2>3, RecvFed
  <2>4. CASE t # s
    <3>1. Still(t)
      BY <1>5, <2>1, <2>2, <2>4, RecvPhase DEF CoreInv
    <3>2. InSent(t)' <=> InSent(t)
      BY <2>1, <2>2, <2>4, SentRest
    <3>. QED  BY <3>1, <3>2, StillFed
  <2>. QED  BY <2>3, <2>4
<1>6. CASE BarrierFirst
  <2>0. sent = <<>> /\ sent' = sent /\ Len(<<>>) = 0
    BY <1>6 DEF BarrierFirst, CoreInv, MatchInv
  <2>1. CASE t = c
    <3>1. /\ Unfinished(c) /\ ~phase[c].decoding
          /\ \/ slots'[c].req = None
             \/ slots'[c].req = slots[c].req /\ phase'[c].pos = phase[c].pos
      BY <1>1, <1>6, FirstPhase DEF CoreInv
    <3>2. Upto(c) = phase[c].pos /\ Upto(c)' = phase'[c].pos
      BY <2>0 DEF Upto, InSent
    <3>. QED  BY <2>1, <3>1, <3>2 DEF SameFed, Unfinished, Occupied
  <2>2. CASE t # c
    <3>1. Still(t)
      BY <1>1, <1>6, <2>2, FirstPhase DEF CoreInv
    <3>. QED  BY <2>0, <3>1, StillFed DEF InSent
  <2>. QED  BY <2>1, <2>2
<1>7. CASE BarrierSaved \/ BarrierSaveFails
  <2>0. sent' = sent
    BY <1>7 DEF BarrierSaved, BarrierSaveFails
  <2>1. CASE t = c
    <3>1. slots' = slots /\ phase'[c].decoding = phase[c].decoding /\ phase'[c].pos = phase[c].pos
      BY <1>1, <1>7, SavedPhase DEF CoreInv
    <3>. QED  BY <2>0, <2>1, <3>1 DEF SameFed, Upto, InSent, Unfinished, Occupied
  <2>2. CASE t # c
    <3>1. Still(t)
      BY <1>1, <1>7, <2>2, SavedPhase DEF CoreInv
    <3>. QED  BY <2>0, <3>1, StillFed DEF InSent
  <2>. QED  BY <2>1, <2>2
<1>. QED  BY <1>2, <1>3, <1>4, <1>5, <1>6, <1>7 DEF Steady

\* A failed pass leaves no slot that goes on.
LEMMA FailedAll ==
  ASSUME CoreInv, FailPhase, pc' # "fail", NEW t \in Slot
  PROVE  ~Unfinished(t)'
<1>1. cur = NSlots - 1 /\ pc = "fail" /\ cur \in Slot
  BY DEF FailPhase, CoreInv, SplitInv
<1>2. t < cur \/ t = cur
  BY <1>1 DEF Slot
<1>3. Still(t)
  BY DeliveryStill DEF CoreInv
<1>4. CASE t < cur
  BY <1>1, <1>3, <1>4 DEF CoreInv, PhaseInv, FailOK, Still, Unfinished, Occupied
<1>5. CASE t = cur
  <2>1. slots'[t].req = None \/ ~Unfinished(t)
    BY <1>1, <1>5 DEF FailPhase, FailSlot, CoreInv, SplitInv, FrontTypeOK, NoSlot
  <2>. QED  BY <1>3, <2>1 DEF Still, Unfinished, Occupied
<1>. QED  BY <1>2, <1>4, <1>5

\* What a slot is sent, its head stage having been fed as much.
LEMMA SendRows ==
  ASSUME CoreInv, HeadInv, NEW c \in Slot, c = cur, SendFrame \/ SendFails
  PROVE  LET r == slots[c].req  n == phase[c].pos  k == Len(Feeds(c)) IN
         /\ Unfinished(c) /\ r \in Request /\ n \in Nat /\ k \in Nat \ {0} /\ n + k \in Nat
         /\ Upto(c) = n /\ NextRows = Hist(r, n + k)
<1>. DEFINE r == slots[c].req  n == phase[c].pos  k == Len(Feeds(c))
<1>1. /\ Unfinished(c) /\ r \in Request /\ k \in Nat
      /\ Hist(r, n) \o Feeds(c) = Hist(r, n + k)
      /\ n = 0 => Feeds(c) = Hist(r, n + k)
  BY SendPhase DEF CoreInv
<1>2. pc = "send" /\ burst < Bursts /\ Feeds(c) # <<>>
  BY DEF SendFrame, SendFails, Sending
<1>3. n \in Nat
  BY PhaseFields DEF CoreInv, PhaseType
<1>4. k # 0
  <2>1. IsSeq(Feeds(c))
    BY SendPhase DEF CoreInv
  <2>. QED  BY <1>2, <2>1, NoneSeq
<1>5. Upto(c) = n
  <2>1. phase[c].decoding => ~InSent(c)
    <3>1. \A i \in 1 .. Len(sent) : sent[i] < cur \/ (sent[i] = cur /\ (phase[cur].decoding => ~(burst < Bursts)))
      BY <1>2 DEF CoreInv, PhaseInv, SentOK
    <3>2. ~(c < c)
      BY DEF Slot
    <3>. QED  BY <1>2, <3>1, <3>2 DEF InSent
  <2>. QED  BY <2>1 DEF Upto
<1>6. NextRows = Hist(r, n + k)
  <2>1. pc # "fail" /\ Holds(head[c], r, n)
    BY <1>1, <1>2, <1>5 DEF HeadInv, HeadOK
  <2>2. NextRows = StageRun(head[c], n, Feeds(c))
    BY DEF NextRows
  <2>3. CASE n = 0
    BY <1>1, <2>2, <2>3 DEF StageRun
  <2>4. CASE n # 0
    <3>1. head[c] = Hist(r, n) /\ Len(Hist(r, n)) = n
      BY <1>1, <1>3, <2>1, <2>4, HistType DEF Holds
    <3>. QED  BY <1>1, <2>2, <2>4, <3>1 DEF StageRun
  <2>. QED  BY <2>3, <2>4
<1>. QED  BY <1>1, <1>3, <1>4, <1>5, <1>6

LEMMA HeadSteady ==
  ASSUME CoreInv, HeadInv, NEW t \in Slot, SameFed(t),
         Unfinished(t)' => head'[t] = head[t],
         Unfinished(t)' /\ pc' # "fail" => pc # "fail"
  PROVE  HeadOK(t)'
<1>. SUFFICES ASSUME Unfinished(t)', pc' # "fail"
              PROVE  Holds(head'[t], slots'[t].req, Upto(t)')
  BY DEF HeadOK, Holds, Hist
<1>1. /\ Unfinished(t) /\ slots'[t].req = slots[t].req /\ Upto(t)' = Upto(t)
      /\ head'[t] = head[t] /\ pc # "fail"
  BY DEF SameFed
<1>2. Holds(head[t], slots[t].req, Upto(t))
  BY <1>1 DEF HeadInv, HeadOK
<1>. QED  BY <1>1, <1>2

\* No step adds a slot or an entry to the head's state.
LEMMA HeadDomain ==
  ASSUME HeadInv, [Next]_vars
  PROVE  DOMAIN head' = Slot /\ DOMAIN headSnaps' = Snap
<1>1. head' = head \/ \E s, x : head' = [head EXCEPT ![s] = x]
  <2>1. CASE Outside
    BY <2>1, OutsideKept DEF headVars
  <2>2. CASE ~Outside
    <3>1. TakeCmds \/ Stop \/ AdmitSkip \/ AdmitCold \/ AdmitLoad \/ AdmitLoaded \/ AdmitFails
            => head' = head \/ \E s, x : head' = [head EXCEPT ![s] = x]
      BY DEF TakeCmds, Stop, AdmitSkip, AdmitCold, AdmitLoad, AdmitLoaded, AdmitFails
    <3>2. FlushPhase \/ SendFrame \/ SendNext \/ SendFails \/ RecvFrame \/ RecvOver \/ RecvFails
            => head' = head \/ \E s, x : head' = [head EXCEPT ![s] = x]
      BY DEF FlushPhase, SendFrame, SendNext, SendFails, RecvFrame, RecvOver, RecvFails
    <3>3. BarrierSave \/ BarrierSaved \/ BarrierSaveFails \/ BarrierFirst \/ BarrierSkip \/ FailPhase
            => head' = head
      BY DEF BarrierSave, BarrierSaved, BarrierSaveFails, BarrierFirst, BarrierSkip, FailPhase
    <3>. QED  BY <2>2, <3>1, <3>2, <3>3, StepCases
  <2>. QED  BY <2>1, <2>2
<1>2. headSnaps' = headSnaps \/ HeadSaved
  <2>1. CASE Outside
    BY <2>1, OutsideKept DEF headVars
  <2>2. CASE ~Outside
    <3>1. TakeCmds \/ Stop \/ AdmitSkip \/ AdmitCold \/ AdmitLoad \/ AdmitLoaded \/ AdmitFails
            => headSnaps' = headSnaps
      BY DEF TakeCmds, Stop, AdmitSkip, AdmitCold, AdmitLoad, AdmitLoaded, AdmitFails, Admitted
    <3>2. FlushPhase \/ SendFrame \/ SendNext \/ SendFails \/ RecvFrame \/ RecvOver \/ RecvFails
            => headSnaps' = headSnaps
      BY DEF FlushPhase, SendFrame, SendNext, SendFails, RecvFrame, RecvOver, RecvFails, Abort
    <3>3. BarrierSave \/ BarrierSaved \/ BarrierSaveFails \/ BarrierFirst \/ BarrierSkip \/ FailPhase
            => headSnaps' = headSnaps \/ HeadSaved
      BY DEF BarrierSave, BarrierSaved, BarrierSaveFails, BarrierFirst, BarrierSkip, FailPhase
    <3>. QED  BY <2>2, <3>1, <3>2, <3>3, StepCases
  <2>. QED  BY <2>1, <2>2
<1>. QED  BY <1>1, <1>2 DEF HeadInv, HeadSaved

LEMMA NextHead ==
  ASSUME CoreInv, HeadInv, [Next]_vars, NEW t \in Slot
  PROVE  HeadOK(t)'
<1>0. DOMAIN head = Slot
  BY DEF HeadInv
<1>1. PICK c \in Slot : c = cur
  BY DEF CoreInv, SplitInv
<1>2. CASE Steady
  <2>1. SameFed(t)
    BY <1>2, SteadyFed
  <2>2. Unfinished(t)' => head'[t] = head[t]
    <3>1. CASE AdmitLoad
      <4>1. ~Occupied(cur) /\ slots' = slots /\ head' = [head EXCEPT ![cur] = headSnaps[Best]]
        BY <3>1 DEF AdmitLoad, CanAdmit, frontVars, Best
      <4>. QED  BY <1>0, <4>1 DEF Unfinished, Occupied
    <3>2. CASE head' = head
      BY <1>0, <3>2
    <3>3. Outside => head' = head
      BY OutsideKept DEF headVars
    <3>4. TakeCmds \/ AdmitSkip \/ SendNext \/ RecvOver \/ BarrierSave \/ BarrierSkip
          \/ FlushPhase \/ FailPhase \/ Stop => head' = head
      BY DEF TakeCmds, AdmitSkip, SendNext, RecvOver, BarrierSave, BarrierSkip, FlushPhase,
             FailPhase, Stop
    <3>5. RecvFrame \/ BarrierFirst \/ BarrierSaved \/ BarrierSaveFails => head' = head
      BY DEF RecvFrame, BarrierFirst, BarrierSaved, BarrierSaveFails
    <3>. QED  BY <1>2, <3>1, <3>2, <3>3, <3>4, <3>5 DEF Steady
  <2>3. Unfinished(t)' /\ pc' # "fail" => pc # "fail"
    <3>1. CASE FailPhase
      BY <3>1, FailedAll
    <3>2. CASE Outside
      BY <3>2, OutsideKept DEF headVars
    <3>3. TakeCmds \/ AdmitSkip \/ AdmitLoad \/ SendNext \/ RecvOver \/ BarrierSave \/ BarrierSkip
          \/ FlushPhase \/ Stop \/ RecvFrame \/ BarrierFirst \/ BarrierSaved \/ BarrierSaveFails
            => pc # "fail"
      BY DEF TakeCmds, AdmitSkip, AdmitLoad, CanAdmit, SendNext, RecvOver, BarrierSave, BarrierSkip,
             FlushPhase, Stop, RecvFrame, BarrierFirst, BarrierSaved, BarrierSaveFails
    <3>. QED  BY <1>2, <3>1, <3>2, <3>3 DEF Steady
  <2>. QED  BY <2>1, <2>2, <2>3, HeadSteady
<1>3. CASE SendFails \/ RecvFails
  <2>1. pc' = "fail"
    BY <1>3 DEF SendFails, RecvFails, Abort
  <2>. QED  BY <2>1 DEF HeadOK
<1>4. CASE AdmitCold \/ AdmitFails
  <2>1. queue # <<>> /\ Admitted(0) /\ 0 < Len(Prompt[Head(queue)])
    BY <1>4, ColdAdmission DEF CoreInv
  <2>2. /\ phase'[c].decoding = FALSE /\ phase'[c].pos = 0
        /\ t # c => Still(t)
    BY <1>1, <2>1, AdmittedPhase DEF CoreInv
  <2>3. /\ t # c => head'[t] = head[t]
        /\ sent' = sent /\ pc # "fail"
    BY <1>0, <1>1, <1>4 DEF AdmitCold, AdmitFails, CanAdmit, Admitted
  <2>4. CASE t = c
    BY <2>2, <2>3, <2>4 DEF HeadOK, Holds, Upto
  <2>5. CASE t # c
    <3>1. SameFed(t)
      BY <2>2, <2>3, <2>5, StillFed DEF InSent
    <3>. QED  BY <2>3, <2>5, <3>1, HeadSteady
  <2>. QED  BY <2>3, <2>4, <2>5
<1>5. CASE AdmitLoaded
  <2>. DEFINE n == Len(snaps[Best].tokens)
  <2>1. /\ queue # <<>> /\ n \in Nat /\ n < Len(Prompt[Head(queue)]) /\ Admitted(n)
        /\ snaps[Best].tokens = Hist(Head(queue), n) /\ Best \in Snap /\ snaps[Best].valid
    BY <1>5, WarmAdmission DEF CoreInv, WaitInv
  <2>2. pc = "loading" /\ head' = head /\ sent' = sent
    BY <1>5, <2>1 DEF AdmitLoaded, Admitted
  <2>3. head[c] = Hist(Head(queue), n)
    BY <1>1, <2>1, <2>2 DEF HeadInv, WaitHeld, SnapsHeld, Whole
  <2>. HIDE DEF n
  <2>4. /\ phase'[c].decoding = FALSE /\ phase'[c].pos = n /\ slots'[c].req = Head(queue)
        /\ t # c => Still(t)
    BY <1>1, <2>1, AdmittedPhase DEF CoreInv
  <2>5. CASE t = c
    <3>1. Upto(t)' = n /\ head'[t] = Hist(Head(queue), n)
      BY <2>2, <2>3, <2>4, <2>5 DEF Upto
    <3>. QED  BY <2>4, <2>5, <3>1 DEF HeadOK, Holds, Hist
  <2>6. CASE t # c
    <3>1. SameFed(t)
      BY <2>2, <2>4, <2>6, StillFed DEF InSent
    <3>. QED  BY <2>2, <2>6, <3>1, HeadSteady
  <2>. QED  BY <2>5, <2>6
<1>6. CASE SendFrame
  <2>. DEFINE r == slots[c].req  n == phase[c].pos  k == Len(Feeds(c))
  <2>1. /\ head' = [head EXCEPT ![c] = NextRows] /\ sent' = Append(sent, c) /\ pc = "send"
    BY <1>1, <1>6 DEF SendFrame
  <2>2. NextRows = Hist(r, n + k)
    BY <1>1, <1>6, SendRows
  <2>3. /\ slots' = slots /\ phase'[c].decoding = phase[c].decoding
        /\ phase'[c].pos = IF phase[c].decoding THEN n ELSE n + k
        /\ \A u \in Slot : u # c => Still(u)
    BY <1>1, <1>6, SentPhase DEF CoreInv
  <2>4. phase[c].decoding => k = 1
    BY <1>1, <1>6, SendPhase DEF CoreInv
  <2>5. InSent(t)' <=> InSent(t) \/ t = c
    BY <2>1, SentMore
  <2>6. CASE t = c
    <3>1. Upto(t)' = n + k
      BY <2>3, <2>4, <2>5, <2>6 DEF Upto
    <3>2. head'[t] = Hist(r, n + k)
      BY <1>0, <2>1, <2>2, <2>6
    <3>. QED  BY <2>3, <2>6, <3>1, <3>2 DEF HeadOK, Holds, Hist
  <2>7. CASE t # c
    <3>1. SameFed(t)
      BY <2>3, <2>5, <2>7, StillFed
    <3>2. head'[t] = head[t]
      BY <1>0, <2>1, <2>7
    <3>. QED  BY <2>1, <3>1, <3>2, HeadSteady
  <2>. QED  BY <2>6, <2>7
<1>. QED  BY <1>2, <1>3, <1>4, <1>5, <1>6, StepCases DEF Steady

\* What a step makes of a registered entry: only a save that is answered adds one.
LEMMA WholeStep ==
  ASSUME CoreInv, HeadInv, [Next]_vars, NEW i \in Snap, Whole(i)'
  PROVE  \/ Whole(i) /\ snaps'[i].tokens = snaps[i].tokens /\ headSnaps'[i] = headSnaps[i]
         \/ BarrierSaved /\ i = PickEntry /\ headSnaps' = headSnaps
<1>. DEFINE Kept == Whole(i) /\ snaps'[i].tokens = snaps[i].tokens /\ headSnaps'[i] = headSnaps[i]
<1>1. snaps \in [Snap -> [valid : BOOLEAN, tokens : Histories, lru : Nat]] /\ DOMAIN headSnaps = Snap
  BY DEF CoreInv, SnapType, HeadInv
<1>2. snaps'[i].valid
  BY DEF Whole
<1>3. ASSUME pc # "saving", snaps' = snaps, headSnaps' = headSnaps PROVE Kept
  BY <1>2, <1>3 DEF Whole
<1>4. CASE Outside
  BY <1>4, OutsideKept DEF Whole, PickEntry, headVars
<1>5. CASE TakeCmds \/ AdmitSkip \/ AdmitLoad \/ SendNext \/ RecvOver \/ BarrierSkip
  BY <1>3, <1>5 DEF TakeCmds, AdmitSkip, AdmitLoad, CanAdmit, SendNext, RecvOver, BarrierSkip
<1>6. CASE FlushPhase \/ FailPhase \/ Stop
  BY <1>3, <1>6 DEF FlushPhase, FailPhase, Stop
<1>7. CASE AdmitCold \/ AdmitFails
  BY <1>3, <1>7 DEF AdmitCold, AdmitFails, CanAdmit, Admitted
<1>8. CASE SendFrame \/ RecvFrame \/ BarrierFirst
  BY <1>3, <1>8 DEF SendFrame, RecvFrame, BarrierFirst
<1>9. CASE SendFails \/ RecvFails
  <2>1. snaps' = [j \in Snap |-> NoSnap]
    BY <1>9 DEF SendFails, RecvFails, Abort
  <2>. QED  BY <1>2, <2>1 DEF NoSnap
<1>10. CASE AdmitLoaded
  <2>. DEFINE b == BestSnap(Prompt[Head(queue)])
  <2>1. pc = "loading" /\ headSnaps' = headSnaps /\ snaps' = [snaps EXCEPT ![b].lru = lruClock + 1]
    BY <1>10 DEF AdmitLoaded, Admitted
  <2>. HIDE DEF b
  <2>2. snaps'[i].valid = snaps[i].valid /\ snaps'[i].tokens = snaps[i].tokens
    BY <1>1, <2>1
  <2>. QED  BY <1>2, <2>1, <2>2 DEF Whole
<1>11. CASE BarrierSave
  <2>. DEFINE e == PickEntry
  <2>1. pc = "barrier" /\ pc' = "saving" /\ headSnaps' = [headSnaps EXCEPT ![e] = head[cur]] /\ snaps' = snaps
    BY <1>11 DEF BarrierSave, HeadSaved
  <2>2. i # e
    BY <2>1 DEF Whole, PickEntry
  <2>. HIDE DEF e
  <2>. QED  BY <1>1, <1>2, <2>1, <2>2 DEF Whole
<1>12. CASE BarrierSaveFails
  <2>. DEFINE e == PickEntry
  <2>1. headSnaps' = headSnaps \/ headSnaps' = [headSnaps EXCEPT ![e] = head[cur]]
    BY <1>12 DEF BarrierSaveFails, HeadSaved
  <2>2. snaps' = [snaps EXCEPT ![e] = NoSnap]
    BY <1>12 DEF BarrierSaveFails
  <2>3. pc = "saving" => Whole(i) \/ ~snaps[i].valid \/ i = e
    BY DEF Whole
  <2>4. pc # "saving" => Whole(i) \/ ~snaps[i].valid
    BY DEF Whole
  <2>. HIDE DEF e
  <2>5. i # e
    BY <1>1, <1>2, <2>2 DEF NoSnap
  <2>. QED  BY <1>1, <1>2, <2>1, <2>2, <2>3, <2>4, <2>5
<1>13. CASE BarrierSaved
  <2>. DEFINE e == PickEntry
  <2>1. pc = "saving" /\ headSnaps' = headSnaps /\ \E x : snaps' = [snaps EXCEPT ![e] = x]
    BY <1>13 DEF BarrierSaved
  <2>2. i # e => Whole(i) \/ ~snaps[i].valid
    BY DEF Whole
  <2>. HIDE DEF e
  <2>3. i # e => snaps'[i] = snaps[i]
    BY <1>1, <2>1
  <2>. QED  BY <1>2, <1>13, <2>1, <2>2, <2>3 DEF e
<1>. QED  BY <1>4, <1>5, <1>6, <1>7, <1>8, <1>9, <1>10, <1>11, <1>12, <1>13, StepCases

\* A save that is answered registers what its slot has been fed.
LEMMA SavedTokens ==
  ASSUME CoreInv, HeadInv, BarrierSaved, NEW c \in Slot, c = cur, NEW i \in Snap, i = PickEntry
  PROVE  /\ Unfinished(c) /\ Upto(c) = phase[c].pos /\ phase[c].pos # 0
         /\ snaps'[i].tokens = Hist(slots[c].req, phase[c].pos)
         /\ head[c] = Hist(slots[c].req, phase[c].pos) /\ headSnaps[i] = head[c]
<1>. DEFINE r == slots[c].req  n == phase[c].pos
<1>1. pc = "saving" /\ SnapDue /\ head[cur] = headSnaps[PickEntry] /\ (Unfinished(c) => Holds(head[c], r, Upto(c)))
  BY DEF BarrierSaved, CoreInv, WaitInv, HeadInv, WaitHeld, HeadOK
<1>2. /\ Unfinished(c) /\ n \in Nat \ {0} /\ n = phase[cur].snapAt /\ SubSeq(PromptOf(cur), 1, n) = Hist(r, n)
  BY <1>1, SavedPrefix
<1>3. ~phase[c].decoding
  BY <1>1 DEF SnapDue
<1>4. snaps' = [snaps EXCEPT ![i] = [valid |-> TRUE, tokens |-> Hist(r, n), lru |-> lruClock + 1]]
  BY <1>2 DEF BarrierSaved
<1>5. snaps'[i].tokens = Hist(r, n)
  BY <1>4 DEF CoreInv, SnapType
<1>6. Upto(c) = n
  BY <1>3 DEF Upto
<1>. QED  BY <1>1, <1>2, <1>5, <1>6 DEF Holds

LEMMA NextHeld ==
  ASSUME CoreInv, HeadInv, [Next]_vars
  PROVE  SnapsHeld' /\ WaitHeld'
<1>1. PICK c \in Slot : c = cur
  BY DEF CoreInv, SplitInv
<1>2. SnapsHeld'
  <2>. SUFFICES ASSUME NEW i \in Snap, Whole(i)' PROVE headSnaps'[i] = snaps'[i].tokens
    BY DEF SnapsHeld
  <2>1. CASE Whole(i) /\ snaps'[i].tokens = snaps[i].tokens /\ headSnaps'[i] = headSnaps[i]
    BY <2>1 DEF HeadInv, SnapsHeld
  <2>2. CASE BarrierSaved /\ i = PickEntry /\ headSnaps' = headSnaps
    BY <1>1, <2>2, SavedTokens
  <2>. QED  BY <2>1, <2>2, WholeStep
<1>3. pc' = "loading" => head'[cur'] = headSnaps'[Best']
  <2>1. CASE Outside
    BY <2>1, OutsideKept DEF HeadInv, WaitHeld, headVars, Best, BestSnap, Usable
  <2>2. CASE AdmitLoad
    <3>1. /\ head' = [head EXCEPT ![cur] = headSnaps[Best]] /\ cur' = cur /\ headSnaps' = headSnaps
          /\ queue' = queue /\ snaps' = snaps
      BY <2>2 DEF AdmitLoad, frontVars, Best
    <3>2. Best' = Best
      BY <3>1 DEF Best, BestSnap, Usable
    <3>. QED  BY <1>1, <3>1, <3>2 DEF HeadInv
  <2>3. CASE ~Outside /\ ~AdmitLoad
    <3>1. TakeCmds \/ AdmitSkip \/ SendNext \/ RecvOver \/ BarrierSave \/ BarrierSkip
          \/ FlushPhase \/ FailPhase \/ Stop \/ AdmitCold \/ AdmitLoaded \/ AdmitFails => pc' # "loading"
      BY DEF TakeCmds, AdmitSkip, SendNext, RecvOver, BarrierSave, BarrierSkip, BarrierNext, FlushPhase,
             FailPhase, Stop, AdmitCold, AdmitLoaded, AdmitFails, Admitted, Advance
    <3>2. SendFails \/ RecvFails \/ SendFrame \/ RecvFrame \/ BarrierFirst \/ BarrierSaved
          \/ BarrierSaveFails => pc' # "loading"
      BY DEF SendFails, RecvFails, Abort, SendFrame, RecvFrame, BarrierFirst, BarrierNext, BarrierSaved,
             BarrierSaveFails
    <3>. QED  BY <2>3, <3>1, <3>2, StepCases
  <2>. QED  BY <2>1, <2>2, <2>3
<1>4. pc' = "saving" => headSnaps'[PickEntry'] = head'[cur']
  <2>1. CASE Outside
    BY <2>1, OutsideKept DEF HeadInv, WaitHeld, headVars, PickEntry
  <2>2. CASE BarrierSave
    <3>1. /\ headSnaps' = [headSnaps EXCEPT ![PickEntry] = head[cur]] /\ cur' = cur /\ head' = head
          /\ snaps' = snaps
      BY <2>2 DEF BarrierSave, HeadSaved
    <3>2. PickEntry' = PickEntry /\ PickEntry \in Snap
      BY <3>1, PickIn DEF CoreInv, PickEntry
    <3>. QED  BY <3>1, <3>2 DEF HeadInv
  <2>3. CASE ~Outside /\ ~BarrierSave
    <3>1. TakeCmds \/ AdmitSkip \/ AdmitLoad \/ SendNext \/ RecvOver \/ BarrierSkip
          \/ FlushPhase \/ FailPhase \/ Stop \/ AdmitCold \/ AdmitLoaded \/ AdmitFails => pc' # "saving"
      BY DEF TakeCmds, AdmitSkip, AdmitLoad, SendNext, RecvOver, BarrierSkip, BarrierNext, FlushPhase,
             FailPhase, Stop, AdmitCold, AdmitLoaded, AdmitFails, Admitted, Advance
    <3>2. SendFails \/ RecvFails \/ SendFrame \/ RecvFrame \/ BarrierFirst \/ BarrierSaved
          \/ BarrierSaveFails => pc' # "saving"
      BY DEF SendFails, RecvFails, Abort, SendFrame, RecvFrame, BarrierFirst, BarrierNext, BarrierSaved,
             BarrierSaveFails
    <3>. QED  BY <2>3, <3>1, <3>2, StepCases
  <2>. QED  BY <2>1, <2>2, <2>3
<1>. QED  BY <1>2, <1>3, <1>4 DEF WaitHeld, Best, PickEntry

LEMMA InitHead == Init => HeadInv
<1>. SUFFICES ASSUME Init PROVE HeadInv
  OBVIOUS
<1>1. slots = [s \in Slot |-> NoSlot] /\ snaps = [i \in Snap |-> NoSnap] /\ pc = "top"
      /\ DOMAIN head = Slot /\ DOMAIN headSnaps = Snap
  BY DEF Init, FrontInit
<1>2. \A s \in Slot : ~Unfinished(s)
  BY <1>1 DEF Unfinished, Occupied, NoSlot
<1>3. \A i \in Snap : ~snaps[i].valid
  BY <1>1 DEF NoSnap
<1>. QED  BY <1>1, <1>2, <1>3 DEF HeadInv, HeadOK, SnapsHeld, Whole, WaitHeld

LEMMA NextHeadInv == CoreInv /\ HeadInv /\ [Next]_vars => HeadInv'
BY HeadDomain, NextHead, NextHeld DEF HeadInv

-------------------------------------------------------------------------------
(* The connection, whatever the worker's state is worth.                      *)

IsFrame(f) == /\ f.op \in {"run", "load", "save"} /\ f.slot \in Slot
              /\ f.op # "run" => f.idx \in Snap

NetType == /\ DOMAIN worker = Slot /\ DOMAIN workerSnaps = Snap
           /\ faults \in [breaks : Nat, restarts : Nat]
           /\ \A j \in 1 .. Len(wire) : IsFrame(wire[j])

\* Of a connection that broke only an unanswered pass has left frames to read.
BrokenOK ==
  /\ InPass /\ link = "broken" /\ Len(replies) = Len(sent) => wire = <<>>
  /\ pc \in Quiet /\ link = "broken" => wire = <<>>
  /\ pc \in {"loading", "saving"} => link # "down" /\ Len(replies) + Len(wire) <= 1

\* A slot with a frame under way has been fed.
SentFed == \A s \in Slot : InSent(s) => Upto(s) # 0

LinkInv == NetType /\ BrokenOK /\ SentFed

\* The head does not touch the worker.
LEMMA HeadNet ==
  ASSUME [Next]_vars, ~Outside, NetType
  PROVE  /\ worker' = worker /\ workerSnaps' = workerSnaps
         /\ faults' \in [breaks : Nat, restarts : Nat] /\ faults'.restarts = faults.restarts
<1>. DEFINE Kept == worker' = worker /\ workerSnaps' = workerSnaps
            Fault == faults' = faults \/ faults' = [faults EXCEPT !.breaks = @ + 1]
<1>1. TakeCmds \/ AdmitSkip \/ AdmitLoad \/ SendNext \/ RecvOver \/ BarrierSave \/ BarrierSkip
        => Kept /\ Fault
  BY DEF TakeCmds, AdmitSkip, AdmitLoad, SendNext, RecvOver, BarrierSave, BarrierSkip, Write, netVars
<1>2. SendFails \/ RecvFails \/ AdmitFails \/ BarrierSaveFails => Kept /\ Fault
  BY DEF SendFails, RecvFails, AdmitFails, BarrierSaveFails, WriteFails, ReadFails, Poison
<1>3. FlushPhase \/ FailPhase \/ Stop \/ AdmitCold \/ AdmitLoaded => Kept /\ Fault
  BY DEF FlushPhase, FailPhase, Stop, AdmitCold, AdmitLoaded, netVars
<1>4. SendFrame \/ RecvFrame \/ BarrierFirst \/ BarrierSaved => Kept /\ Fault
  BY DEF SendFrame, RecvFrame, BarrierFirst, BarrierSaved, Write, netVars
<1>5. Kept /\ Fault
  BY <1>1, <1>2, <1>3, <1>4, StepCases
<1>. QED  BY <1>5 DEF NetType

\* The worker is asked for an operation on a snapshot when nothing is under way.
LEMMA Asked ==
  ASSUME CoreInv, BrokenOK, pc \in Quiet, NEW f, Write(f)
  PROVE  /\ wire = <<>> /\ replies' = <<>> /\ Len(replies') = 0 /\ link' # "down"
         /\ IsSeq(wire') /\ Len(wire') <= 1 /\ \A j \in 1 .. Len(wire') : wire'[j] = f
<1>1. /\ replies = <<>> /\ link \in {"down", "up", "broken"} /\ (link = "up" => wire = <<>>)
      /\ (link = "broken" => wire = <<>>) /\ IsSeq(wire)
  BY DEF CoreInv, MatchInv, BrokenOK, Quiet
<1>2. /\ wire = <<>> /\ replies' = <<>> /\ link' # "down" /\ Len(<<>>) = 0
      /\ wire' = Append(wire, f) \/ wire' = wire
  BY <1>1 DEF Write
<1>3. /\ IsSeq(Append(wire, f)) /\ Len(Append(wire, f)) = Len(wire) + 1
      /\ Append(wire, f)[Len(wire) + 1] = f
  BY <1>1, AppendSeq
<1>4. CASE wire' = Append(wire, f)
  <2>1. Len(wire') = 1 /\ wire'[1] = f /\ IsSeq(wire')
    BY <1>2, <1>3, <1>4
  <2>. QED  BY <1>2, <2>1
<1>5. CASE wire' = wire
  BY <1>1, <1>2, <1>5
<1>. QED  BY <1>2, <1>4, <1>5

\* A state operation that is answered has left nothing.
LEMMA Answered ==
  ASSUME CoreInv, BrokenOK, pc \in {"loading", "saving"}, replies # <<>>
  PROVE  wire = <<>>
<1>1. IsSeq(wire) /\ IsSeq(replies) /\ Len(replies) + Len(wire) <= 1
  BY DEF CoreInv, MatchInv, BrokenOK
<1>2. Len(replies) \in Nat /\ Len(replies) # 0 /\ Len(wire) \in Nat
  <2>1. Len(replies) \in Nat /\ Len(wire) \in Nat
    BY <1>1 DEF IsSeq
  <2>2. Len(replies) # 0
    BY <1>1, NoneSeq
  <2>. QED  BY <2>1, <2>2
<1>3. Len(wire) = 0
  BY <1>1, <1>2
<1>. QED  BY <1>1, <1>3, NoneSeq

\* What a frame of a pass feeds.
LEMMA SendFed ==
  ASSUME CoreInv, HeadInv, SendFrame, NEW c \in Slot, c = cur
  PROVE  /\ Upto(c)' = phase[c].pos + Len(Feeds(c)) /\ Upto(c)' # 0 /\ slots' = slots
         /\ \A t \in Slot : t # c => SameFed(t) /\ (InSent(t)' <=> InSent(t))
         /\ InSent(c)'
<1>. DEFINE n == phase[c].pos  k == Len(Feeds(c))
<1>1. sent' = Append(sent, c)
  BY DEF SendFrame
<1>2. /\ slots' = slots /\ phase'[c].decoding = phase[c].decoding
      /\ phase'[c].pos = IF phase[c].decoding THEN n ELSE n + k
      /\ \A u \in Slot : u # c => Still(u)
  BY SentPhase DEF CoreInv
<1>3. phase[c].decoding => k = 1
  BY SendPhase DEF CoreInv
<1>4. \A t \in Slot : InSent(t)' <=> InSent(t) \/ t = c
  BY <1>1, SentMore
<1>5. n \in Nat /\ k \in Nat \ {0}
  BY SendRows
<1>6. Upto(c)' = n + k
  BY <1>2, <1>3, <1>4 DEF Upto
<1>7. n + k # 0
  BY <1>5
<1>. QED  BY <1>2, <1>4, <1>6, <1>7, StillFed

\* Only sending adds to what is under way.
LEMMA SentBack ==
  ASSUME CoreInv, [Next]_vars, ~SendFrame, NEW t \in Slot
  PROVE  InSent(t)' => InSent(t)
<1>1. sent \in Seq(Slot)
  BY DEF CoreInv, SplitInv
<1>2. sent' = sent \/ sent' = <<>> \/ (sent # <<>> /\ sent' = Tail(sent))
  <2>1. CASE Outside
    BY <2>1, OutsideKept DEF headVars
  <2>2. TakeCmds \/ AdmitSkip \/ AdmitLoad \/ SendNext \/ RecvOver \/ BarrierSave \/ BarrierSkip
        \/ SendFails \/ RecvFails \/ FlushPhase \/ FailPhase \/ Stop
          => sent' = sent \/ sent' = <<>>
    BY DEF TakeCmds, AdmitSkip, AdmitLoad, SendNext, RecvOver, BarrierSave, BarrierSkip, SendFails,
           RecvFails, Abort, FlushPhase, FailPhase, Stop
  <2>3. AdmitCold \/ AdmitLoaded \/ AdmitFails \/ BarrierFirst \/ BarrierSaved \/ BarrierSaveFails
          => sent' = sent
    BY DEF AdmitCold, AdmitLoaded, AdmitFails, Admitted, BarrierFirst, BarrierSaved, BarrierSaveFails
  <2>4. RecvFrame => sent # <<>> /\ sent' = Tail(sent)
    BY DEF RecvFrame
  <2>. QED  BY <2>1, <2>2, <2>3, <2>4, StepCases
<1>3. CASE sent' = <<>>
  BY <1>3 DEF InSent
<1>4. CASE sent # <<>> /\ sent' = Tail(sent)
  <2>. DEFINE n == Len(sent)
  <2>1. /\ n \in Nat \ {0} /\ Len(sent') = n - 1
        /\ \A i \in 1 .. n - 1 : sent'[i] = sent[i + 1] /\ i + 1 \in 1 .. n
    BY <1>1, <1>4
  <2>. HIDE DEF n
  <2>. QED  BY <2>1 DEF InSent, n
<1>. QED  BY <1>2, <1>3, <1>4 DEF InSent

LEMMA NextSentFed ==
  ASSUME CoreInv, HeadInv, SentFed, [Next]_vars
  PROVE  SentFed'
<1>. SUFFICES ASSUME NEW t \in Slot, InSent(t)' PROVE Upto(t)' # 0
  BY DEF SentFed
<1>1. Unfinished(t)'
  BY NextSent DEF InSent, SentOK
<1>2. PICK c \in Slot : c = cur
  BY DEF CoreInv, SplitInv
<1>3. CASE SendFrame
  <2>1. CASE t = c
    BY <1>2, <1>3, <2>1, SendFed
  <2>2. CASE t # c
    BY <1>1, <1>2, <1>3, <2>2, SendFed DEF SameFed, SentFed
  <2>. QED  BY <2>1, <2>2
<1>4. CASE ~SendFrame
  <2>1. InSent(t)
    BY <1>4, SentBack
  <2>2. CASE Steady
    BY <1>1, <2>1, <2>2, SteadyFed DEF SameFed, SentFed
  <2>3. CASE SendFails \/ RecvFails
    <3>1. sent' = <<>> /\ Len(<<>>) = 0
      BY <2>3 DEF SendFails, RecvFails, Abort
    <3>. QED  BY <3>1 DEF InSent
  <2>4. CASE AdmitCold \/ AdmitLoaded \/ AdmitFails
    <3>1. sent = <<>> /\ Len(<<>>) = 0
      BY <2>4 DEF AdmitCold, AdmitLoaded, AdmitFails, CanAdmit, CoreInv, MatchInv
    <3>. QED  BY <2>1, <3>1 DEF InSent
  <2>. QED  BY <1>4, <2>2, <2>3, <2>4, StepCases DEF Steady
<1>. QED  BY <1>3, <1>4

\* What a step of the head leaves on the wire: what was there, or one frame more.
LEMMA WireMore ==
  ASSUME CoreInv, [Next]_vars, ~Outside
  PROVE  \/ wire' = wire
         \/ \E f : IsFrame(f) /\ wire' = Append(wire, f)
<1>1. IsSeq(wire) /\ cur \in Slot
  BY DEF CoreInv, MatchInv, SplitInv
<1>2. CASE AdmitLoad
  <2>0. queue # <<>> /\ queue \in Seq(Request) /\ Usable(Prompt[Head(queue)]) # {}
    BY <1>2 DEF AdmitLoad, CanAdmit, CoreInv, SplitInv, FrontTypeOK
  <2>1. Best \in Snap /\ Write(StateFrame("load", cur, Best))
    <3>1. Head(queue) \in Request
      BY <2>0
    <3>2. BestSnap(Prompt[Head(queue)]) \in Snap
      BY <2>0, <3>1, BestUsable DEF CoreInv
    <3>. QED  BY <1>2, <3>2 DEF AdmitLoad, Best
  <2>2. IsFrame(StateFrame("load", cur, Best))
    BY <1>1, <2>1 DEF IsFrame, StateFrame
  <2>. QED  BY <2>1, <2>2 DEF Write
<1>3. CASE BarrierSave
  <2>1. PickEntry \in Snap /\ Write(StateFrame("save", cur, PickEntry))
    BY <1>3, PickIn DEF BarrierSave, CoreInv
  <2>2. IsFrame(StateFrame("save", cur, PickEntry))
    BY <1>1, <2>1 DEF IsFrame, StateFrame
  <2>. QED  BY <2>1, <2>2 DEF Write
<1>4. CASE SendFrame
  <2>1. Write(RunFrame(cur, phase[cur].pos, NextRows))
    BY <1>4 DEF SendFrame
  <2>2. IsFrame(RunFrame(cur, phase[cur].pos, NextRows))
    BY <1>1 DEF IsFrame, RunFrame
  <2>. QED  BY <2>1, <2>2 DEF Write
<1>5. TakeCmds \/ AdmitSkip \/ SendNext \/ RecvOver \/ BarrierSkip => wire' = wire
  BY DEF TakeCmds, AdmitSkip, SendNext, RecvOver, BarrierSkip, netVars
<1>6. SendFails \/ RecvFails \/ AdmitFails \/ BarrierSaveFails => wire' = wire
  BY DEF SendFails, RecvFails, AdmitFails, BarrierSaveFails, WriteFails, ReadFails, Poison
<1>7. FlushPhase \/ FailPhase \/ Stop \/ AdmitCold \/ AdmitLoaded => wire' = wire
  BY DEF FlushPhase, FailPhase, Stop, AdmitCold, AdmitLoaded, netVars
<1>8. RecvFrame \/ BarrierFirst \/ BarrierSaved => wire' = wire
  BY DEF RecvFrame, BarrierFirst, BarrierSaved, netVars
<1>. QED  BY <1>2, <1>3, <1>4, <1>5, <1>6, <1>7, <1>8, StepCases

LEMMA NextNetType ==
  ASSUME CoreInv, NetType, [Next]_vars
  PROVE  NetType'
<1>1. IsSeq(wire) /\ Len(wire) \in Nat
  BY DEF CoreInv, MatchInv, IsSeq
<1>2. ASSUME NEW f, IsFrame(f), wire' = Append(wire, f) PROVE \A j \in 1 .. Len(wire') : IsFrame(wire'[j])
  <2>1. /\ Len(wire') = Len(wire) + 1 /\ wire'[Len(wire) + 1] = f
        /\ \A j \in 1 .. Len(wire) : wire'[j] = wire[j]
    BY <1>1, <1>2, AppendSeq
  <2>2. \A j \in 1 .. Len(wire) + 1 : j = Len(wire) + 1 \/ j \in 1 .. Len(wire)
    BY <1>1
  <2>. QED  BY <1>2, <2>1, <2>2 DEF NetType
<1>3. CASE ~Outside
  BY <1>2, <1>3, HeadNet, WireMore DEF NetType, IsFrame
<1>4. CASE Network
  <2>1. CASE WorkerStep
    <3>1. wire # <<>> /\ wire' = Tail(wire) /\ faults' = faults
      BY <2>1 DEF WorkerStep
    <3>2. /\ Len(wire') = Len(wire) - 1
          /\ \A j \in 1 .. Len(wire) - 1 : wire'[j] = wire[j + 1] /\ j + 1 \in 1 .. Len(wire)
      BY <1>1, <3>1, TailSeq
    <3>3. IsFrame(Head(wire))
      <4>1. Head(wire) = wire[1] /\ Len(wire) \in Nat \ {0}
        BY <1>1, <3>1, TailSeq
      <4>2. 1 \in 1 .. Len(wire)
        BY <4>1
      <4>. QED  BY <4>1, <4>2 DEF NetType
    <3>4. \/ worker' = worker
          \/ \E s, x : worker' = [worker EXCEPT ![s] = x]
      BY <2>1, <3>3 DEF WorkerStep, IsFrame
    <3>5. \/ workerSnaps' = workerSnaps
          \/ \E i, x : workerSnaps' = [workerSnaps EXCEPT ![i] = x]
      BY <2>1 DEF WorkerStep
    <3>. QED  BY <3>1, <3>2, <3>4, <3>5 DEF NetType, IsFrame
  <2>2. CASE WorkerGivesUp
    <3>1. wire' = <<>> /\ UNCHANGED <<worker, workerSnaps, faults>> /\ Len(<<>>) = 0
      BY <2>2 DEF WorkerGivesUp
    <3>. QED  BY <3>1 DEF NetType
  <2>3. CASE Break
    BY <2>3 DEF Break, NetType, IsFrame
  <2>4. CASE Restart
    <3>1. wire' = <<>> /\ Len(<<>>) = 0
      BY <2>4 DEF Restart
    <3>. QED  BY <2>4, <3>1 DEF Restart, NetType
  <2>. QED  BY <1>4, <2>1, <2>2, <2>3, <2>4 DEF Network
<1>5. CASE UNCHANGED netVars
  BY <1>5 DEF netVars, NetType, IsFrame
<1>. QED  BY <1>3, <1>4, <1>5 DEF Outside, splitVars, vars

LEMMA NextBroken ==
  ASSUME CoreInv, BrokenOK, [Next]_vars
  PROVE  BrokenOK'
<1>1. /\ IsSeq(wire) /\ IsSeq(replies) /\ IsSeq(sent) /\ Len(wire) \in Nat /\ Len(replies) \in Nat
      /\ Len(sent) \in Nat /\ pc \in Phases /\ link \in {"down", "up", "broken"}
  BY DEF CoreInv, MatchInv, IsSeq
<1>2. /\ pc \notin {"send", "recv", "loading", "saving"} =>
           replies = <<>> /\ (link = "up" => wire = <<>>)
      /\ pc \notin {"send", "recv"} => sent = <<>>
      /\ InPass => /\ Len(replies) <= Len(sent)
                   /\ link = "up" => Len(replies) + Len(wire) = Len(sent)
  BY DEF CoreInv, MatchInv, PassMatched, InPass
<1>3. link' = "down" /\ pc' \in Quiet => BrokenOK'
  BY DEF BrokenOK, Quiet, InPass
<1>4. CASE TakeCmds \/ FlushPhase \/ SendNext \/ AdmitSkip \/ AdmitCold \/ FailPhase \/ BarrierFirst
           \/ BarrierSkip
  <2>1. UNCHANGED <<link, wire, replies, sent>>
    BY <1>4 DEF TakeCmds, FlushPhase, SendNext, AdmitSkip, AdmitCold, Admitted, FailPhase,
                BarrierFirst, BarrierSkip, netVars
  <2>2. \/ pc \in Quiet /\ pc' \in Quiet \cup {"send"}
        \/ InPass /\ InPass'
    BY <1>4 DEF TakeCmds, FlushPhase, SendNext, AdmitSkip, AdmitCold, CanAdmit, Admitted, Advance,
                FailPhase, BarrierFirst, BarrierSkip, BarrierNext, Quiet, InPass
  <2>. QED  BY <2>1, <2>2 DEF BrokenOK, Quiet, InPass
<1>5. CASE RecvOver
  <2>1. UNCHANGED <<link, wire, replies, sent>> /\ pc = "recv" /\ pc' = "barrier" /\ sent = <<>>
    BY <1>5 DEF RecvOver, netVars
  <2>2. Len(sent) = 0
    BY <2>1
  <2>3. Len(replies) = Len(sent) /\ InPass
    BY <1>1, <1>2, <2>1, <2>2 DEF InPass
  <2>. QED  BY <2>1, <2>3 DEF BrokenOK, Quiet, InPass
<1>6. CASE AdmitLoad \/ BarrierSave
  <2>1. pc \in Quiet /\ pc' \in {"loading", "saving"} /\ \E f : Write(f)
    BY <1>6 DEF AdmitLoad, CanAdmit, BarrierSave, Quiet
  <2>2. Len(replies') = 0 /\ link' # "down" /\ Len(wire') <= 1 /\ IsSeq(wire')
    BY <2>1, Asked
  <2>3. Len(replies') + Len(wire') <= 1
    BY <2>2 DEF IsSeq
  <2>. QED  BY <2>1, <2>2, <2>3 DEF BrokenOK, InPass, Quiet
<1>7. CASE AdmitLoaded \/ BarrierSaved
  <2>1. pc \in {"loading", "saving"} /\ replies # <<>> /\ pc' \in {"admit", "flush", "barrier"} /\ wire' = wire
    BY <1>7 DEF AdmitLoaded, Admitted, Advance, BarrierSaved
  <2>2. wire = <<>>
    BY <2>1, Answered
  <2>. QED  BY <2>1, <2>2 DEF BrokenOK, InPass, Quiet
<1>8. CASE SendFails \/ RecvFails \/ AdmitFails \/ BarrierSaveFails \/ Stop
  <2>1. link' = "down"
    BY <1>8 DEF SendFails, RecvFails, AdmitFails, BarrierSaveFails, WriteFails, ReadFails, Poison, Stop
  <2>2. pc' \in Quiet
    BY <1>8 DEF SendFails, RecvFails, Abort, AdmitFails, Admitted, Advance, BarrierSaveFails, Stop, Quiet
  <2>. QED  BY <1>3, <2>1, <2>2
<1>9. CASE SendFrame
  <2>1. /\ pc = "send" /\ pc' = pc /\ replies' = replies /\ Len(sent') = Len(sent) + 1
        /\ link' = "broken" => link = "broken" /\ wire' = wire
    BY <1>1, <1>9, AppendSeq DEF SendFrame, Write
  <2>2. Len(replies') # Len(sent')
    BY <1>1, <1>2, <2>1 DEF InPass
  <2>. QED  BY <2>1, <2>2 DEF BrokenOK, InPass, Quiet
<1>10. CASE RecvFrame
  <2>1. /\ pc = "recv" /\ pc' = pc /\ link' = link /\ wire' = wire
        /\ Len(sent') = Len(sent) - 1 /\ Len(replies') = Len(replies) - 1
    BY <1>1, <1>10, TailSeq DEF RecvFrame
  <2>2. Len(replies') = Len(sent') => Len(replies) = Len(sent)
    BY <1>1, <2>1
  <2>. QED  BY <2>1, <2>2 DEF BrokenOK, InPass, Quiet
<1>11. CASE Network /\ UNCHANGED <<frontVars, headVars>>
  <2>0. pc' = pc /\ sent' = sent
    BY <1>11 DEF headVars
  <2>1. CASE WorkerStep
    <3>1. wire # <<>> /\ wire' = Tail(wire) /\ link' = link
          /\ (link # "up" => replies' = replies)
          /\ \E x : replies' = Append(replies, x) \/ replies' = replies
      BY <2>1 DEF WorkerStep
    <3>2. Len(wire') = Len(wire) - 1 /\ Len(replies') \in {Len(replies), Len(replies) + 1}
      BY <1>1, <3>1, TailSeq, AppendSeq
    <3>3. Len(replies) + Len(wire) <= 1 => Len(replies') + Len(wire') <= 1
      BY <1>1, <3>2
    <3>. QED  BY <2>0, <3>1, <3>3 DEF BrokenOK, InPass, Quiet
  <2>2. CASE WorkerGivesUp
    <3>1. wire' = <<>> /\ Len(wire') = 0 /\ replies' = replies /\ link' = link
      BY <2>2 DEF WorkerGivesUp
    <3>2. Len(replies) + Len(wire) <= 1 => Len(replies') + Len(wire') <= 1
      BY <1>1, <3>1
    <3>. QED  BY <2>0, <3>1, <3>2 DEF BrokenOK, InPass, Quiet
  <2>3. CASE Break \/ Restart
    <3>1. PICK n \in 0 .. Len(replies) : replies' = SubSeq(replies, 1, n)
      BY <2>3 DEF Break, Restart
    <3>2. Len(replies') = n
      BY <1>1, <3>1, PrefixSeq
    <3>3. CASE Break
      <4>1. link = "up" /\ link' = "broken" /\ wire' = wire
        BY <3>3 DEF Break
      <4>2. InPass /\ Len(replies') = Len(sent') => Len(wire) = 0
        BY <1>1, <1>2, <2>0, <3>2, <4>1
      <4>3. Len(wire) = 0 => wire = <<>>
        BY <1>1, NoneSeq
      <4>4. Len(replies) + Len(wire) <= 1 => Len(replies') + Len(wire') <= 1
        BY <1>1, <3>1, <3>2, <4>1
      <4>5. pc \in Quiet => wire = <<>>
        BY <1>2, <4>1 DEF Quiet
      <4>. QED  BY <2>0, <4>1, <4>2, <4>3, <4>4, <4>5 DEF BrokenOK, InPass
    <3>4. CASE Restart
      <4>1. wire' = <<>> /\ link' = (IF link = "up" THEN "broken" ELSE link) /\ Len(<<>>) = 0
        BY <3>4 DEF Restart
      <4>2. Len(replies) + Len(wire) <= 1 => Len(replies') + Len(wire') <= 1
        BY <1>1, <3>1, <3>2, <4>1
      <4>. QED  BY <2>0, <4>1, <4>2 DEF BrokenOK, InPass
    <3>. QED  BY <2>3, <3>3, <3>4
  <2>. QED  BY <1>11, <2>1, <2>2, <2>3 DEF Network
<1>12. CASE UNCHANGED <<pc, link, wire, replies, sent>>
  BY <1>12 DEF BrokenOK, InPass
<1>13. CASE Outside
  BY <1>11, <1>12, <1>13 DEF Outside, splitVars, vars, headVars, netVars
<1>. QED  BY <1>4, <1>5, <1>6, <1>7, <1>8, <1>9, <1>10, <1>13, StepCases

LEMMA InitLink == Init => LinkInv
<1>. SUFFICES ASSUME Init PROVE LinkInv
  OBVIOUS
<1>1. wire = <<>> /\ replies = <<>> /\ sent = <<>> /\ Len(<<>>) = 0 /\ link = "down" /\ pc = "top"
  BY DEF Init
<1>2. faults \in [breaks : Nat, restarts : Nat] /\ DOMAIN worker = Slot /\ DOMAIN workerSnaps = Snap
  BY DEF Init
<1>. QED  BY <1>1, <1>2 DEF LinkInv, NetType, BrokenOK, InPass, SentFed, InSent, Quiet

LEMMA NextLink == CoreInv /\ HeadInv /\ LinkInv /\ [Next]_vars => LinkInv'
BY NextNetType, NextBroken, NextSentFed DEF LinkInv

-------------------------------------------------------------------------------
(* The worker's half, as long as it does not restart.                         *)

Fed(s) == Hist(slots[s].req, Upto(s))

\* When the worker has read the first k frames, its state of slot s is x.
After(s, k, x) ==
  /\ \A j \in 1 .. k :
       wire[j].slot = s /\ (\A i \in j + 1 .. k : wire[i].slot # s) => wire[j].rows = x
  /\ (\A j \in 1 .. k : wire[j].slot # s) => worker[s] = x

\* The frames the worker is going to read for the head, those of a pass.
Ahead == IF InPass /\ link = "up" THEN Len(wire) ELSE 0

\* The pass cannot succeed any more: a frame's answer is lost.
Lost == pc = "fail" \/ (InPass /\ link = "broken" /\ Len(replies) # Len(sent))

\* A slot that goes on is held by the worker, once it has read what is ahead.
WorkerOK(s) == Unfinished(s) /\ ~Lost => Upto(s) = 0 \/ After(s, Ahead, Fed(s))

\* Frame j of a pass continues what the frames before it leave.
FrameOK(j) ==
  LET f == wire[j]  r == slots[f.slot].req IN
  \E n \in Nat \ {0} : /\ f.base \in Nat /\ f.base < n /\ f.rows = Hist(r, n)
                       /\ f.base = 0 \/ After(f.slot, j - 1, Hist(r, f.base))

\* The answer to a slot's last frame is the whole of what it was fed.
ReplyOK(i) == (\A k \in i + 1 .. Len(sent) : sent[k] # sent[i]) => replies[i].rows = Fed(sent[i])

\* ... and a prefill keeps it until its first token is sampled.
LastOK(s) ==
  Unfinished(s) /\ ~phase[s].decoding /\ phase[s].pos = Len(PromptOf(s)) /\ ~InSent(s) /\ pc # "fail"
    => phase[s].last = PromptOf(s)

\* What is left of a lost connection harms no slot and no entry in use.
StaleOK(f) ==
  /\ f.op = "save" => ~Whole(f.idx)
  /\ f.op # "save" /\ ~Lost /\ ~(InPass /\ link = "up") => ~Unfinished(f.slot) \/ Upto(f.slot) = 0

\* Where an operation on a snapshot waits: the frame asked, or its work done.
AskedOK ==
  /\ pc = "loading" => /\ \A j \in 1 .. Len(wire) : wire[j] = StateFrame("load", cur, Best)
                       /\ replies # <<>> => worker[cur] = workerSnaps[Best]
  /\ pc = "saving" => /\ \A j \in 1 .. Len(wire) : wire[j] = StateFrame("save", cur, PickEntry)
                      /\ replies # <<>> => workerSnaps[PickEntry] = worker[cur]

PassOK == /\ InPass /\ link = "up" => \A j \in 1 .. Len(wire) : FrameOK(j)
          /\ InPass => \A i \in 1 .. Len(replies) : ReplyOK(i)
SlotsOK == \A s \in Slot : LastOK(s) /\ WorkerOK(s)
EntriesOK == \A i \in Snap : Whole(i) => workerSnaps[i] = snaps[i].tokens
WiresOK == \A j \in 1 .. Len(wire) : StaleOK(wire[j])

WorkerInv == PassOK /\ SlotsOK /\ EntriesOK /\ WiresOK /\ AskedOK

LEMMA AfterNone ==
  ASSUME NEW s, NEW k, k = 0, NEW x
  PROVE  After(s, k, x) <=> worker[s] = x
BY DEF After

LEMMA AfterKept ==
  ASSUME NEW s, NEW k \in Nat, NEW x, worker'[s] = worker[s],
         \A j \in 1 .. k : wire'[j] = wire[j]
  PROVE  After(s, k, x)' <=> After(s, k, x)
<1>1. \A j \in 1 .. k : \A i \in j + 1 .. k : i \in 1 .. k
  OBVIOUS
<1>. QED  BY <1>1 DEF After

\* A frame goes out.
LEMMA AfterMore ==
  ASSUME IsSeq(wire), NEW f, wire' = Append(wire, f), worker' = worker, NEW s, NEW x,
         NEW n, n = Len(wire)
  PROVE  /\ n \in Nat /\ Len(wire') = n + 1 /\ wire'[n + 1] = f
         /\ \A j \in 1 .. n : wire'[j] = wire[j]
         /\ s # f.slot /\ After(s, n, x) => After(s, n + 1, x)'
         /\ s = f.slot /\ f.rows = x => After(s, n + 1, x)'
<1>1. /\ n \in Nat /\ Len(wire') = n + 1 /\ wire'[n + 1] = f
      /\ \A j \in 1 .. n : wire'[j] = wire[j]
  BY AppendSeq
<1>2. /\ \A j \in 1 .. n + 1 : j = n + 1 \/ j \in 1 .. n
      /\ \A j \in 1 .. n : j \in 1 .. n + 1 /\ n + 1 \in j + 1 .. n + 1
                           /\ \A i \in j + 1 .. n : i \in j + 1 .. n + 1 /\ i \in 1 .. n
      /\ n + 1 \in 1 .. n + 1
  BY <1>1
<1>3. ASSUME s # f.slot, After(s, n, x) PROVE After(s, n + 1, x)'
  <2>1. ASSUME NEW j \in 1 .. n + 1, wire'[j].slot = s, \A i \in j + 1 .. n + 1 : wire'[i].slot # s
        PROVE  wire'[j].rows = x
    <3>1. j \in 1 .. n
      BY <1>1, <1>2, <1>3, <2>1
    <3>2. \A i \in j + 1 .. n : wire[i].slot # s
      BY <1>1, <1>2, <2>1, <3>1
    <3>. QED  BY <1>1, <1>3, <2>1, <3>1, <3>2 DEF After
  <2>2. ASSUME \A j \in 1 .. n + 1 : wire'[j].slot # s PROVE worker'[s] = x
    BY <1>1, <1>2, <1>3, <2>2 DEF After
  <2>. QED  BY <2>1, <2>2 DEF After
<1>4. ASSUME s = f.slot, f.rows = x PROVE After(s, n + 1, x)'
  <2>1. ASSUME NEW j \in 1 .. n + 1, wire'[j].slot = s, \A i \in j + 1 .. n + 1 : wire'[i].slot # s
        PROVE  wire'[j].rows = x
    BY <1>1, <1>2, <1>4, <2>1
  <2>2. ~(\A j \in 1 .. n + 1 : wire'[j].slot # s)
    BY <1>1, <1>2, <1>4
  <2>. QED  BY <2>1, <2>2 DEF After
<1>. QED  BY <1>1, <1>3, <1>4

\* The worker reads a frame of a pass: the state its rows say.
LEMMA AfterStep ==
  ASSUME IsSeq(wire), wire # <<>>, wire' = Tail(wire), NEW f, f = wire[1], f.slot \in DOMAIN worker,
         worker' = [worker EXCEPT ![f.slot] = f.rows],
         NEW s \in DOMAIN worker, NEW k \in 1 .. Len(wire), NEW x, After(s, k, x)
  PROVE  After(s, k - 1, x)'
<1>1. /\ Len(wire) \in Nat \ {0} /\ Len(wire') = Len(wire) - 1
      /\ \A j \in 1 .. Len(wire) - 1 : wire'[j] = wire[j + 1]
  BY TailSeq
<1>2. /\ 1 \in 1 .. k /\ \A j \in 1 .. k - 1 : j \in 1 .. Len(wire) - 1 /\ j + 1 \in 1 .. k
      /\ \A j \in 1 .. k - 1 : \A i \in (j + 1) + 1 .. k : i - 1 \in j + 1 .. k - 1 /\ (i - 1) + 1 = i
                                                    /\ i - 1 \in 1 .. Len(wire) - 1
      /\ \A i \in 2 .. k : i - 1 \in 1 .. k - 1 /\ (i - 1) + 1 = i /\ i - 1 \in 1 .. Len(wire) - 1
      /\ \A i \in 1 .. k : i = 1 \/ i \in 2 .. k
      /\ 1 + 1 = 2
  BY <1>1
<1>3. ASSUME NEW j \in 1 .. k - 1, wire'[j].slot = s, \A i \in j + 1 .. k - 1 : wire'[i].slot # s
      PROVE  wire'[j].rows = x
  <2>1. wire[j + 1].slot = s /\ j + 1 \in 1 .. k /\ wire'[j] = wire[j + 1]
    BY <1>1, <1>2, <1>3
  <2>2. ASSUME NEW i \in (j + 1) + 1 .. k PROVE wire[i].slot # s
    <3>1. wire'[i - 1] = wire[i] /\ i - 1 \in j + 1 .. k - 1
      BY <1>1, <1>2
    <3>. QED  BY <1>3, <3>1
  <2>. QED  BY <2>1, <2>2 DEF After
<1>4. ASSUME \A j \in 1 .. k - 1 : wire'[j].slot # s PROVE worker'[s] = x
  <2>1. ASSUME NEW i \in 2 .. k PROVE wire[i].slot # s
    <3>1. wire'[i - 1] = wire[i] /\ i - 1 \in 1 .. k - 1
      BY <1>1, <1>2
    <3>. QED  BY <1>4, <3>1
  <2>2. CASE f.slot = s
    <3>1. wire[1].rows = x
      BY <1>2, <2>1, <2>2 DEF After
    <3>. QED  BY <2>2, <3>1
  <2>3. CASE f.slot # s
    <3>1. worker[s] = x
      BY <1>2, <2>1, <2>3 DEF After
    <3>. QED  BY <2>3, <3>1
  <2>. QED  BY <2>2, <2>3
<1>. QED  BY <1>3, <1>4 DEF After

-------------------------------------------------------------------------------
(* The worker and the network keep it.                                        *)

\* What is not said of the connection stays, when the head does nothing.
LEMMA SameHead ==
  ASSUME UNCHANGED <<queue, slots, headVars>>
  PROVE  /\ pc' = pc /\ sent' = sent /\ cur' = cur /\ snaps' = snaps
         /\ InPass' <=> InPass
         /\ Best' = Best /\ PickEntry' = PickEntry
         /\ \A i : Whole(i)' <=> Whole(i)
         /\ \A s : /\ Unfinished(s)' <=> Unfinished(s)
                   /\ Upto(s)' = Upto(s) /\ Fed(s)' = Fed(s) /\ slots'[s] = slots[s]
                   /\ LastOK(s) => LastOK(s)'
<1>1. UNCHANGED <<pc, sent, cur, snaps, phase, slots, queue>>
  BY DEF headVars
<1>2. \A s : (Unfinished(s)' <=> Unfinished(s)) /\ (InSent(s)' <=> InSent(s)) /\ PromptOf(s)' = PromptOf(s)
  BY <1>1 DEF Unfinished, Occupied, InSent, PromptOf
<1>3. \A s : Upto(s)' = Upto(s)
  BY <1>1, <1>2 DEF Upto
<1>4. \A s : Fed(s)' = Fed(s)
  BY <1>1, <1>3 DEF Fed, Hist
<1>5. \A s : LastOK(s) => LastOK(s)'
  BY <1>1, <1>2 DEF LastOK
<1>6. Best' = Best /\ PickEntry' = PickEntry
  BY <1>1 DEF Best, BestSnap, Usable, PickEntry
<1>7. \A i : Whole(i)' <=> Whole(i)
  BY <1>1, <1>6 DEF Whole
<1>. QED  BY <1>1, <1>2, <1>3, <1>4, <1>5, <1>6, <1>7 DEF InPass

\* The frame the worker reads in a pass continues its state.
LEMMA ReadFrame ==
  ASSUME CoreInv, LinkInv, WorkerInv, WorkerStep, InPass, link = "up",
         NEW f, f = wire[1], NEW s, s = f.slot
  PROVE  /\ s \in Slot /\ Unfinished(s) /\ Len(replies) + 1 \in 1 .. Len(sent)
         /\ s = sent[Len(replies) + 1] /\ InSent(s)
         /\ worker' = [worker EXCEPT ![s] = f.rows] /\ workerSnaps' = workerSnaps
         /\ \E a : replies' = Append(replies, a) /\ a.rows = f.rows
         /\ link' = link
<1>1. wire # <<>> /\ IsSeq(wire) /\ IsSeq(replies) /\ IsSeq(sent) /\ PassMatched
  BY DEF WorkerStep, CoreInv, MatchInv, InPass
<1>2. Head(wire) = f /\ Len(wire) \in Nat \ {0} /\ Len(replies) \in Nat /\ Len(sent) \in Nat
  BY <1>1, TailSeq DEF IsSeq
<1>3. Len(replies) + Len(wire) = Len(sent) /\ 1 \in 1 .. Len(wire)
  BY <1>1, <1>2 DEF PassMatched
<1>4. f.op = "run" /\ s = sent[Len(replies) + 1] /\ Len(replies) + 1 \in 1 .. Len(sent)
  BY <1>1, <1>2, <1>3 DEF PassMatched, RunOf
<1>5. Unfinished(s) /\ InSent(s) /\ s \in Slot
  BY <1>3, <1>4 DEF CoreInv, PhaseInv, SentOK, InSent, LinkInv, NetType, IsFrame
<1>6. WorkerRun(worker[s], f) = f.rows
  <2>. DEFINE r == slots[s].req  b == f.base
  <2>1. r \in Request
    BY <1>5 DEF CoreInv, SplitInv, FrontTypeOK, SlotState, Unfinished, Occupied
  <2>2. PICK n \in Nat \ {0} : /\ b \in Nat /\ b < n /\ f.rows = Hist(r, n)
                               /\ b = 0 \/ After(s, 1 - 1, Hist(r, b))
    BY <1>3 DEF WorkerInv, PassOK, FrameOK
  <2>3. CASE b = 0
    BY <2>3 DEF WorkerRun
  <2>4. CASE b # 0
    <3>1. worker[s] = Hist(r, b)
      BY <2>2, <2>4, AfterNone
    <3>2. SubSeq(f.rows, 1, b) = Hist(r, b)
      <4>1. n \in Nat /\ b \in 0 .. n
        BY <2>2
      <4>. QED  BY <2>1, <2>2, <4>1, HistPrefix, SMTT(60)
    <3>3. f.rows # Junk
      <4>1. Len(f.rows) = n /\ Len(Junk) = 1 /\ n # 1
        BY <2>1, <2>2, <2>4, HistType DEF Junk
      <4>. QED  BY <4>1
    <3>. QED  BY <3>1, <3>2, <3>3 DEF WorkerRun
  <2>. QED  BY <2>3, <2>4
<1>7. /\ worker' = [worker EXCEPT ![s] = WorkerRun(worker[s], f)] /\ workerSnaps' = workerSnaps
      /\ replies' = Append(replies, Reply(f, WorkerRun(worker[s], f))) /\ link' = link
  BY <1>2, <1>4 DEF WorkerStep
<1>8. Reply(f, f.rows).rows = f.rows
  BY DEF Reply
<1>. QED  BY <1>4, <1>5, <1>6, <1>7, <1>8

LEMMA WorkerPass ==
  ASSUME CoreInv, LinkInv, WorkerInv, WorkerStep, UNCHANGED <<queue, slots, headVars>>,
         InPass, link = "up"
  PROVE  WorkerInv'
<1>. DEFINE f == wire[1]  s == f.slot  m == Len(replies) + 1
<1>1. wire # <<>> /\ wire' = Tail(wire) /\ IsSeq(wire) /\ IsSeq(replies) /\ IsSeq(sent) /\ PassMatched
  BY DEF WorkerStep, CoreInv, MatchInv, InPass
<1>2. /\ Len(wire) \in Nat \ {0} /\ Len(wire') = Len(wire) - 1
      /\ \A j \in 1 .. Len(wire) - 1 : wire'[j] = wire[j + 1] /\ j + 1 \in 1 .. Len(wire)
      /\ Len(wire) \in 1 .. Len(wire) /\ 1 \in 1 .. Len(wire)
  BY <1>1, TailSeq
<1>3. /\ s \in Slot /\ Unfinished(s) /\ m \in 1 .. Len(sent) /\ s = sent[m] /\ InSent(s)
      /\ worker' = [worker EXCEPT ![s] = f.rows] /\ workerSnaps' = workerSnaps
      /\ link' = link
  BY ReadFrame
<1>4. PICK a : replies' = Append(replies, a) /\ a.rows = f.rows
  BY ReadFrame
<1>5. DOMAIN worker = Slot /\ SentFed
  BY DEF LinkInv, NetType
<1>6. ASSUME NEW t \in Slot, NEW k \in 1 .. Len(wire), NEW x, After(t, k, x) PROVE After(t, k - 1, x)'
  BY <1>1, <1>3, <1>5, <1>6, AfterStep
<1>7. pc # "fail" /\ ~Lost /\ Ahead = Len(wire) /\ ~Lost' /\ Ahead' = Len(wire') /\ (InPass' /\ link' = "up")
  BY <1>3, SameHead DEF InPass, Lost, Ahead
<1>8. PassOK'
  <2>1. ASSUME NEW j \in 1 .. Len(wire') PROVE FrameOK(j)'
    <3>1. PICK g : g = wire[j + 1]
      OBVIOUS
    <3>2. g = wire'[j] /\ j + 1 \in 1 .. Len(wire) /\ j \in 1 .. Len(wire) /\ (j + 1) - 1 = j
      BY <1>2, <3>1
    <3>3. PICK r : r = slots[g.slot].req /\ r = slots'[g.slot].req
      OBVIOUS
    <3>4. PICK n \in Nat \ {0} : /\ g.base \in Nat /\ g.base < n /\ g.rows = Hist(r, n)
                                 /\ g.base = 0 \/ After(g.slot, j, Hist(r, g.base))
      BY <1>7, <3>1, <3>2, <3>3 DEF WorkerInv, PassOK, FrameOK, Ahead
    <3>5. g.slot \in Slot
      BY <3>1, <3>2 DEF LinkInv, NetType, IsFrame
    <3>6. PICK x : x = Hist(r, g.base)
      OBVIOUS
    <3>7. g.base = 0 \/ After(g.slot, j - 1, x)'
      BY <1>6, <3>2, <3>4, <3>5, <3>6
    <3>. QED  BY <3>2, <3>3, <3>4, <3>6, <3>7, ZenonT(60) DEF FrameOK, After, Hist
  <2>2. ASSUME NEW i \in 1 .. Len(replies') PROVE ReplyOK(i)'
    <3>1. i = m \/ i \in 1 .. Len(replies)
      BY <1>1, <1>4, AppendSeq
    <3>2. CASE i \in 1 .. Len(replies)
      <4>1. replies'[i] = replies[i] /\ ReplyOK(i)
        BY <1>1, <1>4, <3>2, AppendSeq DEF WorkerInv, PassOK
      <4>. QED  BY <4>1, SameHead DEF ReplyOK
    <3>3. CASE i = m
      <4>. SUFFICES ASSUME \A k \in m + 1 .. Len(sent) : sent[k] # s PROVE replies'[i].rows = Fed(s)
        BY <1>3, <3>3, SameHead DEF ReplyOK
      <4>1. replies'[i].rows = f.rows
        BY <1>1, <1>4, <3>3, AppendSeq
      <4>2. After(s, Len(wire), Fed(s))
        BY <1>3, <1>5, <1>7 DEF WorkerInv, SlotsOK, WorkerOK, SentFed
      <4>3. ASSUME NEW l \in 1 + 1 .. Len(wire) PROVE wire[l].slot # s
        <5>1. /\ l \in 1 .. Len(wire) /\ Len(replies) + l \in m + 1 .. Len(sent)
              /\ Len(replies) + Len(wire) = Len(sent)
          <6>1. Len(replies) \in Nat /\ Len(sent) \in Nat /\ Len(replies) + Len(wire) = Len(sent)
            BY <1>1, <1>7 DEF PassMatched, IsSeq
          <6>. QED  BY <1>2, <6>1
        <5>2. wire[l].slot = sent[Len(replies) + l]
          BY <1>1, <1>7, <5>1 DEF PassMatched, RunOf
        <5>. QED  BY <5>1, <5>2
      <4>4. f.rows = Fed(s)
        BY <1>2, <4>2, <4>3 DEF After
      <4>. QED  BY <4>1, <4>4
    <3>. QED  BY <3>1, <3>2, <3>3
  <2>. QED  BY <2>1, <2>2 DEF PassOK
<1>9. SlotsOK'
  <2>. SUFFICES ASSUME NEW t \in Slot PROVE LastOK(t)' /\ WorkerOK(t)'
    BY DEF SlotsOK
  <2>1. LastOK(t)'
    BY SameHead DEF WorkerInv, SlotsOK
  <2>2. Unfinished(t) => Upto(t) = 0 \/ After(t, Len(wire), Fed(t))
    BY <1>7 DEF WorkerInv, SlotsOK, WorkerOK
  <2>3. PICK x : x = Fed(t) /\ x = Fed(t)'
    BY SameHead
  <2>4. PICK k : k = Len(wire) /\ k - 1 = Len(wire')
    BY <1>2
  <2>5. Unfinished(t) => Upto(t) = 0 \/ After(t, k - 1, x)'
    BY <1>2, <1>6, <2>2, <2>3, <2>4
  <2>6. WorkerOK(t)'
    BY <1>7, <2>3, <2>4, <2>5, SameHead DEF WorkerOK, After
  <2>. QED  BY <2>1, <2>6
<1>10. EntriesOK'
  BY <1>3, SameHead DEF WorkerInv, EntriesOK
<1>11. WiresOK'
  BY <1>2, <1>7, SameHead DEF WorkerInv, WiresOK, StaleOK
<1>12. AskedOK'
  BY SameHead DEF AskedOK, InPass
<1>. QED  BY <1>8, <1>9, <1>10, <1>11, <1>12 DEF WorkerInv

\* What makes a frame one of a pass.
LEMMA FrameIs ==
  ASSUME NEW j, NEW f, f = wire'[j], NEW r, r = slots'[f.slot].req,
         NEW n \in Nat \ {0}, f.base \in Nat, f.base < n, f.rows = Hist(r, n),
         NEW x, x = Hist(r, f.base), f.base = 0 \/ After(f.slot, j - 1, x)'
  PROVE  FrameOK(j)'
BY DEF FrameOK, After, Hist

\* A frame of a pass that stays where it is.
LEMMA FrameKept ==
  ASSUME NEW j \in Nat \ {0}, FrameOK(j), \A i \in 1 .. j : wire'[i] = wire[i], worker' = worker,
         slots'[wire[j].slot].req = slots[wire[j].slot].req
  PROVE  FrameOK(j)'
<1>1. PICK f : f = wire[j] /\ f = wire'[j]
  OBVIOUS
<1>2. PICK r : r = slots[f.slot].req /\ r = slots'[f.slot].req
  BY <1>1
<1>3. PICK n \in Nat \ {0} : /\ f.base \in Nat /\ f.base < n /\ f.rows = Hist(r, n)
                             /\ f.base = 0 \/ After(f.slot, j - 1, Hist(r, f.base))
  BY <1>1, <1>2 DEF FrameOK
<1>4. PICK x : x = Hist(r, f.base)
  OBVIOUS
<1>5. f.base = 0 \/ After(f.slot, j - 1, x)'
  BY <1>3, <1>4, AfterKept
<1>. QED  BY <1>1, <1>2, <1>3, <1>4, <1>5, FrameIs

\* Any other frame the worker reads is an operation on a snapshot, or stale.
LEMMA WorkerApart ==
  ASSUME CoreInv, LinkInv, WorkerInv, WorkerStep, UNCHANGED <<queue, slots, headVars>>,
         ~(InPass /\ link = "up")
  PROVE  WorkerInv'
<1>1. /\ wire # <<>> /\ wire' = Tail(wire) /\ link' = link /\ IsSeq(wire)
      /\ link # "up" => replies' = replies
  BY DEF WorkerStep, CoreInv, MatchInv
<1>2. /\ Len(wire) \in Nat \ {0} /\ Len(wire') = Len(wire) - 1 /\ Head(wire) = wire[1]
      /\ \A j \in 1 .. Len(wire) - 1 : wire'[j] = wire[j + 1] /\ j + 1 \in 1 .. Len(wire)
      /\ 1 \in 1 .. Len(wire)
  BY <1>1, TailSeq
<1>3. PICK f : f = wire[1]
  OBVIOUS
<1>4. IsFrame(f) /\ StaleOK(f)
  BY <1>2, <1>3 DEF LinkInv, NetType, WorkerInv, WiresOK
<1>5. /\ f.op = "run" => workerSnaps' = workerSnaps
                         /\ \E x : worker' = [worker EXCEPT ![f.slot] = x]
      /\ f.op = "load" => workerSnaps' = workerSnaps
                          /\ worker' = [worker EXCEPT ![f.slot] = workerSnaps[f.idx]]
      /\ f.op = "save" => worker' = worker
                          /\ workerSnaps' = [workerSnaps EXCEPT ![f.idx] = worker[f.slot]]
  BY <1>2, <1>3 DEF WorkerStep
<1>6. ~(pc \in Quiet /\ link = "up")
  BY <1>1 DEF CoreInv, MatchInv, Quiet
<1>7. Lost' <=> Lost
  BY <1>1, SameHead DEF Lost, InPass
<1>8. Ahead = 0 /\ Ahead' = 0 /\ ~(InPass' /\ link' = "up")
  BY <1>1, SameHead DEF Ahead
<1>9. PassOK'
  <2>. SUFFICES ASSUME InPass', NEW i \in 1 .. Len(replies') PROVE ReplyOK(i)'
    BY <1>8 DEF PassOK
  <2>1. replies' = replies /\ ReplyOK(i)
    BY <1>1, SameHead DEF WorkerInv, PassOK
  <2>. QED  BY <2>1, SameHead DEF ReplyOK
<1>10. SlotsOK'
  <2>. SUFFICES ASSUME NEW t \in Slot PROVE LastOK(t)' /\ WorkerOK(t)'
    BY DEF SlotsOK
  <2>1. LastOK(t)'
    BY SameHead DEF WorkerInv, SlotsOK
  <2>2. WorkerOK(t)'
    <3>. SUFFICES ASSUME Unfinished(t), ~Lost, Upto(t) # 0 PROVE After(t, 0, Fed(t))'
      BY <1>7, <1>8, SameHead DEF WorkerOK, After
    <3>1. worker[t] = Fed(t)
      BY <1>8, AfterNone DEF WorkerInv, SlotsOK, WorkerOK
    <3>2. f.op = "save" \/ f.slot # t
      BY <1>4 DEF StaleOK
    <3>3. worker'[t] = worker[t]
      BY <1>4, <1>5, <3>2 DEF IsFrame, LinkInv, NetType
    <3>. QED  BY <3>1, <3>3, SameHead DEF After
  <2>. QED  BY <2>1, <2>2
<1>11. EntriesOK'
  <2>. SUFFICES ASSUME NEW i \in Snap, Whole(i) PROVE workerSnaps'[i] = snaps[i].tokens
    BY SameHead DEF EntriesOK
  <2>1. workerSnaps'[i] = workerSnaps[i]
    BY <1>4, <1>5 DEF StaleOK, IsFrame, LinkInv, NetType
  <2>. QED  BY <2>1 DEF WorkerInv, EntriesOK
<1>12. WiresOK'
  BY <1>2, <1>7, <1>8, SameHead DEF WorkerInv, WiresOK, StaleOK
<1>13. AskedOK'
  <2>1. PICK c \in Slot : c = cur
    BY DEF CoreInv, SplitInv
  <2>2. pc \in {"loading", "saving"} => replies = <<>>
    BY <1>1, Answered DEF LinkInv
  <2>3. CASE pc = "loading"
    <3>1. PICK b : b = Best
      OBVIOUS
    <3>2. \A j \in 1 .. Len(wire) : wire[j] = StateFrame("load", c, b)
      BY <2>1, <2>3, <3>1 DEF WorkerInv, AskedOK
    <3>3. \A j \in 1 .. Len(wire') : wire'[j] = StateFrame("load", c, b)
      BY <1>2, <3>2
    <3>4. f.op = "load" /\ f.slot = c /\ f.idx = b
      BY <1>2, <1>3, <3>2 DEF StateFrame
    <3>5. worker'[c] = workerSnaps'[b]
      BY <1>5, <3>4 DEF LinkInv, NetType
    <3>. QED  BY <2>1, <2>3, <3>1, <3>3, <3>5, SameHead DEF AskedOK
  <2>4. CASE pc = "saving"
    <3>1. PICK b : b = PickEntry
      OBVIOUS
    <3>2. \A j \in 1 .. Len(wire) : wire[j] = StateFrame("save", c, b)
      BY <2>1, <2>4, <3>1 DEF WorkerInv, AskedOK
    <3>3. \A j \in 1 .. Len(wire') : wire'[j] = StateFrame("save", c, b)
      BY <1>2, <3>2
    <3>4. f.op = "save" /\ f.slot = c /\ f.idx = b
      BY <1>2, <1>3, <3>2 DEF StateFrame
    <3>5. b \in Snap
      BY <1>4, <3>4 DEF IsFrame
    <3>6. workerSnaps'[b] = worker'[c]
      BY <1>5, <3>4, <3>5 DEF LinkInv, NetType
    <3>. QED  BY <2>1, <2>4, <3>1, <3>3, <3>6, SameHead DEF AskedOK
  <2>. QED  BY <2>3, <2>4, SameHead DEF AskedOK
<1>. QED  BY <1>9, <1>10, <1>11, <1>12, <1>13 DEF WorkerInv

\* A connection is given up, or breaks.
LEMMA LossKept ==
  ASSUME CoreInv, LinkInv, WorkerInv, WorkerGivesUp \/ Break, UNCHANGED <<queue, slots, headVars>>,
         BrokenOK'
  PROVE  WorkerInv'
<1>1. worker' = worker /\ workerSnaps' = workerSnaps /\ Len(<<>>) = 0
  BY DEF WorkerGivesUp, Break
<1>2. IsSeq(replies) /\ IsSeq(wire) /\ Len(wire) \in Nat
  BY DEF CoreInv, MatchInv, IsSeq
<1>3. ~(InPass' /\ link' = "up") /\ Ahead' = 0
  BY SameHead DEF WorkerGivesUp, Break, Ahead
<1>4. /\ \A j \in 1 .. Len(wire') : j \in 1 .. Len(wire) /\ wire'[j] = wire[j]
      /\ \A i \in 1 .. Len(replies') : i \in 1 .. Len(replies) /\ replies'[i] = replies[i]
      /\ Len(replies) = 0 => Len(replies') = 0
  <2>1. CASE WorkerGivesUp
    BY <1>1, <2>1 DEF WorkerGivesUp
  <2>2. CASE Break
    <3>1. wire' = wire
      BY <2>2 DEF Break
    <3>2. PICK n \in 0 .. Len(replies) : replies' = SubSeq(replies, 1, n)
      BY <2>2 DEF Break
    <3>3. /\ Len(replies') = n /\ Len(replies) \in Nat
          /\ \A i \in 1 .. n : replies'[i] = replies[i] /\ i \in 1 .. Len(replies)
      BY <1>2, <3>2, PrefixSeq
    <3>. QED  BY <3>1, <3>2, <3>3
  <2>. QED  BY <2>1, <2>2
<1>5. ~Lost' => ~Lost /\ Ahead = 0
  <2>1. CASE WorkerGivesUp
    BY <2>1, SameHead DEF WorkerGivesUp, Lost, Ahead
  <2>2. CASE Break
    <3>1. link = "up" /\ link' = "broken" /\ wire' = wire
      BY <2>2 DEF Break
    <3>2. ASSUME ~Lost', InPass PROVE Ahead = 0
      <4>1. Len(replies') = Len(sent') /\ InPass'
        BY <3>1, <3>2, SameHead DEF Lost
      <4>. QED  BY <1>1, <3>1, <4>1 DEF BrokenOK, Ahead
    <3>. QED  BY <3>1, <3>2, SameHead DEF Lost, Ahead
  <2>. QED  BY <2>1, <2>2
<1>6. PassOK'
  <2>. SUFFICES ASSUME InPass', NEW i \in 1 .. Len(replies') PROVE ReplyOK(i)'
    BY <1>3 DEF PassOK
  <2>. QED  BY <1>4, SameHead DEF WorkerInv, PassOK, ReplyOK
<1>7. SlotsOK'
  <2>. SUFFICES ASSUME NEW t \in Slot PROVE LastOK(t)' /\ WorkerOK(t)'
    BY DEF SlotsOK
  <2>1. LastOK(t)'
    BY SameHead DEF WorkerInv, SlotsOK
  <2>2. WorkerOK(t)'
    <3>. SUFFICES ASSUME Unfinished(t), ~Lost', Upto(t) # 0 PROVE After(t, 0, Fed(t))'
      BY <1>3, SameHead DEF WorkerOK, After
    <3>1. worker[t] = Fed(t)
      BY <1>5, AfterNone DEF WorkerInv, SlotsOK, WorkerOK
    <3>. QED  BY <1>1, <3>1, SameHead DEF After
  <2>. QED  BY <2>1, <2>2
<1>8. EntriesOK'
  BY <1>1, SameHead DEF WorkerInv, EntriesOK
<1>9. WiresOK'
  <2>. SUFFICES ASSUME NEW j \in 1 .. Len(wire'), NEW f, f = wire'[j] PROVE StaleOK(f)'
    BY DEF WiresOK, StaleOK
  <2>1. f = wire[j]
    BY <1>4
  <2>2. StaleOK(f) /\ j \in 1 .. Len(wire)
    BY <1>4, <2>1 DEF WorkerInv, WiresOK
  <2>3. InPass /\ link = "up" => Lost'
    <3>1. InPass /\ link = "up" /\ ~Lost' => Ahead = 0 /\ Ahead = Len(wire)
      BY <1>5 DEF Ahead
    <3>. QED  BY <2>2, <3>1
  <2>. QED  BY <1>5, <2>1, <2>2, <2>3, SameHead DEF StaleOK
<1>10. AskedOK'
  <2>1. replies' # <<>> => replies # <<>>
    <3>1. replies = <<>> => replies' = <<>>
      <4>1. IsSeq(replies')
        BY <1>2, PrefixSeq DEF WorkerGivesUp, Break
      <4>. QED  BY <1>1, <1>4, <4>1, NoneSeq
    <3>. QED  BY <3>1
  <2>. QED  BY <1>1, <1>4, <2>1, SameHead DEF WorkerInv, AskedOK
<1>. QED  BY <1>6, <1>7, <1>8, <1>9, <1>10 DEF WorkerInv

LEMMA OutsideWorker ==
  ASSUME CoreInv, LinkInv, WorkerInv, Outside, [Next]_vars, faults'.restarts = faults.restarts
  PROVE  WorkerInv'
<1>0. UNCHANGED <<queue, slots, headVars>>
  BY OutsideKept
<1>1. CASE Network
  <2>1. ~Restart
    <3>1. Restart => faults'.restarts = faults.restarts + 1 /\ faults.restarts \in Nat
      BY DEF Restart, LinkInv, NetType
    <3>. QED  BY <3>1
  <2>2. BrokenOK'
    BY NextBroken DEF LinkInv
  <2>. QED  BY <1>0, <1>1, <2>1, <2>2, WorkerPass, WorkerApart, LossKept DEF Network
<1>2. CASE UNCHANGED netVars
  <2>1. UNCHANGED <<wire, replies, link, worker, workerSnaps>>
    BY <1>2 DEF netVars
  <2>2. (Lost' <=> Lost) /\ Ahead' = Ahead
    BY <1>0, <2>1, SameHead DEF Lost, Ahead
  <2>3. PassOK'
    <3>1. \A j \in Nat \ {0} : FrameOK(j) => FrameOK(j)'
      BY <1>0, <2>1, FrameKept
    <3>2. \A i : ReplyOK(i) => ReplyOK(i)'
      BY <1>0, <2>1, SameHead DEF ReplyOK
    <3>3. (InPass' <=> InPass) /\ link' = link /\ wire' = wire /\ replies' = replies
      BY <1>0, <2>1, SameHead
    <3>4. \A j \in 1 .. Len(wire) : j \in Nat \ {0}
      OBVIOUS
    <3>. QED  BY <3>1, <3>2, <3>3, <3>4 DEF WorkerInv, PassOK
  <2>4. SlotsOK'
    BY <1>0, <2>1, <2>2, SameHead DEF WorkerInv, SlotsOK, WorkerOK, After
  <2>5. EntriesOK' /\ WiresOK' /\ AskedOK'
    BY <1>0, <2>1, <2>2, SameHead DEF WorkerInv, EntriesOK, WiresOK, StaleOK, AskedOK
  <2>. QED  BY <2>3, <2>4, <2>5 DEF WorkerInv
<1>. QED  BY <1>1, <1>2 DEF Outside, splitVars, vars

-------------------------------------------------------------------------------
(* The head keeps it.                                                         *)

\* What the worker holds of a slot that goes on, once it has read all frames.
LEMMA HeldByWorker ==
  ASSUME WorkerInv, NEW s \in Slot, Unfinished(s), ~Lost, Upto(s) # 0, NEW x, x = Fed(s)
  PROVE  After(s, Ahead, x) /\ (Ahead = 0 => worker[s] = x)
<1>1. After(s, Ahead, x)
  BY DEF WorkerInv, SlotsOK, WorkerOK
<1>. QED  BY <1>1, AfterNone

LEMMA HeadEntries ==
  ASSUME CoreInv, HeadInv, LinkInv, WorkerInv, [Next]_vars, ~Outside
  PROVE  EntriesOK'
<1>. SUFFICES ASSUME NEW i \in Snap, Whole(i)' PROVE workerSnaps'[i] = snaps'[i].tokens
  BY DEF EntriesOK
<1>1. workerSnaps' = workerSnaps
  BY HeadNet DEF LinkInv
<1>2. CASE Whole(i) /\ snaps'[i].tokens = snaps[i].tokens
  BY <1>1, <1>2 DEF WorkerInv, EntriesOK
<1>3. CASE BarrierSaved /\ i = PickEntry
  <2>1. PICK c \in Slot : c = cur
    BY DEF CoreInv, SplitInv
  <2>2. pc = "saving" /\ replies # <<>>
    BY <1>3 DEF BarrierSaved
  <2>3. /\ Unfinished(c) /\ Upto(c) = phase[c].pos /\ Upto(c) # 0
        /\ snaps'[i].tokens = Hist(slots[c].req, phase[c].pos)
    BY <1>3, <2>1, SavedTokens
  <2>4. workerSnaps[i] = worker[c]
    BY <1>3, <2>1, <2>2 DEF WorkerInv, AskedOK
  <2>5. ~Lost /\ Ahead = 0
    BY <2>2 DEF Lost, Ahead, InPass
  <2>6. snaps'[i].tokens = Fed(c)
    BY <2>3 DEF Fed
  <2>. QED  BY <1>1, <2>3, <2>4, <2>5, <2>6, HeldByWorker
<1>. QED  BY <1>2, <1>3, WholeStep

\* A frame of a lost connection stays harmless.
LEMMA StaleKept ==
  ASSUME CoreInv, HeadInv, [Next]_vars, ~BarrierSaved, NEW f, IsFrame(f), StaleOK(f),
         \/ Lost' \/ (InPass' /\ link' = "up") \/ ~Unfinished(f.slot)' \/ Upto(f.slot)' = 0
         \/ ~Lost /\ ~(InPass /\ link = "up") /\ SameFed(f.slot)
  PROVE  StaleOK(f)'
<1>1. f.op = "save" => ~Whole(f.idx)'
  <2>. SUFFICES ASSUME f.op = "save", NEW i \in Snap, i = f.idx PROVE ~Whole(i)'
    BY DEF IsFrame
  <2>. QED  BY WholeStep DEF StaleOK
<1>2. f.op # "save" /\ ~Lost' /\ ~(InPass' /\ link' = "up") => ~Unfinished(f.slot)' \/ Upto(f.slot)' = 0
  BY DEF StaleOK, SameFed
<1>. QED  BY <1>1, <1>2 DEF StaleOK

\* Nothing of it is left where the head is done.
LEMMA OverClean ==
  ASSUME CoreInv, RecvOver
  PROVE  ~Lost /\ (link = "up" => wire = <<>>) /\ sent = <<>> /\ replies = <<>> /\ pc = "recv"
<1>1. sent = <<>> /\ pc = "recv" /\ PassMatched /\ IsSeq(replies) /\ IsSeq(wire) /\ Len(sent) = 0
  <2>1. Len(<<>>) = 0
    OBVIOUS
  <2>. QED  BY <2>1 DEF RecvOver, CoreInv, MatchInv
<1>2. Len(replies) \in Nat /\ Len(wire) \in Nat
  BY <1>1 DEF IsSeq
<1>3. Len(replies) = 0
  BY <1>1, <1>2 DEF PassMatched
<1>4. link = "up" => Len(wire) = 0
  BY <1>1, <1>2, <1>3 DEF PassMatched
<1>. QED  BY <1>1, <1>3, <1>4, NoneSeq DEF Lost

\* Receiving takes an answer and its frame.
LEMMA RecvCounts ==
  ASSUME CoreInv, RecvFrame
  PROVE  /\ pc = "recv" /\ pc' = pc /\ link' = link /\ wire' = wire
         /\ Len(sent) \in Nat \ {0} /\ Len(replies) \in Nat \ {0} /\ Len(sent') = Len(sent) - 1
         /\ Len(replies') = Len(replies) - 1
         /\ \A i \in 1 .. Len(sent) - 1 : sent'[i] = sent[i + 1]
         /\ \A i \in 1 .. Len(replies) - 1 : replies'[i] = replies[i + 1] /\ i + 1 \in 1 .. Len(replies)
         /\ Head(sent) = sent[1] /\ Head(replies) = replies[1]
         /\ (Lost' <=> Lost) /\ (InPass /\ InPass')
<1>1. /\ pc = "recv" /\ pc' = pc /\ link' = link /\ wire' = wire
      /\ sent # <<>> /\ replies # <<>> /\ sent' = Tail(sent) /\ replies' = Tail(replies)
  BY DEF RecvFrame
<1>2. IsSeq(sent) /\ IsSeq(replies)
  BY DEF CoreInv, MatchInv
<1>3. /\ Len(sent) \in Nat \ {0} /\ Len(replies) \in Nat \ {0} /\ Len(sent') = Len(sent) - 1
      /\ Len(replies') = Len(replies) - 1
      /\ \A i \in 1 .. Len(sent) - 1 : sent'[i] = sent[i + 1]
      /\ \A i \in 1 .. Len(replies) - 1 : replies'[i] = replies[i + 1] /\ i + 1 \in 1 .. Len(replies)
      /\ Head(sent) = sent[1] /\ Head(replies) = replies[1]
  BY <1>1, <1>2, TailSeq
<1>4. Len(replies') = Len(sent') <=> Len(replies) = Len(sent)
  BY <1>3
<1>5. (Lost' <=> Lost) /\ (InPass /\ InPass')
  BY <1>1, <1>4 DEF Lost, InPass
<1>. QED  BY <1>1, <1>3, <1>5

\* Where a frame goes the pass needs its answer.
LEMMA SendLost ==
  ASSUME CoreInv, SendFrame
  PROVE  /\ pc = "send" /\ pc' = "send" /\ InPass /\ InPass' /\ link' \in {"up", "broken"}
         /\ link' = "broken" => Lost' /\ wire' = wire
         /\ link' = "up" => /\ ~Lost /\ ~Lost'
                            /\ Ahead = Len(wire) /\ Ahead' = Len(wire')
                            /\ wire' = Append(wire, RunFrame(cur, phase[cur].pos, NextRows))
                            /\ link = "up" \/ wire = <<>>
         /\ replies' = replies /\ sent' = Append(sent, cur) /\ Len(sent') = Len(sent) + 1
         /\ Len(replies) <= Len(sent) /\ Len(sent) \in Nat /\ Len(replies) \in Nat
<1>1. /\ pc = "send" /\ pc' = pc /\ replies' = replies /\ sent' = Append(sent, cur)
      /\ Write(RunFrame(cur, phase[cur].pos, NextRows))
  BY DEF SendFrame, Write
<1>2. /\ Len(replies) <= Len(sent) /\ IsSeq(replies) /\ IsSeq(sent) /\ link \in {"down", "up", "broken"}
  BY <1>1 DEF CoreInv, MatchInv, PassMatched
<1>3. Len(replies) \in Nat /\ Len(sent) \in Nat /\ Len(sent') = Len(sent) + 1
  BY <1>1, <1>2, AppendSeq DEF IsSeq
<1>4. Len(replies') # Len(sent')
  BY <1>1, <1>2, <1>3
<1>5. InPass /\ InPass' /\ Len(<<>>) = 0
  BY <1>1 DEF InPass
<1>. QED  BY <1>1, <1>2, <1>3, <1>4, <1>5 DEF Write, Lost, Ahead

LEMMA HeadWires ==
  ASSUME CoreInv, HeadInv, LinkInv, WorkerInv, [Next]_vars, ~Outside
  PROVE  WiresOK'
<1>0. PICK c \in Slot : c = cur
  BY DEF CoreInv, SplitInv
<1>1. \A j \in 1 .. Len(wire) : StaleOK(wire[j]) /\ IsFrame(wire[j])
  BY DEF WorkerInv, WiresOK, LinkInv, NetType
<1>2. ASSUME wire' = wire, ~BarrierSaved,
             \A t \in Slot : \/ Lost' \/ (InPass' /\ link' = "up") \/ ~Unfinished(t)' \/ Upto(t)' = 0
                             \/ ~Lost /\ ~(InPass /\ link = "up") /\ SameFed(t)
      PROVE  WiresOK'
  <2>. SUFFICES ASSUME NEW j \in 1 .. Len(wire), NEW f, f = wire[j] PROVE StaleOK(f)'
    BY <1>2 DEF WiresOK, StaleOK
  <2>1. IsFrame(f) /\ StaleOK(f) /\ f.slot \in Slot
    BY <1>1 DEF IsFrame
  <2>2. \/ Lost' \/ (InPass' /\ link' = "up") \/ ~Unfinished(f.slot)' \/ Upto(f.slot)' = 0
        \/ ~Lost /\ ~(InPass /\ link = "up") /\ SameFed(f.slot)
    BY <1>2, <2>1
  <2>. QED  BY <1>2, <2>1, <2>2, StaleKept
<1>3. ASSUME wire' = <<>> PROVE WiresOK'
  <2>1. Len(wire') = 0
    BY <1>3
  <2>. QED  BY <2>1 DEF WiresOK
<1>4. CASE TakeCmds \/ AdmitSkip \/ BarrierSkip \/ FlushPhase \/ Stop \/ BarrierFirst \/ BarrierSaveFails
  <2>1. wire' = wire
    BY <1>4 DEF TakeCmds, AdmitSkip, BarrierSkip, FlushPhase, Stop, BarrierFirst, BarrierSaveFails,
                WriteFails, ReadFails, Poison, netVars
  <2>2. ~InPass /\ ~Lost /\ ~BarrierSaved
    BY <1>4 DEF TakeCmds, AdmitSkip, BarrierSkip, FlushPhase, Stop, BarrierFirst, BarrierSaveFails,
                BarrierSaved, ReadFails, InPass, Lost
  <2>3. \A t \in Slot : SameFed(t)
    BY <1>4, SteadyFed DEF Steady
  <2>. QED  BY <1>2, <2>1, <2>2, <2>3
<1>5. CASE FailPhase
  <2>1. wire' = wire /\ ~BarrierSaved
    BY <1>5 DEF FailPhase, BarrierSaved, netVars
  <2>2. pc' = "fail" => Lost'
    BY DEF Lost
  <2>. QED  BY <1>2, <1>5, <2>1, <2>2, FailedAll
<1>6. CASE SendNext \/ RecvFrame
  <2>1. wire' = wire /\ ~BarrierSaved
    BY <1>6 DEF SendNext, RecvFrame, BarrierSaved, netVars
  <2>2. (Lost => Lost') /\ (InPass /\ link = "up" => InPass' /\ link' = "up")
    <3>1. CASE SendNext
      BY <3>1 DEF SendNext, netVars, Lost, InPass
    <3>2. CASE RecvFrame
      BY <3>2, RecvCounts
    <3>. QED  BY <1>6, <3>1, <3>2
  <2>3. \A t \in Slot : SameFed(t)
    BY <1>6, SteadyFed DEF Steady
  <2>. QED  BY <1>2, <2>1, <2>2, <2>3
<1>7. CASE RecvOver
  <2>1. wire' = wire /\ ~BarrierSaved
    BY <1>7 DEF RecvOver, BarrierSaved, netVars
  <2>2. ~Lost /\ (link = "up" => wire = <<>>)
    BY <1>7, OverClean
  <2>3. \A t \in Slot : SameFed(t)
    BY <1>7, SteadyFed DEF Steady
  <2>. QED  BY <1>2, <1>3, <2>1, <2>2, <2>3
<1>8. CASE AdmitCold \/ AdmitFails
  <2>1. queue # <<>> /\ Admitted(0) /\ 0 < Len(Prompt[Head(queue)])
    BY <1>8, ColdAdmission DEF CoreInv
  <2>2. /\ phase'[c].decoding = FALSE /\ phase'[c].pos = 0
        /\ \A t \in Slot : t # c => Still(t)
    BY <1>0, <2>1, AdmittedPhase DEF CoreInv
  <2>3. sent' = sent /\ wire' = wire /\ ~InPass /\ ~Lost /\ ~BarrierSaved
    <3>1. sent' = sent
      BY <2>1 DEF Admitted
    <3>. QED  BY <1>8, <3>1 DEF AdmitCold, AdmitFails, CanAdmit, WriteFails, ReadFails, Poison, InPass, Lost,
                         BarrierSaved, netVars
  <2>4. Upto(c)' = 0
    BY <2>2 DEF Upto
  <2>5. \A t \in Slot : t # c => SameFed(t)
    BY <2>2, <2>3, StillFed DEF InSent
  <2>. QED  BY <1>2, <2>3, <2>4, <2>5
<1>9. CASE AdmitLoaded \/ BarrierSaved
  <2>1. wire' = wire /\ pc \in {"loading", "saving"} /\ replies # <<>>
    BY <1>9 DEF AdmitLoaded, BarrierSaved
  <2>. QED  BY <1>3, <2>1, Answered DEF LinkInv
<1>10. CASE SendFails \/ RecvFails
  <2>1. wire' = wire /\ ~BarrierSaved /\ pc' = "fail"
    BY <1>10 DEF SendFails, RecvFails, Abort, WriteFails, ReadFails, Poison, BarrierSaved
  <2>. QED  BY <1>2, <2>1 DEF Lost
<1>11. CASE SendFrame
  <2>1. CASE link' = "broken"
    <3>1. wire' = wire /\ Lost' /\ ~BarrierSaved
      BY <1>11, <2>1, SendLost DEF BarrierSaved
    <3>. QED  BY <1>2, <3>1
  <2>2. CASE link' = "up"
    <3>. DEFINE f == RunFrame(cur, phase[cur].pos, NextRows)
    <3>1. wire' = Append(wire, f) /\ InPass' /\ ~BarrierSaved /\ IsSeq(wire)
      BY <1>11, <2>2, SendLost DEF BarrierSaved, CoreInv, MatchInv
    <3>2. f.op = "run"
      BY DEF RunFrame
    <3>. HIDE DEF f
    <3>3. /\ Len(wire') = Len(wire) + 1 /\ wire'[Len(wire) + 1] = f /\ Len(wire) \in Nat
          /\ \A j \in 1 .. Len(wire) : wire'[j] = wire[j]
      BY <3>1, AppendSeq
    <3>4. ASSUME NEW j \in 1 .. Len(wire'), NEW g, g = wire'[j] PROVE StaleOK(g)'
      <4>1. j = Len(wire) + 1 \/ j \in 1 .. Len(wire)
        BY <3>3
      <4>2. CASE j = Len(wire) + 1
        BY <2>2, <3>1, <3>2, <3>3, <3>4, <4>2 DEF StaleOK
      <4>3. CASE j \in 1 .. Len(wire)
        <5>1. IsFrame(g) /\ StaleOK(g)
          BY <1>1, <3>3, <3>4, <4>3
        <5>. QED  BY <2>2, <3>1, <5>1, StaleKept
      <4>. QED  BY <4>1, <4>2, <4>3
    <3>. QED  BY <3>4 DEF WiresOK, StaleOK
  <2>. QED  BY <1>11, <2>1, <2>2, SendLost
<1>12. CASE AdmitLoad
  <2>1. PICK f : f = StateFrame("load", c, Best) /\ Write(f)
    BY <1>0, <1>12 DEF AdmitLoad, Best
  <2>2. pc \in Quiet /\ slots' = slots /\ ~Occupied(c)
    BY <1>0, <1>12 DEF AdmitLoad, CanAdmit, Quiet, frontVars
  <2>3. \A j \in 1 .. Len(wire') : wire'[j] = f
    BY <2>1, <2>2, Asked DEF LinkInv
  <2>4. f.op = "load" /\ f.slot = c
    BY <2>1 DEF StateFrame
  <2>5. ~Unfinished(c)'
    BY <2>2 DEF Unfinished, Occupied
  <2>. QED  BY <2>3, <2>4, <2>5 DEF WiresOK, StaleOK
<1>13. CASE BarrierSave
  <2>1. PICK f : f = StateFrame("save", c, PickEntry) /\ Write(f)
    BY <1>0, <1>13 DEF BarrierSave
  <2>2. pc \in Quiet /\ snaps' = snaps /\ pc' = "saving"
    BY <1>13 DEF BarrierSave, Quiet
  <2>3. \A j \in 1 .. Len(wire') : wire'[j] = f
    BY <2>1, <2>2, Asked DEF LinkInv
  <2>4. f.op = "save" /\ f.idx = PickEntry'
    BY <2>1, <2>2 DEF StateFrame, PickEntry
  <2>. QED  BY <2>2, <2>3, <2>4 DEF WiresOK, StaleOK, Whole
<1>. QED  BY <1>4, <1>5, <1>6, <1>7, <1>8, <1>9, <1>10, <1>11, <1>12, <1>13, StepCases

\* Only these two steps begin to wait for the worker.
LEMMA WaitBegins ==
  ASSUME [Next]_vars, ~Outside
  PROVE  (pc' = "loading" => AdmitLoad) /\ (pc' = "saving" => BarrierSave)
<1>1. TakeCmds \/ AdmitSkip \/ SendNext \/ RecvOver \/ BarrierSkip \/ FlushPhase \/ FailPhase \/ Stop
      \/ AdmitCold \/ AdmitLoaded \/ AdmitFails => pc' # "loading" /\ pc' # "saving"
  BY DEF TakeCmds, AdmitSkip, SendNext, RecvOver, BarrierSkip, BarrierNext, FlushPhase, FailPhase,
         Stop, AdmitCold, AdmitLoaded, AdmitFails, Admitted, Advance
<1>2. SendFails \/ RecvFails \/ SendFrame \/ RecvFrame \/ BarrierFirst \/ BarrierSaved
      \/ BarrierSaveFails => pc' # "loading" /\ pc' # "saving"
  BY DEF SendFails, RecvFails, Abort, SendFrame, RecvFrame, BarrierFirst, BarrierNext, BarrierSaved,
         BarrierSaveFails
<1>3. (AdmitLoad => pc' # "saving") /\ (BarrierSave => pc' # "loading")
  BY DEF AdmitLoad, BarrierSave
<1>. QED  BY <1>1, <1>2, <1>3, StepCases

LEMMA HeadAsked ==
  ASSUME CoreInv, LinkInv, [Next]_vars, ~Outside
  PROVE  AskedOK'
<1>1. ASSUME AdmitLoad, pc' = "loading" PROVE AskedOK'
  <2>1. PICK f : f = StateFrame("load", cur, Best) /\ Write(f)
    BY <1>1 DEF AdmitLoad, Best
  <2>2. pc \in Quiet /\ UNCHANGED <<queue, snaps, cur>>
    BY <1>1 DEF AdmitLoad, CanAdmit, Quiet, frontVars
  <2>3. replies' = <<>> /\ \A j \in 1 .. Len(wire') : wire'[j] = f
    BY <2>1, <2>2, Asked DEF LinkInv
  <2>4. Best' = Best
    BY <2>2 DEF Best, BestSnap, Usable
  <2>. QED  BY <1>1, <2>1, <2>2, <2>3, <2>4 DEF AskedOK, StateFrame
<1>2. ASSUME BarrierSave, pc' = "saving" PROVE AskedOK'
  <2>1. PICK f : f = StateFrame("save", cur, PickEntry) /\ Write(f)
    BY <1>2 DEF BarrierSave
  <2>2. pc \in Quiet /\ UNCHANGED <<snaps, cur>>
    BY <1>2 DEF BarrierSave, Quiet
  <2>3. replies' = <<>> /\ \A j \in 1 .. Len(wire') : wire'[j] = f
    BY <2>1, <2>2, Asked DEF LinkInv
  <2>4. PickEntry' = PickEntry
    BY <2>2 DEF PickEntry
  <2>. QED  BY <1>2, <2>1, <2>2, <2>3, <2>4 DEF AskedOK, StateFrame
<1>. QED  BY <1>1, <1>2, WaitBegins DEF AskedOK

\* What a step into a pass, or on in it, is.
LEMMA PassSteps ==
  ASSUME [Next]_vars, ~Outside, InPass'
  PROVE  SendFrame \/ SendNext \/ RecvFrame \/ FlushPhase
<1>1. TakeCmds \/ AdmitSkip \/ AdmitLoad \/ RecvOver \/ BarrierSave \/ BarrierSkip \/ FailPhase \/ Stop
      \/ AdmitCold \/ AdmitLoaded \/ AdmitFails => ~InPass'
  BY DEF TakeCmds, AdmitSkip, AdmitLoad, RecvOver, BarrierSave, BarrierSkip, BarrierNext, FailPhase,
         Stop, AdmitCold, AdmitLoaded, AdmitFails, Admitted, Advance, InPass
<1>2. SendFails \/ RecvFails \/ BarrierFirst \/ BarrierSaved \/ BarrierSaveFails => ~InPass'
  BY DEF SendFails, RecvFails, Abort, BarrierFirst, BarrierNext, BarrierSaved, BarrierSaveFails, InPass
<1>. QED  BY <1>1, <1>2, StepCases

\* The new frame of a pass continues what the worker is going to hold.
LEMMA SendPassOK ==
  ASSUME CoreInv, HeadInv, LinkInv, WorkerInv, [Next]_vars, SendFrame
  PROVE  PassOK'
<1>1. PICK c \in Slot : c = cur
  BY DEF CoreInv, SplitInv
<1>2. worker' = worker /\ IsSeq(wire) /\ slots' = slots
  BY <1>1, SendFed DEF SendFrame, Write, CoreInv, MatchInv
<1>3. ASSUME link' = "up", NEW j \in 1 .. Len(wire') PROVE FrameOK(j)'
  <2>. DEFINE n == phase[c].pos  k == Len(Feeds(c))
  <2>1. PICK r : r = slots[c].req
    OBVIOUS
  <2>2. /\ Unfinished(c) /\ n \in Nat /\ k \in Nat \ {0} /\ n + k \in Nat
        /\ Upto(c) = n /\ NextRows = Hist(r, n + k)
    BY <1>1, <2>1, SendRows
  <2>3. PICK f : f = RunFrame(c, n, NextRows)
    OBVIOUS
  <2>4. f.slot = c /\ f.base = n /\ f.rows = Hist(r, n + k)
    BY <2>2, <2>3 DEF RunFrame
  <2>5. /\ wire' = Append(wire, f) /\ ~Lost /\ Ahead = Len(wire) /\ InPass
        /\ link = "up" \/ wire = <<>>
    BY <1>1, <1>3, <2>3, SendLost
  <2>6. PICK m : m = Len(wire)
    OBVIOUS
  <2>7. /\ m \in Nat /\ Len(wire') = m + 1 /\ wire'[m + 1] = f
        /\ \A i \in 1 .. m : wire'[i] = wire[i]
    BY <1>2, <2>5, <2>6, AppendSeq
  <2>8. CASE j \in 1 .. m
    <3>1. link = "up"
      BY <2>5, <2>6, <2>8
    <3>2. FrameOK(j)
      BY <2>5, <2>6, <2>8, <3>1 DEF WorkerInv, PassOK
    <3>3. \A i \in 1 .. j : wire'[i] = wire[i]
      BY <2>7, <2>8
    <3>. QED  BY <1>2, <2>8, <3>2, <3>3, FrameKept
  <2>9. CASE j = m + 1
    <3>1. PICK x : x = Hist(r, n)
      OBVIOUS
    <3>2. n = 0 \/ After(c, m, x)
      BY <2>1, <2>2, <2>5, <2>6, <3>1, HeldByWorker DEF Fed
    <3>3. n = 0 \/ After(c, m, x)'
      BY <1>2, <2>7, <3>2, AfterKept
    <3>4. j - 1 = m /\ f = wire'[j] /\ r = slots'[f.slot].req
      BY <1>2, <2>1, <2>4, <2>7, <2>9
    <3>5. n + k \in Nat \ {0} /\ n < n + k
      BY <2>2
    <3>6. f.base = 0 \/ After(f.slot, j - 1, x)'
      BY <2>4, <3>3, <3>4
    <3>. QED  BY <2>2, <2>4, <3>1, <3>4, <3>5, <3>6, FrameIs
  <2>. QED  BY <2>7, <2>8, <2>9
<1>4. ASSUME NEW i \in 1 .. Len(replies') PROVE ReplyOK(i)'
  <2>1. /\ replies' = replies /\ sent' = Append(sent, cur) /\ Len(sent') = Len(sent) + 1
        /\ Len(replies) <= Len(sent) /\ Len(sent) \in Nat /\ Len(replies) \in Nat /\ InPass
    BY SendLost
  <2>2. /\ i \in 1 .. Len(sent) /\ i \in 1 .. Len(replies) /\ Len(sent) + 1 \in i + 1 .. Len(sent) + 1
        /\ \A k \in i + 1 .. Len(sent) : k \in i + 1 .. Len(sent) + 1 /\ k \in 1 .. Len(sent)
    BY <2>1, <1>4
  <2>3. /\ \A k \in 1 .. Len(sent) : sent'[k] = sent[k]
        /\ sent'[Len(sent) + 1] = c
    BY <1>1, <2>1, AppendSeq DEF CoreInv, MatchInv
  <2>4. PICK s \in Slot : s = sent[i] /\ s = sent'[i]
    BY <2>2, <2>3 DEF CoreInv, SplitInv
  <2>. SUFFICES ASSUME \A k \in i + 1 .. Len(sent) + 1 : sent'[k] # s PROVE replies[i].rows = Fed(s)'
    BY <2>1, <2>4 DEF ReplyOK, Fed
  <2>5. s # c /\ \A k \in i + 1 .. Len(sent) : sent[k] # s
    BY <2>2, <2>3
  <2>6. replies[i].rows = Fed(s)
    BY <2>1, <2>2, <2>4, <2>5 DEF WorkerInv, PassOK, ReplyOK
  <2>7. Unfinished(s)
    BY <2>2, <2>4 DEF CoreInv, PhaseInv, SentOK
  <2>8. Upto(s)' = Upto(s)
    BY <1>1, <1>2, <2>5, <2>7, SendFed DEF SameFed, Unfinished, Occupied
  <2>. QED  BY <1>2, <2>6, <2>8 DEF Fed, Hist
<1>. QED  BY <1>3, <1>4 DEF PassOK

LEMMA RecvPassOK ==
  ASSUME CoreInv, HeadInv, LinkInv, WorkerInv, [Next]_vars, RecvFrame
  PROVE  PassOK'
<1>1. /\ InPass /\ InPass' /\ link' = link /\ wire' = wire
      /\ Len(sent) \in Nat \ {0} /\ Len(replies) \in Nat \ {0} /\ Len(sent') = Len(sent) - 1
      /\ Len(replies') = Len(replies) - 1
      /\ \A i \in 1 .. Len(sent) - 1 : sent'[i] = sent[i + 1]
      /\ \A i \in 1 .. Len(replies) - 1 : replies'[i] = replies[i + 1] /\ i + 1 \in 1 .. Len(replies)
  BY RecvCounts
<1>2. worker' = worker
  BY DEF RecvFrame
<1>3. MatchInv' /\ SentOK' /\ PassMatched
  BY <1>1, NextMatch, NextSent DEF CoreInv, MatchInv, InPass
<1>4. sent' \in Seq(Slot) /\ Len(sent') \in Nat /\ PassMatched'
  <2>1. sent' \in Seq(Slot)
    BY NextSplit DEF CoreInv, SplitInv
  <2>. QED  BY <1>1, <1>3, <2>1 DEF MatchInv, InPass
<1>5. ASSUME NEW t, NEW i \in 1 .. Len(sent'), t = sent'[i]
      PROVE  t \in Slot /\ slots'[t].req = slots[t].req /\ Fed(t)' = Fed(t)
  <2>1. t \in Slot /\ Unfinished(t)'
    BY <1>3, <1>4, <1>5 DEF SentOK
  <2>2. SameFed(t)
    BY <2>1, SteadyFed DEF Steady
  <2>. QED  BY <2>1, <2>2 DEF SameFed, Fed, Hist
<1>6. ASSUME link = "up", NEW j \in 1 .. Len(wire') PROVE FrameOK(j)'
  <2>1. FrameOK(j) /\ j \in Nat \ {0}
    BY <1>1, <1>6 DEF WorkerInv, PassOK
  <2>2. PICK t : t = wire[j].slot
    OBVIOUS
  <2>3. Len(replies') \in Nat /\ Len(wire') \in Nat /\ Len(replies') + Len(wire') = Len(sent')
    BY <1>1, <1>3, <1>4, <1>6 DEF PassMatched, MatchInv, IsSeq
  <2>4. Len(replies') + j \in 1 .. Len(sent') /\ t = sent'[Len(replies') + j]
    <3>1. Len(replies') + j \in 1 .. Len(sent')
      BY <2>3
    <3>. QED  BY <1>1, <1>4, <1>6, <2>2, <3>1 DEF PassMatched, RunOf
  <2>5. slots'[t].req = slots[t].req
    BY <1>5, <2>4
  <2>. QED  BY <1>1, <1>2, <2>1, <2>2, <2>5, FrameKept
<1>7. ASSUME NEW i \in 1 .. Len(replies') PROVE ReplyOK(i)'
  <2>1. Len(replies) <= Len(sent)
    BY <1>3 DEF PassMatched
  <2>2. /\ i \in 1 .. Len(replies) - 1 /\ i \in 1 .. Len(sent) - 1 /\ i + 1 \in 1 .. Len(replies)
        /\ \A k \in (i + 1) + 1 .. Len(sent) : k - 1 \in i + 1 .. Len(sent) - 1 /\ (k - 1) + 1 = k
                                               /\ k - 1 \in 1 .. Len(sent) - 1
    BY <1>1, <2>1
  <2>3. PICK s : s = sent[i + 1] /\ s = sent'[i]
    BY <1>1, <2>2
  <2>. SUFFICES ASSUME \A k \in i + 1 .. Len(sent) - 1 : sent'[k] # s PROVE replies'[i].rows = Fed(s)'
    BY <1>1, <2>3 DEF ReplyOK, Fed
  <2>4. ASSUME NEW k \in (i + 1) + 1 .. Len(sent) PROVE sent[k] # s
    <3>1. sent'[k - 1] = sent[k] /\ k - 1 \in i + 1 .. Len(sent) - 1
      BY <1>1, <2>2
    <3>. QED  BY <3>1
  <2>5. replies[i + 1].rows = Fed(s)
    BY <1>1, <2>2, <2>3, <2>4 DEF WorkerInv, PassOK, ReplyOK
  <2>6. Fed(s)' = Fed(s)
    BY <1>1, <1>5, <2>2, <2>3
  <2>. QED  BY <1>1, <2>2, <2>5, <2>6
<1>. QED  BY <1>1, <1>6, <1>7 DEF PassOK

LEMMA HeadPass ==
  ASSUME CoreInv, HeadInv, LinkInv, WorkerInv, [Next]_vars, ~Outside
  PROVE  PassOK'
<1>1. CASE ~InPass'
  BY <1>1 DEF PassOK
<1>2. CASE FlushPhase
  <2>1. replies = <<>> /\ (link = "up" => wire = <<>>) /\ UNCHANGED <<link, wire, replies>> /\ Len(<<>>) = 0
    BY <1>2 DEF FlushPhase, CoreInv, MatchInv, netVars
  <2>. QED  BY <2>1 DEF PassOK
<1>3. CASE SendNext
  <2>1. UNCHANGED <<link, wire, replies, worker, sent, slots, phase>> /\ InPass
    BY <1>3 DEF SendNext, netVars, frontVars, InPass
  <2>2. \A j \in Nat \ {0} : FrameOK(j) => FrameOK(j)'
    BY <2>1, FrameKept
  <2>3. \A s : Fed(s)' = Fed(s)
    BY <2>1 DEF Fed, Hist, Upto, InSent
  <2>4. \A i : ReplyOK(i) => ReplyOK(i)'
    BY <2>1, <2>3 DEF ReplyOK
  <2>5. \A j \in 1 .. Len(wire) : j \in Nat \ {0}
    OBVIOUS
  <2>. QED  BY <2>1, <2>2, <2>4, <2>5 DEF WorkerInv, PassOK
<1>. QED  BY <1>1, <1>2, <1>3, SendPassOK, RecvPassOK, PassSteps

LEMMA LastKept ==
  ASSUME WorkerInv, NEW t \in Slot, SameFed(t), Unfinished(t)' /\ pc' # "fail" => pc # "fail",
         Unfinished(t)' => /\ phase'[t].last = phase[t].last /\ phase'[t].decoding = phase[t].decoding
                           /\ phase'[t].pos = phase[t].pos,
         InSent(t) => InSent(t)'
  PROVE  LastOK(t)'
<1>1. LastOK(t)
  BY DEF WorkerInv, SlotsOK
<1>2. Unfinished(t)' => Unfinished(t) /\ PromptOf(t)' = PromptOf(t)
  BY DEF SameFed, PromptOf
<1>. QED  BY <1>1, <1>2 DEF LastOK

LEMMA StillLast ==
  ASSUME WorkerInv, NEW t \in Slot, Still(t), InSent(t)' <=> InSent(t),
         Unfinished(t)' /\ pc' # "fail" => pc # "fail"
  PROVE  LastOK(t)'
<1>1. SameFed(t)
  BY StillFed
<1>2. Unfinished(t)' => phase'[t] = phase[t]
  BY DEF Still, Unfinished, Occupied
<1>. QED  BY <1>1, <1>2, LastKept

\* A prefill that has been answered keeps its rows.
LEMMA RecvLast ==
  ASSUME CoreInv, HeadInv, LinkInv, WorkerInv, RecvFrame, NEW t \in Slot
  PROVE  LastOK(t)'
<1>1. sent # <<>> /\ sent \in Seq(Slot) /\ sent' = Tail(sent) /\ replies # <<>> /\ pc # "fail" /\ pc = "recv"
  BY DEF RecvFrame, CoreInv, SplitInv
<1>2. PICK s \in Slot : s = Head(sent)
  BY <1>1
<1>3. CASE t # s
  <2>1. Still(t)
    BY <1>1, <1>2, <1>3, RecvPhase DEF CoreInv
  <2>2. InSent(t)' <=> InSent(t)
    BY <1>1, <1>2, <1>3, SentRest
  <2>. QED  BY <1>1, <2>1, <2>2, StillLast
<1>4. CASE t = s /\ phase[s].decoding
  <2>1. slots'[s].req = None \/ phase'[s].decoding = TRUE
    BY <1>1, <1>2, <1>4, RecvPhase DEF CoreInv
  <2>. QED  BY <1>4, <2>1 DEF LastOK, Unfinished, Occupied
<1>5. CASE t = s /\ ~phase[s].decoding
  <2>1. Unfinished(s) /\ phase'[s].pos = phase[s].pos /\ slots' = slots
    BY <1>1, <1>2, <1>5, RecvPhase DEF CoreInv, frontVars
  <2>2. phase'[s].last = replies[1].rows
    <3>1. phase' = [phase EXCEPT ![s].last = Head(replies).rows]
      BY <1>2, <1>5, <2>1 DEF RecvFrame, Unfinished
    <3>2. Head(replies) = replies[1] /\ DOMAIN phase = Slot
      BY RecvCounts DEF CoreInv, PhaseType
    <3>3. phase[s] \in [decoding : BOOLEAN, pos : Nat, snapAt : Nat, snapped : BOOLEAN, last : {phase[s].last}]
      BY DEF CoreInv, PhaseType, IsPhase
    <3>. QED  BY <3>1, <3>2, <3>3
  <2>. SUFFICES ASSUME phase[s].pos = Len(PromptOf(s)), ~InSent(s)' PROVE replies[1].rows = PromptOf(s)
    BY <1>5, <2>1, <2>2 DEF LastOK, PromptOf
  <2>3. /\ 1 \in 1 .. Len(replies) /\ sent[1] = s
        /\ \A k \in 1 + 1 .. Len(sent) : sent[k] # s
    <3>1. /\ Len(sent) \in Nat \ {0} /\ Len(replies) \in Nat \ {0} /\ Len(sent') = Len(sent) - 1
          /\ \A i \in 1 .. Len(sent) - 1 : sent'[i] = sent[i + 1]
          /\ Head(sent) = sent[1]
      BY RecvCounts
    <3>2. ASSUME NEW k \in 1 + 1 .. Len(sent) PROVE sent[k] # s
      <4>1. k - 1 \in 1 .. Len(sent) - 1 /\ (k - 1) + 1 = k
        BY <3>1
      <4>2. sent'[k - 1] = sent[k]
        BY <3>1, <4>1
      <4>. QED  BY <2>1, <3>1, <4>1, <4>2 DEF InSent
    <3>. QED  BY <1>2, <3>1, <3>2
  <2>4. replies[1].rows = Fed(s)
    BY <1>1, <2>3 DEF WorkerInv, PassOK, ReplyOK, InPass
  <2>5. Fed(s) = Hist(slots[s].req, Len(PromptOf(s)))
    BY <1>5 DEF Fed, Upto
  <2>6. slots[s].req \in Request
    BY <2>1 DEF CoreInv, SplitInv, FrontTypeOK, SlotState, Unfinished, Occupied
  <2>. QED  BY <2>4, <2>5, <2>6, HistPrompt DEF PromptOf
<1>. QED  BY <1>3, <1>4, <1>5

LEMMA HeadLast ==
  ASSUME CoreInv, HeadInv, LinkInv, WorkerInv, [Next]_vars, ~Outside, NEW t \in Slot
  PROVE  LastOK(t)'
<1>0. PICK c \in Slot : c = cur
  BY DEF CoreInv, SplitInv
<1>1. CASE TakeCmds \/ AdmitSkip \/ AdmitLoad \/ SendNext \/ RecvOver \/ BarrierSave \/ BarrierSkip
  <2>1. sent' = sent /\ pc # "fail"
    BY <1>1 DEF TakeCmds, AdmitSkip, AdmitLoad, CanAdmit, SendNext, RecvOver, BarrierSave, BarrierSkip
  <2>2. Still(t)
    BY <1>1, BesideStill DEF CoreInv, Beside
  <2>. QED  BY <2>1, <2>2, StillLast DEF InSent
<1>2. CASE FlushPhase \/ Stop \/ FailPhase
  <2>1. sent' = sent /\ (Unfinished(t)' /\ pc' # "fail" => pc # "fail")
    BY <1>2, FailedAll DEF FlushPhase, Stop, FailPhase
  <2>2. Still(t)
    BY <1>2, DeliveryStill DEF CoreInv
  <2>. QED  BY <2>1, <2>2, StillLast DEF InSent
<1>3. CASE SendFails \/ RecvFails
  BY <1>3 DEF SendFails, RecvFails, Abort, LastOK
<1>4. CASE AdmitCold \/ AdmitLoaded \/ AdmitFails
  <2>1. PICK n \in Nat : queue # <<>> /\ n < Len(Prompt[Head(queue)]) /\ Admitted(n)
    BY <1>4, ColdAdmission, WarmAdmission DEF CoreInv, WaitInv
  <2>2. /\ phase'[c].pos = n /\ slots'[c].req = Head(queue)
        /\ t # c => Still(t)
    BY <1>0, <2>1, AdmittedPhase DEF CoreInv
  <2>3. sent' = sent /\ pc # "fail"
    BY <1>4, <2>1 DEF Admitted, AdmitCold, AdmitLoaded, AdmitFails, CanAdmit
  <2>4. CASE t = c
    <3>1. Len(PromptOf(c)') \in Nat /\ n < Len(PromptOf(c)')
      <4>1. queue \in Seq(Request)
        BY DEF CoreInv, SplitInv, FrontTypeOK
      <4>2. Head(queue) \in Request
        BY <2>1, <4>1
      <4>. QED  BY <2>1, <2>2, <4>2, PromptType DEF PromptOf
    <3>2. phase'[c].pos # Len(PromptOf(c)')
      BY <2>2, <3>1
    <3>. QED  BY <2>4, <3>2 DEF LastOK
  <2>5. CASE t # c
    BY <2>2, <2>3, <2>5, StillLast DEF InSent
  <2>. QED  BY <2>4, <2>5
<1>5. CASE SendFrame
  <2>1. pc # "fail" /\ InSent(c)' /\ \A u \in Slot : u # c => (InSent(u)' <=> InSent(u))
    BY <1>0, <1>5, SendFed, SendLost
  <2>2. t # c => Still(t)
    BY <1>0, <1>5, SentPhase DEF CoreInv
  <2>3. CASE t = c
    BY <2>1, <2>3 DEF LastOK
  <2>4. CASE t # c
    BY <2>1, <2>2, <2>4, StillLast
  <2>. QED  BY <2>3, <2>4
<1>6. CASE BarrierFirst
  <2>1. pc # "fail" /\ sent' = sent
    BY <1>6 DEF BarrierFirst
  <2>2. /\ t # c => Still(t)
        /\ slots'[c].req = None \/ phase'[c].decoding = TRUE
    BY <1>0, <1>6, FirstPhase DEF CoreInv
  <2>3. CASE t = c
    BY <2>2, <2>3 DEF LastOK, Unfinished, Occupied
  <2>4. CASE t # c
    BY <2>1, <2>2, <2>4, StillLast DEF InSent
  <2>. QED  BY <2>3, <2>4
<1>7. CASE BarrierSaved \/ BarrierSaveFails
  <2>1. pc # "fail" /\ sent' = sent
    BY <1>7 DEF BarrierSaved, BarrierSaveFails, ReadFails
  <2>2. /\ t # c => Still(t)
        /\ slots' = slots /\ phase'[c].decoding = phase[c].decoding /\ phase'[c].pos = phase[c].pos
        /\ phase'[c].last = phase[c].last
    BY <1>0, <1>7, SavedPhase DEF CoreInv
  <2>3. CASE t = c
    <3>1. SameFed(c)
      BY <1>7, SteadyFed DEF Steady
    <3>. QED  BY <2>1, <2>2, <2>3, <3>1, LastKept DEF InSent
  <2>4. CASE t # c
    BY <2>1, <2>2, <2>4, StillLast DEF InSent
  <2>. QED  BY <2>3, <2>4
<1>. QED  BY <1>1, <1>2, <1>3, <1>4, <1>5, <1>6, <1>7, RecvLast, StepCases

\* A slot that is fed nothing, while the same frames are ahead of the worker.
LEMMA WorkerCalm ==
  ASSUME CoreInv, WorkerInv, worker' = worker, NEW t \in Slot, SameFed(t), ~Lost, Ahead' = Ahead,
         wire' = wire \/ Ahead = 0
  PROVE  WorkerOK(t)'
<1>. SUFFICES ASSUME Unfinished(t)', Upto(t)' # 0, NEW x, x = Fed(t)', NEW k, k = Ahead
              PROVE  After(t, k, x)'
  BY DEF WorkerOK, After
<1>1. Unfinished(t) /\ Upto(t) # 0 /\ x = Fed(t)
  BY DEF SameFed, Fed, Hist
<1>2. After(t, k, x)
  BY <1>1, HeldByWorker
<1>3. k \in Nat /\ \A j \in 1 .. k : wire'[j] = wire[j]
  <2>1. Len(wire) \in Nat
    BY DEF CoreInv, MatchInv, IsSeq
  <2>. QED  BY <2>1 DEF Ahead
<1>. QED  BY <1>2, <1>3, AfterKept

LEMMA SendHeld ==
  ASSUME CoreInv, HeadInv, LinkInv, WorkerInv, SendFrame, NEW t \in Slot
  PROVE  WorkerOK(t)'
<1>1. CASE link' = "broken"
  BY <1>1, SendLost DEF WorkerOK
<1>2. CASE link' = "up"
  <2>. SUFFICES ASSUME Unfinished(t)', NEW x, x = Fed(t)', Upto(t)' # 0, NEW k, k = Ahead'
                PROVE  After(t, k, x)'
    BY DEF WorkerOK, After
  <2>1. PICK c \in Slot : c = cur
    BY DEF CoreInv, SplitInv
  <2>2. PICK f : f = RunFrame(cur, phase[cur].pos, NextRows)
    OBVIOUS
  <2>3. ~Lost /\ Ahead = Len(wire) /\ k = Len(wire') /\ wire' = Append(wire, f)
    BY <1>2, <2>2, SendLost
  <2>4. IsSeq(wire) /\ worker' = worker /\ slots' = slots
    BY <2>1, SendFed DEF SendFrame, Write, CoreInv, MatchInv
  <2>5. PICK n : n = Len(wire)
    OBVIOUS
  <2>6. k = n + 1
    BY <2>3, <2>4, <2>5, AppendSeq
  <2>7. CASE t = c
    <3>1. Upto(c)' = phase[c].pos + Len(Feeds(c)) /\ NextRows = Hist(slots[c].req, phase[c].pos + Len(Feeds(c)))
      BY <2>1, SendFed, SendRows
    <3>2. f.rows = x /\ f.slot = c
      BY <2>1, <2>2, <2>4, <2>7, <3>1 DEF RunFrame, Fed, Hist
    <3>. QED  BY <2>3, <2>4, <2>5, <2>6, <2>7, <3>2, AfterMore, SMTT(60)
  <2>8. CASE t # c
    <3>1. SameFed(t) /\ f.slot = c
      BY <2>1, <2>2, <2>8, SendFed DEF RunFrame
    <3>2. Unfinished(t) /\ Upto(t) # 0 /\ x = Fed(t)
      BY <3>1 DEF SameFed, Fed, Hist
    <3>3. After(t, n, x)
      BY <2>3, <2>5, <3>2, HeldByWorker
    <3>. QED  BY <2>3, <2>4, <2>5, <2>6, <2>8, <3>1, <3>3, AfterMore
  <2>. QED  BY <2>7, <2>8
<1>. QED  BY <1>1, <1>2, SendLost

LEMMA LoadedHeld ==
  ASSUME CoreInv, HeadInv, LinkInv, WorkerInv, AdmitLoaded, NEW c \in Slot, c = cur
  PROVE  worker[c] = Fed(c)'
<1>. DEFINE n == Len(snaps[Best].tokens)
<1>1. /\ queue # <<>> /\ n \in Nat /\ n < Len(Prompt[Head(queue)]) /\ Admitted(n)
      /\ snaps[Best].tokens = Hist(Head(queue), n) /\ Best \in Snap /\ snaps[Best].valid
  BY WarmAdmission DEF CoreInv, WaitInv
<1>2. pc = "loading" /\ replies # <<>>
  BY DEF AdmitLoaded
<1>3. worker[c] = workerSnaps[Best] /\ workerSnaps[Best] = snaps[Best].tokens
  BY <1>1, <1>2 DEF WorkerInv, AskedOK, EntriesOK, Whole
<1>. HIDE DEF n
<1>4. phase'[c].decoding = FALSE /\ phase'[c].pos = n /\ slots'[c].req = Head(queue)
  BY <1>1, AdmittedPhase DEF CoreInv
<1>5. Fed(c)' = Hist(Head(queue), n)
  BY <1>4 DEF Fed, Upto, Hist
<1>. QED  BY <1>1, <1>3, <1>5

LEMMA HeadHeld ==
  ASSUME CoreInv, HeadInv, LinkInv, WorkerInv, [Next]_vars, ~Outside, NEW t \in Slot
  PROVE  WorkerOK(t)'
<1>0. PICK c \in Slot : c = cur
  BY DEF CoreInv, SplitInv
<1>1. worker' = worker
  BY HeadNet DEF LinkInv
<1>2. ASSUME ~InPass, ~InPass' \/ (link' = "up" => wire' = <<>>) PROVE Ahead = 0 /\ Ahead' = Ahead
  <2>1. Len(<<>>) = 0
    OBVIOUS
  <2>. QED  BY <1>2, <2>1 DEF Ahead
<1>3. CASE TakeCmds \/ AdmitSkip \/ AdmitLoad \/ BarrierSave \/ BarrierSkip \/ FlushPhase \/ Stop
           \/ BarrierFirst \/ BarrierSaved \/ BarrierSaveFails
  <2>1. ~InPass /\ ~Lost
    BY <1>3 DEF TakeCmds, AdmitSkip, AdmitLoad, CanAdmit, BarrierSave, BarrierSkip, FlushPhase, Stop,
                BarrierFirst, BarrierSaved, BarrierSaveFails, ReadFails, InPass, Lost
  <2>2. FlushPhase => (link' = "up" => wire' = <<>>)
    BY DEF FlushPhase, CoreInv, MatchInv, netVars
  <2>3. ~FlushPhase => ~InPass'
    BY <1>3, PassSteps DEF TakeCmds, AdmitSkip, AdmitLoad, CanAdmit, BarrierSave, BarrierSkip, Stop,
                BarrierFirst, BarrierSaved, BarrierSaveFails, ReadFails, SendFrame, SendNext, RecvFrame
  <2>4. SameFed(t)
    BY <1>3, SteadyFed DEF Steady
  <2>. QED  BY <1>1, <1>2, <2>1, <2>2, <2>3, <2>4, WorkerCalm
<1>4. CASE FailPhase
  <2>1. pc' = "fail" \/ ~Unfinished(t)'
    BY <1>4, FailedAll
  <2>. QED  BY <2>1 DEF WorkerOK, Lost
<1>5. CASE SendNext \/ RecvFrame
  <2>1. wire' = wire /\ link' = link /\ InPass /\ InPass' /\ (Lost' <=> Lost)
    <3>1. CASE SendNext
      BY <3>1 DEF SendNext, netVars, Lost, InPass
    <3>2. CASE RecvFrame
      BY <3>2, RecvCounts
    <3>. QED  BY <1>5, <3>1, <3>2
  <2>2. Ahead' = Ahead
    BY <2>1 DEF Ahead
  <2>3. SameFed(t)
    BY <1>5, SteadyFed DEF Steady
  <2>4. CASE Lost
    BY <2>1, <2>4 DEF WorkerOK
  <2>. QED  BY <1>1, <2>1, <2>2, <2>3, <2>4, WorkerCalm
<1>6. CASE RecvOver
  <2>1. ~Lost /\ (link = "up" => wire = <<>>) /\ ~InPass' /\ wire' = wire /\ Len(<<>>) = 0
    BY <1>6, OverClean DEF RecvOver, InPass, netVars
  <2>2. Ahead = 0 /\ Ahead' = 0
    BY <2>1 DEF Ahead
  <2>3. SameFed(t)
    BY <1>6, SteadyFed DEF Steady
  <2>. QED  BY <1>1, <2>1, <2>2, <2>3, WorkerCalm
<1>7. CASE AdmitCold \/ AdmitLoaded \/ AdmitFails
  <2>1. PICK n \in Nat : /\ queue # <<>> /\ n < Len(Prompt[Head(queue)]) /\ Admitted(n)
                         /\ ~AdmitLoaded => n = 0
    BY <1>7, ColdAdmission, WarmAdmission DEF CoreInv, WaitInv
  <2>2. /\ phase'[c].decoding = FALSE /\ phase'[c].pos = n
        /\ t # c => Still(t)
    BY <1>0, <2>1, AdmittedPhase DEF CoreInv
  <2>3. sent' = sent /\ pc \in {"admit", "loading"} /\ pc' \in {"admit", "flush"}
    BY <1>7, <2>1 DEF Admitted, Advance, AdmitCold, AdmitLoaded, AdmitFails, CanAdmit, ReadFails
  <2>4. ~Lost /\ Ahead = 0 /\ Ahead' = Ahead
    BY <2>3 DEF Lost, Ahead, InPass
  <2>5. CASE t = c /\ AdmitLoaded
    <3>1. worker'[t] = Fed(t)'
      BY <1>0, <1>1, <2>5, LoadedHeld
    <3>. QED  BY <2>4, <3>1 DEF WorkerOK, After
  <2>6. CASE t = c /\ ~AdmitLoaded
    BY <2>1, <2>2, <2>6 DEF WorkerOK, Upto
  <2>7. CASE t # c
    <3>1. SameFed(t)
      BY <2>2, <2>3, <2>7, StillFed DEF InSent
    <3>. QED  BY <1>1, <2>4, <3>1, WorkerCalm
  <2>. QED  BY <2>5, <2>6, <2>7
<1>8. CASE SendFails \/ RecvFails
  BY <1>8 DEF SendFails, RecvFails, Abort, WorkerOK, Lost
<1>. QED  BY <1>3, <1>4, <1>5, <1>6, <1>7, <1>8, SendHeld, StepCases

-------------------------------------------------------------------------------
(* The worker's half, over every step, and what the answers are worth.        *)

LEMMA InitWorker == Init => WorkerInv
<1>. SUFFICES ASSUME Init PROVE WorkerInv
  OBVIOUS
<1>1. /\ pc = "top" /\ wire = <<>> /\ replies = <<>> /\ Len(<<>>) = 0
      /\ \A s \in Slot : slots[s] = NoSlot
      /\ \A i \in Snap : snaps[i] = NoSnap
  BY DEF Init, FrontInit
<1>2. \A s \in Slot : ~Unfinished(s)
  BY <1>1 DEF Unfinished, Occupied, NoSlot
<1>3. PassOK /\ WiresOK /\ AskedOK
  BY <1>1 DEF PassOK, WiresOK, AskedOK, InPass
<1>4. SlotsOK
  BY <1>2 DEF SlotsOK, LastOK, WorkerOK
<1>5. EntriesOK
  BY <1>1 DEF EntriesOK, Whole, NoSnap
<1>. QED  BY <1>3, <1>4, <1>5 DEF WorkerInv

\* A worker that has not restarted had not restarted before.
LEMMA NoRestart ==
  ASSUME LinkInv, [Next]_vars, faults'.restarts = 0
  PROVE  faults.restarts = 0
<1>1. faults \in [breaks : Nat, restarts : Nat]
  BY DEF LinkInv, NetType
<1>2. CASE ~Outside
  BY <1>2, HeadNet DEF LinkInv
<1>3. CASE Outside
  <2>1. CASE Network
    <3>1. WorkerStep \/ WorkerGivesUp => faults' = faults
      BY DEF WorkerStep, WorkerGivesUp
    <3>2. Break => faults'.restarts = faults.restarts
      BY <1>1 DEF Break
    <3>3. ~Restart
      BY <1>1 DEF Restart
    <3>. QED  BY <2>1, <3>1, <3>2, <3>3 DEF Network
  <2>2. CASE faults' = faults
    BY <2>2
  <2>. QED  BY <1>3, <2>1, <2>2 DEF Outside, vars, splitVars, netVars
<1>. QED  BY <1>2, <1>3

LEMMA NextWorker ==
  ASSUME CoreInv, HeadInv, LinkInv, WorkerInv, [Next]_vars, faults'.restarts = faults.restarts
  PROVE  WorkerInv'
<1>1. CASE Outside
  BY <1>1, OutsideWorker
<1>2. CASE ~Outside
  <2>1. PassOK' /\ EntriesOK' /\ WiresOK' /\ AskedOK'
    BY <1>2, HeadPass, HeadEntries, HeadWires, HeadAsked
  <2>2. \A t \in Slot : LastOK(t)' /\ WorkerOK(t)'
    BY <1>2, HeadLast, HeadHeld
  <2>. QED  BY <2>1, <2>2 DEF WorkerInv, SlotsOK
<1>. QED  BY <1>1, <1>2

\* What a sample is taken from is the whole history of its slot.
LEMMA AnswersTrue ==
  ASSUME CoreInv, WorkerInv
  PROVE  RowsTrue
<1>1. \A s \in Slot : /\ PhaseOK(s) /\ IsPhase(phase[s]) /\ slots[s] \in SlotState
                      /\ (Occupied(s) => slots[s].req \in Request)
  BY DEF CoreInv, SplitInv, FrontTypeOK, PhaseInv, PhaseType, SlotState, Occupied
<1>2. ASSUME pc = "recv", sent # <<>>, replies # <<>>, phase[Head(sent)].decoding
      PROVE  Head(replies).rows = TrueHistory(Head(sent))
  <2>1. /\ Len(sent) \in Nat \ {0} /\ Len(replies) \in Nat \ {0}
        /\ Head(sent) = sent[1] /\ Head(replies) = replies[1]
    BY <1>2, TailSeq DEF CoreInv, MatchInv
  <2>2. PICK s \in Slot : s = sent[1]
    BY <1>2, <2>1 DEF CoreInv, SplitInv
  <2>3. Unfinished(s) /\ InSent(s) /\ phase[s].decoding
    BY <1>2, <2>1, <2>2 DEF CoreInv, PhaseInv, SentOK, InSent
  <2>4. \A k \in 2 .. Len(sent) : sent[k] # sent[1]
    <3>1. SentOK /\ phase[sent[1]].decoding
      BY <2>2, <2>3 DEF CoreInv, PhaseInv
    <3>. QED  BY <2>1, <3>1 DEF SentOK
  <2>5. replies[1].rows = Fed(s)
    <3>1. ReplyOK(1) /\ 1 + 1 = 2
      BY <1>2, <2>1 DEF WorkerInv, PassOK, InPass
    <3>. QED  BY <2>2, <2>4, <3>1 DEF ReplyOK
  <2>. DEFINE e == slots[s].emitted  r == slots[s].req
  <2>6. /\ r \in Request /\ e \in Nat /\ Upto(s) = phase[s].pos + 1
        /\ phase[s].pos + 1 = Len(PromptOf(s)) + e
    BY <1>1, <2>3 DEF PhaseOK, DecodeOK, Unfinished, Upto, SlotState
  <2>7. Fed(s) = Hist(r, Len(Prompt[r]) + e)
    BY <2>6 DEF Fed, PromptOf
  <2>. HIDE DEF e, r
  <2>8. Prompt[r] \o [i \in 1 .. e |-> Gen] = Hist(r, Len(Prompt[r]) + e)
    BY <2>6, HistTrue
  <2>. QED  BY <2>1, <2>2, <2>5, <2>7, <2>8 DEF TrueHistory, PromptOf, e, r
<1>3. ASSUME pc = "barrier", FirstDue PROVE phase[cur].last = TrueHistory(cur)
  <2>1. PICK s \in Slot : s = cur
    BY DEF CoreInv, SplitInv
  <2>2. Occupied(s) /\ ~phase[s].decoding /\ phase[s].pos = Len(PromptOf(s))
    BY <1>3, <2>1 DEF FirstDue
  <2>3. Unfinished(s) /\ slots[s].emitted = 0 /\ slots[s].req \in Request
    BY <1>1, <2>2 DEF PhaseOK, PrefillOK, Unfinished
  <2>4. ~InSent(s)
    <3>1. sent = <<>> /\ Len(<<>>) = 0
      BY <1>3 DEF CoreInv, MatchInv
    <3>. QED  BY <3>1 DEF InSent
  <2>5. phase[s].last = PromptOf(s)
    BY <1>3, <2>2, <2>3, <2>4 DEF WorkerInv, SlotsOK, LastOK
  <2>. DEFINE r == slots[s].req
  <2>6. r \in Request /\ Len(Prompt[r]) \in Nat /\ Len(Prompt[r]) + 0 = Len(Prompt[r])
    BY <2>3, PromptType
  <2>7. Prompt[r] \o [i \in 1 .. 0 |-> Gen] = Hist(r, Len(Prompt[r]) + 0)
        /\ Prompt[r] = Hist(r, Len(Prompt[r]))
    BY <2>6, HistTrue, HistPrompt
  <2>. QED  BY <2>1, <2>3, <2>5, <2>6, <2>7 DEF TrueHistory, PromptOf
<1>. QED  BY <1>2, <1>3 DEF RowsTrue

\* A reader's tokens, with the handler and under way.
LEMMA StreamsInOrder ==
  ASSUME CoreInv, ExactInv
  PROVE  StreamsExact
<1>. SUFFICES ASSUME NEW r \in Request
              PROVE  Exact(r, got[r]) /\ (RxOpen(r) => Exact(r, Stream(r)))
  BY DEF StreamsExact, Exact
<1>1. FrontTypeOK /\ FrontInv /\ ExactOK(r)
  BY DEF CoreInv, SplitInv, ExactInv
<1>2. CASE InSlot(r)
  BY <1>1, <1>2, StreamOfSlot DEF InSlot, Stream, ExactOK
<1>3. CASE ~InSlot(r)
  BY <1>1, <1>3, StreamOfSlot DEF Stream, ExactOK
<1>. QED  BY <1>1, <1>2, <1>3 DEF ExactOK

\* The invariant of split serving, with a worker that has not restarted.
Mirrored == WorkerInv /\ ExactInv
SplitServingInv == CoreInv /\ HeadInv /\ LinkInv /\ (faults.restarts = 0 => Mirrored)

LEMMA InitServing == Init => SplitServingInv
BY InitCore, InitHead, InitLink, InitWorker DEF SplitServingInv, Mirrored

LEMMA NextServing == SplitServingInv /\ [Next]_vars => SplitServingInv'
<1>. SUFFICES ASSUME SplitServingInv, [Next]_vars PROVE SplitServingInv'
  OBVIOUS
<1>1. CoreInv' /\ HeadInv' /\ LinkInv'
  BY NextCore, NextHeadInv, NextLink DEF SplitServingInv
<1>2. ASSUME faults'.restarts = 0 PROVE Mirrored'
  <2>1. WorkerInv /\ ExactInv
    BY <1>2, NoRestart DEF SplitServingInv, Mirrored
  <2>2. WorkerInv'
    BY <1>2, <2>1, NoRestart, NextWorker DEF SplitServingInv
  <2>3. ExactInv'
    BY <2>1, AnswersTrue, NextFront DEF SplitServingInv
  <2>. QED  BY <2>2, <2>3 DEF Mirrored
<1>. QED  BY <1>1, <1>2 DEF SplitServingInv

(* Whatever is pipelined, restored from a snapshot, retried or lost on the way *)
(* (run_split_engine_thread and the worker), as long as the worker did not     *)
(* restart every token a client was or will be handed was computed, on both    *)
(* machines, from exactly the request's prompt and the tokens before it.       *)
THEOREM SplitStreamsStayExact == Spec => []StreamsExactWithWorker
<1>1. SplitServingInv => StreamsExactWithWorker
  BY StreamsInOrder DEF SplitServingInv, Mirrored, StreamsExactWithWorker
<1>. QED  BY <1>1, InitServing, NextServing, PTL DEF Spec

(* A prefix the head may restore is whole: the entry on both machines holds    *)
(* the state of that prefix, whatever save or connection failed since          *)
(* (best_snap, snapshot_save and void in split.rs).                            *)
THEOREM SnapshotsStayMirrored == Spec => []SnapshotsMirrored
<1>1. SplitServingInv => SnapshotsMirrored
  BY DEF SplitServingInv, Mirrored, HeadInv, SnapsHeld, WorkerInv, EntriesOK, Whole, SnapshotsMirrored
<1>. QED  BY <1>1, InitServing, NextServing, PTL DEF Spec
-------------------------------------------------------------------------------
(* With a worker that may restart.  What a fault spoils is not read again      *)
(* before the head has noticed: until then the link is broken, and of what is  *)
(* under way only answers from before the fault are left.                      *)

\* x is a part of slot s's own history, from its first token.
Own(s, x) == \E n \in 0 .. Len(PromptOf(s)) + slots[s].emitted : x = Hist(slots[s].req, n)

\* A decoding slot keeps no rows.
LastNone == \A s \in Slot : phase[s].decoding => phase[s].last = <<>>

\* An operation on a snapshot is not answered by a frame's rows.
StateAnswers == pc \in {"loading", "saving"} =>
  /\ \A i \in 1 .. Len(replies) : replies[i].op # "run"
  /\ \A j \in 1 .. Len(wire) : wire[j].op # "run"

\* A failed pass leaves nothing to restore; a stopped head nothing to serve.
FailVoid == /\ pc = "fail" => link = "down" /\ \A i \in Snap : ~snaps[i].valid
            /\ pc = "stopped" => link = "down" /\ \A s \in Slot : ~Occupied(s)

KeptOwn == \A s \in Slot : Occupied(s) => Own(s, phase[s].last)
AnswersOwn == InPass => \A i \in 1 .. Len(replies) : Own(sent[i], replies[i].rows)
FramesOwn == InPass /\ link = "up" => \A j \in 1 .. Len(wire) : Own(wire[j].slot, wire[j].rows)

\* Before its first frame on a connection a slot has nothing to lose.
Fresh == /\ \A s \in Slot : Unfinished(s) => Upto(s) = 0
         /\ \A i \in Snap : ~snaps[i].valid

Sound == /\ KeptOwn /\ AnswersOwn /\ FramesOwn
         /\ link # "broken" /\ pc # "stopped" => WorkerInv /\ (link = "down" => Fresh)

ApartInv == /\ LastNone /\ StateAnswers /\ FailVoid
            /\ missed \/ pc = "fail" \/ Sound

LEMMA OwnSame ==
  ASSUME NEW t, NEW x, Own(t, x), slots'[t].req = slots[t].req, slots'[t].emitted = slots[t].emitted
  PROVE  Own(t, x)'
BY DEF Own, PromptOf

\* Nothing is a part of any history.
LEMMA OwnNone ==
  ASSUME FrontTypeOK, NEW t \in Slot, Occupied(t)
  PROVE  Own(t, <<>>)
<1>1. slots[t].req \in Request /\ slots[t].emitted \in Nat
  BY DEF FrontTypeOK, SlotState, Occupied
<1>2. Len(PromptOf(t)) \in Nat
  BY <1>1, PromptType DEF PromptOf
<1>3. 0 \in 0 .. Len(PromptOf(t)) + slots[t].emitted
  BY <1>1, <1>2
<1>4. Hist(slots[t].req, 0) \in Seq(Marks(slots[t].req)) /\ Len(Hist(slots[t].req, 0)) = 0
  BY <1>1, HistType
<1>5. Hist(slots[t].req, 0) = <<>>
  BY <1>4
<1>. QED  BY <1>3, <1>5 DEF Own

LEMMA OwnPrefix ==
  ASSUME FrontTypeOK, NEW t \in Slot, Occupied(t), NEW x, Own(t, x)
  PROVE  IsPrefix(x, TrueHistory(t))
<1>. DEFINE r == slots[t].req  e == slots[t].emitted  m == Len(Prompt[r]) + e  h == Hist(r, m)
<1>1. r \in Request /\ e \in Nat
  BY DEF FrontTypeOK, SlotState, Occupied
<1>2. Len(Prompt[r]) \in Nat
  BY <1>1, PromptType
<1>3. m \in Nat /\ TrueHistory(t) = h
  <2>1. TrueHistory(t) = Prompt[r] \o [i \in 1 .. e |-> Gen]
    BY DEF TrueHistory, PromptOf
  <2>. HIDE DEF r, e
  <2>2. Prompt[r] \o [i \in 1 .. e |-> Gen] = Hist(r, Len(Prompt[r]) + e)
    BY <1>1, HistTrue
  <2>3. m \in Nat
    BY <1>1, <1>2
  <2>. QED  BY <2>1, <2>2, <2>3, Zenon
<1>4. PICK n \in 0 .. m : x = Hist(r, n)
  BY DEF Own, PromptOf
<1>. HIDE DEF m, r, e
<1>5. n \in Nat /\ n <= m
  BY <1>3, <1>4
<1>6. x \in Seq(Marks(r)) /\ Len(x) = n /\ Len(h) = m /\ SubSeq(h, 1, n) = x /\ SubSeq(x, 1, n) = x
  <2>1. n \in 0 .. n
    BY <1>5
  <2>. QED  BY <1>1, <1>3, <1>4, <1>5, <2>1, HistType, HistPrefix
<1>. HIDE DEF h
<1>. QED  BY <1>3, <1>5, <1>6 DEF IsPrefix

\* What a slot that goes on has been fed is a part of its history.
LEMMA UptoIn ==
  ASSUME CoreInv, NEW t \in Slot, Unfinished(t)
  PROVE  Upto(t) \in 0 .. Len(PromptOf(t)) + slots[t].emitted
<1>1. slots[t].req \in Request /\ slots[t].emitted \in Nat /\ PhaseOK(t) /\ phase[t].pos \in Nat
  BY PhaseFields DEF CoreInv, SplitInv, FrontTypeOK, SlotState, Occupied, Unfinished, PhaseInv, PhaseType
<1>2. Len(PromptOf(t)) \in Nat
  BY <1>1, PromptType DEF PromptOf
<1>3. CASE phase[t].decoding
  BY <1>1, <1>2, <1>3 DEF PhaseOK, DecodeOK, Upto
<1>4. CASE ~phase[t].decoding
  BY <1>1, <1>2, <1>4 DEF PhaseOK, PrefillOK, Upto
<1>. QED  BY <1>3, <1>4

-------------------------------------------------------------------------------
(* What holds whatever was missed.                                            *)

LEMMA NextLast ==
  ASSUME CoreInv, LastNone, [Next]_vars
  PROVE  LastNone'
<1>0. /\ DOMAIN phase = Slot /\ \A t \in Slot : IsPhase(phase[t])
      /\ \A t \in Slot : phase[t].decoding => phase[t].last = <<>>
      /\ cur \in Slot
  BY DEF CoreInv, PhaseType, LastNone, SplitInv
<1>1. CASE phase' = phase
  BY <1>1 DEF LastNone
<1>2. ASSUME NEW ph, \A t \in Slot : ph[t].decoding => ph[t].last = <<>>, KeepPhases(ph)
      PROVE  LastNone'
  BY <1>2 DEF KeepPhases, LastNone, NoPhase
<1>3. CASE Beside
  BY <1>1, <1>3, BesideStill DEF CoreInv
<1>4. CASE FlushPhase \/ FailPhase
  BY <1>0, <1>2, <1>4 DEF FlushPhase, FailPhase
<1>5. CASE Stop
  BY <1>1, <1>5 DEF Stop
<1>6. ASSUME NEW n, Admitted(n) PROVE LastNone'
  <2>1. phase' = [phase EXCEPT ![cur] = NewPrefill(Head(queue), n)]
    BY <1>6 DEF Admitted
  <2>2. NewPrefill(Head(queue), n).decoding = FALSE
    BY DEF NewPrefill, NoPhase
  <2>. QED  BY <1>0, <2>1, <2>2 DEF LastNone
<1>7. CASE AdmitCold \/ AdmitLoaded \/ AdmitFails
  BY <1>6, <1>7 DEF AdmitCold, AdmitLoaded, AdmitFails
<1>8. CASE SendFrame
  <2>1. phase' = phase \/ phase' = [phase EXCEPT ![cur].pos = @ + Len(Feeds(cur))]
    BY <1>8 DEF SendFrame
  <2>2. PICK c \in Slot : c = cur
    BY <1>0
  <2>. DEFINE p == phase[c]
  <2>3. \A n : [p EXCEPT !.pos = n].decoding = p.decoding /\ [p EXCEPT !.pos = n].last = p.last
    BY <1>0, <2>2 DEF IsPhase
  <2>4. phase' = phase \/ \E n : phase' = [phase EXCEPT ![c] = [p EXCEPT !.pos = n]]
    BY <2>1, <2>2
  <2>5. ASSUME NEW n, phase' = [phase EXCEPT ![c] = [p EXCEPT !.pos = n]] PROVE LastNone'
    BY <1>0, <2>2, <2>3, <2>5 DEF LastNone
  <2>. QED  BY <1>1, <2>4, <2>5
<1>9. CASE RecvFrame
  <2>1. PICK s \in Slot : s = Head(sent)
    BY <1>9 DEF RecvFrame, CoreInv, SplitInv
  <2>2. PICK p : p = phase[s]
    OBVIOUS
  <2>3. /\ \A n : [p EXCEPT !.pos = n].decoding = p.decoding /\ [p EXCEPT !.pos = n].last = p.last
        /\ \A x : [p EXCEPT !.last = x].decoding = p.decoding
    BY <1>0, <2>1, <2>2 DEF IsPhase
  <2>4. \/ phase' = phase
        \/ KeepPhases([phase EXCEPT ![s] = [p EXCEPT !.pos = @ + 1]])
        \/ ~p.decoding /\ \E x : phase' = [phase EXCEPT ![s] = [p EXCEPT !.last = x]]
    BY <1>9, <2>1, <2>2 DEF RecvFrame
  <2>5. CASE KeepPhases([phase EXCEPT ![s] = [p EXCEPT !.pos = @ + 1]])
    <3>1. PICK ph : ph = [phase EXCEPT ![s] = [p EXCEPT !.pos = @ + 1]]
      OBVIOUS
    <3>2. \A t \in Slot : ph[t].decoding => ph[t].last = <<>>
      BY <1>0, <2>2, <2>3, <3>1
    <3>. QED  BY <1>2, <2>5, <3>1, <3>2
  <2>6. CASE ~p.decoding /\ \E x : phase' = [phase EXCEPT ![s] = [p EXCEPT !.last = x]]
    BY <1>0, <2>2, <2>3, <2>6 DEF LastNone
  <2>. QED  BY <1>1, <2>4, <2>5, <2>6
<1>10. CASE BarrierFirst
  <2>1. PICK ph : /\ ph = [phase EXCEPT ![cur] = [NoPhase EXCEPT !.decoding = TRUE, !.pos = phase[cur].pos]]
                  /\ KeepPhases(ph)
    BY <1>10 DEF BarrierFirst
  <2>2. [NoPhase EXCEPT !.decoding = TRUE, !.pos = phase[cur].pos].last = <<>>
    BY DEF NoPhase
  <2>3. \A t \in Slot : ph[t].decoding => ph[t].last = <<>>
    BY <1>0, <2>1, <2>2
  <2>. QED  BY <1>2, <2>1, <2>3
<1>11. CASE BarrierSaved \/ BarrierSaveFails
  <2>1. PICK c \in Slot : c = cur
    BY <1>0
  <2>2. phase'[c].decoding = phase[c].decoding /\ phase'[c].last = phase[c].last
    BY <1>11, <2>1, SavedPhase DEF CoreInv
  <2>3. \A t \in Slot : t # c => phase'[t] = phase[t]
    BY <1>0, <1>11, <2>1 DEF BarrierSaved, BarrierSaveFails
  <2>. QED  BY <1>0, <2>2, <2>3 DEF LastNone
<1>. QED  BY <1>3, <1>4, <1>5, <1>7, <1>8, <1>9, <1>10, <1>11, StepCases DEF Beside, Outside

LEMMA NextStateAnswers ==
  ASSUME CoreInv, LinkInv, StateAnswers, [Next]_vars
  PROVE  StateAnswers'
<1>. SUFFICES ASSUME pc' \in {"loading", "saving"}
              PROVE  /\ \A i \in 1 .. Len(replies') : replies'[i].op # "run"
                     /\ \A j \in 1 .. Len(wire') : wire'[j].op # "run"
  BY DEF StateAnswers
<1>0. IsSeq(wire) /\ IsSeq(replies) /\ Len(<<>>) = 0 /\ BrokenOK
  BY DEF CoreInv, MatchInv, LinkInv
<1>1. CASE AdmitLoad \/ BarrierSave
  <2>1. PICK f : Write(f) /\ f.op # "run"
    BY <1>1 DEF AdmitLoad, BarrierSave, StateFrame
  <2>2. pc \in Quiet
    BY <1>1 DEF AdmitLoad, CanAdmit, BarrierSave, Quiet
  <2>. QED  BY <1>0, <2>1, <2>2, Asked
<1>2. CASE Outside
  <2>0. /\ \A i \in 1 .. Len(replies) : replies[i].op # "run"
        /\ \A j \in 1 .. Len(wire) : wire[j].op # "run"
    BY <1>2, OutsideKept DEF StateAnswers, headVars
  <2>1. CASE UNCHANGED netVars
    BY <2>0, <2>1 DEF netVars
  <2>2. CASE WorkerStep
    <3>1. wire # <<>> /\ wire' = Tail(wire)
      BY <2>2 DEF WorkerStep
    <3>2. /\ Len(wire) \in Nat \ {0} /\ Len(wire') = Len(wire) - 1 /\ Head(wire) = wire[1]
          /\ \A j \in 1 .. Len(wire) - 1 : wire'[j] = wire[j + 1] /\ j + 1 \in 1 .. Len(wire)
          /\ 1 \in 1 .. Len(wire)
      BY <1>0, <3>1, TailSeq
    <3>3. replies' = replies \/ \E a : replies' = Append(replies, a) /\ a.op = wire[1].op
      BY <2>2, <3>2 DEF WorkerStep, Reply
    <3>4. \A i \in 1 .. Len(replies') : replies'[i].op # "run"
      <4>1. CASE replies' = replies
        BY <2>0, <4>1
      <4>2. ASSUME NEW a, replies' = Append(replies, a), a.op = wire[1].op
            PROVE  \A i \in 1 .. Len(replies') : replies'[i].op # "run"
        <5>1. /\ Len(replies) \in Nat /\ Len(replies') = Len(replies) + 1
              /\ \A i \in 1 .. Len(replies) : replies'[i] = replies[i]
              /\ replies'[Len(replies) + 1] = a
          BY <1>0, <4>2, AppendSeq
        <5>2. \A i \in 1 .. Len(replies) + 1 : i \in 1 .. Len(replies) \/ i = Len(replies) + 1
          BY <5>1
        <5>. QED  BY <2>0, <3>2, <4>2, <5>1, <5>2
      <4>. QED  BY <3>3, <4>1, <4>2
    <3>. QED  BY <2>0, <3>2, <3>4
  <2>3. CASE WorkerGivesUp
    BY <1>0, <2>0, <2>3 DEF WorkerGivesUp
  <2>4. CASE Break \/ Restart
    <3>1. PICK n \in 0 .. Len(replies) : replies' = SubSeq(replies, 1, n)
      BY <2>4 DEF Break, Restart
    <3>2. Len(replies') = n /\ \A i \in 1 .. n : replies'[i] = replies[i] /\ i \in 1 .. Len(replies)
      BY <1>0, <3>1, PrefixSeq DEF IsSeq
    <3>3. wire' = wire \/ wire' = <<>>
      BY <2>4 DEF Break, Restart
    <3>. QED  BY <1>0, <2>0, <3>2, <3>3
  <2>. QED  BY <1>2, <2>1, <2>2, <2>3, <2>4 DEF Outside, Network, splitVars, vars
<1>3. ASSUME ~Outside, ~AdmitLoad, ~BarrierSave PROVE FALSE
  <2>1. TakeCmds \/ AdmitSkip \/ SendNext \/ RecvOver \/ BarrierSkip \/ FailPhase \/ Stop \/ FlushPhase
        \/ AdmitCold \/ AdmitLoaded \/ AdmitFails => ~(pc' \in {"loading", "saving"})
    BY DEF TakeCmds, AdmitSkip, SendNext, RecvOver, BarrierSkip, BarrierNext, FailPhase, FlushPhase,
           Stop, AdmitCold, AdmitLoaded, AdmitFails, Admitted, Advance
  <2>2. SendFails \/ RecvFails \/ BarrierFirst \/ BarrierSaved \/ BarrierSaveFails \/ SendFrame
        \/ RecvFrame => ~(pc' \in {"loading", "saving"})
    BY DEF SendFails, RecvFails, Abort, BarrierFirst, BarrierNext, BarrierSaved, BarrierSaveFails,
           SendFrame, RecvFrame
  <2>. QED  BY <1>3, <2>1, <2>2, StepCases
<1>. QED  BY <1>1, <1>2, <1>3

LEMMA NextVoid ==
  ASSUME CoreInv, FailVoid, [Next]_vars
  PROVE  FailVoid'
<1>1. CASE Outside
  <2>1. UNCHANGED <<pc, snaps, slots>>
    BY <1>1, OutsideKept DEF headVars
  <2>2. link = "down" => link' = "down"
    BY <1>1 DEF Outside, Network, WorkerStep, WorkerGivesUp, Break, Restart, splitVars, netVars, vars
  <2>. QED  BY <2>1, <2>2 DEF FailVoid, Occupied
<1>2. CASE SendFails \/ RecvFails
  BY <1>2 DEF SendFails, RecvFails, Abort, WriteFails, ReadFails, Poison, NoSnap, FailVoid
<1>3. CASE FailPhase
  BY <1>3 DEF FailPhase, netVars, FailVoid
<1>4. CASE Stop
  <2>1. slots' = [s \in Slot |-> NoSlot]
    BY <1>4 DEF Stop, DropAll
  <2>. QED  BY <1>4, <2>1 DEF Stop, FailVoid, Occupied, NoSlot
<1>5. TakeCmds \/ AdmitSkip \/ SendNext \/ RecvOver \/ BarrierSkip \/ FlushPhase
      \/ AdmitCold \/ AdmitLoaded \/ AdmitFails => pc' \notin {"fail", "stopped"}
  BY DEF TakeCmds, AdmitSkip, SendNext, RecvOver, BarrierSkip, BarrierNext, FlushPhase,
         AdmitCold, AdmitLoaded, AdmitFails, Admitted, Advance
<1>6. AdmitLoad \/ BarrierSave \/ BarrierFirst \/ BarrierSaved \/ BarrierSaveFails \/ SendFrame
      \/ RecvFrame => pc' \notin {"fail", "stopped"}
  BY DEF AdmitLoad, BarrierSave, BarrierFirst, BarrierNext, BarrierSaved, BarrierSaveFails,
         SendFrame, RecvFrame
<1>7. CASE pc' \notin {"fail", "stopped"}
  BY <1>7 DEF FailVoid
<1>. QED  BY <1>1, <1>2, <1>3, <1>4, <1>5, <1>6, <1>7, StepCases

-------------------------------------------------------------------------------
(* Answers and kept rows, while nothing was missed.                           *)

LEMMA NoneOwn ==
  ASSUME NEW r \in Request, NEW e \in Nat
  PROVE  \E n \in 0 .. Len(Prompt[r]) + e : <<>> = Hist(r, n)
<1>1. Len(Prompt[r]) \in Nat
  BY PromptType
<1>2. 0 \in 0 .. Len(Prompt[r]) + e
  BY <1>1
<1>3. Hist(r, 0) \in Seq(Marks(r)) /\ Len(Hist(r, 0)) = 0
  BY HistType
<1>4. <<>> = Hist(r, 0)
  BY <1>3
<1>. QED  BY <1>2, <1>4

LEMMA NextKept ==
  ASSUME CoreInv, CoreInv', LastNone', KeptOwn, AnswersOwn, [Next]_vars
  PROVE  KeptOwn'
<1>. SUFFICES ASSUME NEW t \in Slot, Occupied(t)' PROVE Own(t, phase[t].last)'
  BY DEF KeptOwn
<1>0. PICK c \in Slot : c = cur
  BY DEF CoreInv, SplitInv
<1>1. ASSUME phase'[t].last = <<>> PROVE Own(t, phase[t].last)'
  <2>1. slots'[t].req \in Request /\ slots'[t].emitted \in Nat
    BY DEF CoreInv, SplitInv, FrontTypeOK, SlotState, Occupied
  <2>2. PICK r \in Request, e \in Nat : r = slots'[t].req /\ e = slots'[t].emitted
    BY <2>1
  <2>3. \E n \in 0 .. Len(Prompt[r]) + e : <<>> = Hist(r, n)
    BY NoneOwn
  <2>. QED  BY <1>1, <2>2, <2>3 DEF Own, PromptOf, Hist
<1>2. CASE phase'[t].decoding
  BY <1>1, <1>2 DEF LastNone
<1>3. ASSUME slots'[t].req = slots[t].req, slots'[t].emitted = slots[t].emitted,
             phase'[t].last = phase[t].last
      PROVE  Own(t, phase[t].last)'
  <2>1. PICK x : x = phase[t].last
    OBVIOUS
  <2>2. Own(t, x)
    BY <1>3, <2>1 DEF KeptOwn, Occupied
  <2>3. Own(t, x)'
    BY <1>3, <2>2, OwnSame
  <2>. QED  BY <1>3, <2>1, <2>3 DEF Own
<1>4. CASE Still(t)
  BY <1>3, <1>4 DEF Still, Occupied
<1>5. CASE Beside \/ FlushPhase \/ FailPhase \/ Stop
  BY <1>4, <1>5, BesideStill, DeliveryStill DEF CoreInv
<1>6. CASE AdmitCold \/ AdmitLoaded \/ AdmitFails
  <2>1. PICK n \in Nat : queue # <<>> /\ n < Len(Prompt[Head(queue)]) /\ Admitted(n)
    BY <1>6, ColdAdmission, WarmAdmission DEF CoreInv, WaitInv
  <2>2. t # c => Still(t)
    BY <1>0, <2>1, AdmittedPhase DEF CoreInv
  <2>3. phase'[c].last = <<>>
    <3>1. NewPrefill(Head(queue), n).last = <<>>
      BY DEF NewPrefill, NoPhase
    <3>. QED  BY <1>0, <2>1, <3>1 DEF Admitted, CoreInv, PhaseType
  <2>. QED  BY <1>1, <1>4, <2>2, <2>3
<1>7. CASE SendFrame
  <2>1. slots' = slots /\ (t # c => Still(t))
    BY <1>0, <1>7, SentPhase DEF CoreInv
  <2>2. phase'[c].last = phase[c].last
    <3>1. PICK p : p = phase[c] /\ IsPhase(p)
      BY DEF CoreInv, PhaseType
    <3>2. \A n : [p EXCEPT !.pos = n].last = p.last
      BY <3>1 DEF IsPhase
    <3>3. phase' = phase \/ \E n : phase' = [phase EXCEPT ![c] = [p EXCEPT !.pos = n]]
      BY <1>0, <1>7, <3>1 DEF SendFrame
    <3>. QED  BY <3>1, <3>2, <3>3, ZenonT(60) DEF CoreInv, PhaseType
  <2>. QED  BY <1>3, <1>4, <2>1, <2>2
<1>8. CASE RecvFrame
  <2>1. sent # <<>> /\ sent \in Seq(Slot) /\ InPass
    BY <1>8 DEF RecvFrame, CoreInv, SplitInv, InPass
  <2>2. PICK s \in Slot : s = Head(sent)
    BY <2>1
  <2>3. CASE t # s
    BY <1>4, <1>8, <2>1, <2>2, <2>3, RecvPhase DEF CoreInv
  <2>4. CASE t = s /\ phase[s].decoding
    <3>1. phase'[s].decoding
      BY <1>8, <2>1, <2>2, <2>4, RecvPhase DEF CoreInv, Occupied
    <3>. QED  BY <1>2, <2>4, <3>1
  <2>5. CASE t = s /\ ~phase[s].decoding
    <3>1. UNCHANGED frontVars /\ phase'[s].last = Head(replies).rows
      BY <1>8, <2>1, <2>2, <2>5, RecvPhase DEF CoreInv
    <3>2. Head(replies) = replies[1] /\ sent[1] = s /\ 1 \in 1 .. Len(replies)
      BY <1>8, <2>2, RecvCounts
    <3>3. PICK x : x = replies[1].rows
      OBVIOUS
    <3>4. Own(s, x)
      BY <2>1, <3>2, <3>3 DEF AnswersOwn
    <3>5. Own(s, x)'
      BY <3>1, <3>4, OwnSame DEF frontVars
    <3>. QED  BY <2>5, <3>1, <3>2, <3>3, <3>5 DEF Own
  <2>. QED  BY <2>3, <2>4, <2>5
<1>9. CASE BarrierFirst
  <2>1. t # c => Still(t)
    BY <1>0, <1>9, FirstPhase DEF CoreInv
  <2>2. Occupied(c)' => phase'[c].decoding
    BY <1>0, <1>9, FirstPhase DEF CoreInv, Occupied
  <2>. QED  BY <1>2, <1>4, <2>1, <2>2
<1>10. CASE BarrierSaved \/ BarrierSaveFails
  <2>1. slots' = slots /\ (t # c => Still(t)) /\ phase'[c].last = phase[c].last
    BY <1>0, <1>10, SavedPhase DEF CoreInv
  <2>. QED  BY <1>3, <1>4, <2>1
<1>. QED  BY <1>5, <1>6, <1>7, <1>8, <1>9, <1>10, StepCases DEF Beside, Outside

\* An answer ends the wait of no other frame.
LEMMA RecvOthers ==
  ASSUME CoreInv, RecvFrame, NEW i \in 2 .. Len(sent)
  PROVE  slots'[sent[i]] = slots[sent[i]]
<1>1. sent # <<>> /\ sent \in Seq(Slot) /\ SentOK /\ 1 \in 1 .. Len(sent) /\ i \in 1 .. Len(sent) /\ i # 1
  BY DEF RecvFrame, CoreInv, SplitInv, PhaseInv
<1>2. PICK s \in Slot : s = Head(sent) /\ s = sent[1]
  BY <1>1
<1>3. PICK t \in Slot : t = sent[i]
  BY <1>1
<1>4. CASE t # s
  BY <1>1, <1>2, <1>3, <1>4, RecvPhase DEF CoreInv
<1>5. CASE t = s
  <2>1. ~phase[s].decoding
    BY <1>1, <1>2, <1>3, <1>5 DEF SentOK
  <2>. QED  BY <1>1, <1>2, <2>1, RecvPhase DEF CoreInv, frontVars
<1>. QED  BY <1>4, <1>5

\* The frame the worker reads in a pass, and its answer.
LEMMA NextAnswers ==
  ASSUME CoreInv, HeadInv, LinkInv, Sound, [Next]_vars
  PROVE  AnswersOwn'
<1>. SUFFICES ASSUME InPass', NEW i \in 1 .. Len(replies'), NEW t, t = sent'[i], NEW x, x = replies'[i].rows
              PROVE  Own(t, x)'
  BY DEF AnswersOwn, Own
<1>0. IsSeq(wire) /\ IsSeq(replies) /\ IsSeq(sent) /\ Len(<<>>) = 0
  BY DEF CoreInv, MatchInv
<1>1. ASSUME NEW j \in 1 .. Len(replies), InPass, x = replies[j].rows, t = sent[j],
             slots'[sent[j]] = slots[sent[j]]
      PROVE  Own(t, x)'
  BY <1>1, OwnSame DEF Sound, AnswersOwn
<1>2. CASE SendFrame
  <2>1. /\ InPass /\ replies' = replies /\ sent' = Append(sent, cur) /\ Len(replies) <= Len(sent)
        /\ Len(sent) \in Nat /\ Len(replies) \in Nat
    BY <1>2, SendLost
  <2>2. i \in 1 .. Len(sent) /\ slots' = slots
    BY <1>2, <2>1 DEF SendFrame, frontVars
  <2>3. sent'[i] = sent[i]
    BY <1>0, <2>1, <2>2, AppendSeq
  <2>. QED  BY <1>1, <2>1, <2>2, <2>3
<1>3. CASE SendNext
  <2>1. UNCHANGED <<replies, sent, slots>> /\ InPass
    BY <1>3 DEF SendNext, netVars, frontVars, InPass
  <2>. QED  BY <1>1, <2>1
<1>4. CASE RecvFrame
  <2>1. /\ InPass /\ Len(replies) \in Nat /\ Len(replies') = Len(replies) - 1 /\ Len(sent) \in Nat \ {0}
        /\ \A k \in 1 .. Len(replies) - 1 : replies'[k] = replies[k + 1] /\ k + 1 \in 1 .. Len(replies)
        /\ \A k \in 1 .. Len(sent) - 1 : sent'[k] = sent[k + 1]
    BY <1>4, RecvCounts
  <2>2. Len(replies) <= Len(sent)
    BY <2>1 DEF CoreInv, MatchInv, PassMatched, InPass
  <2>3. i \in 1 .. Len(sent) - 1 /\ i + 1 \in 2 .. Len(sent) /\ i \in 1 .. Len(replies) - 1
    BY <2>1, <2>2
  <2>. QED  BY <1>1, <1>4, <2>1, <2>3, RecvOthers
<1>5. CASE FlushPhase
  <2>1. replies' = <<>>
    BY <1>5 DEF FlushPhase, CoreInv, MatchInv, netVars
  <2>. QED  BY <1>0, <2>1
<1>6. CASE Outside
  <2>1. sent' = sent /\ InPass /\ slots' = slots
    BY <1>6, OutsideKept, SameHead DEF headVars
  <2>2. ASSUME i \in 1 .. Len(replies), replies'[i] = replies[i] PROVE Own(t, x)'
    BY <1>1, <2>1, <2>2
  <2>3. CASE replies' = replies
    BY <2>2, <2>3
  <2>4. CASE WorkerStep /\ link = "up"
    <3>1. WorkerInv
      BY <2>1, <2>4 DEF Sound, InPass
    <3>2. PICK f, s : f = wire[1] /\ s = f.slot
      OBVIOUS
    <3>3. /\ s = sent[Len(replies) + 1]
          /\ \E a : replies' = Append(replies, a) /\ a.rows = f.rows
      BY <2>1, <2>4, <3>1, <3>2, ReadFrame
    <3>4. PICK a : replies' = Append(replies, a) /\ a.rows = f.rows
      BY <3>3
    <3>5. /\ Len(replies) \in Nat /\ Len(replies') = Len(replies) + 1
          /\ \A k \in 1 .. Len(replies) : replies'[k] = replies[k]
          /\ replies'[Len(replies) + 1] = a
      BY <1>0, <3>4, AppendSeq
    <3>6. CASE i = Len(replies) + 1
      <4>1. wire # <<>>
        BY <2>4 DEF WorkerStep
      <4>2. 1 \in 1 .. Len(wire)
        BY <1>0, <4>1, TailSeq
      <4>3. Own(s, x)
        BY <2>1, <2>4, <3>2, <3>4, <3>5, <3>6, <4>2 DEF Sound, FramesOwn
      <4>. QED  BY <2>1, <3>3, <3>6, <4>3, OwnSame
    <3>7. CASE i # Len(replies) + 1
      <4>1. i \in 1 .. Len(replies)
        BY <3>5, <3>7
      <4>. QED  BY <2>2, <3>5, <4>1
    <3>. QED  BY <3>6, <3>7
  <2>5. CASE Break \/ Restart
    <3>1. PICK n \in 0 .. Len(replies) : replies' = SubSeq(replies, 1, n)
      BY <2>5 DEF Break, Restart
    <3>2. Len(replies') = n /\ \A k \in 1 .. n : replies'[k] = replies[k] /\ k \in 1 .. Len(replies)
      BY <1>0, <3>1, PrefixSeq DEF IsSeq
    <3>. QED  BY <2>2, <3>2
  <2>6. (WorkerStep /\ link # "up") \/ WorkerGivesUp \/ UNCHANGED netVars => replies' = replies
    BY DEF WorkerStep, WorkerGivesUp, netVars
  <2>. QED  BY <1>6, <2>3, <2>4, <2>5, <2>6 DEF Outside, Network, splitVars, vars
<1>. QED  BY <1>2, <1>3, <1>4, <1>5, <1>6, PassSteps

LEMMA NextFrames ==
  ASSUME CoreInv, HeadInv, LinkInv, Sound, [Next]_vars
  PROVE  FramesOwn'
<1>. SUFFICES ASSUME InPass', link' = "up", NEW j \in 1 .. Len(wire'), NEW f, f = wire'[j],
                     NEW t, t = f.slot, NEW x, x = f.rows
              PROVE  Own(t, x)'
  BY DEF FramesOwn, Own
<1>0. IsSeq(wire) /\ IsSeq(replies) /\ IsSeq(sent) /\ Len(<<>>) = 0
  BY DEF CoreInv, MatchInv
<1>1. ASSUME NEW k \in 1 .. Len(wire), InPass, link = "up", f = wire[k],
             slots'[wire[k].slot] = slots[wire[k].slot]
      PROVE  Own(t, x)'
  BY <1>1, OwnSame DEF Sound, FramesOwn
<1>2. CASE SendFrame
  <2>1. PICK c \in Slot : c = cur
    BY DEF CoreInv, SplitInv
  <2>2. /\ InPass /\ wire' = Append(wire, RunFrame(c, phase[c].pos, NextRows))
        /\ link = "up" \/ wire = <<>>
    BY <1>2, <2>1, SendLost
  <2>3. /\ Len(wire) \in Nat /\ Len(wire') = Len(wire) + 1
        /\ \A k \in 1 .. Len(wire) : wire'[k] = wire[k]
        /\ wire'[Len(wire) + 1] = RunFrame(c, phase[c].pos, NextRows)
    BY <1>0, <2>2, AppendSeq
  <2>4. slots' = slots
    BY <1>2 DEF SendFrame, frontVars
  <2>5. CASE j # Len(wire) + 1
    <3>1. j \in 1 .. Len(wire)
      BY <2>3, <2>5
    <3>2. link = "up"
      BY <1>0, <2>2, <2>3, <3>1
    <3>. QED  BY <1>1, <2>2, <2>3, <2>4, <3>1, <3>2
  <2>6. CASE j = Len(wire) + 1
    <3>. DEFINE r == slots[c].req  n == phase[c].pos  k == Len(Feeds(c))
    <3>1. t = c /\ x = NextRows
      BY <2>3, <2>6 DEF RunFrame
    <3>2. Unfinished(c) /\ r \in Request /\ n \in Nat /\ k \in Nat \ {0} /\ n + k \in Nat
          /\ NextRows = Hist(r, n + k)
      BY <1>2, <2>1, SendRows
    <3>3. PhaseOK(c)' /\ phase'[c].decoding = phase[c].decoding
          /\ phase'[c].pos = IF phase[c].decoding THEN n ELSE n + k
      BY <1>2, <2>1, NextPhases, SentPhase DEF CoreInv
    <3>4. phase[c].decoding => k = 1
      BY <1>2, <2>1, SendPhase DEF CoreInv
    <3>5. slots[c].emitted \in Nat /\ Len(PromptOf(c)) \in Nat
      BY <3>2, PromptType DEF CoreInv, SplitInv, FrontTypeOK, SlotState, PromptOf
    <3>6. Unfinished(c)' /\ PromptOf(c)' = PromptOf(c) /\ slots'[c] = slots[c]
      BY <2>4, <3>2 DEF Unfinished, Occupied, PromptOf
    <3>. HIDE DEF n, k, r
    <3>7. n + k <= Len(PromptOf(c)) + slots[c].emitted
      <4>1. CASE phase[c].decoding
        BY <3>2, <3>3, <3>4, <3>5, <3>6, <4>1 DEF PhaseOK, DecodeOK
      <4>2. CASE ~phase[c].decoding
        BY <3>2, <3>3, <3>5, <3>6, <4>2 DEF PhaseOK, PrefillOK
      <4>. QED  BY <4>1, <4>2
    <3>8. n + k \in 0 .. Len(PromptOf(c)) + slots[c].emitted
      BY <3>2, <3>5, <3>7
    <3>9. Own(c, x)
      BY <3>1, <3>2, <3>8 DEF Own, r
    <3>. QED  BY <3>1, <3>6, <3>9, OwnSame
  <2>. QED  BY <2>5, <2>6
<1>3. CASE SendNext
  <2>1. UNCHANGED <<wire, link, slots>> /\ InPass
    BY <1>3 DEF SendNext, netVars, frontVars, InPass
  <2>. QED  BY <1>1, <2>1
<1>4. CASE RecvFrame
  <2>1. InPass /\ wire' = wire /\ link' = link /\ Len(replies) \in Nat \ {0} /\ PassMatched
    BY <1>4, RecvCounts DEF CoreInv, MatchInv, InPass
  <2>2. Len(wire) \in Nat /\ Len(sent) \in Nat
    BY <1>0 DEF IsSeq
  <2>3. Len(replies) + Len(wire) = Len(sent) /\ wire[j].slot = sent[Len(replies) + j]
    BY <2>1 DEF PassMatched, RunOf
  <2>4. Len(replies) + j \in 2 .. Len(sent)
    BY <2>1, <2>2, <2>3
  <2>. QED  BY <1>1, <1>4, <2>1, <2>3, <2>4, RecvOthers
<1>5. CASE FlushPhase
  <2>1. wire' = <<>>
    BY <1>5 DEF FlushPhase, CoreInv, MatchInv, netVars
  <2>. QED  BY <1>0, <2>1
<1>6. CASE Outside
  <2>1. InPass /\ slots' = slots
    BY <1>6, OutsideKept, SameHead DEF headVars
  <2>2. ASSUME NEW k \in 1 .. Len(wire), link = "up", wire'[j] = wire[k] PROVE Own(t, x)'
    BY <1>1, <2>1, <2>2
  <2>3. CASE UNCHANGED netVars
    BY <2>2, <2>3 DEF netVars
  <2>4. CASE WorkerStep
    <3>1. wire # <<>> /\ wire' = Tail(wire) /\ link = "up"
      BY <2>4 DEF WorkerStep
    <3>2. /\ Len(wire) \in Nat \ {0} /\ Len(wire') = Len(wire) - 1
          /\ \A k \in 1 .. Len(wire) - 1 : wire'[k] = wire[k + 1] /\ k + 1 \in 1 .. Len(wire)
      BY <1>0, <3>1, TailSeq
    <3>. QED  BY <2>2, <3>1, <3>2
  <2>5. CASE WorkerGivesUp \/ Break \/ Restart
    BY <2>5 DEF WorkerGivesUp, Break, Restart
  <2>. QED  BY <1>6, <2>3, <2>4, <2>5 DEF Outside, Network, splitVars, vars
<1>. QED  BY <1>2, <1>3, <1>4, <1>5, <1>6, PassSteps

-------------------------------------------------------------------------------
(* Where faults lead.                                                         *)

\* The steps by which the head gives its connection up.
GivesUp == SendFails \/ RecvFails \/ AdmitFails \/ BarrierSaveFails \/ Stop

LEMMA LinkSteps ==
  ASSUME CoreInv, [Next]_vars, ~GivesUp
  PROVE  /\ link = "broken" => link' = "broken"
         /\ link' = "down" => link = "down"
<1>0. link \in {"down", "up", "broken"}
  BY DEF CoreInv, MatchInv
<1>1. CASE Outside
  BY <1>0, <1>1 DEF Outside, Network, WorkerStep, WorkerGivesUp, Break, Restart, splitVars, netVars, vars
<1>2. TakeCmds \/ AdmitSkip \/ SendNext \/ RecvOver \/ BarrierSkip \/ FailPhase \/ FlushPhase
      \/ AdmitCold \/ AdmitLoaded \/ BarrierFirst \/ BarrierSaved \/ RecvFrame => link' = link
  BY DEF TakeCmds, AdmitSkip, SendNext, RecvOver, BarrierSkip, FailPhase, FlushPhase, AdmitCold,
         AdmitLoaded, BarrierFirst, BarrierSaved, RecvFrame, netVars
<1>3. AdmitLoad \/ BarrierSave \/ SendFrame => \E f : Write(f)
  BY DEF AdmitLoad, BarrierSave, SendFrame
<1>4. ASSUME NEW f, Write(f) PROVE link' # "down" /\ (link = "broken" => link' = "broken")
  BY <1>4 DEF Write
<1>. QED  BY <1>1, <1>2, <1>3, <1>4, StepCases DEF GivesUp

LEMMA GivenUp ==
  ASSUME GivesUp
  PROVE  missed' = TRUE \/ pc' \in {"fail", "stopped"}
BY DEF GivesUp, SendFails, RecvFails, AdmitFails, BarrierSaveFails, Stop, Abort

\* A slot on a connection not yet used again starts afresh.
LEMMA NextFresh ==
  ASSUME CoreInv, Fresh, [Next]_vars, link = "down", link' = "down", ~GivesUp
  PROVE  Fresh'
<1>0. PICK c \in Slot : c = cur
  BY DEF CoreInv, SplitInv
<1>1. replies = <<>>
  BY DEF CoreInv, MatchInv
<1>2. CASE AdmitCold
  <2>1. queue # <<>> /\ Admitted(0) /\ 0 < Len(Prompt[Head(queue)])
    BY <1>2, ColdAdmission DEF CoreInv
  <2>2. phase'[c].decoding = FALSE /\ phase'[c].pos = 0 /\ \A t \in Slot : t # c => Still(t)
    BY <1>0, <2>1, AdmittedPhase DEF CoreInv
  <2>3. sent' = sent /\ snaps' = snaps
    BY <1>2, <2>1 DEF AdmitCold, Admitted
  <2>4. Upto(c)' = 0
    BY <2>2 DEF Upto
  <2>5. \A t \in Slot : t # c => SameFed(t)
    BY <2>2, <2>3, StillFed DEF InSent
  <2>. QED  BY <2>3, <2>4, <2>5 DEF Fresh, SameFed
<1>3. ASSUME Steady, snaps' = snaps PROVE Fresh'
  <2>1. \A t \in Slot : SameFed(t)
    BY <1>3, SteadyFed
  <2>. QED  BY <1>3, <2>1 DEF Fresh, SameFed
<1>4. Outside => snaps' = snaps
  BY OutsideKept DEF headVars
<1>5. TakeCmds \/ AdmitSkip \/ SendNext \/ RecvOver \/ BarrierSkip \/ FailPhase \/ FlushPhase \/ BarrierFirst
        => snaps' = snaps
  BY DEF TakeCmds, AdmitSkip, SendNext, RecvOver, BarrierSkip, FailPhase, FlushPhase, BarrierFirst
<1>6. AdmitLoad \/ BarrierSave \/ SendFrame \/ AdmitLoaded \/ BarrierSaved \/ RecvFrame => FALSE
  BY <1>1 DEF AdmitLoad, BarrierSave, SendFrame, Write, AdmitLoaded, BarrierSaved, RecvFrame
<1>. QED  BY <1>2, <1>3, <1>4, <1>5, <1>6, StepCases DEF Steady, GivesUp

\* A restart behind a connection that was given up finds nothing in use.
LEMMA RestartDown ==
  ASSUME CoreInv, LinkInv, WorkerInv, Fresh, link = "down", Restart, UNCHANGED <<queue, slots, headVars>>
  PROVE  WorkerInv'
<1>0. Len(<<>>) = 0 /\ IsSeq(replies) /\ IsSeq(wire)
  BY DEF CoreInv, MatchInv
<1>1. wire' = <<>> /\ link' = "down" /\ Len(replies') = 0
  <2>1. replies = <<>> /\ \E n \in 0 .. Len(replies) : replies' = SubSeq(replies, 1, n)
    BY DEF Restart, CoreInv, MatchInv
  <2>2. PICK n \in 0 .. Len(replies) : replies' = SubSeq(replies, 1, n)
    BY <2>1
  <2>3. Len(replies') = n /\ n = 0
    BY <1>0, <2>1, <2>2, PrefixSeq
  <2>. QED  BY <2>3 DEF Restart
<1>2. PassOK'
  BY <1>1 DEF PassOK
<1>3. \A s \in Slot : LastOK(s)' /\ WorkerOK(s)'
  <2>. TAKE s \in Slot
  <2>1. LastOK(s) /\ (Unfinished(s) => Upto(s) = 0)
    BY DEF WorkerInv, SlotsOK, Fresh
  <2>2. LastOK(s)' /\ (Unfinished(s)' <=> Unfinished(s)) /\ Upto(s)' = Upto(s)
    BY <2>1, SameHead
  <2>. QED  BY <2>1, <2>2 DEF WorkerOK
<1>4. EntriesOK'
  BY DEF EntriesOK, Fresh, Whole, headVars
<1>5. WiresOK'
  BY <1>0, <1>1 DEF WiresOK
<1>6. AskedOK'
  <2>1. pc' \notin {"loading", "saving"}
    BY DEF LinkInv, BrokenOK, headVars
  <2>. QED  BY <2>1 DEF AskedOK
<1>. QED  BY <1>2, <1>3, <1>4, <1>5, <1>6 DEF WorkerInv, SlotsOK

\* Every step but one leaves the worker running.
LEMMA NotRestarted ==
  ASSUME LinkInv, [Next]_vars
  PROVE  \/ faults'.restarts = faults.restarts
         \/ Restart /\ Outside
<1>1. NetType /\ faults \in [breaks : Nat, restarts : Nat]
  BY DEF LinkInv, NetType
<1>2. CASE ~Outside
  BY <1>1, <1>2, HeadNet
<1>3. CASE Outside /\ ~Restart
  <2>1. Break => faults'.restarts = faults.restarts
    BY <1>1 DEF Break
  <2>2. WorkerStep \/ WorkerGivesUp \/ UNCHANGED netVars => faults' = faults
    BY DEF WorkerStep, WorkerGivesUp, netVars
  <2>. QED  BY <1>3, <2>1, <2>2 DEF Outside, Network, splitVars, vars
<1>. QED  BY <1>2, <1>3

LEMMA StaysStopped ==
  ASSUME [Next]_vars, pc = "stopped"
  PROVE  pc' = "stopped"
<1>1. Outside => pc' = pc
  BY OutsideKept DEF headVars
<1>2. ~(TakeCmds \/ Stop \/ AdmitSkip \/ AdmitCold \/ AdmitLoad \/ AdmitLoaded \/ AdmitFails \/ FlushPhase)
  BY DEF TakeCmds, Stop, AdmitSkip, AdmitCold, AdmitLoad, AdmitLoaded, AdmitFails, CanAdmit, FlushPhase
<1>3. ~(SendFrame \/ SendNext \/ SendFails \/ RecvFrame \/ RecvOver \/ RecvFails \/ FailPhase)
  BY DEF SendFrame, SendNext, SendFails, RecvFrame, RecvOver, RecvFails, FailPhase
<1>4. ~(BarrierSave \/ BarrierSaved \/ BarrierSaveFails \/ BarrierFirst \/ BarrierSkip)
  BY DEF BarrierSave, BarrierSaved, BarrierSaveFails, BarrierFirst, BarrierSkip
<1>. QED  BY <1>1, <1>2, <1>3, <1>4, StepCases

LEMMA NextSound ==
  ASSUME CoreInv, CoreInv', HeadInv, LinkInv, LastNone', Sound, [Next]_vars
  PROVE  missed' = TRUE \/ pc' = "fail" \/ Sound'
<1>1. KeptOwn' /\ AnswersOwn' /\ FramesOwn'
  BY NextKept, NextAnswers, NextFrames DEF Sound
<1>. SUFFICES ASSUME link' # "broken", pc' \notin {"fail", "stopped"}, missed' # TRUE
              PROVE  WorkerInv' /\ (link' = "down" => Fresh')
  BY <1>1 DEF Sound
<1>2. ~GivesUp
  BY GivenUp
<1>3. link # "broken" /\ (link' = "down" => link = "down")
  BY <1>2, LinkSteps
<1>4. WorkerInv /\ (link = "down" => Fresh)
  BY <1>3, StaysStopped DEF Sound
<1>5. link' = "down" => Fresh'
  BY <1>2, <1>3, <1>4, NextFresh
<1>6. CASE faults'.restarts = faults.restarts
  BY <1>4, <1>5, <1>6, NextWorker
<1>7. CASE Restart /\ Outside
  <2>1. link = "down"
    BY <1>3, <1>7 DEF Restart, CoreInv, MatchInv
  <2>. QED  BY <1>4, <1>5, <1>7, <2>1, OutsideKept, RestartDown
<1>. QED  BY <1>6, <1>7, NotRestarted

\* When a failed pass is over nothing is in use any more.
LEMMA FailOver ==
  ASSUME CoreInv, CoreInv', LinkInv, FailVoid, LastNone', [Next]_vars, pc = "fail", pc' # "fail"
  PROVE  Sound'
<1>1. FailPhase
  <2>1. Outside => pc' = pc
    BY OutsideKept DEF headVars
  <2>2. ~(TakeCmds \/ Stop \/ AdmitSkip \/ AdmitCold \/ AdmitLoad \/ AdmitLoaded \/ AdmitFails \/ FlushPhase)
    BY DEF TakeCmds, Stop, AdmitSkip, AdmitCold, AdmitLoad, AdmitLoaded, AdmitFails, CanAdmit, FlushPhase
  <2>3. ~(SendFrame \/ SendNext \/ SendFails \/ RecvFrame \/ RecvOver \/ RecvFails)
    BY DEF SendFrame, SendNext, SendFails, RecvFrame, RecvOver, RecvFails
  <2>4. ~(BarrierSave \/ BarrierSaved \/ BarrierSaveFails \/ BarrierFirst \/ BarrierSkip)
    BY DEF BarrierSave, BarrierSaved, BarrierSaveFails, BarrierFirst, BarrierSkip
  <2>. QED  BY <2>1, <2>2, <2>3, <2>4, StepCases
<1>2. pc' = "top" /\ snaps' = snaps /\ UNCHANGED netVars /\ link' = "down" /\ ~InPass'
  BY <1>1 DEF FailPhase, FailVoid, netVars, InPass
<1>3. \A t \in Slot : ~Unfinished(t)'
  BY <1>1, FailedAll
<1>4. KeptOwn'
  <2>. SUFFICES ASSUME NEW t \in Slot, Occupied(t)' PROVE Own(t, phase[t].last)'
    BY DEF KeptOwn
  <2>1. slots'[t].finished /\ slots'[t].req \in Request /\ slots'[t].emitted \in Nat /\ PhaseOK(t)'
    BY <1>3 DEF CoreInv, SplitInv, FrontTypeOK, SlotState, Occupied, Unfinished, PhaseInv
  <2>2. phase'[t].last = <<>>
    BY <2>1 DEF PhaseOK, LastNone
  <2>3. PICK r \in Request, e \in Nat : r = slots'[t].req /\ e = slots'[t].emitted
    BY <2>1
  <2>4. \E n \in 0 .. Len(Prompt[r]) + e : <<>> = Hist(r, n)
    BY NoneOwn
  <2>. QED  BY <2>2, <2>3, <2>4 DEF Own, PromptOf, Hist
<1>5. AnswersOwn' /\ FramesOwn'
  BY <1>2 DEF AnswersOwn, FramesOwn
<1>6. Fresh'
  BY <1>2, <1>3 DEF Fresh, FailVoid
<1>7. WorkerInv'
  <2>1. PassOK' /\ AskedOK'
    BY <1>2 DEF PassOK, AskedOK
  <2>2. SlotsOK'
    BY <1>3 DEF SlotsOK, LastOK, WorkerOK
  <2>3. EntriesOK' /\ \A i \in Snap : ~Whole(i)'
    BY <1>6 DEF EntriesOK, Whole, Fresh
  <2>4. \A j \in 1 .. Len(wire) : IsFrame(wire[j])
    BY DEF LinkInv, NetType
  <2>5. wire' = wire
    BY <1>2 DEF netVars
  <2>6. WiresOK'
    BY <1>3, <2>3, <2>4, <2>5 DEF WiresOK, StaleOK, IsFrame
  <2>. QED  BY <2>1, <2>2, <2>3, <2>6 DEF WorkerInv
<1>. QED  BY <1>4, <1>5, <1>6, <1>7 DEF Sound

\* What was missed is only forgotten with everything else.
LEMMA MissedStays ==
  ASSUME [Next]_vars, missed
  PROVE  missed' \/ pc' = "fail"
<1>1. Outside \/ TakeCmds \/ AdmitSkip \/ AdmitLoad \/ SendNext \/ RecvOver \/ BarrierSave \/ BarrierSkip
        => missed' = missed
  BY DEF Outside, Network, WorkerStep, WorkerGivesUp, Break, Restart, splitVars, vars, netVars, Write,
         TakeCmds, AdmitSkip, AdmitLoad, SendNext, RecvOver, BarrierSave, BarrierSkip
<1>2. FlushPhase \/ FailPhase \/ Stop \/ AdmitCold \/ AdmitLoaded \/ SendFrame \/ RecvFrame
      \/ BarrierFirst \/ BarrierSaved => missed' = missed
  BY DEF FlushPhase, FailPhase, Stop, AdmitCold, AdmitLoaded, SendFrame, RecvFrame, BarrierFirst,
         BarrierSaved, Write, netVars
<1>3. SendFails \/ RecvFails \/ AdmitFails \/ BarrierSaveFails => missed' = TRUE \/ pc' = "fail"
  BY DEF SendFails, RecvFails, AdmitFails, BarrierSaveFails, Abort
<1>. QED  BY <1>1, <1>2, <1>3, StepCases

-------------------------------------------------------------------------------
LEMMA InitApart == Init => ApartInv
<1>. SUFFICES ASSUME Init PROVE ApartInv
  OBVIOUS
<1>0. /\ pc = "top" /\ link = "down" /\ WorkerInv
      /\ \A s \in Slot : slots[s] = NoSlot /\ phase[s] = NoPhase
      /\ \A i \in Snap : snaps[i] = NoSnap
  BY InitWorker DEF Init, FrontInit
<1>1. LastNone /\ StateAnswers /\ FailVoid
  BY <1>0 DEF LastNone, StateAnswers, FailVoid, NoPhase
<1>2. \A s \in Slot : ~Occupied(s) /\ ~Unfinished(s)
  BY <1>0 DEF Unfinished, Occupied, NoSlot
<1>3. KeptOwn /\ AnswersOwn /\ FramesOwn /\ Fresh
  BY <1>0, <1>2 DEF KeptOwn, AnswersOwn, FramesOwn, Fresh, InPass, NoSnap
<1>. QED  BY <1>0, <1>1, <1>3 DEF ApartInv, Sound

LEMMA NextApart ==
  ASSUME SplitServingInv, SplitServingInv', ApartInv, [Next]_vars
  PROVE  ApartInv'
<1>1. CoreInv /\ HeadInv /\ LinkInv /\ CoreInv'
  BY DEF SplitServingInv
<1>2. LastNone' /\ StateAnswers' /\ FailVoid'
  BY <1>1, NextLast, NextStateAnswers, NextVoid DEF ApartInv
<1>3. missed' \/ pc' = "fail" \/ Sound'
  <2>1. CASE missed
    BY <2>1, MissedStays
  <2>2. CASE pc = "fail"
    BY <1>1, <1>2, <2>2, FailOver DEF ApartInv
  <2>3. CASE Sound
    BY <1>1, <1>2, <2>3, NextSound
  <2>. QED  BY <2>1, <2>2, <2>3 DEF ApartInv
<1>. QED  BY <1>2, <1>3 DEF ApartInv

LEMMA ApartIsExact == CoreInv /\ ApartInv => ExactUnlessMissed
<1>. SUFFICES ASSUME CoreInv, ApartInv, ~missed, pc # "fail"
              PROVE  /\ \A i \in 1 .. Len(replies) :
                          replies[i].op = "run" /\ Occupied(replies[i].slot)
                            => IsPrefix(replies[i].rows, TrueHistory(replies[i].slot))
                     /\ \A s \in Slot : Occupied(s) => IsPrefix(phase[s].last, TrueHistory(s))
  BY DEF ExactUnlessMissed
<1>0. Sound /\ FrontTypeOK
  BY DEF ApartInv, CoreInv, SplitInv
<1>1. ASSUME NEW s \in Slot, Occupied(s) PROVE IsPrefix(phase[s].last, TrueHistory(s))
  BY <1>0, <1>1, OwnPrefix DEF Sound, KeptOwn
<1>2. ASSUME NEW i \in 1 .. Len(replies), replies[i].op = "run", Occupied(replies[i].slot)
      PROVE  IsPrefix(replies[i].rows, TrueHistory(replies[i].slot))
  <2>1. InPass
    <3>1. Len(<<>>) = 0
      OBVIOUS
    <3>. QED  BY <1>2, <3>1 DEF ApartInv, StateAnswers, CoreInv, MatchInv, InPass
  <2>2. IsSeq(sent) /\ Len(replies) <= Len(sent) /\ replies[i].slot = sent[i] /\ IsSeq(replies)
    BY <2>1 DEF CoreInv, MatchInv, PassMatched, RunOf, InPass
  <2>3. Len(replies) \in Nat /\ Len(sent) \in Nat
    BY <2>2 DEF IsSeq
  <2>4. sent[i] \in Slot
    <3>1. i \in 1 .. Len(sent)
      BY <2>2, <2>3
    <3>. QED  BY <3>1 DEF CoreInv, SplitInv
  <2>. QED  BY <1>0, <1>2, <2>1, <2>2, <2>4, OwnPrefix DEF Sound, AnswersOwn
<1>. QED  BY <1>1, <1>2

(* With a worker that may restart at any time: as long as every fault was met *)
(* by a frame of a pass, which fails the requests and voids the registry, an  *)
(* answer the head takes was computed from its request's own history. Only a  *)
(* fault that snapshot_save or snapshot_load swallowed can spoil it.          *)
THEOREM AnswersStayExact == Spec => []ExactUnlessMissed
<1>1. Init => SplitServingInv /\ ApartInv
  BY InitServing, InitApart
<1>2. SplitServingInv /\ ApartInv /\ [Next]_vars => (SplitServingInv /\ ApartInv)'
  BY NextServing, NextApart
<1>3. SplitServingInv /\ ApartInv => ExactUnlessMissed
  BY ApartIsExact DEF SplitServingInv
<1>. QED  BY <1>1, <1>2, <1>3, PTL DEF Spec
===============================================================================
