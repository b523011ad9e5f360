----------------------------- MODULE MessageStream -----------------------------
(* stream_messages of server/src/anthropic.rs: the handler of one streaming   *)
(* POST /v1/messages.  It reads events of the engine thread, cuts the text at *)
(* stop strings, parses tool calls and thinking out of it (OutputParser),     *)
(* emits content blocks (BlockEmitter), and prompts the model again when a    *)
(* tool call is malformed.  The model's output is any sequence of pieces,     *)
(* divided into events in any way.                                            *)
EXTENDS TextOut

CONSTANTS
  Pieces,                 \* the token pieces the model may produce
  ToolOpen, ToolClose, ThinkOpen, ThinkClose,   \* the tags, as texts
  Blank,                  \* white space
  Calls,                  \* texts parse_tool_call accepts
  MaxRetries,             \* MAX_TOOL_RETRIES
  MaxPieces, MaxPerEvent  \* bounds: tokens of a message, tokens of one event

ASSUME MessageAssumption ==
  /\ {MaxRetries, MaxPieces, MaxPerEvent} \subseteq Nat
  /\ Pieces \subseteq Seq(Char)
  /\ \A t \in {ToolOpen, ToolClose, ThinkOpen, ThinkClose} : t \in Seq(Char) /\ t # <<>>
  /\ Blank \in Char /\ Blank \notin ToSet(Split)

\* "<tool_call>" and "<think>": no tag begins inside another one.
ASSUME TagAssumption ==
  /\ ToolOpen # ThinkOpen
  /\ \A t, u \in {ToolOpen, ThinkOpen} :
       /\ \A i \in 2 .. Len(t) : t[i] # u[1]
       /\ t # u => ~IsPrefix(t, u)

VARIABLES
  phase,      \* "reading" a generation, at its "tail", or "ended" (or "failed")
  det,        \* the round's StopDetector
  parser,     \* the round's OutputParser
  malformed,  \* the round's malformed calls
  emitter,    \* BlockEmitter
  events,     \* SSE events sent
  attempts, finish,
  ids,        \* history: token pieces of this round
  before,     \* history: how many of them came before the last event
  raw,        \* raw_text: text of this round after the stop detector
  rounds      \* history: raw_text of the rounds retried

vars == <<phase, det, parser, malformed, emitter, events, attempts, finish, ids, before, raw,
          rounds>>

-------------------------------------------------------------------------------
(* OutputParser.                                                              *)

Text(x) == [kind |-> "text", body |-> x]
ToolCall(x) == [kind |-> "call", body |-> x]
Malformed(x) == [kind |-> "malformed", body |-> x]

NewParser == [mode |-> "text", buf |-> <<>>]

\* trim() on both ends.
Trim(x) ==
  LET solid == {i \in 1 .. Len(x) : x[i] # Blank} IN
  IF solid = {} THEN <<>>
  ELSE SubSeq(x, CHOOSE i \in solid : \A j \in solid : i <= j,
                 CHOOSE i \in solid : \A j \in solid : j <= i)
IsBlank(x) == Trim(x) = <<>>

\* parse_tool_call, with the repair and inference it tries.
ParseCall(x) == IF Trim(x) \in Calls THEN ToolCall(Trim(x)) ELSE Malformed(Trim(x))

\* Mutant of Holdback: text that may be the start of a tag is let through.
HoldbackNothing(x) == 0

\* holdback_len: the longest suffix that is a proper prefix of an opening tag.
Holdback(x) ==
  LET fits == {n \in 0 .. Len(x) :
        \E t \in {ToolOpen, ThinkOpen} : n < Len(t) /\ IsPrefix(From(x, Len(x) - n + 1), t)} IN
  CHOOSE n \in fits : \A m \in fits : m <= n

Outside(x) == IF x = <<>> THEN <<>> ELSE <<Text(x)>>

\* The opening tag that comes first in x, or none.
Opener(x) ==
  LET open == {t \in {ToolOpen, ThinkOpen} : Occurs(t, x) # {}} IN
  IF open = {} THEN <<>> ELSE CHOOSE t \in open : \A u \in open : Find(t, x) <= Find(u, x)
After(x, t) == From(x, Find(t, x) + Len(t))

(* One turn of the loop of OutputParser::push: up to the next opening tag, up *)
(* to the closing one, or, when there is none, all but what may begin a tag;  *)
(* then the loop is left.                                                     *)
Turn(p) ==
  LET open == Opener(p.buf)
      close == IF p.mode = "tool" THEN ToolClose ELSE ThinkClose
      ready == Len(p.buf) - Holdback(p.buf) IN
  CASE p.left -> p
    [] ~p.left /\ p.mode = "text" /\ open # <<>> ->
         [p EXCEPT !.mode = IF open = ToolOpen THEN "tool" ELSE "think", !.buf = After(@, open),
                   !.out = @ \o Outside(Before(p.buf, Find(open, p.buf)))]
    [] ~p.left /\ p.mode = "text" /\ open = <<>> ->
         [p EXCEPT !.left = TRUE, !.buf = From(@, ready + 1),
                   !.out = @ \o Outside(Before(p.buf, ready + 1))]
    [] ~p.left /\ p.mode # "text" /\ Occurs(close, p.buf) # {} ->
         [p EXCEPT !.mode = "text", !.buf = After(@, close),
                   !.out = IF p.mode = "tool"
                           THEN Append(@, ParseCall(Before(p.buf, Find(close, p.buf)))) ELSE @]
    [] OTHER -> [p EXCEPT !.left = TRUE]

\* OutputParser::push.  Every tag found shortens the buffer.
ParserPush(p, text) ==
  LET x == p.buf \o text
      start == [mode |-> p.mode, buf |-> x, out |-> <<>>, left |-> FALSE]
      loop[n \in 0 .. Len(x) + 1] == IF n = 0 THEN start ELSE Turn(loop[n - 1]) IN
  loop[Len(x) + 1]

\* OutputParser::finish: a call cut off by the limit is parsed as it is.
ParserFinish(p) ==
  CASE p.mode = "text"  -> Outside(p.buf)
    [] p.mode = "think" -> <<>>
    [] p.mode = "tool"  -> <<ParseCall(p.buf)>>

-------------------------------------------------------------------------------
(* BlockEmitter.  An emitter is folded over the parsed events.                *)

NewEmitter == [index |-> 0, open |-> FALSE, blanks |-> <<>>, calls |-> 0, sent |-> <<>>]

BlockStart(i, kind) == [ev |-> "start", index |-> i, kind |-> kind, body |-> <<>>]
BlockDelta(i, kind, x) == [ev |-> "delta", index |-> i, kind |-> kind, body |-> x]
BlockStop(i) == [ev |-> "stop", index |-> i, kind |-> "any", body |-> <<>>]

EmitText(em, x) ==
  IF em.open THEN [em EXCEPT !.sent = Append(@, BlockDelta(em.index, "text", x))]
  ELSE IF IsBlank(x) THEN [em EXCEPT !.blanks = @ \o x]
  ELSE [em EXCEPT !.open = TRUE, !.blanks = <<>>,
                  !.sent = @ \o <<BlockStart(em.index, "text"),
                                  BlockDelta(em.index, "text", em.blanks \o x)>>]

\* BlockEmitter::finish, and the head of a tool block: an open text block ends.
CloseText(em) ==
  IF em.open THEN [em EXCEPT !.open = FALSE, !.index = @ + 1,
                             !.sent = Append(@, BlockStop(em.index))]
  ELSE em

\* Mutant of EmitCall: the text block before it is left open.
EmitCallInside(em, x) ==
  LET i == em.index IN
  [em EXCEPT !.index = @ + 1, !.blanks = <<>>, !.calls = @ + 1,
             !.sent = @ \o <<BlockStart(i, "call"), BlockDelta(i, "call", x), BlockStop(i)>>]

EmitCall(em, x) ==
  LET c == CloseText(em)  i == c.index IN
  [c EXCEPT !.index = @ + 1, !.blanks = <<>>, !.calls = @ + 1,
            !.sent = @ \o <<BlockStart(i, "call"), BlockDelta(i, "call", x), BlockStop(i)>>]

OnEvent(em, e) ==
  CASE e.kind = "text" -> EmitText(em, e.body)
    [] e.kind = "call" -> EmitCall(em, e.body)
    [] e.kind = "malformed" -> em          \* held back for the retry

\* The items of these kinds.
Only(items, kinds) ==
  FlattenSeq([i \in 1 .. Len(items) |-> IF items[i].kind \in kinds THEN <<items[i]>> ELSE <<>>])

\* The emitter after it has taken the parsed items in turn.
Emitted(em, parsed) ==
  LET after[i \in 0 .. Len(parsed)] == IF i = 0 THEN em ELSE OnEvent(after[i - 1], parsed[i]) IN
  after[Len(parsed)]

\* malformed_fallback
Fallback(x) == ToolOpen \o <<Blank>> \o x \o <<Blank>> \o ToolClose

-------------------------------------------------------------------------------
(* stream_messages.                                                           *)

Init ==
  /\ phase = "reading" /\ finish = "limit" /\ attempts = 0
  /\ det = NewDetector /\ parser = NewParser /\ malformed = <<>>
  /\ emitter = NewEmitter /\ events = <<>>
  /\ ids = <<>> /\ before = 0 /\ raw = <<>> /\ rounds = <<>>

\* The parser takes text; its malformed calls are kept, the rest goes to the client.
\* At the end of a generation the parser is finished with it.
Deliver(text, end) ==
  LET p == ParserPush(parser, text)
      parsed == IF end THEN p.out \o ParserFinish(p) ELSE p.out
      em == Emitted(emitter, parsed) IN
  /\ raw' = raw \o text
  /\ parser' = [mode |-> p.mode, buf |-> p.buf]
  /\ malformed' = malformed \o Only(parsed, {"malformed"})
  /\ emitter' = [em EXCEPT !.sent = <<>>]
  /\ events' = events \o em.sent

\* How many tokens a whole message has had: a bound of the model.
Used == Len(ids) + FoldLeft(LAMBDA n, r : n + Len(r.ids), 0, rounds)

\* SlotEvent::Tokens.
Receive ==
  /\ phase = "reading"
  /\ \E n \in 1 .. MaxPerEvent : \E new \in [1 .. n -> Pieces] :
       LET d == Push(det, Decode(new)) IN
       /\ Used + n <= MaxPieces
       /\ ids' = ids \o new /\ before' = Len(ids)
       /\ IF d.hit > 0
            THEN /\ finish' = "word" /\ phase' = "tail" /\ det' = d
                 /\ UNCHANGED <<raw, parser, malformed, emitter, events>>
            ELSE /\ Deliver(d.ready, FALSE)
                 /\ det' = Taken(d)
                 /\ UNCHANGED <<finish, phase>>
  /\ UNCHANGED <<attempts, rounds>>

\* SlotEvent::Done, or the channel closes without one (Limit).
ReceiveDone ==
  /\ phase = "reading"
  /\ finish' \in {"eos", "limit"}
  /\ phase' = "tail"
  /\ UNCHANGED <<det, parser, malformed, emitter, events, attempts, ids, before, raw, rounds>>

\* SlotEvent::Error ends the stream on the spot.
ReceiveError ==
  /\ phase = "reading"
  /\ phase' = "failed"
  /\ UNCHANGED <<det, parser, malformed, emitter, events, attempts, finish, ids, before, raw, rounds>>

\* The rest of the text is parsed when the generation has ended.
ParseRest ==
  /\ phase = "tail"
  /\ Deliver(Finished(det), TRUE)
  /\ det' = NewDetector
  /\ phase' = "decide"
  /\ UNCHANGED <<attempts, finish, ids, before, rounds>>

\* Mutant of Retryable: a call made alongside does not stop the retry.
RetryableAnyway == malformed # <<>> /\ finish = "eos" /\ attempts < MaxRetries

Retryable == malformed # <<>> /\ emitter.calls = 0 /\ finish = "eos" /\ attempts < MaxRetries

\* The model is prompted again with an error in place of the call.
Retry ==
  /\ phase = "decide" /\ Retryable
  /\ rounds' = Append(rounds, [ids |-> ids, raw |-> raw])
  /\ attempts' = attempts + 1
  /\ phase' = "reading" /\ finish' = "limit"
  /\ parser' = NewParser /\ malformed' = <<>>
  /\ ids' = <<>> /\ before' = 0 /\ raw' = <<>>
  /\ UNCHANGED <<det, emitter, events>>

\* No retry, or it was not accepted: what is left goes out and the message ends.
End ==
  /\ phase = "decide"
  /\ LET left == IF emitter.calls = 0
                 THEN [i \in 1 .. Len(malformed) |-> Text(Fallback(malformed[i].body))] ELSE <<>>
         em == CloseText(Emitted(emitter, left)) IN
     /\ emitter' = [em EXCEPT !.sent = <<>>]
     /\ events' = events \o em.sent
  /\ phase' = "ended"
  /\ UNCHANGED <<det, parser, malformed, attempts, finish, ids, before, raw, rounds>>

Next == Receive \/ ReceiveDone \/ ReceiveError \/ ParseRest \/ Retry \/ End

Spec == Init /\ [][Next]_vars

-------------------------------------------------------------------------------
(* Properties.                                                                *)

Said == Decode(ids)
Settled == phase \in {"decide", "ended"}
NoStopIn(x) == \A k \in DOMAIN Stops : Occurs(Stops[k], x) = {}

(* However tokens are divided into events, the text of a round is the decoded *)
(* text up to a stop string's first occurrence, found in the event that       *)
(* completes it, or all of it when there is no stop string; until then no     *)
(* stop string has been let through and nothing but a held end is missing.    *)
CutAtStop ==
  /\ phase = "reading" => NoStopIn(Said) /\ raw \o det.held = Said
  /\ Settled /\ finish # "word" => NoStopIn(Said) /\ raw = Said
  /\ Settled /\ finish = "word" =>
       /\ NoStopIn(Decode(SubSeq(ids, 1, before)))
       /\ \E k \in DOMAIN Stops : Occurs(Stops[k], Said) # {} /\ raw = Before(Said, Find(Stops[k], Said))

\* A whole text parsed at once: of what is left of it, up to the first tag and
\* what the tag encloses.
Part(s) ==
  LET open == Opener(s.rest)
      rest == After(s.rest, open)
      close == IF open = ToolOpen THEN ToolClose ELSE ThinkClose
      closed == Occurs(close, rest) # {}
      inner == IF closed THEN Before(rest, Find(close, rest)) ELSE rest IN
  IF open = <<>> THEN [rest |-> <<>>, items |-> s.items \o Outside(s.rest)]
  ELSE [rest |-> IF closed THEN After(rest, close) ELSE <<>>,
        items |-> (s.items \o Outside(Before(s.rest, Find(open, s.rest))))
                  \o (IF open = ToolOpen THEN <<ParseCall(inner)>> ELSE <<>>)]
Items(x) ==
  LET parts[n \in 0 .. Len(x) + 1] ==
        IF n = 0 THEN [rest |-> x, items |-> <<>>] ELSE Part(parts[n - 1]) IN
  parts[Len(x) + 1].items

\* Items letter by letter: a text is its characters, a call is one.
Letters(items) ==
  FlattenSeq([i \in 1 .. Len(items) |->
    IF items[i].kind = "text"
    THEN [j \in 1 .. Len(items[i].body) |-> Text(<<items[i].body[j]>>)] ELSE <<items[i]>>])

\* What is left when blank texts, up to the next call, are left out.
Shown(t) ==
  LET joined(i, j) == \A k \in (i .. j) \cup (j .. i) : t[k].kind = "text"
      seen(i) == \/ t[i].kind # "text"
                 \/ \E j \in 1 .. Len(t) : joined(i, j) /\ t[j].body # <<Blank>> IN
  FlattenSeq([i \in 1 .. Len(t) |-> IF seen(i) THEN <<t[i]>> ELSE <<>>])

\* What the blocks sent so far add up to.
Content ==
  Letters(FlattenSeq([i \in 1 .. Len(events) |->
    IF events[i].ev = "delta" THEN <<[kind |-> events[i].kind, body |-> events[i].body]>>
    ELSE <<>>]))

Parsed(x) == Only(Letters(Items(x)), {"text", "call"})
\* What may be left at the end: the malformed calls of the last round as text.  When
\* there was another call this is left open: the code drops them, its comments pass
\* them on.
Leftovers ==
  LET bad == Only(Items(raw), {"malformed"})
      shown == Letters([i \in 1 .. Len(bad) |-> Text(Fallback(bad[i].body))]) IN
  IF Only(Items(raw), {"call"}) = <<>> THEN {shown} ELSE {<<>>, shown}

(* However the text was divided into events and held back on the way, the     *)
(* blocks of a message add up to what parsing each round's text at once would *)
(* give: tool calls in their places, thinking gone, no tag shown as text, the *)
(* malformed calls of the last round as text, always when there was no other  *)
(* call.                                                                      *)
ContentExact ==
  phase = "ended" => \E left \in Leftovers :
    Content = Shown(FlattenSeq([i \in 1 .. Len(rounds) |-> Parsed(rounds[i].raw)])
                    \o Parsed(raw) \o left)

(* The SSE protocol: blocks are numbered from 0, open, carry deltas of their  *)
(* own kind and close before the next opens, also across a retry; when the    *)
(* message ends none is open.                                                 *)
BlocksWellFormed ==
  /\ \A i \in 1 .. Len(events) :
       LET e == events[i]  p == events[i - 1] IN
       CASE e.ev = "start" -> IF i = 1 THEN e.index = 0 ELSE p.ev = "stop" /\ e.index = p.index + 1
         [] e.ev = "delta" -> i > 1 /\ p.ev \in {"start", "delta"} /\ e.index = p.index /\ e.kind = p.kind
         [] e.ev = "stop"  -> i > 1 /\ p.ev = "delta" /\ e.index = p.index
  /\ phase = "ended" /\ events # <<>> => Last(events).ev = "stop"

(* A message that used a tool is never prompted again: a client is not shown  *)
(* a call of one round and the text of another.                               *)
CallsEndTheTurn == rounds # <<>> => \A i \in DOMAIN rounds :
  Only(Items(rounds[i].raw), {"call"}) = <<>>

(* docs/server-spec.md: bytes that have not completed a character yet are     *)
(* held for the next token; so no text is lost.                               *)
NoBytesLost ==
  LET x == FlattenSeq(ids)
      whole == \A i \in 0 .. Len(x) : (i > 0 /\ x[i] = Split[1]) <=> (i < Len(x) /\ x[i + 1] = Split[2]) IN
  Settled /\ finish # "word" /\ whole => raw = x
===============================================================================
