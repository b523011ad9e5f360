-------------------------------- MODULE TextOut --------------------------------
(* From token ids to the text a client sees, as the handlers of server/src/   *)
(* http.rs compute it: decode_tokens_lossless and StopDetector.  Every        *)
(* endpoint that streams or collects text is built on these operators.  A     *)
(* text is a sequence of characters; a token is its piece of text; the two    *)
(* halves of a character split over two tokens are characters of their own.   *)
EXTENDS Naturals, Sequences, SequencesExt, FiniteSets

CONSTANTS
  Char,     \* the characters of texts
  Split,    \* two characters that stand for the bytes of one, split over two tokens
  Stops     \* the request's stop strings, a sequence of texts

ASSUME TextOutAssumption ==
  /\ Split \in Seq(Char) /\ Len(Split) = 2
  /\ Stops \in Seq(Seq(Char)) /\ \A i \in DOMAIN Stops : Stops[i] # <<>>

(* token_piece decodes each token by itself: one whose bytes are not complete *)
(* UTF-8 is an error, and decode_tokens_lossless skips it.                    *)
Piece(t) == IF ToSet(t) \cap ToSet(Split) = {} THEN t ELSE <<>>
Decode(ids) == FlattenSeq([i \in 1 .. Len(ids) |-> Piece(ids[i])])

\* Where s occurs in text x; find returns the first.
Occurs(s, x) == {i \in 1 .. Len(x) - Len(s) + 1 : SubSeq(x, i, i + Len(s) - 1) = s}
Find(s, x) == CHOOSE i \in Occurs(s, x) : \A j \in Occurs(s, x) : i <= j

Before(x, i) == SubSeq(x, 1, i - 1)
From(x, i) == SubSeq(x, i, Len(x))

\* StopDetector: text held back, text ready for the client, the stop hit (0: none).
NewDetector == [held |-> <<>>, ready |-> <<>>, hit |-> 0]

\* hold_chars: the longest stop string less one.
HoldChars == IF Stops = <<>> THEN 0
             ELSE CHOOSE n \in {Len(Stops[i]) - 1 : i \in DOMAIN Stops} :
                    \A i \in DOMAIN Stops : Len(Stops[i]) - 1 <= n

\* Mutant of HeldBack: one character too few is held.
HeldBackShort(x) == IF Len(x) < HoldChars THEN Len(x)
                    ELSE IF HoldChars = 0 THEN 0 ELSE HoldChars - 1

HeldBack(x) == IF Len(x) < HoldChars THEN Len(x) ELSE HoldChars

(* push: the first stop of the list that occurs anywhere ends the text before *)
(* its first occurrence; otherwise all but the last hold_chars are ready.     *)
Push(det, text) ==
  LET x == det.held \o text
      hits == {i \in DOMAIN Stops : Occurs(Stops[i], x) # {}}
      k == CHOOSE i \in hits : \A j \in hits : i <= j
      n == Len(x) - HeldBack(x) IN
  IF hits # {}
  THEN [held |-> <<>>, ready |-> det.ready \o Before(x, Find(Stops[k], x)), hit |-> k]
  ELSE [det EXCEPT !.held = From(x, n + 1), !.ready = @ \o Before(x, n + 1)]

\* take_ready: what is ready goes to the client.
Taken(det) == [det EXCEPT !.ready = <<>>]

\* finish: what is held goes too.
Finished(det) == det.ready \o det.held
===============================================================================
