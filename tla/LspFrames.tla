------------------------------ MODULE LspFrames ------------------------------
(***************************************************************************)
(* public/workers/lsp-frames.js: the decoder of Lean's standard output,    *)
(* byte by byte or in chunks, with the junk between frames and its resync. *)
(*                                                                         *)
(* Bytes are small numbers.  HEADER stands for the fifteen of              *)
(* "Content-Length:": its first byte occurs in it once, another twice, as  *)
(* there.  A byte above 100 is the capital of the letter 100 below it.     *)
(* JUNK_LINE_CAP is 12, for 4096.                                          *)
(***************************************************************************)
EXTENDS Integers, Sequences, FiniteSetsExt, SequencesExt

HEADER == <<21, 22, 22, 58>>
JUNK_LINE_CAP == 12
LF == 10
CR == 13
Space == 32
Digits == 48 .. 57

headerByteMatches(byte, want) == byte = want \/ (want < 58 /\ byte = want + 100)

(* buf: the bytes from head on; need: the body's, or -1 within a header;   *)
(* headerOk: buf still begins as a header; match: the header's bytes that  *)
(* the junk run's tail holds; frames and lines: what the sinks were given. *)
Decoder0 ==
  [buf |-> <<>>, need |-> -1, headerOk |-> TRUE, match |-> 0, frames |-> <<>>, lines |-> <<>>,
   junkBytes |-> 0]

emitBody(d) ==
  [d EXCEPT !.frames = Append(@, SubSeq(d.buf, 1, d.need)),
            !.buf = SubSeq(@, d.need + 1, Len(@)), !.need = -1, !.headerOk = TRUE, !.match = 0]

(* flushJunk: the first `end` bytes of the run, as a line when one is left *)
(* of them; a run not flushed to its end stays one.                        *)
Trimmed(bytes) ==
  SubSeq(bytes, 1, SelectLastInSeq(bytes, LAMBDA b : b \notin {CR, LF}))

flushTo(d, end) ==
  LET line == Trimmed(SubSeq(d.buf, 1, end))
      said == [d EXCEPT !.junkBytes = @ + end, !.buf = SubSeq(@, end + 1, Len(@)),
                        !.lines = IF \E i \in DOMAIN line : line[i] \notin {Space, CR, LF}
                                  THEN Append(@, line) ELSE @]
  IN  IF end = Len(d.buf) THEN [said EXCEPT !.headerOk = TRUE, !.match = 0] ELSE said

flushJunk(d) == flushTo(d, Len(d.buf) - (IF d.headerOk THEN 0 ELSE d.match))

resync(d) == [flushTo(d, Len(d.buf) - Len(HEADER)) EXCEPT !.headerOk = TRUE, !.match = 0]

EndsIn(seq, tail) == Len(seq) >= Len(tail) /\ IsSuffix(tail, seq)
headerTerminated(d) == EndsIn(d.buf, <<CR, LF, CR, LF>>) \/ EndsIn(d.buf, <<LF, LF>>)

(* The digits after the header's spaces; none: not a frame. *)
parseHeader(d) ==
  LET rest   == SubSeq(d.buf, Len(HEADER) + 1, Len(d.buf))
      from   == SelectInSeq(rest, LAMBDA b : b # Space)
      past   == SelectInSeq(SubSeq(rest, from, Len(rest)), LAMBDA b : b \notin Digits)
      digits == SubSeq(rest, from, from + past - 2)
      n      == FoldLeft(LAMBDA acc, b : 10 * acc + (b - 48), 0, digits)
      body   == [d EXCEPT !.buf = <<>>, !.need = n]
  IN  IF digits = <<>> THEN flushJunk(d) ELSE IF n = 0 THEN emitBody(body) ELSE body

inHeader(d) ==
  IF Last(d.buf) = LF /\ headerTerminated(d) THEN parseHeader(d)
  ELSE IF Len(d.buf) >= JUNK_LINE_CAP THEN flushJunk(d) ELSE d

(* The rolling match; its byte may begin the next one. *)
inJunk(d) ==
  LET byte  == Last(d.buf)
      match == IF headerByteMatches(byte, HEADER[d.match + 1]) THEN d.match + 1
               ELSE IF headerByteMatches(byte, HEADER[1]) THEN 1 ELSE 0
      rolled == [d EXCEPT !.match = match]
  IN  IF match = Len(HEADER) THEN resync(rolled)
      ELSE IF byte = LF \/ Len(d.buf) >= JUNK_LINE_CAP THEN flushJunk(rolled) ELSE rolled

push(d, byte) ==
  LET held == [d EXCEPT !.buf = Append(@, byte)]
      at   == Len(held.buf)
      ok   == d.headerOk /\ (at <= Len(HEADER) => headerByteMatches(byte, HEADER[at]))
  IN  IF d.need >= 0 THEN IF at >= d.need THEN emitBody(held) ELSE held
      ELSE IF ok THEN inHeader(held)
      ELSE inJunk([held EXCEPT !.headerOk = FALSE, !.match = IF d.headerOk THEN 0 ELSE @])

(* A chunk: a body's bytes in bulk, the others one by one. *)
fed(s) ==
  LET take == IF s.d.need < 0 THEN 1 ELSE Min({Len(s.rest), s.d.need - Len(s.d.buf)})
      held == [s.d EXCEPT !.buf = @ \o SubSeq(s.rest, 1, take)]
  IN  [rest |-> SubSeq(s.rest, take + 1, Len(s.rest)),
       d    |-> IF s.d.need < 0 THEN push(s.d, Head(s.rest))
                ELSE IF Len(held.buf) >= s.d.need THEN emitBody(held) ELSE held]

pushBytes(d, bytes) ==
  FoldLeft(LAMBDA s, step : IF s.rest = <<>> THEN s ELSE fed(s), [d |-> d, rest |-> bytes], bytes).d
=============================================================================
