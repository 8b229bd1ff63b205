---------------------------- MODULE MCStdinRing ----------------------------
(* The stdin ring on small instances, and the decoder of what comes back. *)
EXTENDS StdinRing, LspFrames, TLC

SmallSize == [f \in Frames |-> IF f = "a" THEN 1 ELSE IF f = "b" THEN 2 ELSE 3]

-----------------------------------------------------------------------------
(* A frame as Lean writes it, and as another writer may: a space before    *)
(* the number, lone line feeds, a capital.                                 *)
Written(body, header, ends) == header \o <<48 + Len(body)>> \o ends \o body
Wires(body) ==
  {Written(body, HEADER, <<CR, LF, CR, LF>>), Written(body, HEADER \o <<Space>>, <<LF, LF>>),
   Written(body, <<121>> \o Tail(HEADER), <<CR, LF, CR, LF>>)}
Wire(body) == Written(body, HEADER, <<CR, LF, CR, LF>>)
TheBodies == {<<>>, <<65>>, HEADER, <<LF, LF>>}

(* What is no frame: runs of header bytes (never all of them) and others,  *)
(* some past the cap once the next header is glued to them.                *)
Short(n) == UNION {[1 .. m -> {21, 22, 58, LF, 65}] : m \in 0 .. n}
Junk == Short(3) \cup {[i \in 1 .. 11 |-> 65] \o j : j \in Short(2)}

Decoded(stream) == FoldLeft(push, Decoder0, stream)

(* Every frame comes out whole and in order, whatever its body looks like  *)
(* and whatever junk is glued to its header, and every other byte is       *)
(* counted as junk (lsp-frames.js, the resync).                            *)
ASSUME NoFrameIsLost ==
  \A j \in Junk, f, g \in TheBodies : \A wire \in Wires(f) :
    LET d == Decoded(wire \o j \o Wire(g))
    IN  d.frames = <<f, g>> /\ d.junkBytes = Len(j) /\ d.buf = <<>>

(* A header among the junk may cost the frames its number covers, never    *)
(* the channel.                                                            *)
ASSUME TheChannelSurvives ==
  \A j \in Short(2), n \in {<<>>, <<48>>, <<57>>, <<65>>, <<49, 48>>}, f \in TheBodies \ {HEADER} :
    LET d == Decoded(j \o HEADER \o n \o j \o Wire(f) \o Wire(f) \o Wire(<<66>>) \o Wire(<<67>>))
    IN  d.frames # <<>> /\ Last(d.frames) = <<67>>

(* A stream decodes the same in any two chunks as byte by byte. *)
ASSUME ChunksDoNotMatter ==
  \A j \in Short(1), f, g \in TheBodies :
    LET all == j \o Wire(f) \o Wire(g) \o j
    IN  \A cut \in 0 .. Len(all) :
          pushBytes(pushBytes(Decoder0, SubSeq(all, 1, cut)), SubSeq(all, cut + 1, Len(all)))
            = Decoded(all)
=============================================================================
