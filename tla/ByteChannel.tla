---------------------------- MODULE ByteChannel ----------------------------
(***************************************************************************)
(* What the resident transport needs of its stdin: bytes come out in the   *)
(* order they were put in, each once, and fewer than Cap are on their way. *)
(***************************************************************************)
EXTENDS Integers, Sequences

CONSTANT Cap

VARIABLES put, taken

Init == put = <<>> /\ taken = <<>>

Put ==
  /\ Len(put') > Len(put)
  /\ Len(put') - Len(taken) < Cap
  /\ SubSeq(put', 1, Len(put)) = put
  /\ UNCHANGED taken

Take ==
  /\ Len(taken) < Len(put)
  /\ taken' = Append(taken, put[Len(taken) + 1])
  /\ UNCHANGED put

Next == Put \/ Take

Spec == Init /\ [][Next]_<<put, taken>>
=============================================================================
