---------------------------- MODULE PackSegments ----------------------------
(***************************************************************************)
(* How a library pack without a file to back it is cut for the worker's    *)
(* memory (lib/profiles.ts): the plan of its segments, at most maxBytes    *)
(* each unless one file is larger, and the segments assembled from the     *)
(* stream's pieces.  A file is [start, end] within the pack; a pack is its *)
(* sequence of bytes.                                                      *)
(***************************************************************************)
EXTENDS Integers, Sequences, FiniteSetsExt, SequencesExt

(* A plan: where it starts and ends, and its files from its own start.     *)
(* open: the last one still takes files.                                   *)
Rebased(file, origin) == [start |-> file.start - origin, end |-> file.end - origin]
Plan(file) == [startByte |-> file.start, endByte |-> file.end, files |-> <<Rebased(file, file.start)>>]

Planned(acc, file, maxBytes) ==
  LET i     == Len(acc.plans)
      fresh == ~acc.open \/ file.end - acc.plans[i].startByte > maxBytes
      alone == file.end - file.start > maxBytes
  IN  IF fresh THEN [plans |-> Append(acc.plans, Plan(file)), open |-> ~alone]
      ELSE [acc EXCEPT !.plans[i].endByte = file.end,
                       !.plans[i].files = Append(@, Rebased(file, acc.plans[i].startByte))]

planSegments(files, maxBytes) ==
  LET ordered == SortSeq(files, LAMBDA a, b : a.start < b.start)
  IN  FoldLeft(LAMBDA acc, file : Planned(acc, file, maxBytes), [plans |-> <<>>, open |-> FALSE], ordered).plans

(* buildSegments: of each piece, from its offset in the stream, what the   *)
(* plan takes; {} when the stream ends before the plan does.               *)
Offset(pieces, i) == FoldLeft(LAMBDA n, p : n + Len(p), 0, SubSeq(pieces, 1, i - 1))

Taken(pieces, i, plan) ==
  SubSeq(pieces[i], Max({plan.startByte - Offset(pieces, i), 0}) + 1,
                    Min({plan.endByte - Offset(pieces, i), Len(pieces[i])}))

buildSegments(pieces, plans) ==
  LET bytes(plan) == FlattenSeq([i \in DOMAIN pieces |-> Taken(pieces, i, plan)])
      segments    == [k \in DOMAIN plans |-> [bytes |-> bytes(plans[k]), files |-> plans[k].files]]
  IN  {s \in {segments} : \A k \in DOMAIN plans : Len(s[k].bytes) = plans[k].endByte - plans[k].startByte}
=============================================================================
