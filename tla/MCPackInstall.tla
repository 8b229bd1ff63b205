--------------------------- MODULE MCPackInstall ---------------------------
(* Two tabs over one pack with three sessions, over two packs (both in     *)
(* storage or the larger in memory) with two; one tab over one pack, and   *)
(* over two in memory, with four.  And the cutting of a pack into segments. *)
EXTENDS PackInstall, PackSegments, TLC
Symmetry == Permutations(Pages)
Sizes == <<1, 2>>
Alone == {{g} : g \in Pages}
TheWorlds == [tabs : {Pages}, index : {{1}}, ceiling : {0}, sessions : {3}]
             \cup [tabs : {Pages}, index : {{1, 2}}, ceiling : {0, 2}, sessions : {2}]
             \cup [tabs : Alone, index : {{1}}, ceiling : {0}, sessions : {4}]
             \cup [tabs : Alone, index : {{1, 2}}, ceiling : {1}, sessions : {4}]

(* The files of a pack of six bytes (gaps between them, none, empty ones), *)
(* ascending as the manifest has them; a stream's pieces.                  *)
Tables ==
  {t \in UNION {[1 .. n -> {f \in [start : 0 .. 5, end : 0 .. 6] : f.start <= f.end}] : n \in 1 .. 3} :
     \A i, j \in DOMAIN t : i < j => t[i].end <= t[j].start}
ThePack == <<0, 1, 2, 3, 4, 5>>
Streams == {<<ThePack>>, <<<<0, 1, 2>>, <<3, 4, 5>>>>, <<<<0>>, <<1, 2, 3, 4>>, <<5>>>>}
Short == <<<<0, 1, 2>>, <<3>>>>

(* Every file of the table is read from one segment, at the bytes the pack *)
(* has there; no segment is larger than asked but a file's own; a stream   *)
(* that ends too early gives none.  (Of a table out of order it would not  *)
(* hold: an empty file sorted after the one that starts where it does cuts *)
(* that one off.)                                                          *)
ASSUME SegmentsHoldTheFiles ==
  \A t \in Tables, maxBytes \in {1, 2, 4} :
    LET plans == planSegments(t, maxBytes)
        bytesOf(s, f) == SubSeq(s.bytes, f.start + 1, f.end)
        whole(f) == SubSeq(ThePack, f.start + 1, f.end)
    IN  /\ \A k \in DOMAIN plans : \/ plans[k].endByte - plans[k].startByte <= maxBytes
                                   \/ Len(plans[k].files) = 1
        /\ \A pieces \in Streams : \A s \in buildSegments(pieces, plans) :
             FlattenSeq([k \in DOMAIN s |-> [i \in DOMAIN s[k].files |-> bytesOf(s[k], s[k].files[i])]])
               = [i \in DOMAIN t |-> whole(t[i])]
        /\ \A pieces \in Streams : buildSegments(pieces, plans) # {}
        /\ (\E i \in DOMAIN t : t[i].end > Max({4, t[i].start})) => buildSegments(Short, plans) = {}
=============================================================================
