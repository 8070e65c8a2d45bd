------------------------------ MODULE Segments ------------------------------
(***************************************************************************)
(* Positions in a book.  A book of more than two hours is cut into         *)
(* segments of one duration, the last one shorter; what the player reports *)
(* and is told is local to the segment it has loaded.  A segment duration  *)
(* of 0 stands for a book that is one file.  Positions are never negative  *)
(* (Go's division and this one agree on those).                            *)
(***************************************************************************)
EXTENDS Integers

\* The segment a global position falls into, and the position inside it.
GlobalToSegment(global, duration) ==
  IF duration = 0 THEN [segment |-> 0, local |-> global]
                  ELSE [segment |-> global \div duration, local |-> global % duration]

SegmentToGlobal(segment, local, duration) == segment * duration + local

\* How many files a book of `total` seconds is cut into.
SegmentCount(total, duration) ==
  IF duration = 0 \/ total = 0 THEN 1 ELSE (total + duration - 1) \div duration

\* How long the file of a segment is; 0 for a segment that does not exist.
SegmentLength(segment, total, duration) ==
  IF segment >= SegmentCount(total, duration) THEN 0
  ELSE IF duration > 0 /\ (segment + 1) * duration <= total THEN duration
  ELSE total - segment * duration

=============================================================================
