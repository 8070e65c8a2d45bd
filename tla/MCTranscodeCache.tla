-------------------------- MODULE MCTranscodeCache --------------------------
(* Small instances of TranscodeCache. *)
EXTENDS TranscodeCache

CONSTANTS i1, r1, r2, w1

\* Nothing is segmented.
SegsOne   == [i \in Items |-> [s \in Sources |-> 1]]
\* The first file is short, the whole book is segmented.
SegsMixed == [i \in Items |-> [s \in Sources |-> IF s = "all" THEN 2 ELSE 1]]
\* Everything becomes mp3.
FmtsMp3   == [i \in Items |-> [s \in Sources |-> {"mp3"}]]
AllMulti  == [i \in Items |-> TRUE]
NoneMulti == [i \in Items |-> FALSE]

\* No step depends on these: the lists, the URLs and the auxiliary variables.
Seen == <<row, tmp, final, fd, queue, procs, warm, phase>>
=============================================================================
