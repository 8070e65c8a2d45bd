------------------------------ MODULE MCPlayback ------------------------------
(* Small instances of Playback. *)
EXTENDS Playback, TLC

CONSTANTS b1, b2, p1, p2, s1, q1, q2

\* Three units: one file, or segments of two units of which the last is short.
ThreeLong == [b \in Books |-> 3]
FourLong  == [b \in Books |-> 4]
TwoLong   == [b \in Books |-> 2]
OneFile   == [b \in Books |-> 0]
PerTwo    == [b \in Books |-> 2]

NoSkips == {}
Back    == {-1}
Symmetry == Permutations(Players) \cup Permutations(Requests)
==============================================================================
