---------------------------- MODULE MCSonosControl ----------------------------
(* Small instances of SonosControl. *)
EXTENDS SonosControl

CONSTANTS p1, p2, a1, a2

\* Volumes asked for lie below the range, steps lead above it.
Below == {-1}
Up    == {2}
==============================================================================
