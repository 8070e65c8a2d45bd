------------------------------ MODULE MCDevices ------------------------------
(* A small instance of Devices: two players and the second half of one. *)
EXTENDS Devices, TLC

CONSTANTS p1, p2, p3, a1, a2

Halves == [p \in Players |-> IF p = p3 THEN p1 ELSE p]

Symmetry == Permutations(Requests)
==============================================================================
