--------------------------- MODULE MCSessionTable ---------------------------
(* Small instances of SessionTable for TLC. *)
EXTENDS SessionTable, TLC

CONSTANTS w1, w2, w3, o1, o2, o3, i1, i2, i3

(* Worker threads and addresses are interchangeable; ids are too, but the   *)
(* instances are small enough without.                                      *)
Symmetry == Permutations(Workers) \cup Permutations(Objs)
=============================================================================
