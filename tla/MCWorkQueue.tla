----------------------------- MODULE MCWorkQueue -----------------------------
(***************************************************************************)
(* WorkQueue on small instances: which worker or connection is which makes  *)
(* no difference, so safety is checked modulo their permutations.          *)
(***************************************************************************)
EXTENDS WorkQueue, TLC

Symmetry == Permutations(Workers) \cup Permutations(Conns)
=============================================================================
