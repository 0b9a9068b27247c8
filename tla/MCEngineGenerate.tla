-------------------------- MODULE MCEngineGenerate --------------------------
(* Instances of EngineGenerate for TLC. *)
EXTENDS EngineGenerate, TLC
Sym == Permutations(Tokens) \cup Permutations(Ids \ LongIds)
=============================================================================
