---------------------------- MODULE MCKvService ----------------------------
(* The prompts and outputs that TLC tries: shared, shorter, longer, other. *)
EXTENDS KvService

CONSTANTS x, y

MCTokens == {x, y}
MCPrompts == {<<x, y>>, <<y, x>>}
MCOutputs == {<<x>>}
=============================================================================
