------------------------------ MODULE MCDevice ------------------------------
(* An instance of Device for TLC: two prompts over the same tokens, and     *)
(* every schedule of forward_token and of forward_chunk.                    *)
EXTENDS Device

MCTokens == {1, 2}
MCPrompts == {<<1, 2>>, <<2>>}
MCEnvironments ==
  {[schedule |-> "gpu_only", gathered |-> FALSE],
   [schedule |-> "overlap", gathered |-> TRUE],
   [schedule |-> "fallback", gathered |-> TRUE]}

=============================================================================
