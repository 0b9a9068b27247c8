------------------------------- MODULE Device -------------------------------
(***************************************************************************)
(* The forward passes of src/src/ds3_engine.c on the Metal backend of      *)
(* src/src/ds3_metal.m: forward_token under its three schedules and        *)
(* forward_chunk, down to the command buffers they put their kernels in.   *)
(*                                                                         *)
(* A kernel that is dispatched while a batch is open is only encoded: it   *)
(* runs when ds3_metal_end_batch commits the batch.  A read or write of a  *)
(* buffer by the host happens at once.  The schedules differ in where they *)
(* cut the layers into batches, read the router's choice back and give it  *)
(* to the experts; all must compute the same.                              *)
(*                                                                         *)
(* Arithmetic is free: the value of a row of a buffer is the term of the   *)
(* kernels that led to it, <<kernel, layer, operands...>>, and two values  *)
(* are equal only if they were computed the same way from the same tokens. *)
(* Q, K and V rows are one buffer here: their matmuls and norms stand next *)
(* to one another everywhere and read and write the same rows.             *)
(***************************************************************************)
EXTENDS Integers, Sequences, SequencesExt, FiniteSets

CONSTANTS
  NLayer,        \* DS3_N_LAYER
  ChunkSize,     \* DS3_PREFILL_CHUNK_SIZE, rows in each scratch buffer
  NCtx,          \* n_ctx, rows in each layer's KV buffer
  Tokens,        \* the vocabulary
  Prompts,       \* sequences of tokens a generate may be asked for
  Generated,     \* tokens that sampling may give
  Fused,         \* layers whose weights the fused MoE kernels take
  HasShared,     \* the model has a shared expert
  UseShared,     \* DS3_USE_SHARED_EXPERT
  Environments,  \* settings of the variables that choose the schedule
  MaxGenerates,  \* bound on generates
  MaxFailures    \* bound on failed calls

ASSUME DeviceAssumption ==
  /\ {NLayer, ChunkSize, NCtx} \subseteq Nat \ {0} /\ {MaxGenerates, MaxFailures} \subseteq Nat
  /\ Prompts \subseteq Seq(Tokens) \ {<<>>} /\ Generated \subseteq Tokens
  /\ Fused \subseteq 0 .. NLayer - 1
  /\ {HasShared, UseShared} \subseteq BOOLEAN
  /\ Environments \subseteq [schedule : {"gpu_only", "overlap", "fallback"}, gathered : BOOLEAN]

VARIABLES
  env,       \* the environment variables
  mem,       \* the buffers the GPU and the host share
  batch,     \* g_batch_mode
  encoded,   \* kernels encoded in g_batch_cb and not yet run
  indices,   \* the host's copy of the router's choice, by layer and row
  logits,    \* logits_host
  text,      \* the tokens at positions 0 .. seq_len - 1
  call,      \* tokens of the forward pass that runs, <<>> when none does
  chunked,   \* it is a forward_chunk
  pc,        \* the command of it that comes next
  wanted,    \* the rest of the generate's prompt
  result,    \* of the last forward pass: "none", "token" or "failed"
  generates, failures

vars == <<env, mem, batch, encoded, indices, logits, text, call, chunked, pc,
          wanted, result, generates, failures>>

Layers    == 0 .. NLayer - 1
Rows      == 0 .. ChunkSize - 1
Cells     == 0 .. NLayer * ChunkSize - 1
Positions == 0 .. NCtx - 1
seqLen    == Len(text)
Unset     == <<"unset">>
Emb(k)    == <<"emb", k>>

-----------------------------------------------------------------------------
(* Commands of the host.  A kernel computes rows of a buffer from the same *)
(* rows, or rows shifted by off, of its operands.                          *)

Kernel(f, l, from, to, M) ==
  [do |-> "dispatch", f |-> f, l |-> l, from |-> from, to |-> to,
   rows |-> 0 .. M - 1, off |-> 0, choice |-> <<>>]
Do(what, l, M) == [do |-> what, l |-> l, rows |-> 0 .. M - 1]
Begin == Do("begin", 0, 0)
End   == Do("end", 0, 0)

\* The attention of row t, at position p: it stores the row's K and V and
\* looks at all positions up to p.
Attend(l, t, p) == [do |-> "dispatch", f |-> "attention", l |-> l, row |-> t, at |-> p]
\* Router logits and top-k of a layer have a row of their own for every layer,
\* M rows apart.
Router(l, cell, t) == [do |-> "dispatch", f |-> "router", l |-> l, row |-> t, cell |-> cell]
TopK(l, M) == [do |-> "dispatch", f |-> "top_k", rows |-> 0 .. M - 1, cell |-> l * M]

\* Attention branch and router of layer l for M rows from position p on.
AttentionBranch(l, M, p) ==
  << Kernel("copy", l, <<"hidden">>, "residual", M),
     Kernel("attn_norm", l, <<"hidden">>, "norm", M),
     Kernel("qkv", l, <<"norm">>, "qkv", M),
     Kernel("qk_norm", l, <<"qkv">>, "qkv", M) >>
  \o [i \in 1 .. M |-> Attend(l, i - 1, p + i - 1)]
  \o << Kernel("attn_output", l, <<"attn_out">>, "hidden", M),
        Kernel("add", 0, <<"hidden", "residual">>, "hidden", M),
        Kernel("copy", l, <<"hidden">>, "residual", M),
        Kernel("ffn_norm", l, <<"hidden">>, "norm", M) >>

Zeroed(M) == << Kernel("zero", 0, <<>>, "ffn_out", M) >>
Routed(l, M) == [i \in 1 .. M |-> Router(l, l * M + i - 1, i - 1)]
Summed(M) == << Kernel("add", 0, <<"ffn_out", "residual">>, "hidden", M) >>
Shared(l, M, used) ==
  IF HasShared /\ used
  THEN << Kernel("shared", l, <<"ffn_out", "norm">>, "ffn_out", M) >> ELSE <<>>
\* These experts get the host's copy of the choice when they are encoded, the
\* gathered ones read it from a buffer when they run.
Experts(l, M) == << Kernel("experts", l, <<"ffn_out", "norm">>, "ffn_out", M) >>
Scattered(l, M) == << Kernel("moe", l, <<"ffn_out", "norm", "gather">>, "ffn_out", M) >>

ForwardLayerPre(l, p) == AttentionBranch(l, 1, p) \o Zeroed(1) \o Routed(l, 1)
ForwardLayerPost(l) == Shared(l, 1, UseShared) \o Experts(l, 1) \o Summed(1)

\* ds3_metal_moe_ffn: fused kernels, or a round trip to the host that closes
\* the caller's batch and opens another.
MoeFfn(l) ==
  IF l \in Fused
  THEN Shared(l, 1, TRUE) \o << Kernel("fused", l, <<"ffn_out", "norm">>, "ffn_out", 1) >>
  ELSE << Router(l, 0, 0), End, Do("choose", l, 1), Begin >>
       \o Shared(l, 1, TRUE) \o Experts(l, 1)
ForwardLayerGpuOnly(l, p) ==
  AttentionBranch(l, 1, p) \o Zeroed(1) \o MoeFfn(l) \o Summed(1)

ForwardChunkPre(l, M, p) == AttentionBranch(l, M, p) \o Routed(l, M)
ForwardChunkPost(l, M) ==
  Zeroed(M) \o Shared(l, M, UseShared) \o Experts(l, M) \o Summed(M)
ForwardChunkPostGathered(l, M) ==
  Zeroed(M) \o Shared(l, M, TRUE) \o << Do("gather", l, M) >> \o Scattered(l, M)
  \o Summed(M)

-----------------------------------------------------------------------------
(* The schedules: where the layers are cut into batches.                   *)

ByLayer(S(_), n) == FlattenSeq([i \in 1 .. n |-> S(i - 1)])
\* (Mutant: the choice is read before the batch is ended.)
TopKReadBack_Early(l, M) == << TopK(l, M), Do("read", l, M), End >>
TopKReadBack(l, M) == << TopK(l, M), End, Do("read", l, M) >>
RunLayerPreTopk(l, p) == << Begin >> \o ForwardLayerPre(l, p) \o TopKReadBack(l, 1)
RunChunkLayerPreTopk(l, M, p) ==
  << Begin >> \o ForwardChunkPre(l, M, p) \o TopKReadBack(l, M)

GpuOnly(p) ==
  LET Layer(l) == << Begin >> \o ForwardLayerGpuOnly(l, p) \o << End >>
  IN  ByLayer(Layer, NLayer)
Overlap(p) ==
  LET Both(l) == << Begin >> \o ForwardLayerPost(l) \o ForwardLayerPre(l + 1, p)
                 \o TopKReadBack(l + 1, 1)
  IN  RunLayerPreTopk(0, p) \o ByLayer(Both, NLayer - 1)
      \o << Begin >> \o ForwardLayerPost(NLayer - 1) \o << End >>
Fallback(p) ==
  LET Layer(l) == RunLayerPreTopk(l, p) \o << Begin >> \o ForwardLayerPost(l) \o << End >>
  IN  ByLayer(Layer, NLayer)

ForwardToken(e, p) ==
  << Do("embed", 0, 1) >>
  \o (CASE e.schedule = "gpu_only" -> GpuOnly(p)
        [] e.schedule = "overlap"  -> Overlap(p)
        [] OTHER                     -> Fallback(p))
  \o << Begin, Kernel("output_norm", 0, <<"hidden">>, "hidden", 1),
        Kernel("output", 0, <<"hidden">>, "logits", 1), End, Do("sample", 0, 1) >>

ForwardChunk(e, M, p) ==
  LET Post(l) == IF e.gathered THEN ForwardChunkPostGathered(l, M)
                 ELSE ForwardChunkPost(l, M)
      Both(l) == << Begin >> \o Post(l) \o ForwardChunkPre(l + 1, M, p)
                 \o TopKReadBack(l + 1, M)
  IN  << Do("embed", 0, M) >> \o RunChunkLayerPreTopk(0, M, p)
      \o ByLayer(Both, NLayer - 1) \o << Begin >> \o Post(NLayer - 1)
      \o << [Kernel("output_norm", 0, <<"hidden">>, "norm", 1) EXCEPT !.off = M - 1],
            Kernel("output", 0, <<"norm">>, "logits", 1), End, Do("sample", 0, 1) >>

Programs ==
  [e \in Environments |-> [chunk \in BOOLEAN |-> [M \in 1 .. ChunkSize |-> [p \in Positions |->
     IF chunk THEN ForwardChunk(e, M, p) ELSE ForwardToken(e, p)]]]]
Program == Programs[env][chunked][Len(call)][seqLen]
command == Program[pc]

-----------------------------------------------------------------------------
(* What a kernel does to the buffers when it runs.                         *)

Chosen(gate) == <<"top_k", gate>>

Value(m, c, t) ==
  LET Arg(i) == m[c.from[i]][t + c.off]
      args   == [i \in DOMAIN c.from |-> Arg(i)]
  IN  CASE c.f = "copy"    -> Arg(1)
        [] c.f = "experts" -> <<"moe", c.l>> \o args \o <<c.choice[t]>>
        [] c.f = "fused"   -> <<"moe", c.l>> \o args
                              \o <<Chosen(<<"router", c.l, m.norm[t]>>)>>
        [] OTHER           -> <<c.f, c.l>> \o args

Attended(m, c) ==
  LET row == <<"rope", c.at, m.qkv[c.row]>>
      kv  == [m.kv[c.l] EXCEPT ![c.at] = row]
  IN  [m EXCEPT !.kv[c.l] = kv,
         !.attn_out[c.row] = <<"attention", c.l, row, [i \in 1 .. c.at + 1 |-> kv[i - 1]]>>]

Effect(m, c) ==
  CASE c.f = "attention" -> Attended(m, c)
    [] c.f = "router" -> [m EXCEPT !.gate[c.cell] = <<"router", c.l, m.norm[c.row]>>]
    [] c.f = "top_k" ->
         [m EXCEPT !.choice = [x \in Cells |-> IF x - c.cell \in c.rows
                                               THEN Chosen(m.gate[x]) ELSE @[x]]]
    [] OTHER -> [m EXCEPT ![c.to] = [t \in Rows |-> IF t \in c.rows
                                                    THEN Value(m, c, t) ELSE @[t]]]

\* The kernels of a command buffer run one after the other.
Ran(m, cs) ==
  LET after[i \in 0 .. Len(cs)] == IF i = 0 THEN m ELSE Effect(after[i - 1], cs[i])
  IN  after[Len(cs)]

-----------------------------------------------------------------------------
(* The reference, src/src/ds3_reference.c: one layer after the other, one  *)
(* position at a time.  It adds the shared expert, when the model has one, *)
(* after the routed ones; sums are written in the engine's order here.     *)

Qkv(l, x) == <<"qk_norm", l, <<"qkv", l, <<"attn_norm", l, x>>>>>>
KvRow(l, p, x) == <<"rope", p, Qkv(l, x)>>
Attention(l, xs, p) ==
  <<"attn_output", l, <<"attention", l, KvRow(l, p, xs[p]),
                        [i \in 1 .. p + 1 |-> KvRow(l, i - 1, xs[i - 1])]>>>>
Moe(l, x) ==
  LET zero == <<"zero", 0>>
  IN  <<"moe", l, IF HasShared THEN <<"shared", l, zero, x>> ELSE zero, x,
        Chosen(<<"router", l, x>>)>>
LayerForward(l, xs, p) ==
  LET mid == <<"add", 0, Attention(l, xs, p), xs[p]>>
  IN  <<"add", 0, Moe(l, <<"ffn_norm", l, mid>>), mid>>

LayerIn(toks) ==
  LET In[l \in Nat] == [p \in 0 .. Len(toks) - 1 |->
        IF l = 0 THEN Emb(toks[p + 1]) ELSE LayerForward(l - 1, In[l - 1], p)]
  IN  In
Logits(toks) ==
  <<"output", 0, <<"output_norm", 0, LayerIn(toks)[NLayer][Len(toks) - 1]>>>>
KvRows(toks, l) ==
  LET xs == LayerIn(toks)[l] IN [p \in DOMAIN xs |-> KvRow(l, p, xs[p])]

-----------------------------------------------------------------------------

Init ==
  /\ env \in Environments
  /\ LET rows == [t \in Rows |-> Unset] IN
     mem = [hidden |-> rows, residual |-> rows, norm |-> rows, qkv |-> rows,
            attn_out |-> rows, ffn_out |-> rows, gather |-> rows, logits |-> rows,
            gate |-> [x \in Cells |-> Unset], choice |-> [x \in Cells |-> Unset],
            kv |-> [l \in Layers |-> [p \in Positions |-> Unset]]]
  /\ batch = FALSE /\ encoded = <<>>
  /\ indices = [l \in Layers |-> [t \in Rows |-> Unset]]
  /\ logits = Unset
  /\ text = <<>> /\ wanted = <<>> /\ call = <<>> /\ chunked = FALSE /\ pc = 1
  /\ result = "none" /\ generates = 0 /\ failures = 0

idle == call = <<>>

\* A generate begins: the KV of a cached prefix is uploaded; when all of the
\* prompt is cached its last token runs again.
StartPrompt(prompt, cached) ==
  LET n == IF cached = Len(prompt) THEN cached - 1 ELSE cached IN
  /\ idle /\ (wanted = <<>> \/ result = "failed") /\ Len(prompt) <= NCtx
  /\ text' = SubSeq(prompt, 1, n)
  /\ wanted' = SubSeq(prompt, n + 1, Len(prompt))
  /\ mem' = [mem EXCEPT !.kv = [l \in Layers |-> [p \in Positions |->
       IF p < cached THEN KvRows(prompt, l)[p] ELSE @[l][p]]]]
  /\ result' = "none"
  /\ generates < MaxGenerates /\ generates' = generates + 1
  /\ UNCHANGED <<env, batch, encoded, indices, logits, call, chunked, pc, failures>>

\* forward_token or forward_chunk is called for the tokens toks.
Forward(toks, asChunk) ==
  /\ idle /\ result # "failed" /\ seqLen + Len(toks) <= NCtx
  /\ call' = toks /\ chunked' = asChunk /\ pc' = 1
  /\ UNCHANGED <<env, mem, batch, encoded, indices, logits, text, wanted, result, generates, failures>>

Prefill == \E m \in 1 .. Len(wanted) :
  LET toks == SubSeq(wanted, 1, m) IN
  \/ m = 1 /\ Forward(toks, FALSE)
  \/ m <= ChunkSize /\ Forward(toks, TRUE)
Decode == wanted = <<>> /\ result = "token" /\ \E k \in Generated : Forward(<<k>>, FALSE)

Running(what) == ~idle /\ command.do = what

\* upload_token_embeddings
Embed ==
  /\ Running("embed")
  /\ mem' = [mem EXCEPT !.hidden = [t \in Rows |-> IF t \in command.rows
                                                   THEN Emb(call[t + 1]) ELSE @[t]]]
  /\ pc' = pc + 1
  /\ UNCHANGED <<env, batch, encoded, indices, logits, text, call, chunked, wanted, result, generates, failures>>

BeginBatch ==
  /\ Running("begin") /\ ~batch
  /\ batch' = TRUE /\ encoded' = <<>> /\ pc' = pc + 1
  /\ UNCHANGED <<env, mem, indices, logits, text, call, chunked, wanted, result, generates, failures>>

\* active_encoder: in a batch kernels are encoded, otherwise each has a command
\* buffer of its own and runs.  n of the kernels that come next are dispatched.
Bound(c) == IF c.f = "experts" THEN [c EXCEPT !.choice = indices[c.l]] ELSE c
Dispatched(n) ==
  LET cs == [i \in 1 .. n |-> Bound(Program[pc + i - 1])]
  IN  IF batch THEN [mem |-> mem, encoded |-> encoded \o cs]
      ELSE [mem |-> Ran(mem, cs), encoded |-> encoded]
\* How many kernels come before the host's next other command.
Ahead == CHOOSE n \in 0 .. Len(Program) - pc :
           /\ Program[pc + n].do # "dispatch"
           /\ \A i \in 0 .. n - 1 : Program[pc + i].do = "dispatch"

Dispatch ==
  /\ Running("dispatch")
  /\ mem' = Dispatched(Ahead).mem /\ encoded' = Dispatched(Ahead).encoded
  /\ pc' = pc + Ahead
  /\ UNCHANGED <<env, batch, indices, logits, text, call, chunked, wanted, result, generates, failures>>

\* Commit, wait, close.
EndBatch(d) == mem' = Ran(d.mem, d.encoded) /\ batch' = FALSE /\ encoded' = <<>>

Ends ==
  /\ Running("end") /\ EndBatch(Dispatched(0)) /\ pc' = pc + 1
  /\ UNCHANGED <<env, indices, logits, text, call, chunked, wanted, result, generates, failures>>

\* The host reads the top-k, or the router's logits and does the top-k itself.
ReadChoice ==
  LET M == Cardinality(command.rows) IN
  /\ ~idle /\ command.do \in {"read", "choose"}
  /\ indices' = [indices EXCEPT ![command.l] = [t \in Rows |->
       IF t \notin command.rows THEN @[t]
       ELSE IF command.do = "read" THEN mem.choice[command.l * M + t]
       ELSE Chosen(mem.gate[0])]]
  /\ pc' = pc + 1
  /\ UNCHANGED <<env, mem, batch, encoded, logits, text, call, chunked, wanted, result, generates, failures>>

\* The tokens of every expert, listed on the host and written for the kernels.
Gather ==
  /\ Running("gather")
  /\ mem' = [mem EXCEPT !.gather = [t \in Rows |->
       IF t \in command.rows THEN indices[command.l][t] ELSE @[t]]]
  /\ pc' = pc + 1
  /\ UNCHANGED <<env, batch, encoded, indices, logits, text, call, chunked, wanted, result, generates, failures>>

\* The logits are read and sampled; the caller advances seq_len.
Sample ==
  /\ Running("sample")
  /\ logits' = mem.logits[0]
  /\ text' = text \o call
  /\ wanted' = SubSeq(wanted, Len(call) + 1, Len(wanted))
  /\ result' = "token" /\ call' = <<>>
  /\ UNCHANGED <<env, mem, batch, encoded, indices, chunked, pc, generates, failures>>

\* (Mutant: the macro returns without ending the batch.)
Fails_LeavesOpen ==
  /\ ~idle /\ command.do # "end"
  /\ failures < MaxFailures /\ failures' = failures + 1
  /\ result' = "failed" /\ call' = <<>>
  /\ UNCHANGED <<env, mem, batch, encoded, indices, logits, text, chunked, pc, wanted, generates>>

\* Any of these calls may fail, or the view it needs, with some kernels of the
\* batch dispatched.  CHECK ends the batch, which runs them, and the forward
\* pass returns -1.
Refused == command.do = "begin" /\ batch
Fails ==
  /\ ~idle /\ command.do # "end"
  /\ ~Refused => failures < MaxFailures
  /\ failures' = IF Refused THEN failures ELSE failures + 1
  /\ \E n \in 0 .. IF Running("dispatch") THEN Ahead - 1 ELSE 0 : EndBatch(Dispatched(n))
  /\ result' = "failed" /\ call' = <<>>
  /\ UNCHANGED <<env, indices, logits, text, chunked, pc, wanted, generates>>

Next ==
  \/ \E prompt \in Prompts : \E n \in 0 .. Len(prompt) : StartPrompt(prompt, n)
  \/ Prefill \/ Decode
  \/ Embed \/ BeginBatch \/ Dispatch \/ Ends \/ ReadChoice \/ Gather \/ Sample \/ Fails

Spec == Init /\ [][Next]_vars

-----------------------------------------------------------------------------
(* Properties.                                                             *)

\* However the layers are cut into batches and the prompt into chunks, and
\* whatever failed before, the logits a token is sampled from are those of the
\* text so far, and the KV cache holds the rows of its positions: no kernel
\* ran on what another token, layer or batch had left, no read came early.
ForwardIsExact ==
  /\ result = "token" => logits = Logits(text)
  /\ \A l \in Layers : LET rows == KvRows(text, l) IN
       \A p \in DOMAIN rows : mem.kv[l][p] = rows[p]

\* A forward pass that ended, well or not, leaves no batch open, and so the
\* next ds3_metal_begin_batch is not refused and no kernel is left to run later.
BatchIsClosed == idle => ~batch /\ encoded = <<>>

\* The host begins a batch, reads the router's choice or the logits only when
\* every kernel dispatched before has run, under each schedule and also when
\* ds3_metal_moe_ffn closes and opens the batch of its caller.
HostWaitsForBatch ==
  ~idle /\ command.do \in {"begin", "read", "choose", "sample"} => ~batch /\ encoded = <<>>

=============================================================================
