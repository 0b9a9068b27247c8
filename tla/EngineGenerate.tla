--------------------------- MODULE EngineGenerate ---------------------------
(***************************************************************************)
(* ds3_engine_generate_ex (src/ds3_engine.c) with the local KV-cache       *)
(* provider: look the prompt up, take over the cached prefix, prefill the   *)
(* rest, decode token by token, and store the KV of it all for the session. *)
(* engine_mutex admits one generate at a time; meanwhile other sessions are *)
(* created, closed and reset.                                              *)
(*                                                                         *)
(* The forward pass is arithmetic the model leaves out: the units it       *)
(* computes are right if all the units it attends to are.                  *)
(***************************************************************************)
EXTENDS KvLocal

CONSTANTS
  Stop,          \* eos or <|im_end|>
  NCtx,          \* e->n_ctx
  MaxGen,        \* n_predict = output_capacity
  ChunkSize,     \* DS3_PREFILL_CHUNK_SIZE
  Fallback,      \* DS3_PREFILL_FALLBACK_TOKENS
  MaxPrompt,     \* bound: the longest prompt
  MaxGenerates   \* bound: generates in a behaviour

ASSUME StopAssumption == Stop \notin Tokens
ASSUME CtxAssumption ==
  /\ NCtx \in Nat \ {0} /\ MaxGen \in Nat \ {0} /\ ChunkSize \in Nat \ {0}
  /\ Fallback \in Nat /\ MaxPrompt \in Nat /\ MaxGenerates \in Nat

VARIABLES
  pc,       \* where the generate is; "idle": engine_mutex is free
  cur,      \* the session it is for
  prompt,   \* prompt_tokens
  out,      \* output_tokens[0 .. n_gen - 1]
  cached,   \* cached_len
  seqLen,   \* e->seq_len
  next,     \* next_token
  ref,      \* the slot the provider is working on
  gpu,      \* e->kv_k, e->kv_v: a unit for each plane and position
  late,     \* the deadline has passed
  left,     \* generates still to come
  spoiled   \* history variable: what was read is not the KV that lookup found

genVars == <<pc, cur, prompt, out, cached, seqLen, next, ref, gpu, late, left, spoiled>>
vars == <<kvVars, genVars>>
-----------------------------------------------------------------------------
All == prompt \o out
Prompts == UNION {[1..n -> Tokens] : n \in 1..MaxPrompt}

(* Positions 1..n hold what a forward pass over s computes. *)
Holds(n, s) ==
  n <= Len(s) /\ \A l \in Planes : \A i \in 1..n : gpu[l][i] = Unit(l, SubSeq(s, 1, i))

(* What a forward pass over toks writes at position n + i of plane l. *)
Computed(n, toks, l, i) ==
  LET context == IF n = 0 THEN <<>> ELSE gpu[1][n].prefix
  IN  IF Holds(n, context) THEN Unit(l, context \o SubSeq(toks, 1, i)) ELSE Junk

(* forward_token, forward_chunk: plane after plane; done tells how many     *)
(* planes are written when it returns.                                     *)
Forward(n, toks, done) ==
  gpu' = [l \in Planes |-> [i \in 1..NCtx |->
            IF l <= done /\ i \in (n + 1)..(n + Len(toks))
            THEN Computed(n, toks, l, i - n) ELSE gpu[l][i]]]
Refused(n, toks) == n + Len(toks) > NCtx  \* "KV cache full"

(* Mutant: token after token instead of plane after plane. *)
Downloaded_ByToken(n) ==
  [u \in 1..(n * NPlanes) |-> gpu[((u - 1) % NPlanes) + 1][((u - 1) \div NPlanes) + 1]]

(* kv_cache_download, kv_cache_upload. *)
Downloaded(n) ==
  [u \in 1..(n * NPlanes) |-> gpu[((u - 1) \div n) + 1][((u - 1) % n) + 1]]
Uploaded(n, host, done) ==
  gpu' = [l \in Planes |-> [i \in 1..NCtx |->
            IF l <= done /\ i <= n THEN host[At(n, l, i)] ELSE gpu[l][i]]]

(* The forward pass that continues the sequence with toks, and samples. *)
Succeeds(toks) ==
  /\ ~Refused(seqLen, toks)
  /\ Forward(seqLen, toks, NPlanes)
  /\ next' \in Tokens \cup {Stop}
Fails(toks) ==
  IF Refused(seqLen, toks) THEN UNCHANGED gpu
  ELSE \E done \in 0..NPlanes : Forward(seqLen, toks, done)

(* The locals go; e->seq_len is reset by the next generate. *)
Return ==
  /\ pc' = "idle" /\ cur' = NoId /\ prompt' = <<>> /\ out' = <<>> /\ cached' = 0
  /\ seqLen' = 0 /\ next' = Stop /\ ref' = 0 /\ late' = FALSE /\ spoiled' = FALSE
-----------------------------------------------------------------------------
Init ==
  /\ KvInit
  /\ pc = "idle" /\ cur = NoId /\ prompt = <<>> /\ out = <<>>
  /\ cached = 0 /\ seqLen = 0 /\ next = Stop /\ ref = 0
  /\ gpu = [l \in Planes |-> [i \in 1..NCtx |-> Junk]]
  /\ late = FALSE /\ left = MaxGenerates /\ spoiled = FALSE

(* A generate for an open session.  A prompt longer than the context is     *)
(* refused before anything changes.                                        *)
Start(id, p) ==
  /\ pc = "idle" /\ left > 0 /\ id \in open
  /\ left' = left - 1
  /\ IF Len(p) > NCtx THEN UNCHANGED <<pc, cur, prompt>>
     ELSE pc' = "lookup" /\ cur' = id /\ prompt' = p
  /\ UNCHANGED <<kvVars, out, cached, seqLen, next, ref, gpu, late, spoiled>>

Lookup ==
  LET c == CachedPrefix(Name(cur), prompt) IN
  /\ pc = "lookup"
  /\ cached' = c
  /\ ref' = FindSlot(Name(cur))
  /\ pc' = IF c > 0 THEN "read" ELSE "plan"
  /\ UNCHANGED <<kvVars, cur, prompt, out, seqLen, next, gpu, late, left, spoiled>>

(* local_read finds the session once more and checks the length. *)
Read ==
  LET k == FindSlot(Name(cur)) IN
  /\ pc = "read"
  /\ k # 0 /\ cached <= Len(slots[k].tokens)
  /\ ref' = k /\ spoiled' = (k # ref)
  /\ pc' = "copy"
  /\ UNCHANGED <<kvVars, cur, prompt, out, cached, seqLen, next, gpu, late, left>>

(* Mutant: the lookup is tried again. *)
ReadFails_Retries ==
  /\ pc = "read"
  /\ cached' = 0 /\ seqLen' = 0
  /\ pc' = "lookup"
  /\ UNCHANGED <<kvVars, cur, prompt, out, next, ref, gpu, late, left, spoiled>>

(* No host buffer, or local_read returns -1: all of the prompt is computed. *)
ReadFails ==
  /\ pc = "read"
  /\ cached' = 0 /\ seqLen' = 0
  /\ pc' = "plan"
  /\ UNCHANGED <<kvVars, cur, prompt, out, next, ref, gpu, late, left, spoiled>>

Copy ==
  /\ pc = "copy"
  /\ Uploaded(cached, Copied(ref, cached), NPlanes)
  /\ seqLen' = cached
  /\ spoiled' = (spoiled \/ Len(slots[ref].tokens) # cached \/ ~slots[ref].clean)
  /\ pc' = "plan"
  /\ UNCHANGED <<kvVars, cur, prompt, out, cached, next, ref, late, left>>

(* Mutant: e->seq_len was set before the upload. *)
CopyFails_KeepsLength ==
  /\ pc = "copy"
  /\ \E done \in 0..(NPlanes - 1) : Uploaded(cached, Copied(ref, cached), done)
  /\ cached' = 0 /\ seqLen' = cached /\ spoiled' = FALSE
  /\ pc' = "plan"
  /\ UNCHANGED <<kvVars, cur, prompt, out, next, ref, late, left>>

(* kv_cache_upload fails after some planes. *)
CopyFails ==
  /\ pc = "copy"
  /\ \E done \in 0..(NPlanes - 1) : Uploaded(cached, Copied(ref, cached), done)
  /\ cached' = 0 /\ seqLen' = 0 /\ spoiled' = FALSE
  /\ pc' = "plan"
  /\ UNCHANGED <<kvVars, cur, prompt, out, next, ref, late, left>>

DeadlinePasses ==
  /\ pc # "idle" /\ ~late
  /\ late' = TRUE
  /\ UNCHANGED <<kvVars, pc, cur, prompt, out, cached, seqLen, next, ref, gpu, left, spoiled>>

(* Mutant: only the output is bounded. *)
MoreToDecode_NoCtx == Len(out) < MaxGen

MoreToPrefill == cached < Len(prompt)
MoreToDecode == Len(out) < MaxGen /\ seqLen < NCtx

(* generate_deadline_expired, polled between two pieces of work: -2. *)
Expire ==
  /\ late
  /\ \/ pc \in {"plan", "resume"}
     \/ pc \in {"chunks", "tokens"} /\ MoreToPrefill
     \/ pc = "decode" /\ MoreToDecode
  /\ Return
  /\ UNCHANGED <<kvVars, gpu, left>>

(* Which way to prefill: a prompt that is cached to the end still runs its  *)
(* last token for the logits; chunks can be turned off and never serve a    *)
(* short rest.                                                             *)
Plan ==
  /\ pc = "plan" /\ ~late
  /\ IF cached = Len(prompt)
     THEN pc' = "last" /\ seqLen' = Len(prompt) - 1
     ELSE /\ pc' \in {"tokens"} \cup
                     (IF Len(prompt) - cached < Fallback THEN {} ELSE {"chunks"})
          /\ UNCHANGED seqLen
  /\ UNCHANGED <<kvVars, cur, prompt, out, cached, next, ref, gpu, late, left, spoiled>>

RunLast ==
  /\ pc = "last"
  /\ Succeeds(<<prompt[Len(prompt)]>>)
  /\ pc' = "resume"
  /\ UNCHANGED <<kvVars, cur, prompt, out, cached, seqLen, ref, late, left, spoiled>>
Resume ==
  /\ pc = "resume" /\ ~late
  /\ seqLen' = seqLen + 1
  /\ pc' = "decode"
  /\ UNCHANGED <<kvVars, cur, prompt, out, cached, next, ref, gpu, late, left, spoiled>>

(* The next piece of the prompt.  cached goes on as prompt_pos. *)
Piece ==
  LET rest == Len(prompt) - cached
      size == IF pc = "tokens" THEN 1 ELSE IF rest < ChunkSize THEN rest ELSE ChunkSize
  IN  SubSeq(prompt, cached + 1, cached + size)
Prefill ==
  /\ pc \in {"chunks", "tokens"} /\ MoreToPrefill /\ ~late
  /\ Succeeds(Piece)
  /\ seqLen' = seqLen + Len(Piece)
  /\ cached' = cached + Len(Piece)
  /\ UNCHANGED <<kvVars, pc, cur, prompt, out, ref, late, left, spoiled>>
Prefilled ==
  /\ pc \in {"chunks", "tokens"} /\ ~MoreToPrefill
  /\ pc' = "decode"
  /\ UNCHANGED <<kvVars, cur, prompt, out, cached, seqLen, next, ref, gpu, late, left, spoiled>>

(* forward_token or forward_chunk fails on the prompt: -1. *)
PromptFails ==
  /\ \/ pc = "last" /\ Fails(<<prompt[Len(prompt)]>>)
     \/ pc \in {"chunks", "tokens"} /\ MoreToPrefill /\ ~late /\ Fails(Piece)
  /\ Return
  /\ UNCHANGED <<kvVars, left>>

(* One round of the decode loop: emit next_token, then run it. *)
Emit ==
  /\ pc = "decode" /\ MoreToDecode /\ ~late /\ next # Stop
  /\ out' = Append(out, next)
  /\ pc' = "step"
  /\ UNCHANGED <<kvVars, cur, prompt, cached, seqLen, next, ref, gpu, late, left, spoiled>>
(* Mutant: seq_len is advanced by the forward pass and by the loop. *)
Step_Twice ==
  /\ pc = "step"
  /\ Succeeds(<<next>>)
  /\ seqLen' = seqLen + 2
  /\ pc' = "decode"
  /\ UNCHANGED <<kvVars, cur, prompt, out, cached, ref, late, left, spoiled>>
Step ==
  /\ pc = "step"
  /\ Succeeds(<<next>>)
  /\ seqLen' = seqLen + 1
  /\ pc' = "decode"
  /\ UNCHANGED <<kvVars, cur, prompt, out, cached, ref, late, left, spoiled>>

(* A failing pass only ends the loop: the token it was for stays in out. *)
StepFails ==
  /\ pc = "step"
  /\ Fails(<<next>>)
  /\ pc' = "store"
  /\ UNCHANGED <<kvVars, cur, prompt, out, cached, seqLen, next, ref, late, left, spoiled>>
Decoded ==
  /\ pc = "decode"
  /\ ~MoreToDecode \/ (~late /\ next = Stop)
  /\ pc' = "store"
  /\ UNCHANGED <<kvVars, cur, prompt, out, cached, seqLen, next, ref, gpu, late, left, spoiled>>

(* local_write finds the session, then copies.  A create may refill the     *)
(* slot in between.                                                        *)
StoreFind ==
  LET k == FindSlot(Name(cur)) IN
  /\ pc = "store" /\ Len(All) <= NCtx /\ Writable(k, All)
  /\ ref' = k
  /\ pc' = "write"
  /\ UNCHANGED <<kvVars, cur, prompt, out, cached, seqLen, next, gpu, late, left, spoiled>>
Write ==
  /\ pc = "write"
  /\ Store(ref, All, Downloaded(Len(All)), ~spoiled /\ seqLen = Len(All))
  /\ Return
  /\ UNCHANGED <<making, stage, open, contested, gpu, left>>

(* Nothing is stored: no memory, the download fails, or local_write does. *)
StoreFails ==
  /\ pc = "store"
  /\ Return
  /\ UNCHANGED <<kvVars, gpu, left>>
-----------------------------------------------------------------------------
Engine ==
  \/ Lookup \/ Read \/ ReadFails \/ Copy \/ CopyFails \/ Expire
  \/ Plan \/ RunLast \/ Resume \/ Prefill \/ Prefilled \/ PromptFails
  \/ Emit \/ Step \/ StepFails \/ Decoded \/ StoreFind \/ Write \/ StoreFails

Creates(id) == CreateFind(id) \/ CreateFill(id) \/ CreateFails(id) \/ CreatePublish(id)

(* Whoever works on a session holds its mutex: cur is left alone. *)
Sessions(id) ==
  /\ id # cur
  /\ Creates(id) \/ CloseSession(id) \/ ResetSession(id)
  /\ UNCHANGED genVars

Next ==
  \/ Engine \/ DeadlinePasses
  \/ \E id \in Ids : Sessions(id) \/ \E p \in Prompts : Start(id, p)

(* The thread that generates runs on: nothing in these calls waits. *)
Spec == Init /\ [][Next]_vars /\ WF_vars(Engine)
-----------------------------------------------------------------------------
TypeOK ==
  /\ slots \in [1..NSlots -> Slot]
  /\ making \in [Ids -> 0..NSlots]
  /\ stage \in [Ids -> {"none", "fill", "publish"}]
  /\ open \subseteq Ids
  /\ pc \in {"idle", "lookup", "read", "copy", "plan", "last", "resume", "chunks",
             "tokens", "decode", "step", "store", "write"}
  /\ cur \in Ids \cup {NoId}
  /\ prompt \in Seq(Tokens) /\ out \in Seq(Tokens)
  /\ cached \in Nat /\ seqLen \in 0..NCtx
  /\ next \in Tokens \cup {Stop}
  /\ ref \in 0..NSlots
  /\ gpu \in [Planes -> [1..NCtx -> Units]]
  /\ late \in BOOLEAN /\ left \in 0..MaxGenerates /\ spoiled \in BOOLEAN

(* What the engine attends to was computed from this prompt and the tokens  *)
(* emitted so far, unless the prefix it took over was stored for another    *)
(* length, by a generate that could not vouch for it, or in another slot     *)
(* than the one looked up.                                                 *)
AttentionIsExact ==
  pc \notin {"idle", "lookup", "read", "copy"} /\ ~spoiled =>
    Holds(seqLen, All)

(* What local_read copies for a cached prefix is the KV of that prefix, as   *)
(* the interface says of read.  The code copies the front of a buffer that  *)
(* was laid out for the stored length.                                     *)
CachedPrefixComesBack ==
  pc = "copy" /\ slots[ref].clean =>
    \A l \in Planes : \A i \in 1..cached :
      Copied(ref, cached)[At(cached, l, i)] = Unit(l, SubSeq(prompt, 1, i))

(* A clean slot has, unit for unit, the KV of the tokens it is found by. *)
StoredIsExact ==
  \A k \in 1..NSlots : LET s == slots[k] IN s.clean =>
    \A l \in Planes : \A i \in 1..Len(s.tokens) :
      s.kv[At(Len(s.tokens), l, i)] = Unit(l, SubSeq(s.tokens, 1, i))

(* The loops of generate_ex leave room for every forward pass, and for the  *)
(* download: neither "KV cache full" nor a refused download can happen.     *)
ContextFits ==
  /\ pc = "last" => seqLen < NCtx
  /\ pc = "step" => seqLen < NCtx /\ seqLen + 1 = Len(All)
  /\ pc \in {"chunks", "tokens"} /\ MoreToPrefill => seqLen + Len(Piece) <= NCtx
  /\ pc \in {"store", "write"} => Len(All) <= NCtx

(* A slot in use belongs to a session that is open or being created, so that *)
(* it is given back some day, and it is the only one of that session, which   *)
(* local_find_session would hide otherwise: short of slots that two creates   *)
(* had picked at once and of ids that were cut.                              *)
SlotsAreAccountedFor ==
  LET InUse == {k \in (1..NSlots) \ contested : slots[k].valid /\ slots[k].id # "cut"} IN
  \A k \in InUse :
    /\ slots[k].id \in open \cup {id \in Ids : stage[id] # "none"}
    /\ \A j \in InUse : slots[j].id = slots[k].id => j = k

(* The inductive invariant: where the generate is in the prompt and the      *)
(* context, that the slot lookup found keeps its tokens or loses them all,  *)
(* and that kv_data goes with the tokens.                                  *)
PromptFits == pc # "idle" => Len(prompt) \in 1..NCtx
Progress ==
  /\ pc \in {"idle", "lookup", "read", "copy"} => seqLen = 0
  /\ pc \in {"read", "copy"} => cached \in 1..Len(prompt)
  /\ pc \notin {"decode", "step", "store", "write"} => out = <<>>
  /\ pc \in {"plan", "chunks", "tokens"} => seqLen = cached /\ cached <= Len(prompt)
  /\ pc \in {"last", "resume"} => seqLen + 1 = Len(prompt)
  /\ pc = "decode" => seqLen = Len(All)
  /\ pc = "step" => seqLen + 1 = Len(All) /\ out # <<>> /\ out[Len(out)] = next
  /\ pc = "step" => seqLen < NCtx
  /\ pc \in {"store", "write"} => Len(All) <= NCtx /\ seqLen <= Len(All)
Matched(k) ==
  Len(slots[k].tokens) = cached => \A i \in 1..cached : slots[k].tokens[i] = prompt[i]
FoundStays ==
  /\ pc \in {"read", "copy", "write"} => ref \in 1..NSlots
  /\ pc = "read" => Matched(ref)
  /\ pc = "copy" /\ ~spoiled => Matched(ref)
KvLaidOut == \A k \in 1..NSlots : Len(slots[k].kv) = NPlanes * Len(slots[k].tokens)
LastIsExact == pc = "resume" /\ ~spoiled => Holds(seqLen + 1, All)

Control == TypeOK /\ PromptFits /\ Progress /\ FoundStays /\ KvLaidOut
Inv == Control /\ AttentionIsExact /\ LastIsExact /\ StoredIsExact

(* Every generate returns: each loop is bounded by the prompt or n_ctx. *)
GenerateReturns == (pc # "idle") ~> (pc = "idle")
=============================================================================
