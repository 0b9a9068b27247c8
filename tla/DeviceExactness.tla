--------------------------- MODULE DeviceExactness ---------------------------
(***************************************************************************)
(* Proof that the forward passes of Device compute what the reference does: *)
(* what is encoded and has not run yet is all that stands between the       *)
(* buffers and those of the same pass with no batches (DevicePasses).       *)
(***************************************************************************)
EXTENDS DevicePasses

-----------------------------------------------------------------------------
(* The invariant. *)

(* Where the pass stands: the kernels cs that are encoded are yet to run.    *)
Now(a, m, idx, cs) == a.mem = Ran(m, cs) /\ a.idx = idx /\ (~a.used => AllApart(cs))

(* The buffers have their rows; the logits are those of the text whenever a  *)
(* token is sampled from them; and a pass that runs is at a state of the     *)
(* same program without batches, but for what is encoded.                    *)
Shaped == IsMem(mem) /\ IsChoice(indices) /\ IsSeq(encoded)
LogitsFollow == result = "token" => logits = Logits(text)
PassFollows ==
  ~idle => \E r : Through(text, call, Program, r) /\ Now(r[pc - 1], mem, indices, encoded)

Exact == Shaped /\ Kept(text, Len(text), mem) /\ LogitsFollow /\ PassFollows

(* The KV rows of a text are those of any longer one. *)
LEMMA EarlierKept ==
  ASSUME NEW s, NEW k, s \in Seq(Tokens), k \in Seq(Tokens), NEW m
  PROVE  Kept(s \o k, Len(s), m) <=> Kept(s, Len(s), m)
<1>1. /\ Len(s) \in Nat /\ Len(s \o k) \in Nat /\ Len(s) <= Len(s \o k)
      /\ \A i \in 1 .. Len(s) : (s \o k)[i] = s[i]
  <2>1. /\ Len(s \o k) = Len(s) + Len(k) /\ Len(s) \in Nat /\ Len(k) \in Nat
        /\ \A i \in 1 .. Len(s) : (s \o k)[i] = s[i]
    BY ConcatIs
  <2> QED
    BY <2>1
<1>2. \A l \in Nat : \A q \in 0 .. Len(s) - 1 : LayerIn(s \o k)[l][q] = LayerIn(s)[l][q]
  <2> DEFINE u == s \o k
             n == Len(s)
  <2>1. n \in Nat /\ Len(s) \in Nat /\ Len(u) \in Nat /\ n <= Len(u) /\ n <= Len(s)
    BY <1>1
  <2>2. \A i \in 1 .. n : u[i] = s[i]
    BY <1>1
  <2> HIDE DEF u, n
  <2>3. \A l \in Nat : \A q \in 0 .. n - 1 : LayerIn(u)[l][q] = LayerIn(s)[l][q]
    BY <2>1, <2>2, EarlierTokens
  <2> QED
    BY <2>3 DEF u, n
<1>3. \A l \in Layers : l \in Nat
  BY LayersNumber DEF Layers
<1>4. ASSUME NEW l \in Layers, NEW q \in 0 .. Len(s) - 1
      PROVE  KvRow(l, q, LayerIn(s \o k)[l][q]) = KvRow(l, q, LayerIn(s)[l][q])
  <2>1. LayerIn(s \o k)[l][q] = LayerIn(s)[l][q]
    BY <1>2, <1>3
  <2> QED
    BY <2>1, Zenon
<1> QED
  BY <1>4, Zenon DEF Kept

(* When nothing is encoded the buffers are those of the pass without batches. *)
LEMMA NowNothing ==
  ASSUME NEW a, NEW m, NEW idx, Now(a, m, idx, <<>>)
  PROVE  a.mem = m /\ a.idx = idx
BY RanNone DEF Now

(* And the other way. *)
LEMMA NowIs ==
  ASSUME NEW a, NEW m, NEW idx, a.mem = m, a.idx = idx
  PROVE  Now(a, m, idx, <<>>)
<1>1. AllApart(<<>>)
  BY DEF AllApart
<1> QED
  BY <1>1, RanNone DEF Now

(* No kernels are a sequence of kernels. *)
LEMMA NothingIsSeq == IsSeq(<<>>)
<1>1. <<>> \in Seq({})
  OBVIOUS
<1> QED
  BY <1>1 DEF IsSeq

(* The rows the reference writes to the KV cache. *)
LEMMA LayerInDomain ==
  ASSUME NEW toks, NEW l \in Nat
  PROVE  DOMAIN LayerIn(toks)[l] = 0 .. Len(toks) - 1
<1>1. LayerIn(toks)[l] = Enters(toks, l, LayerIn(toks)[l - 1])
  BY LayerInIs
<1> DEFINE xs == LayerIn(toks)[l - 1]
<1> HIDE DEF xs
<1>2. DOMAIN Enters(toks, l, xs) = 0 .. Len(toks) - 1
  BY DEF Enters
<1> QED
  BY <1>1, <1>2 DEF xs

(* KvRows, row by row. *)
LEMMA KvRowsAre ==
  ASSUME NEW toks, NEW l \in Nat
  PROVE  /\ DOMAIN KvRows(toks, l) = 0 .. Len(toks) - 1
         /\ \A q \in 0 .. Len(toks) - 1 : KvRows(toks, l)[q] = KvRow(l, q, LayerIn(toks)[l][q])
<1> DEFINE xs == LayerIn(toks)[l]
<1>1. DOMAIN xs = 0 .. Len(toks) - 1
  BY LayerInDomain
<1>2. KvRows(toks, l) = [q \in DOMAIN xs |-> KvRow(l, q, xs[q])]
  BY DEF KvRows
<1> HIDE DEF xs
<1> QED
  BY <1>1, <1>2 DEF xs

(* What is known of a pass that runs. *)
LEMMA PassIs ==
  ASSUME Inv, Exact, ~idle
  PROVE  \E r : /\ Through(text, call, Program, r) /\ Now(r[pc - 1], mem, indices, encoded)
                /\ Safe(text, call, r[pc - 1])
                /\ Step(text, call, r[pc - 1], command, r[pc], pc)
<1>1. PICK r : Through(text, call, Program, r) /\ Now(r[pc - 1], mem, indices, encoded)
  BY DEF Exact, PassFollows
<1>2. pc \in 1 .. Len(Program) /\ command = Program[pc]
  BY NextCommand DEF command
<1> DEFINE P == Program
<1> HIDE DEF P
<1>3. pc \in 1 .. Len(P) /\ command = P[pc] /\ Through(text, call, P, r)
  BY <1>1, <1>2 DEF P
<1>4. Step(text, call, r[pc - 1], command, r[pc], pc)
  BY <1>3, Zenon DEF Through
<1>5. Safe(text, call, r[pc - 1])
  <2>1. CASE pc = 1
    <3>1. pc - 1 = 0
      BY <2>1
    <3> QED
      BY <1>3, <3>1 DEF Through
  <2>2. CASE pc # 1
    <3> DEFINE q == pc - 1
    <3>0. Len(P) \in Nat
      BY ProgramPasses DEF Inv, P
    <3>1. q \in 1 .. Len(P)
      BY <1>3, <2>2, <3>0
    <3> HIDE DEF q
    <3>2. Step(text, call, r[q - 1], P[q], r[q], q)
      BY <1>3, <3>1, Zenon DEF Through
    <3>3. Safe(text, call, r[q])
      BY <3>2 DEF Step
    <3> QED
      BY <3>3 DEF q
  <2> QED
    BY <2>1, <2>2
<1> QED
  BY <1>1, <1>4, <1>5

(* A safe state has the KV rows of the text. *)
LEMMA SafeKept ==
  ASSUME Inv, NEW a, Safe(text, call, a)
  PROVE  IsMem(a.mem) /\ IsChoice(a.idx) /\ Kept(text, Len(text), a.mem)
<1>1. text \in Seq(Tokens) /\ call \in Seq(Tokens)
  BY DEF Inv, Typed
<1>2. IsMem(a.mem) /\ IsChoice(a.idx) /\ Kept(text \o call, Len(text), a.mem)
  BY SafeIs
<1> QED
  BY <1>1, <1>2, EarlierKept

(* The pass goes on. *)
LEMMA ExactGoesOn ==
  ASSUME Inv, Exact, ~idle, UNCHANGED <<env, call, chunked, text, logits, result>>,
         NEW r, Through(text, call, Program, r), NEW i \in Int, pc' = i + 1,
         Now(r[i], mem', indices', encoded'),
         IsMem(mem'), IsChoice(indices'), IsSeq(encoded'), Kept(text, Len(text), mem')
  PROVE  Exact'
<1>1. Program' = Program /\ ~idle'
  BY SamePass
<1>2. pc' - 1 = i
  OBVIOUS
<1>3. PassFollows'
  <2> DEFINE P == Program
  <2>1. Through(text', call', Program', r)
    BY <1>1, Zenon
  <2>2. Now(r[pc' - 1], mem', indices', encoded')
    BY <1>2, Zenon
  <2> QED
    BY <2>1, <2>2, Zenon DEF PassFollows
<1>4. Shaped' /\ LogitsFollow'
  BY DEF Shaped, LogitsFollow, Exact
<1>5. Kept(text, Len(text), mem)'
  <2>1. text' = text
    OBVIOUS
  <2> QED
    BY <2>1 DEF Kept, KvRow, Qkv
<1> QED
  BY <1>3, <1>4, <1>5 DEF Exact

(* The same after a command that leaves no kernel to run. *)
LEMMA ExactHostStep ==
  ASSUME Inv, Exact, ~idle, UNCHANGED <<env, call, chunked, text, logits, result>>,
         NEW r, Through(text, call, Program, r), pc' = pc + 1, Safe(text, call, r[pc]),
         mem' = r[pc].mem, indices' = r[pc].idx, encoded' = <<>>
  PROVE  Exact'
<1>1. pc \in Int
  BY NextCommand
<1>2. Now(r[pc], mem', indices', encoded')
  BY NowIs
<1>3. IsMem(mem') /\ IsChoice(indices') /\ Kept(text, Len(text), mem')
  BY SafeKept
<1> QED
  BY <1>1, <1>2, <1>3, NothingIsSeq, ExactGoesOn

(* What is encoded once n kernels that come next are dispatched. *)
LEMMA DispatchedIs ==
  ASSUME Inv, Exact, ~idle, NEW r, Through(text, call, Program, r), Now(r[pc - 1], mem, indices, encoded),
         NEW n \in Nat, pc - 1 + n <= Len(Program), \A i \in 0 .. n - 1 : Program[pc + i].do = "dispatch",
         NEW cs, cs = [i \in 1 .. n |-> Bound(Program[pc + i - 1])]
  PROVE  /\ IsSeq(cs) /\ IsSeq(encoded \o cs)
         /\ Now(r[pc - 1 + n], mem, indices, encoded \o cs)
<1> DEFINE P == Program
           q == pc - 1
<1>1. q \in Nat /\ Len(P) \in Nat /\ q + n <= Len(P)
  BY NextCommand, ProgramPasses DEF Inv
<1>2. \A i \in 1 .. n : q + i = pc + i - 1 /\ P[q + i].do = "dispatch"
  <2> TAKE i \in 1 .. n
  <2>1. i - 1 \in 0 .. n - 1 /\ pc + (i - 1) = q + i /\ q + i = pc + i - 1
    BY <1>1, NextCommand
  <2> HIDE DEF P
  <2>2. \A j \in 0 .. n - 1 : P[pc + j].do = "dispatch"
    BY DEF P
  <2> HIDE DEF q
  <2> QED
    BY <2>1, <2>2
<1>3. r[q].idx = indices /\ r[q].mem = Ran(mem, encoded)
  BY DEF Now
<1>4. cs = [i \in 1 .. n |-> BoundTo(r[q].idx, P[q + i])]
  <2> HIDE DEF P, q
  <2>1. \A c : Bound(c) = BoundTo(r[q].idx, c)
    BY <1>3, Zenon DEF Bound, BoundTo
  <2>2. cs = [i \in 1 .. n |-> Bound(P[pc + i - 1])]
    BY DEF P
  <2> QED
    BY <1>2, <2>1, <2>2
<1>5. Through(text, call, P, r)
  OBVIOUS
<1> HIDE DEF P, q
<1>c. AreDispatched(P, q, n, r[q].idx, cs)
  BY <1>2, <1>4 DEF AreDispatched
<1>b. DispatchesTo(r[q], r[q + n], cs)
  BY <1>1, <1>5, <1>c, DispatchesThrough
<1>6. /\ Ran(r[q].mem, cs) = r[q + n].mem /\ r[q + n].idx = r[q].idx
      /\ ~r[q + n].used => ~r[q].used /\ AllApart(cs)
  BY <1>b, Zenon DEF DispatchesTo
<1>7. IsSeq(cs)
  <2> DEFINE T == {BoundTo(r[q].idx, P[q + i]) : i \in 1 .. n}
  <2>1. cs \in [1 .. n -> T]
    BY <1>4, Zenon
  <2> HIDE DEF T
  <2>2. cs \in Seq(T)
    BY <2>1, FunctionIsSeq
  <2> QED
    BY <2>2 DEF IsSeq
<1>8. IsSeq(encoded)
  BY DEF Exact, Shaped
<1>9. IsSeq(encoded \o cs)
  BY <1>7, <1>8, SeqOn
<1>10. r[q + n].mem = Ran(mem, encoded \o cs)
  BY <1>3, <1>6, <1>7, <1>8, RanOn
<1>11. ASSUME ~r[q + n].used PROVE AllApart(encoded \o cs)
  <2>1. AllApart(encoded) /\ AllApart(cs)
    BY <1>6, <1>11, Zenon DEF Now, q
  <2> QED
    BY <2>1, <1>7, <1>8, AllApartOn
<1>12. Now(r[q + n], mem, indices, encoded \o cs)
  BY <1>3, <1>6, <1>10, <1>11, Zenon DEF Now
<1> QED
  BY <1>7, <1>9, <1>12 DEF q

(* What the buffers are when the batch is ended then. *)
LEMMA EndedIs ==
  ASSUME Inv, Exact, ~idle, NEW r, Through(text, call, Program, r), Now(r[pc - 1], mem, indices, encoded),
         NEW n \in Nat, pc - 1 + n <= Len(Program), \A i \in 0 .. n - 1 : Program[pc + i].do = "dispatch",
         EndBatch(Dispatched(n))
  PROVE  mem' = r[pc - 1 + n].mem /\ encoded' = <<>> /\ ~batch'
<1> DEFINE cs == [i \in 1 .. n |-> Bound(Program[pc + i - 1])]
           d == Dispatched(n)
<1>1. d = IF batch THEN [mem |-> mem, encoded |-> encoded \o cs] ELSE [mem |-> Ran(mem, cs), encoded |-> encoded]
  BY DEF Dispatched
<1>2. mem' = Ran(d.mem, d.encoded) /\ encoded' = <<>> /\ ~batch'
  BY DEF EndBatch
<1>3. \A c : c = cs => /\ IsSeq(c) /\ IsSeq(encoded \o c)
                       /\ Now(r[pc - 1 + n], mem, indices, encoded \o c)
  <2> TAKE c
  <2> HAVE c = cs
  <2>1. c = [i \in 1 .. n |-> Bound(Program[pc + i - 1])]
    OBVIOUS
  <2> HIDE DEF cs
  <2> QED
    BY <2>1, DispatchedIs
<1> HIDE DEF cs, d
<1>4. /\ IsSeq(cs) /\ IsSeq(encoded \o cs)
      /\ r[pc - 1 + n].mem = Ran(mem, encoded \o cs)
  BY <1>3 DEF Now
<1>5. Ran(d.mem, d.encoded) = Ran(mem, encoded \o cs)
  <2>1. CASE batch
    <3>1. d = [mem |-> mem, encoded |-> encoded \o cs]
      BY <1>1, <2>1
    <3> QED
      BY <3>1
  <2>2. CASE ~batch
    <3>1. encoded = <<>>
      BY <2>2 DEF Inv, NothingLeft
    <3>2. d = [mem |-> Ran(mem, cs), encoded |-> encoded]
      BY <1>1, <2>2
    <3>3. d.mem = Ran(mem, cs) /\ d.encoded = <<>>
      BY <3>1, <3>2
    <3>4. <<>> \o cs = cs
      BY <1>4, NothingBefore
    <3>5. Ran(d.mem, d.encoded) = Ran(mem, cs)
      BY <3>3, RanNone
    <3> QED
      BY <3>1, <3>4, <3>5, Zenon
  <2> QED
    BY <2>1, <2>2
<1> QED
  BY <1>2, <1>4, <1>5, Zenon

-----------------------------------------------------------------------------
(* Every step keeps the invariant. *)

(* At the start there is no text and no pass. *)
LEMMA InitExact == Init => Exact
<1> SUFFICES ASSUME Init PROVE Exact
  OBVIOUS
<1> DEFINE rows == [t \in Rows |-> Unset]
           cells == [x \in Cells |-> Unset]
           kv == [l \in Layers |-> [p \in Positions |-> Unset]]
           m == [hidden |-> rows, residual |-> rows, norm |-> rows, qkv |-> rows,
                 attn_out |-> rows, ffn_out |-> rows, gather |-> rows, logits |-> rows,
                 gate |-> cells, choice |-> cells, kv |-> kv]
<1>1. mem = m /\ text = <<>> /\ encoded = <<>> /\ indices = [l \in Layers |-> rows]
      /\ result = "none" /\ idle
  BY DEF Init, idle
<1>2. /\ kv = [l \in Layers |-> kv[l]]
      /\ \A l \in Layers : kv[l] = [q \in Positions |-> kv[l][q]]
  OBVIOUS
<1>3. rows = [t \in Rows |-> rows[t]] /\ cells = [x \in Cells |-> cells[x]]
  OBVIOUS
<1>4. indices = [l \in Layers |-> indices[l]] /\ \A l \in Layers : indices[l] = rows
  BY <1>1
<1> HIDE DEF kv, rows, cells
<1>5. IsMem(mem)
  <2>1. m = [x \in Fields |-> m[x]]
    BY DEF Fields
  <2>2. m.attn_out = rows /\ m.gate = cells /\ m.kv = kv
    OBVIOUS
  <2>3. IsMem(m)
    <3> HIDE DEF m
    <3> QED
      BY <1>2, <1>3, <2>1, <2>2 DEF IsMem
  <2> QED
    BY <1>1, <2>3
<1>6. IsChoice(indices)
  BY <1>3, <1>4 DEF IsChoice
<1>7. Shaped
  BY <1>1, <1>5, <1>6, NothingIsSeq DEF Shaped
<1>8. Kept(text, Len(text), mem)
  <2>1. Len(text) = 0 /\ \A q \in 0 .. 0 - 1 : FALSE
    BY <1>1
  <2> QED
    BY <2>1 DEF Kept
<1> QED
  BY <1>1, <1>7, <1>8 DEF Exact, LogitsFollow, PassFollows

(* A forward pass is called. *)
LEMMA ForwardExact ==
  ASSUME HasShared => UseShared, Inv, Exact, NEW toks \in Seq(Tokens), NEW asChunk \in BOOLEAN,
         Len(toks) \in 1 .. ChunkSize, ~asChunk => Len(toks) = 1, Forward(toks, asChunk)
  PROVE  Exact'
<1>1. /\ call' = toks /\ chunked' = asChunk /\ pc' = 1 /\ seqLen + Len(toks) <= NCtx /\ idle
      /\ UNCHANGED <<env, mem, encoded, indices, logits, text, result>>
  BY DEF Forward
<1>2. Fits(text, toks) /\ env \in Environments
  BY <1>1 DEF Inv, Typed, Fits, seqLen
<1> DEFINE a == [mem |-> mem, idx |-> indices, used |-> FALSE]
<1>3. a.mem = mem /\ a.idx = indices /\ a.used = FALSE
      /\ a = [mem |-> a.mem, idx |-> a.idx, used |-> a.used]
  OBVIOUS
<1> HIDE DEF a
<1>4. Safe(text, toks, a)
  <2>1. text \in Seq(Tokens) /\ Kept(text, Len(text), mem)
    BY DEF Exact, Inv, Typed
  <2>2. Kept(text \o toks, Len(text), a.mem)
    BY <1>3, <2>1, EarlierKept
  <2>3. IsMem(a.mem) /\ IsChoice(a.idx) /\ a.used \in BOOLEAN
    BY <1>3 DEF Exact, Shaped
  <2> QED
    BY <1>3, <2>2, <2>3 DEF Safe
<1> DEFINE P == Programs[env][asChunk][Len(toks)][Len(text)]
<1>5. PICK r : Through(text, toks, P, r) /\ r[0] = a
  BY <1>2, <1>4, ProgramsExact
<1>6. Program' = P
  BY <1>1 DEF Program, seqLen
<1>7. encoded = <<>>
  BY <1>1 DEF Inv, NothingLeft, ClosedWhenIdle
<1>8. Now(a, mem, indices, encoded)
  BY <1>3, <1>7, NowIs, Zenon
<1> HIDE DEF P
<1>9. PassFollows'
  <2>1. pc' - 1 = 0
    BY <1>1
  <2>2. Through(text', call', Program', r)
    BY <1>1, <1>5, <1>6, Zenon
  <2>3. Now(r[pc' - 1], mem', indices', encoded')
    BY <1>1, <1>5, <1>8, <2>1, Zenon
  <2> QED
    BY <2>2, <2>3, Zenon DEF PassFollows
<1>10. Shaped' /\ LogitsFollow'
  BY <1>1 DEF Shaped, LogitsFollow, Exact
<1>11. Kept(text, Len(text), mem)'
  <2>1. text' = text /\ mem' = mem
    BY <1>1
  <2> QED
    BY <2>1, Zenon DEF Exact
<1> QED
  BY <1>9, <1>10, <1>11 DEF Exact

(* A generate begins. *)
LEMMA StartExact ==
  ASSUME Inv, Exact, NEW prompt \in Prompts, NEW cached \in 0 .. Len(prompt), StartPrompt(prompt, cached)
  PROVE  Exact'
<1> DEFINE n == IF cached = Len(prompt) THEN cached - 1 ELSE cached
           v == [l \in Layers |-> [p \in Positions |->
                  IF p < cached THEN KvRows(prompt, l)[p] ELSE mem.kv[l][p]]]
<1>1. prompt \in Seq(Tokens) /\ prompt # <<>>
  BY DeviceAssumption
<1>2. n \in Nat /\ n <= cached /\ cached <= Len(prompt) /\ Len(prompt) \in Nat /\ n <= Len(prompt)
  <2>1. Len(prompt) \in Nat /\ Len(prompt) > 0
    BY <1>1
  <2> QED
    BY <2>1
<1>3. /\ text' = SubSeq(prompt, 1, n) /\ result' = "none" /\ call' = <<>> /\ Len(prompt) <= NCtx
      /\ mem' = [mem EXCEPT !.kv = v]
      /\ UNCHANGED <<encoded, indices>>
  BY DEF StartPrompt, idle
<1>4. /\ v = [l \in Layers |-> v[l]]
      /\ \A l \in Layers : v[l] = [p \in Positions |-> v[l][p]]
      /\ \A l \in Layers : \A p \in Positions : p < cached => v[l][p] = KvRows(prompt, l)[p]
  OBVIOUS
<1> HIDE DEF n, v
<1>5. IsMem(mem)
  BY DEF Exact, Shaped
<1>6. IsMem(mem') /\ mem'.kv = v
  <2> DEFINE e == [mem EXCEPT !.kv = v]
  <2>1. "kv" \in Fields /\ "gate" \in Fields /\ "attn_out" \in Fields /\ mem = [x \in Fields |-> mem[x]]
    BY <1>5 DEF IsMem, Fields
  <2>2. e = [x \in Fields |-> e[x]] /\ e.kv = v /\ e.gate = mem.gate /\ e.attn_out = mem.attn_out
    BY <2>1
  <2> HIDE DEF e
  <2>3. IsMem(e)
    BY <1>4, <1>5, <2>2 DEF IsMem
  <2> QED
    BY <1>3, <2>2, <2>3 DEF e
<1>7. Len(text') = n /\ \A i \in 1 .. n : text'[i] = prompt[i]
  BY <1>1, <1>2, <1>3
<1>8. Kept(text, Len(text), mem)'
  <2> SUFFICES ASSUME NEW l \in Layers, NEW q \in 0 .. n - 1
               PROVE  mem'.kv[l][q] = KvRow(l, q, LayerIn(text')[l][q])
    BY <1>7 DEF Kept
  <2>1. l \in Nat /\ q \in Positions /\ q < cached /\ q \in 0 .. Len(prompt) - 1
    BY <1>2, <1>3, LayersNumber DEF Layers, Positions
  <2>2. mem'.kv[l][q] = KvRows(prompt, l)[q]
    BY <1>4, <1>6, <2>1
  <2>3. KvRows(prompt, l)[q] = KvRow(l, q, LayerIn(prompt)[l][q])
    BY <2>1, KvRowsAre
  <2>4. LayerIn(prompt)[l][q] = LayerIn(text')[l][q]
    <3> DEFINE s == text'
    <3>1. Len(s) \in Nat /\ n <= Len(s) /\ \A i \in 1 .. n : s[i] = prompt[i]
      BY <1>2, <1>7
    <3> HIDE DEF s
    <3>2. \A j \in Nat : \A p \in 0 .. n - 1 : LayerIn(s)[j][p] = LayerIn(prompt)[j][p]
      BY <1>2, <3>1, EarlierTokens
    <3> QED
      BY <2>1, <3>2 DEF s
  <2> QED
    BY <2>2, <2>3, <2>4, Zenon
<1>9. Shaped'
  BY <1>3, <1>6 DEF Exact, Shaped
<1> QED
  BY <1>3, <1>8, <1>9 DEF Exact, LogitsFollow, PassFollows, idle

-----------------------------------------------------------------------------
(* The commands of the host. *)

(* The embeddings come first, with no batch open. *)
LEMMA EmbedExact ==
  ASSUME Inv, Exact, Embed
  PROVE  Exact'
<1>1. /\ ~idle /\ command.do = "embed" /\ pc' = pc + 1
      /\ UNCHANGED <<env, batch, encoded, indices, logits, text, call, chunked, wanted, result>>
  BY DEF Embed, Running
<1>2. PICK r : /\ Through(text, call, Program, r) /\ Now(r[pc - 1], mem, indices, encoded)
               /\ Safe(text, call, r[pc - 1])
               /\ Step(text, call, r[pc - 1], command, r[pc], pc)
  BY <1>1, PassIs
<1>3. pc = 1 /\ r[pc] = After(call, r[pc - 1], command) /\ Safe(text, call, r[pc])
  BY <1>1, <1>2, Zenon DEF Step
<1>4. encoded = <<>>
  <2>1. PICK o : o[0] = FALSE /\ batch = o[pc - 1]
    BY <1>1, NextCommand, Zenon
  <2>2. pc - 1 = 0
    BY <1>3
  <2>3. ~batch
    BY <2>1, <2>2, Zenon
  <2> QED
    BY <2>3 DEF Inv, NothingLeft
<1>5. r[pc - 1].mem = mem /\ r[pc - 1].idx = indices
  BY <1>2, <1>4, NowNothing, Zenon
<1>6. r[pc] = Embedding(call, r[pc - 1], command)
  BY <1>1, <1>3, Zenon DEF After
<1>7. mem' = r[pc].mem /\ indices' = r[pc].idx /\ encoded' = <<>>
  <2>1. r[pc].mem = [mem EXCEPT !.hidden = [t \in Rows |-> IF t \in command.rows THEN Emb(call[t + 1]) ELSE @[t]]]
        /\ r[pc].idx = indices
    BY <1>5, <1>6 DEF Embedding
  <2>2. mem' = [mem EXCEPT !.hidden = [t \in Rows |-> IF t \in command.rows THEN Emb(call[t + 1]) ELSE @[t]]]
    BY DEF Embed
  <2> QED
    BY <1>1, <1>4, <2>1, <2>2
<1> QED
  BY <1>1, <1>2, <1>3, <1>7, ExactHostStep

(* A batch begins when nothing is encoded (HostWaits). *)
LEMMA BeginExact ==
  ASSUME Inv, Exact, BeginBatch
  PROVE  Exact'
<1>1. /\ ~idle /\ command.do = "begin" /\ pc' = pc + 1 /\ encoded' = <<>>
      /\ UNCHANGED <<env, mem, indices, logits, text, call, chunked, wanted, result>>
  BY DEF BeginBatch, Running
<1>2. PICK r : /\ Through(text, call, Program, r) /\ Now(r[pc - 1], mem, indices, encoded)
               /\ Safe(text, call, r[pc - 1])
               /\ Step(text, call, r[pc - 1], command, r[pc], pc)
  BY <1>1, PassIs
<1>3. r[pc] = After(call, r[pc - 1], command) /\ Safe(text, call, r[pc])
  BY <1>2, Zenon DEF Step
<1>4. encoded = <<>>
  BY <1>1, HostWaits DEF HostWaitsForBatch
<1>5. r[pc - 1].mem = mem /\ r[pc - 1].idx = indices
  BY <1>2, <1>4, NowNothing, Zenon
<1>6. r[pc] = Beginning(r[pc - 1])
  BY <1>1, <1>3, Zenon DEF After
<1>7. mem' = r[pc].mem /\ indices' = r[pc].idx
  BY <1>1, <1>5, <1>6 DEF Beginning
<1> QED
  BY <1>1, <1>2, <1>3, <1>7, ExactHostStep

(* The choices are read when nothing is encoded (HostWaits). *)
LEMMA ReadExact ==
  ASSUME Inv, Exact, ReadChoice
  PROVE  Exact'
<1>1. /\ ~idle /\ command.do \in {"read", "choose"} /\ pc' = pc + 1
      /\ UNCHANGED <<env, mem, encoded, logits, text, call, chunked, wanted, result>>
  BY DEF ReadChoice
<1>2. PICK r : /\ Through(text, call, Program, r) /\ Now(r[pc - 1], mem, indices, encoded)
               /\ Safe(text, call, r[pc - 1])
               /\ Step(text, call, r[pc - 1], command, r[pc], pc)
  BY <1>1, PassIs
<1>3. r[pc] = After(call, r[pc - 1], command) /\ Safe(text, call, r[pc])
  BY <1>2, Zenon DEF Step
<1>4. encoded = <<>>
  BY <1>1, HostWaits DEF HostWaitsForBatch
<1>5. r[pc - 1].mem = mem /\ r[pc - 1].idx = indices
  BY <1>2, <1>4, NowNothing, Zenon
<1>6. r[pc] = Reading(r[pc - 1], command)
  BY <1>1, <1>3, Zenon DEF After
<1>7. indices' = ChoicesOf(mem, indices, command)
  BY DEF ReadChoice, ChoicesOf
<1>8. r[pc].mem = r[pc - 1].mem /\ r[pc].idx = ChoicesOf(r[pc - 1].mem, r[pc - 1].idx, command)
  BY <1>6 DEF Reading
<1>9. mem' = r[pc].mem /\ indices' = r[pc].idx /\ encoded' = <<>>
  BY <1>1, <1>4, <1>5, <1>7, <1>8
<1> QED
  BY <1>1, <1>2, <1>3, <1>9, ExactHostStep

(* All that is encoded runs. *)
LEMMA EndsExact ==
  ASSUME Inv, Exact, Ends
  PROVE  Exact'
<1>1. /\ ~idle /\ command.do = "end" /\ pc' = pc + 1 /\ EndBatch(Dispatched(0))
      /\ UNCHANGED <<env, indices, logits, text, call, chunked, wanted, result>>
  BY DEF Ends, Running
<1>2. PICK r : /\ Through(text, call, Program, r) /\ Now(r[pc - 1], mem, indices, encoded)
               /\ Safe(text, call, r[pc - 1])
               /\ Step(text, call, r[pc - 1], command, r[pc], pc)
  BY <1>1, PassIs
<1>3. r[pc] = After(call, r[pc - 1], command) /\ Safe(text, call, r[pc])
  BY <1>2, Zenon DEF Step
<1>4. r[pc] = r[pc - 1]
  BY <1>1, <1>3, Zenon DEF After
<1>5. pc \in 1 .. Len(Program) /\ Len(Program) \in Nat
  BY <1>1, NextCommand, ProgramPasses DEF Inv
<1>6. mem' = r[pc - 1 + 0].mem /\ encoded' = <<>>
  <2>1. 0 \in Nat /\ pc - 1 + 0 <= Len(Program) /\ \A i \in 0 .. 0 - 1 : Program[pc + i].do = "dispatch"
    BY <1>5
  <2> QED
    BY <1>1, <1>2, <2>1, EndedIs
<1>7. pc - 1 + 0 = pc - 1
  BY <1>5
<1>8. r[pc - 1].idx = indices
  BY <1>2 DEF Now
<1>9. mem' = r[pc].mem /\ indices' = r[pc].idx
  BY <1>1, <1>4, <1>6, <1>7, <1>8
<1> QED
  BY <1>1, <1>2, <1>3, <1>6, <1>9, ExactHostStep

(* Kernels are encoded in the batch that is open, or run. *)
LEMMA DispatchExact ==
  ASSUME Inv, Exact, Dispatch
  PROVE  Exact'
<1> DEFINE n == Ahead
           d == Dispatched(n)
           cs == [i \in 1 .. n |-> Bound(Program[pc + i - 1])]
<1>1. /\ ~idle /\ Running("dispatch") /\ mem' = d.mem /\ encoded' = d.encoded /\ pc' = pc + n
      /\ UNCHANGED <<env, batch, indices, logits, text, call, chunked, wanted, result>>
  BY DEF Dispatch, Running
<1>2. PICK r : /\ Through(text, call, Program, r) /\ Now(r[pc - 1], mem, indices, encoded)
               /\ Safe(text, call, r[pc - 1])
               /\ Step(text, call, r[pc - 1], command, r[pc], pc)
  BY <1>1, PassIs
<1>3. d = IF batch THEN [mem |-> mem, encoded |-> encoded \o cs]
          ELSE [mem |-> Ran(mem, cs), encoded |-> encoded]
  BY DEF Dispatched
<1>4. pc \in 1 .. Len(Program) /\ Len(Program) \in Nat
  BY <1>1, NextCommand, ProgramPasses DEF Inv
<1>5. n \in Nat /\ n <= Len(Program) - pc /\ \A i \in 0 .. n - 1 : Program[pc + i].do = "dispatch"
  BY <1>1, <1>4, AheadDispatches DEF AheadIsKernels
<1> HIDE DEF n
<1>6. n # 0
  <2> SUFFICES ASSUME n = 0 PROVE FALSE
    OBVIOUS
  <2>1. Program[pc + 0].do # "dispatch" /\ pc + 0 = pc
    BY <1>1, <1>4, AheadDispatches DEF AheadIsKernels, n
  <2> QED
    BY <1>1, <2>1 DEF Running, command
<1>7. \A c : c = cs => /\ IsSeq(c) /\ IsSeq(encoded \o c)
                       /\ Now(r[pc - 1 + n], mem, indices, encoded \o c)
  <2> TAKE c
  <2> HAVE c = cs
  <2>1. c = [i \in 1 .. n |-> Bound(Program[pc + i - 1])] /\ pc - 1 + n <= Len(Program)
    BY <1>4, <1>5
  <2> HIDE DEF cs, d
  <2> QED
    BY <1>1, <1>2, <1>5, <2>1, DispatchedIs
<1> HIDE DEF cs, d
<1>8. IsSeq(cs) /\ IsSeq(encoded \o cs) /\ Now(r[pc - 1 + n], mem, indices, encoded \o cs)
  BY <1>7
<1> DEFINE i == pc - 1 + n
<1>9. i \in 1 .. Len(Program) /\ i \in Int /\ pc' = i + 1
  BY <1>1, <1>4, <1>5, <1>6
<1>10. Safe(text, call, r[i])
  <2> DEFINE P == Program
  <2>1. i \in 1 .. Len(P) /\ Through(text, call, P, r)
    BY <1>2, <1>9
  <2> HIDE DEF P, i
  <2>2. Step(text, call, r[i - 1], P[i], r[i], i)
    BY <2>1, Zenon DEF Through
  <2> QED
    BY <2>2 DEF Step
<1>11. Now(r[i], mem, indices, encoded \o cs)
  BY <1>8
<1> HIDE DEF i
<1>12. Now(r[i], mem', indices', encoded') /\ IsMem(mem') /\ IsSeq(encoded') /\ Kept(text, Len(text), mem')
  <2>1. CASE batch
    <3>1. d.mem = mem /\ d.encoded = encoded \o cs
      BY <1>3, <2>1
    <3>2. mem' = mem /\ encoded' = encoded \o cs /\ indices' = indices
      BY <1>1, <3>1
    <3> QED
      BY <1>8, <1>11, <3>2 DEF Exact, Shaped
  <2>2. CASE ~batch
    <3>1. encoded = <<>>
      BY <2>2 DEF Inv, NothingLeft
    <3>2. d.mem = Ran(mem, cs) /\ d.encoded = encoded
      BY <1>3, <2>2
    <3>3. <<>> \o cs = cs
      BY <1>8, NothingBefore
    <3>4. r[i].mem = Ran(mem, cs) /\ r[i].idx = indices
      BY <1>11, <3>1, <3>3 DEF Now
    <3>5. mem' = r[i].mem /\ indices' = r[i].idx /\ encoded' = <<>>
      BY <1>1, <3>1, <3>2, <3>4
    <3>6. Now(r[i], mem', indices', <<>>)
      BY <3>5, NowIs
    <3>7. IsMem(r[i].mem) /\ Kept(text, Len(text), r[i].mem)
      BY <1>10, SafeKept
    <3> QED
      BY <3>5, <3>6, <3>7, NothingIsSeq, Zenon
  <2> QED
    BY <2>1, <2>2
<1>13. IsChoice(indices')
  BY <1>1 DEF Exact, Shaped
<1> QED
  BY <1>1, <1>2, <1>9, <1>12, <1>13, ExactGoesOn

(* The buffers with other lists. *)
LEMMA WithIs ==
  ASSUME NEW m, IsMem(m), NEW v
  PROVE  IsMem(With(m, v)) /\ With(m, v).kv = m.kv
<1> DEFINE e == With(m, v)
<1>1. m = [x \in Fields |-> m[x]]
  BY DEF IsMem
<1>2. "kv" \in Fields /\ "gate" \in Fields /\ "attn_out" \in Fields
  BY DEF Fields
<1>3. /\ e = [x \in Fields |-> e[x]] /\ e.kv = m.kv /\ e.gate = m.gate /\ e.attn_out = m.attn_out
  BY <1>1, <1>2 DEF With
<1> HIDE DEF e
<1>4. IsMem(e)
  BY <1>3, SMTT(20) DEF IsMem
<1> QED
  BY <1>3, <1>4 DEF e

(* The lists are written under kernels that have nothing to do with them.    *)
LEMMA GatherExact ==
  ASSUME Inv, Exact, Gather
  PROVE  Exact'
<1> DEFINE v == Lists(mem, indices, command)
<1>1. /\ ~idle /\ command.do = "gather" /\ pc' = pc + 1 /\ mem' = With(mem, v)
      /\ UNCHANGED <<env, batch, encoded, indices, logits, text, call, chunked, wanted, result>>
  <2>1. mem' = With(mem, v)
    <3>1. IsMem(mem)
      BY DEF Exact, Shaped
    <3>2. mem = [x \in Fields |-> mem[x]] /\ "gather" \in Fields
      BY <3>1 DEF IsMem, Fields
    <3> QED
      BY <3>2 DEF Gather, With, Lists
  <2> HIDE DEF v
  <2> QED
    BY <2>1 DEF Gather, Running
<1>2. PICK r : /\ Through(text, call, Program, r) /\ Now(r[pc - 1], mem, indices, encoded)
               /\ Safe(text, call, r[pc - 1])
               /\ Step(text, call, r[pc - 1], command, r[pc], pc)
  BY <1>1, PassIs
<1> DEFINE a == r[pc - 1]
<1>3. r[pc] = After(call, a, command) /\ ~a.used
  BY <1>1, <1>2, Zenon DEF Step
<1>4. a.mem = Ran(mem, encoded) /\ a.idx = indices /\ AllApart(encoded)
  BY <1>2, <1>3, Zenon DEF Now
<1>5. IsMem(mem) /\ IsSeq(encoded) /\ IsChoice(indices) /\ Kept(text, Len(text), mem)
  BY DEF Exact, Shaped
<1>6. r[pc] = Gathering(a, command)
  BY <1>1, <1>3, Zenon DEF After
<1> HIDE DEF a
<1>7. Ran(mem, encoded).gather = mem.gather /\ \A u : Ran(With(mem, u), encoded) = With(Ran(mem, encoded), u)
  BY <1>4, <1>5, RanApart
<1>8. Lists(a.mem, a.idx, command) = v
  BY <1>4, <1>7 DEF Lists
<1> HIDE DEF v
<1>9. r[pc].mem = Ran(With(mem, v), encoded) /\ r[pc].idx = indices
  <2>1. r[pc].mem = With(a.mem, v) /\ r[pc].idx = a.idx
    BY <1>6, <1>8 DEF Gathering
  <2> QED
    BY <1>4, <1>7, <2>1, Zenon
<1>10. Now(r[pc], mem', indices', encoded')
  <2>1. mem' = With(mem, v) /\ indices' = indices /\ encoded' = encoded
    BY <1>1
  <2> QED
    BY <1>4, <1>9, <2>1, Zenon DEF Now
<1>11. IsMem(mem') /\ mem'.kv = mem.kv
  BY <1>1, <1>5, WithIs
<1>12. Kept(text, Len(text), mem')
  BY <1>5, <1>11 DEF Kept
<1>13. pc \in Int
  BY <1>1, NextCommand
<1>14. IsChoice(indices') /\ IsSeq(encoded')
  BY <1>1, <1>5
<1> QED
  BY <1>1, <1>2, <1>10, <1>11, <1>12, <1>13, <1>14, ExactGoesOn

(* What is sampled is complete. *)
LEMMA SampleExact ==
  ASSUME Inv, Exact, Sample
  PROVE  Exact'
<1>1. /\ ~idle /\ command.do = "sample" /\ logits' = mem.logits[0] /\ text' = text \o call
      /\ call' = <<>> /\ UNCHANGED <<mem, encoded, indices>>
  BY DEF Sample, Running
<1>2. PICK r : /\ Through(text, call, Program, r) /\ Now(r[pc - 1], mem, indices, encoded)
               /\ Safe(text, call, r[pc - 1])
               /\ Step(text, call, r[pc - 1], command, r[pc], pc)
  BY <1>1, PassIs
<1>3. Complete(text, call, r[pc - 1].mem)
  BY <1>1, <1>2, Zenon DEF Step
<1>4. encoded = <<>>
  BY <1>1, HostWaits DEF HostWaitsForBatch
<1>5. r[pc - 1].mem = mem
  BY <1>2, <1>4, NowNothing, Zenon
<1>6. Complete(text, call, mem)
  BY <1>3, <1>5
<1>7. logits' = Logits(text') /\ FilledTo(text', mem'.kv, NLayer)
  <2>1. mem' = mem
    BY <1>1
  <2> QED
    BY <1>1, <1>6, <2>1 DEF Complete
<1>8. Kept(text, Len(text), mem)'
  <2> DEFINE s == text'
             m == mem'
  <2>1. FilledTo(s, m.kv, NLayer)
    BY <1>7
  <2> HIDE DEF s, m
  <2>2. \A j \in Layers : j < NLayer
    BY LayersNumber DEF Layers
  <2>3. Kept(s, Len(s), m)
    BY <2>1, <2>2 DEF FilledTo, Kept
  <2> QED
    BY <2>3 DEF s, m, Kept
<1>9. Shaped'
  BY <1>1 DEF Exact, Shaped
<1>10. LogitsFollow'
  BY <1>7 DEF LogitsFollow
<1> QED
  BY <1>1, <1>8, <1>9, <1>10 DEF Exact, PassFollows, idle

(* The kernels that were dispatched run, and the KV rows of the text stay.   *)
LEMMA FailsExact ==
  ASSUME Inv, Exact, Fails
  PROVE  Exact'
<1>1. /\ ~idle /\ result' = "failed" /\ call' = <<>> /\ UNCHANGED <<text, indices>>
  BY DEF Fails
<1>2. PICK n \in 0 .. IF Running("dispatch") THEN Ahead - 1 ELSE 0 : EndBatch(Dispatched(n))
  BY DEF Fails
<1>3. PICK r : /\ Through(text, call, Program, r) /\ Now(r[pc - 1], mem, indices, encoded)
               /\ Safe(text, call, r[pc - 1])
               /\ Step(text, call, r[pc - 1], command, r[pc], pc)
  BY <1>1, PassIs
<1>4. pc \in 1 .. Len(Program) /\ Len(Program) \in Nat
  BY <1>1, NextCommand, ProgramPasses DEF Inv
<1>5. n \in Nat /\ pc - 1 + n <= Len(Program) /\ \A i \in 0 .. n - 1 : Program[pc + i].do = "dispatch"
  <2>1. CASE Running("dispatch")
    <3>1. /\ Ahead \in 0 .. Len(Program) - pc
          /\ \A i \in 0 .. Ahead - 1 : Program[pc + i].do = "dispatch"
      BY <2>1, AheadDispatches DEF AheadIsKernels
    <3> DEFINE A == Ahead
               L == Len(Program)
    <3>2. n \in 0 .. A - 1 /\ A \in 0 .. L - pc /\ pc \in 1 .. L /\ L \in Nat
      BY <1>4, <2>1, <3>1
    <3> HIDE DEF A, L
    <3>3. n \in Nat /\ pc - 1 + n <= L /\ 0 .. n - 1 \subseteq 0 .. A - 1
      BY <3>2
    <3> QED
      BY <3>1, <3>3 DEF A, L
  <2>2. CASE ~Running("dispatch")
    <3>1. n = 0
      BY <2>2
    <3> QED
      BY <1>4, <3>1
  <2> QED
    BY <2>1, <2>2
<1>6. mem' = r[pc - 1 + n].mem /\ encoded' = <<>>
  BY <1>1, <1>2, <1>3, <1>5, EndedIs
<1> DEFINE i == pc - 1 + n
<1>7. Safe(text, call, r[i])
  <2>1. CASE n = 0
    <3>1. i = pc - 1
      BY <1>4, <2>1
    <3> HIDE DEF i
    <3> QED
      BY <1>3, <3>1
  <2>2. CASE n # 0
    <3> DEFINE P == Program
    <3>1. i \in 1 .. Len(P) /\ Through(text, call, P, r)
      BY <1>3, <1>4, <1>5, <2>2
    <3> HIDE DEF P, i
    <3>2. Step(text, call, r[i - 1], P[i], r[i], i)
      BY <3>1, Zenon DEF Through
    <3> QED
      BY <3>2 DEF Step
  <2> QED
    BY <2>1, <2>2
<1>8. mem' = r[i].mem
  BY <1>6
<1> HIDE DEF i
<1>9. IsMem(mem') /\ Kept(text, Len(text), mem')
  BY <1>7, <1>8, SafeKept
<1>10. Shaped'
  BY <1>1, <1>6, <1>9, NothingIsSeq DEF Exact, Shaped
<1>11. Kept(text, Len(text), mem)'
  <2>1. text' = text
    BY <1>1
  <2> QED
    BY <1>9, <2>1 DEF Kept, KvRow, Qkv
<1> QED
  BY <1>1, <1>10, <1>11 DEF Exact, LogitsFollow, PassFollows, idle

(* Every step keeps it. *)
LEMMA StepExact ==
  ASSUME HasShared => UseShared, Inv, Exact, [Next]_vars
  PROVE  Exact'
<1>1. ASSUME NEW prompt \in Prompts, NEW cached \in 0 .. Len(prompt), StartPrompt(prompt, cached)
      PROVE  Exact'
  BY <1>1, StartExact
<1>2. ASSUME Prefill PROVE Exact'
  <2>1. PICK m \in 1 .. Len(wanted) :
          \/ m = 1 /\ Forward(SubSeq(wanted, 1, m), FALSE)
          \/ m <= ChunkSize /\ Forward(SubSeq(wanted, 1, m), TRUE)
    BY <1>2 DEF Prefill
  <2> DEFINE toks == SubSeq(wanted, 1, m)
  <2>2. toks \in Seq(Tokens) /\ Len(toks) = m
    <3>1. wanted \in Seq(Tokens) /\ m \in Nat /\ m <= Len(wanted) /\ 1 \in Nat \ {0}
      BY DEF Inv, Typed
    <3> QED
      BY <3>1, PartIsTyped
  <2>3. Len(toks) \in 1 .. ChunkSize
    <3>1. m = 1 \/ m <= ChunkSize
      BY <2>1
    <3>2. ChunkSize \in Nat \ {0}
      BY DeviceAssumption
    <3>3. m \in 1 .. ChunkSize
      BY <3>1, <3>2
    <3> QED
      BY <2>2, <3>3
  <2>4. \/ Len(toks) = 1 /\ Forward(toks, FALSE)
        \/ Forward(toks, TRUE)
    BY <2>1, <2>2
  <2> HIDE DEF toks
  <2> QED
    BY <2>2, <2>3, <2>4, ForwardExact
<1>3. ASSUME Decode PROVE Exact'
  <2>1. PICK k \in Generated : Forward(<<k>>, FALSE)
    BY <1>3 DEF Decode
  <2>2. <<k>> \in Seq(Tokens) /\ Len(<<k>>) \in 1 .. ChunkSize /\ Len(<<k>>) = 1
    BY DeviceAssumption
  <2> QED
    BY <2>1, <2>2, ForwardExact
<1>4. CASE UNCHANGED vars
  <2>1. Shaped' /\ LogitsFollow'
    BY <1>4 DEF vars, Exact, Shaped, LogitsFollow
  <2>2. Kept(text, Len(text), mem)'
    BY <1>4, Zenon DEF vars, Exact
  <2>3. PassFollows'
    <3>1. PassFollows
      BY DEF Exact
    <3> QED
      BY <1>4, <3>1 DEF vars, PassFollows, idle, Program, seqLen
  <2> QED
    BY <2>1, <2>2, <2>3 DEF Exact
<1> QED
  BY <1>1, <1>2, <1>3, <1>4, EmbedExact, BeginExact, DispatchExact, EndsExact, ReadExact,
     GatherExact, SampleExact, FailsExact DEF Next

(* The invariant implies the property. *)
LEMMA ExactIsExact ==
  ASSUME Exact
  PROVE  ForwardIsExact
<1>1. result = "token" => logits = Logits(text)
  BY DEF Exact, LogitsFollow
<1>2. ASSUME NEW l \in Layers, NEW p \in DOMAIN KvRows(text, l)
      PROVE  mem.kv[l][p] = KvRows(text, l)[p]
  <2>1. l \in Nat
    BY LayersNumber DEF Layers
  <2>2. p \in 0 .. Len(text) - 1 /\ KvRows(text, l)[p] = KvRow(l, p, LayerIn(text)[l][p])
    BY <2>1, KvRowsAre
  <2>3. mem.kv[l][p] = KvRow(l, p, LayerIn(text)[l][p])
    BY <2>2 DEF Exact, Kept
  <2> QED
    BY <2>2, <2>3, Zenon
<1> QED
  BY <1>1, <1>2 DEF ForwardIsExact

(* Whatever the number of layers, the sizes and the vocabulary, however the  *)
(* layers are cut into batches and the prompt into chunks, and whatever      *)
(* failed before: the logits a token is sampled from are the reference's for *)
(* the text so far, and the KV cache holds the reference's rows.  A model    *)
(* with a shared expert is run with DS3_USE_SHARED_EXPERT set.               *)
THEOREM ForwardsAreExact ==
  ASSUME HasShared => UseShared
  PROVE  Spec => []ForwardIsExact
<1>1. Init => Inv /\ Exact
  BY InitHolds, InitExact
<1>2. Inv /\ Exact /\ [Next]_vars => Inv' /\ Exact'
  BY StepHolds, StepExact
<1>3. Exact => ForwardIsExact
  BY ExactIsExact
<1> QED
  BY <1>1, <1>2, <1>3, PTL DEF Spec

=============================================================================
