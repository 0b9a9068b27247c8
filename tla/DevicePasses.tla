---------------------------- MODULE DevicePasses ----------------------------
(***************************************************************************)
(* Proofs about the programs of Device: what each computes when a kernel    *)
(* runs as soon as it is dispatched.  Every schedule, for any number of     *)
(* layers and rows, leads to the reference's logits and KV rows             *)
(* (ProgramsExact), and the host writes the lists of the gathered experts   *)
(* only under kernels that have nothing to do with them.                    *)
(***************************************************************************)
EXTENDS DeviceProofs, FiniteSetTheorems

(* Induction over the numbers. *)
LEMMA ByInduction ==
  ASSUME NEW S, 0 \in S, \A n \in Nat : n \in S => n + 1 \in S
  PROVE  \A n \in Nat : n \in S
<1> DEFINE Bad == {n \in Nat : n \notin S}
<1> SUFFICES ASSUME Bad # {} PROVE FALSE
  OBVIOUS
<1>1. PICK m \in Bad : \A k \in Bad : m <= k
  <2>1. Bad \in SUBSET Nat
    OBVIOUS
  <2> HIDE DEF Bad
  <2> QED
    BY <2>1, HasLeast
<1>2. m \in Nat /\ m \notin S /\ m # 0
  OBVIOUS
<1>3. m - 1 \in Nat /\ ~(m <= m - 1) /\ m - 1 + 1 = m
  BY <1>2
<1>4. m - 1 \notin Bad
  <2> HIDE DEF Bad
  <2> QED
    BY <1>1, <1>3
<1> QED
  BY <1>2, <1>3, <1>4

-----------------------------------------------------------------------------
(* Kernels that run one after the other. *)

IsSeq(s) == \E S : s \in Seq(S)

(* f has the buffers after each of the first n of cs. *)
Follows(m, cs, n, f) ==
  /\ f = [i \in 0 .. n |-> f[i]]
  /\ f[0] = m /\ \A i \in 1 .. n : f[i] = Effect(f[i - 1], cs[i])

(* The effects lead to one sequence of states only. *)
LEMMA FollowsOnce ==
  ASSUME NEW m, NEW cs, NEW n \in Nat, NEW f, NEW g, Follows(m, cs, n, f), Follows(m, cs, n, g)
  PROVE  \A i \in 0 .. n : f[i] = g[i]
<1> DEFINE S == {i \in Nat : i <= n => f[i] = g[i]}
<1>1. 0 \in S
  BY DEF Follows
<1>2. ASSUME NEW i \in Nat, i \in S PROVE i + 1 \in S
  <2> SUFFICES ASSUME i + 1 <= n PROVE f[i + 1] = g[i + 1]
    OBVIOUS
  <2>1. i <= n /\ i + 1 \in 1 .. n /\ (i + 1) - 1 = i
    OBVIOUS
  <2>2. f[i] = g[i]
    BY <1>2, <2>1
  <2> QED
    BY <2>1, <2>2 DEF Follows
<1>3. \A i \in Nat : i \in S
  <2> HIDE DEF S
  <2> QED
    BY <1>1, <1>2, ByInduction
<1> QED
  BY <1>3

(* One more kernel runs. *)
LEMMA FollowsMore ==
  ASSUME NEW m, NEW cs, NEW n \in Nat, NEW f, Follows(m, cs, n, f)
  PROVE  \E g : /\ Follows(m, cs, n + 1, g)
                /\ g[n + 1] = Effect(f[n], cs[n + 1]) /\ \A i \in 0 .. n : g[i] = f[i]
<1> DEFINE g == [i \in 0 .. n + 1 |-> IF i = n + 1 THEN Effect(f[n], cs[n + 1]) ELSE f[i]]
<1>1. \A i \in 0 .. n : g[i] = f[i]
  OBVIOUS
<1>2. g[n + 1] = Effect(f[n], cs[n + 1]) /\ g = [i \in 0 .. n + 1 |-> g[i]]
  OBVIOUS
<1> HIDE DEF g
<1>3. g[0] = m
  BY <1>1 DEF Follows
<1>4. ASSUME NEW i \in 1 .. n + 1 PROVE g[i] = Effect(g[i - 1], cs[i])
  <2>1. CASE i = n + 1
    <3>1. i - 1 = n /\ n \in 0 .. n
      BY <2>1
    <3> QED
      BY <1>1, <1>2, <2>1, <3>1
  <2>2. CASE i # n + 1
    <3>1. i \in 1 .. n /\ i \in 0 .. n /\ i - 1 \in 0 .. n
      BY <2>2
    <3> QED
      BY <1>1, <3>1 DEF Follows
  <2> QED
    BY <2>1, <2>2
<1> QED
  BY <1>1, <1>2, <1>3, <1>4 DEF Follows

(* Any number of kernels can run. *)
LEMMA FollowingExists ==
  ASSUME NEW m, NEW cs
  PROVE  \A n \in Nat : \E f : Follows(m, cs, n, f)
<1> DEFINE S == {n \in Nat : \E f : Follows(m, cs, n, f)}
<1>1. 0 \in S
  <2> DEFINE f == [i \in 0 .. 0 |-> m]
  <2>1. Follows(m, cs, 0, f)
    BY DEF Follows
  <2> QED
    BY <2>1
<1>2. ASSUME NEW n \in Nat, n \in S PROVE n + 1 \in S
  <2>1. PICK f : Follows(m, cs, n, f)
    BY <1>2
  <2>2. \E g : Follows(m, cs, n + 1, g)
    BY <2>1, FollowsMore
  <2> QED
    BY <2>2
<1>3. \A n \in Nat : n \in S
  <2> HIDE DEF S
  <2> QED
    BY <1>1, <1>2, ByInduction
<1> QED
  BY <1>3

(* What has run is what the effects lead to. *)
LEMMA RanIs ==
  ASSUME NEW m, NEW cs, Len(cs) \in Nat, NEW f, Follows(m, cs, Len(cs), f)
  PROVE  Ran(m, cs) = f[Len(cs)]
<1> DEFINE n == Len(cs)
           Eq(g) == g = [i \in 0 .. n |-> IF i = 0 THEN m ELSE Effect(g[i - 1], cs[i])]
           after == CHOOSE g : Eq(g)
<1>1. Eq(f)
  <2>1. f = [i \in 0 .. n |-> f[i]]
    BY DEF Follows
  <2>2. \A i \in 0 .. n : f[i] = IF i = 0 THEN m ELSE Effect(f[i - 1], cs[i])
    BY DEF Follows
  <2> HIDE DEF n
  <2> QED
    BY <2>1, <2>2
<1>2. Eq(after)
  <2> HIDE DEF Eq
  <2> QED
    BY <1>1
<1>3. Ran(m, cs) = after[n]
  BY DEF Ran
<1> HIDE DEF after
<1>4. Follows(m, cs, n, after)
  <2> HIDE DEF n
  <2>1. n \in Nat
    BY DEF n
  <2>2. after = [i \in 0 .. n |-> IF i = 0 THEN m ELSE Effect(after[i - 1], cs[i])]
    BY <1>2
  <2>3. \A i \in 0 .. n : after[i] = IF i = 0 THEN m ELSE Effect(after[i - 1], cs[i])
    BY <2>2
  <2>4. after = [i \in 0 .. n |-> after[i]]
    BY <2>2
  <2>5. 0 \in 0 .. n /\ \A i \in 1 .. n : i \in 0 .. n /\ i # 0
    BY <2>1
  <2>6. after[0] = m
    BY <2>3, <2>5
  <2>7. \A i \in 1 .. n : after[i] = Effect(after[i - 1], cs[i])
    BY <2>3, <2>5
  <2> QED
    BY <2>4, <2>6, <2>7 DEF Follows
<1>5. n \in 0 .. n
  OBVIOUS
<1> QED
  BY <1>3, <1>4, <1>5, FollowsOnce

(* No kernel runs. *)
LEMMA RanNone ==
  ASSUME NEW m
  PROVE  Ran(m, <<>>) = m
<1> DEFINE f == [i \in 0 .. 0 |-> m]
<1>1. Len(<<>>) = 0 /\ f[0] = m
  OBVIOUS
<1>2. Follows(m, <<>>, 0, f)
  BY DEF Follows
<1> HIDE DEF f
<1> QED
  BY <1>1, <1>2, RanIs

(* Length and elements of a concatenation. *)
LEMMA SeqOn ==
  ASSUME NEW s, NEW t, IsSeq(s), IsSeq(t)
  PROVE  /\ IsSeq(s \o t)
         /\ Len(s \o t) = Len(s) + Len(t) /\ Len(s) \in Nat /\ Len(t) \in Nat
         /\ \A i \in 1 .. Len(s) : (s \o t)[i] = s[i]
         /\ \A i \in 1 .. Len(t) : (s \o t)[Len(s) + i] = t[i]
<1>1. PICK S : s \in Seq(S)
  BY DEF IsSeq
<1>2. PICK T : t \in Seq(T)
  BY DEF IsSeq
<1>3. s \in Seq(S \cup T) /\ t \in Seq(S \cup T)
  BY <1>1, <1>2
<1>4. s \o t \in Seq(S \cup T)
  BY <1>3
<1>5. IsSeq(s \o t)
  BY <1>4 DEF IsSeq
<1> QED
  BY <1>3, <1>5, ConcatIs

(* Kernels run after others as though each part were a command buffer. *)
LEMMA RanOn ==
  ASSUME NEW m, NEW s, NEW t, IsSeq(s), IsSeq(t)
  PROVE  Ran(m, s \o t) = Ran(Ran(m, s), t)
<1> DEFINE n == Len(s)
           k == Len(t)
           u == s \o t
<1>4. /\ Len(u) = n + k /\ n \in Nat /\ k \in Nat
      /\ \A i \in 1 .. n : u[i] = s[i]
      /\ \A i \in 1 .. k : u[n + i] = t[i]
  BY SeqOn
<1> HIDE DEF n, k, u
<1>5. PICK f : Follows(m, s, n, f)
  BY <1>4, FollowingExists
<1>6. PICK g : Follows(f[n], t, k, g)
  BY <1>4, FollowingExists
<1> DEFINE h == [i \in 0 .. n + k |-> IF i <= n THEN f[i] ELSE g[i - n]]
<1>7. /\ h = [i \in 0 .. n + k |-> h[i]]
      /\ \A i \in 0 .. n + k : (i <= n => h[i] = f[i]) /\ (~(i <= n) => h[i] = g[i - n])
  BY <1>4
<1> HIDE DEF h
<1>8. \A i \in 0 .. k : h[n + i] = g[i]
  <2> TAKE i \in 0 .. k
  <2>1. CASE i = 0
    <3>1. n + i = n /\ n \in 0 .. n + k /\ n <= n
      BY <1>4, <2>1
    <3> QED
      BY <1>6, <1>7, <2>1, <3>1 DEF Follows
  <2>2. CASE i # 0
    <3>1. n + i \in 0 .. n + k /\ ~(n + i <= n) /\ (n + i) - n = i
      BY <1>4, <2>2
    <3> QED
      BY <1>7, <3>1
  <2> QED
    BY <2>1, <2>2
<1>9. Follows(m, u, n + k, h)
  <2>1. h[0] = m
    <3>1. 0 \in 0 .. n + k /\ 0 <= n
      BY <1>4
    <3> QED
      BY <1>5, <1>7, <3>1 DEF Follows
  <2>2. ASSUME NEW i \in 1 .. n + k PROVE h[i] = Effect(h[i - 1], u[i])
    <3>1. CASE i <= n
      <4>1. i \in 1 .. n /\ i \in 0 .. n + k /\ i - 1 \in 0 .. n + k /\ i - 1 <= n
        BY <1>4, <3>1
      <4> QED
        BY <1>4, <1>5, <1>7, <3>1, <4>1 DEF Follows
    <3>2. CASE ~(i <= n)
      <4> DEFINE j == i - n
      <4>1. j \in 1 .. k /\ j \in 0 .. k /\ j - 1 \in 0 .. k /\ n + j = i /\ n + (j - 1) = i - 1
        BY <1>4, <3>2
      <4>2. h[i] = g[j] /\ h[i - 1] = g[j - 1]
        <5> HIDE DEF j
        <5> QED
          BY <1>8, <4>1
      <4>3. u[i] = t[j]
        <5> HIDE DEF j
        <5> QED
          BY <1>4, <4>1
      <4>4. g[j] = Effect(g[j - 1], t[j])
        <5> HIDE DEF j
        <5> QED
          BY <1>6, <4>1 DEF Follows
      <4> QED
        BY <4>2, <4>3, <4>4
    <3> QED
      BY <3>1, <3>2
  <2> QED
    BY <1>7, <2>1, <2>2 DEF Follows
<1>10. Ran(m, s) = f[n] /\ Ran(f[n], t) = g[k]
  BY <1>4, <1>5, <1>6, RanIs DEF n, k
<1>11. Ran(m, u) = h[n + k]
  <2>1. Len(u) \in Nat /\ Follows(m, u, Len(u), h)
    BY <1>4, <1>9
  <2>2. Ran(m, u) = h[Len(u)]
    BY <2>1, RanIs, Zenon
  <2> QED
    BY <1>4, <2>2
<1>12. h[n + k] = g[k]
  <2>1. k \in 0 .. k
    BY <1>4
  <2> QED
    BY <1>8, <2>1
<1> QED
  BY <1>10, <1>11, <1>12 DEF u

-----------------------------------------------------------------------------
(* A pass as it would be if a kernel ran as soon as it is dispatched.  Its   *)
(* states are the buffers, the host's copy of the choices, and whether a     *)
(* kernel of the batch may have to do with the lists of the gathered experts, *)
(* which the host writes in the middle of a batch.                           *)

Fields == {"hidden", "residual", "norm", "qkv", "attn_out", "ffn_out", "gather", "logits",
           "gate", "choice", "kv"}
IsMem(m) ==
  /\ m = [x \in Fields |-> m[x]]
  /\ m.attn_out = [t \in Rows |-> m.attn_out[t]]
  /\ m.gate = [x \in Cells |-> m.gate[x]]
  /\ m.kv = [l \in Layers |-> m.kv[l]]
  /\ \A l \in Layers : m.kv[l] = [q \in Positions |-> m.kv[l][q]]
IsChoice(idx) ==
  /\ idx = [l \in Layers |-> idx[l]]
  /\ \A l \in Layers : idx[l] = [t \in Rows |-> idx[l][t]]

With(m, v) == [m EXCEPT !.gather = v]
Apart(c) == \A m, v : IsMem(m) =>
  /\ IsMem(Effect(m, c)) /\ Effect(m, c).gather = m.gather
  /\ Effect(With(m, v), c) = With(Effect(m, c), v)

BoundTo(idx, c) == IF c.f = "experts" THEN [c EXCEPT !.choice = idx[c.l]] ELSE c
Dispatching(a, c) ==
  [mem |-> Effect(a.mem, c), idx |-> a.idx, used |-> a.used \/ ~Apart(c)]
Embedding(k, a, c) ==
  [mem |-> [a.mem EXCEPT !.hidden = [t \in Rows |-> IF t \in c.rows THEN Emb(k[t + 1]) ELSE @[t]]],
   idx |-> a.idx, used |-> a.used]
Lists(m, idx, c) == [t \in Rows |-> IF t \in c.rows THEN idx[c.l][t] ELSE m.gather[t]]
Gathering(a, c) ==
  [mem |-> With(a.mem, Lists(a.mem, a.idx, c)), idx |-> a.idx, used |-> a.used]
ChoicesOf(m, idx, c) ==
  LET M == Cardinality(c.rows) IN
  [idx EXCEPT ![c.l] = [t \in Rows |->
     IF t \notin c.rows THEN @[t]
     ELSE IF c.do = "read" THEN m.choice[c.l * M + t] ELSE Chosen(m.gate[0])]]
Reading(a, c) == [mem |-> a.mem, idx |-> ChoicesOf(a.mem, a.idx, c), used |-> a.used]
Beginning(a) == [mem |-> a.mem, idx |-> a.idx, used |-> FALSE]

After(k, a, c) ==
  CASE c.do = "dispatch" -> Dispatching(a, BoundTo(a.idx, c))
    [] c.do = "embed" -> Embedding(k, a, c)
    [] c.do = "gather" -> Gathering(a, c)
    [] c.do \in {"read", "choose"} -> Reading(a, c)
    [] c.do = "begin" -> Beginning(a)
    [] OTHER -> a

(* The rows of the KV cache at the first n positions are those of toks.      *)
Kept(toks, n, m) ==
  \A l \in Layers : \A q \in 0 .. n - 1 : m.kv[l][q] = KvRow(l, q, LayerIn(toks)[l][q])

(* A state in the pass for the tokens k after the text s.                    *)
Safe(s, k, a) ==
  /\ a = [mem |-> a.mem, idx |-> a.idx, used |-> a.used]
  /\ IsMem(a.mem) /\ IsChoice(a.idx) /\ a.used \in BOOLEAN
  /\ Kept(s \o k, Len(s), a.mem)

(* The KV rows of the layers before l, at all positions. *)
FilledTo(toks, kv, l) ==
  \A j \in Layers : j < l =>
    \A q \in 0 .. Len(toks) - 1 : kv[j][q] = KvRow(j, q, LayerIn(toks)[j][q])

(* The logits and the KV rows are the reference's.                           *)
Complete(s, k, m) == m.logits[0] = Logits(s \o k) /\ FilledTo(s \o k, m.kv, NLayer)

(* One command after the embedding: lists are not written under kernels that *)
(* use them, and what is sampled is complete.                                *)
Goes(s, k, a, c, b) ==
  /\ b = After(k, a, c) /\ Safe(s, k, b)
  /\ c.do # "embed" /\ (c.do = "gather" => ~a.used)
  /\ c.do = "sample" => Complete(s, k, a.mem)

Runs(s, k, cs, r) ==
  /\ r = [i \in 0 .. Len(cs) |-> r[i]]
  /\ \A i \in 1 .. Len(cs) : Goes(s, k, r[i - 1], cs[i], r[i])
Takes(s, k, a, cs, b) ==
  IsSeq(cs) /\ \E r : Runs(s, k, cs, r) /\ r[0] = a /\ r[Len(cs)] = b

(* No commands, one command, commands after commands. *)
LEMMA TakesNone ==
  ASSUME NEW s, NEW k, NEW a
  PROVE  Takes(s, k, a, <<>>, a)
<1> DEFINE r == [i \in 0 .. 0 |-> a]
<1>1. Len(<<>>) = 0 /\ r[0] = a /\ r = [i \in 0 .. 0 |-> r[i]]
  OBVIOUS
<1> HIDE DEF r
<1>2. Runs(s, k, <<>>, r)
  BY <1>1 DEF Runs
<1>3. <<>> \in Seq({})
  OBVIOUS
<1> QED
  BY <1>1, <1>2, <1>3 DEF Takes, IsSeq

LEMMA TakesOne ==
  ASSUME NEW s, NEW k, NEW a, NEW c, NEW b, Goes(s, k, a, c, b)
  PROVE  Takes(s, k, a, <<c>>, b)
<1> DEFINE r == [i \in 0 .. 1 |-> IF i = 0 THEN a ELSE b]
<1>1. Len(<<c>>) = 1 /\ r[0] = a /\ r[1] = b /\ r = [i \in 0 .. 1 |-> r[i]] /\ <<c>>[1] = c
  OBVIOUS
<1> HIDE DEF r
<1>2. \A i \in 1 .. 1 : i = 1 /\ i - 1 = 0
  OBVIOUS
<1>3. Runs(s, k, <<c>>, r)
  BY <1>1, <1>2 DEF Runs
<1>4. <<c>> \in Seq({c})
  OBVIOUS
<1> QED
  BY <1>1, <1>3, <1>4 DEF Takes, IsSeq

LEMMA TakesOn ==
  ASSUME NEW s, NEW k, NEW a, NEW b, NEW d, NEW cs, NEW ds,
         Takes(s, k, a, cs, b), Takes(s, k, b, ds, d)
  PROVE  Takes(s, k, a, cs \o ds, d)
<1> DEFINE n == Len(cs)
           m == Len(ds)
           u == cs \o ds
<1>1. PICK f : Runs(s, k, cs, f) /\ f[0] = a /\ f[n] = b
  BY DEF Takes
<1>2. PICK g : Runs(s, k, ds, g) /\ g[0] = b /\ g[m] = d
  BY DEF Takes
<1>3. IsSeq(cs) /\ IsSeq(ds)
  BY DEF Takes
<1>4. /\ IsSeq(u) /\ Len(u) = n + m /\ n \in Nat /\ m \in Nat
      /\ \A i \in 1 .. n : u[i] = cs[i]
      /\ \A i \in 1 .. m : u[n + i] = ds[i]
  BY <1>3, SeqOn
<1>a. /\ \A i \in 1 .. n : Goes(s, k, f[i - 1], cs[i], f[i])
      /\ \A i \in 1 .. m : Goes(s, k, g[i - 1], ds[i], g[i])
  BY <1>1, <1>2 DEF Runs
<1> HIDE DEF n, m, u
<1> DEFINE h == [i \in 0 .. n + m |-> IF i <= n THEN f[i] ELSE g[i - n]]
<1>7. /\ h = [i \in 0 .. n + m |-> h[i]]
      /\ \A i \in 0 .. n + m : (i <= n => h[i] = f[i]) /\ (~(i <= n) => h[i] = g[i - n])
  BY <1>4
<1> HIDE DEF h
<1>8. \A i \in 0 .. m : h[n + i] = g[i]
  <2> TAKE i \in 0 .. m
  <2>1. CASE i = 0
    <3>1. n + i = n /\ n \in 0 .. n + m /\ n <= n
      BY <1>4, <2>1
    <3> QED
      BY <1>1, <1>2, <1>7, <2>1, <3>1
  <2>2. CASE i # 0
    <3>1. n + i \in 0 .. n + m /\ ~(n + i <= n) /\ (n + i) - n = i
      BY <1>4, <2>2
    <3> QED
      BY <1>7, <3>1
  <2> QED
    BY <2>1, <2>2
<1>9. ASSUME NEW i \in 1 .. n + m PROVE Goes(s, k, h[i - 1], u[i], h[i])
  <2>1. CASE i <= n
    <3>1. i \in 1 .. n /\ i \in 0 .. n + m /\ i - 1 \in 0 .. n + m /\ i - 1 <= n
      BY <1>4, <2>1
    <3> QED
      BY <1>4, <1>7, <1>a, <2>1, <3>1
  <2>2. CASE ~(i <= n)
    <3> DEFINE j == i - n
    <3>1. j \in 1 .. m /\ j \in 0 .. m /\ j - 1 \in 0 .. m /\ n + j = i /\ n + (j - 1) = i - 1
      BY <1>4, <2>2
    <3> HIDE DEF j
    <3>2. h[i] = g[j] /\ h[i - 1] = g[j - 1]
      BY <1>8, <3>1
    <3>3. u[i] = ds[j]
      BY <1>4, <3>1
    <3> QED
      BY <1>a, <3>1, <3>2, <3>3
  <2> QED
    BY <2>1, <2>2
<1>10. h[0] = a /\ h[n + m] = d
  <2>1. 0 \in 0 .. n + m /\ 0 <= n /\ m \in 0 .. m
    BY <1>4
  <2> QED
    BY <1>1, <1>2, <1>7, <1>8, <2>1
<1>11. Runs(s, k, u, h)
  BY <1>4, <1>7, <1>9 DEF Runs
<1> QED
  BY <1>4, <1>10, <1>11 DEF Takes, u

-----------------------------------------------------------------------------
(* What each kernel does to the buffers. *)

(* The other buffers stay. *)
Same(e, m, xs) == \A x \in Fields \ xs : e[x] = m[x]

(* What a command does to the buffers m: they are e then. *)
KernelDone(m, e, c) ==
  /\ Same(e, m, {c.to})
  /\ \A t \in Rows \cap c.rows : e[c.to][t] = Value(m, c, t)
AttendDone(m, e, l, t, p) ==
  LET row == <<"rope", p, m.qkv[t]>>
      kv  == [m.kv[l] EXCEPT ![p] = row]
  IN  /\ Same(e, m, {"kv", "attn_out"})
      /\ e.kv = [m.kv EXCEPT ![l] = kv]
      /\ e.attn_out = [m.attn_out EXCEPT ![t] = <<"attention", l, row, [i \in 1 .. p + 1 |-> kv[i - 1]]>>]
RouterDone(m, e, l, x, t) ==
  /\ Same(e, m, {"gate"})
  /\ e.gate = [m.gate EXCEPT ![x] = <<"router", l, m.norm[t]>>]
TopKDone(m, e, l, M) ==
  /\ Same(e, m, {"choice"})
  /\ \A y \in Cells : y - l * M \in 0 .. M - 1 => e.choice[y] = Chosen(m.gate[y])

(* A kernel writes the rows it names of its buffer and nothing else. *)
LEMMA KernelEffect ==
  ASSUME NEW m, IsMem(m), NEW c, c.f \in Functions, c.to \in Buffers
  PROVE  IsMem(Effect(m, c)) /\ KernelDone(m, Effect(m, c), c)
<1> DEFINE v == [t \in Rows |-> IF t \in c.rows THEN Value(m, c, t) ELSE m[c.to][t]]
<1>1. Effect(m, c) = [m EXCEPT ![c.to] = v]
  <2>1. c.f # "attention" /\ c.f # "router" /\ c.f # "top_k"
    BY DEF Functions
  <2>2. Effect(m, c) = [m EXCEPT ![c.to] = [t \in Rows |-> IF t \in c.rows THEN Value(m, c, t) ELSE @[t]]]
    BY <2>1, Zenon DEF Effect
  <2> QED
    BY <2>2
<1>2. \A t \in Rows : v[t] = IF t \in c.rows THEN Value(m, c, t) ELSE m[c.to][t]
  OBVIOUS
<1>3. v = [t \in Rows |-> v[t]]
  OBVIOUS
<1> HIDE DEF v
<1> DEFINE e == [m EXCEPT ![c.to] = v]
<1>4. e = [x \in Fields |-> e[x]] /\ e[c.to] = v /\ Same(e, m, {c.to})
  BY DEF IsMem, Fields, Buffers, Same
<1>5. c.to # "gate" /\ c.to # "kv" /\ "gate" \in Fields /\ "kv" \in Fields /\ "attn_out" \in Fields
  BY DEF Buffers, Fields
<1> HIDE DEF e
<1>6. e.gate = m.gate /\ e.kv = m.kv /\ (e.attn_out = m.attn_out \/ e.attn_out = v)
  BY <1>4, <1>5 DEF Same
<1>7. IsMem(e)
  BY <1>3, <1>4, <1>6 DEF IsMem
<1>8. \A t \in Rows \cap c.rows : e[c.to][t] = Value(m, c, t)
  BY <1>2, <1>4
<1> QED
  BY <1>1, <1>4, <1>7, <1>8 DEF e, KernelDone

(* An attention writes one KV row and one row of attn_out. *)
LEMMA AttendEffect ==
  ASSUME NEW m, IsMem(m), NEW l \in Layers, NEW t \in Rows, NEW p \in Positions
  PROVE  IsMem(Effect(m, Attend(l, t, p))) /\ AttendDone(m, Effect(m, Attend(l, t, p)), l, t, p)
<1> DEFINE c   == Attend(l, t, p)
           row == <<"rope", p, m.qkv[t]>>
           kv  == [m.kv[l] EXCEPT ![p] = row]
           v   == <<"attention", l, row, [i \in 1 .. p + 1 |-> kv[i - 1]]>>
           e   == Effect(m, c)
<1>1. c.f = "attention" /\ c.l = l /\ c.row = t /\ c.at = p
  BY DEF Attend
<1>2. Effect(m, c) = Attended(m, c)
  BY <1>1, Zenon DEF Effect
<1>3. Attended(m, c) = [m EXCEPT !.kv[l] = kv, !.attn_out[t] = v]
  BY <1>1 DEF Attended
<1>4. kv = [q \in Positions |-> kv[q]]
  BY DEF IsMem
<1> DEFINE g == [m EXCEPT !.kv[l] = kv, !.attn_out[t] = v]
<1>a. e = g
  BY <1>2, <1>3, Zenon
<1> HIDE DEF kv, v, e
<1>5. /\ g = [x \in Fields |-> g[x]]
      /\ Same(g, m, {"kv", "attn_out"})
      /\ g.kv = [m.kv EXCEPT ![l] = kv]
      /\ g.attn_out = [m.attn_out EXCEPT ![t] = v]
  BY DEF IsMem, Fields, Same
<1> HIDE DEF g, c
<1>6. /\ g.kv[l] = kv /\ \A j \in Layers \ {l} : g.kv[j] = m.kv[j]
      /\ g.kv = [j \in Layers |-> g.kv[j]]
  BY <1>5 DEF IsMem
<1>7. g.attn_out = [j \in Rows |-> g.attn_out[j]]
  BY <1>5 DEF IsMem
<1>8. g.gate = m.gate
  BY <1>5 DEF Fields, Same
<1>9. ASSUME NEW j \in Layers PROVE g.kv[j] = [q \in Positions |-> g.kv[j][q]]
  <2>1. CASE j = l
    BY <1>4, <1>6, <2>1
  <2>2. CASE j # l
    BY <1>6, <2>2 DEF IsMem
  <2> QED
    BY <2>1, <2>2
<1>10. IsMem(g)
  BY <1>5, <1>6, <1>7, <1>8, <1>9 DEF IsMem
<1>11. AttendDone(m, g, l, t, p)
  BY <1>5, Zenon DEF AttendDone, kv, v
<1> QED
  BY <1>10, <1>11, <1>a, Zenon DEF c, e

(* A router writes one cell of the logits. *)
LEMMA RouterEffect ==
  ASSUME NEW m, IsMem(m), NEW l, NEW x \in Cells, NEW t
  PROVE  IsMem(Effect(m, Router(l, x, t))) /\ RouterDone(m, Effect(m, Router(l, x, t)), l, x, t)
<1> DEFINE c == Router(l, x, t)
           v == <<"router", l, m.norm[t]>>
           e == Effect(m, c)
<1>1. c.f = "router" /\ c.l = l /\ c.row = t /\ c.cell = x
  BY DEF Router
<1>2. e = [m EXCEPT !.gate[x] = v]
  BY <1>1, Zenon DEF Effect
<1> HIDE DEF c, v, e
<1>3. /\ e = [y \in Fields |-> e[y]] /\ Same(e, m, {"gate"})
      /\ e.gate = [m.gate EXCEPT ![x] = v]
  BY <1>2 DEF IsMem, Fields, Same
<1>4. e.attn_out = m.attn_out /\ e.kv = m.kv
  BY <1>3 DEF Fields, Same
<1>5. e.gate = [y \in Cells |-> e.gate[y]]
  BY <1>3 DEF IsMem
<1>6. IsMem(e)
  <2>1. /\ e.attn_out = [i \in Rows |-> e.attn_out[i]]
        /\ e.kv = [j \in Layers |-> e.kv[j]]
        /\ \A j \in Layers : e.kv[j] = [q \in Positions |-> e.kv[j][q]]
    BY <1>4 DEF IsMem
  <2> QED
    BY <1>3, <1>5, <2>1 DEF IsMem
<1> QED
  BY <1>3, <1>6, Zenon DEF v, RouterDone, c, e

(* A top-k writes the cells of its rows. *)
LEMMA TopKEffect ==
  ASSUME NEW m, IsMem(m), NEW l, NEW M
  PROVE  IsMem(Effect(m, TopK(l, M))) /\ TopKDone(m, Effect(m, TopK(l, M)), l, M)
<1> DEFINE c == TopK(l, M)
           e == Effect(m, c)
           v == [y \in Cells |-> IF y - c.cell \in c.rows THEN Chosen(m.gate[y]) ELSE m.choice[y]]
<1>1. c.f = "top_k" /\ c.cell = l * M /\ c.rows = 0 .. M - 1
  BY DEF TopK
<1>2. e = [m EXCEPT !.choice = v]
  <2>1. e = [m EXCEPT !.choice = [y \in Cells |-> IF y - c.cell \in c.rows
                                               THEN Chosen(m.gate[y]) ELSE @[y]]]
    BY <1>1, Zenon DEF Effect
  <2> QED
    BY <2>1
<1>3. \A y \in Cells : y - c.cell \in c.rows => v[y] = Chosen(m.gate[y])
  OBVIOUS
<1> HIDE DEF v, c, e
<1>4. e = [y \in Fields |-> e[y]] /\ Same(e, m, {"choice"}) /\ e.choice = v
  BY <1>2 DEF IsMem, Fields, Same
<1>5. e.attn_out = m.attn_out /\ e.kv = m.kv /\ e.gate = m.gate
  BY <1>4 DEF Fields, Same
<1>6. IsMem(e)
  BY <1>4, <1>5 DEF IsMem
<1>7. TopKDone(m, e, l, M)
  BY <1>1, <1>3, <1>4 DEF TopKDone
<1> QED
  BY <1>6, <1>7, Zenon DEF c, e

-----------------------------------------------------------------------------
(* What a kernel computes. *)

(* Short sequences. *)
LEMMA TwoAndTwoAre ==
  ASSUME NEW a, NEW b, NEW c, NEW d
  PROVE  <<a, b>> \o <<c, d>> = <<a, b, c, d>>
<1> DEFINE S == {a, b, c, d}
           s == <<a, b>>
           t == <<c, d>>
           u == <<a, b, c, d>>
<1>1. s \in Seq(S) /\ t \in Seq(S) /\ u \in Seq(S)
  OBVIOUS
<1>2. /\ Len(s) = 2 /\ Len(t) = 2 /\ Len(u) = 4
      /\ s[1] = a /\ s[2] = b /\ t[1] = c /\ t[2] = d
      /\ u[1] = a /\ u[2] = b /\ u[3] = c /\ u[4] = d
  OBVIOUS
<1> HIDE DEF s, t, u, S
<1>3. (\A i \in 1 .. Len(s) : u[i] = s[i]) /\ (\A i \in 1 .. Len(t) : u[Len(s) + i] = t[i])
  <2>1. \A i \in 1 .. 2 : i = 1 \/ i = 2
    OBVIOUS
  <2> QED
    BY <1>2, <2>1
<1>4. Len(u) = Len(s) + Len(t)
  BY <1>2
<1>5. s \o t = u
  BY <1>1, <1>3, <1>4, Joined, Zenon
<1> QED
  BY <1>5 DEF s, t, u

LEMMA TwoAndThreeAre ==
  ASSUME NEW a, NEW b, NEW c, NEW d, NEW e
  PROVE  <<a, b>> \o <<c, d, e>> = <<a, b, c, d, e>>
<1> DEFINE S == {a, b, c, d, e}
           s == <<a, b>>
           t == <<c, d, e>>
           u == <<a, b, c, d, e>>
<1>1. s \in Seq(S) /\ t \in Seq(S) /\ u \in Seq(S)
  OBVIOUS
<1>2. /\ Len(s) = 2 /\ Len(t) = 3 /\ Len(u) = 5
      /\ s[1] = a /\ s[2] = b /\ t[1] = c /\ t[2] = d /\ t[3] = e
      /\ u[1] = a /\ u[2] = b /\ u[3] = c /\ u[4] = d /\ u[5] = e
  OBVIOUS
<1> HIDE DEF s, t, u, S
<1>3. (\A i \in 1 .. Len(s) : u[i] = s[i]) /\ (\A i \in 1 .. Len(t) : u[Len(s) + i] = t[i])
  <2>1. (\A i \in 1 .. 2 : i = 1 \/ i = 2) /\ \A i \in 1 .. 3 : i = 1 \/ i = 2 \/ i = 3
    OBVIOUS
  <2> QED
    BY <1>2, <2>1
<1>4. Len(u) = Len(s) + Len(t)
  BY <1>2
<1>5. s \o t = u
  BY <1>1, <1>3, <1>4, Joined, Zenon
<1> QED
  BY <1>5 DEF s, t, u

LEMMA FourAndOneAre ==
  ASSUME NEW a, NEW b, NEW c, NEW d, NEW e
  PROVE  <<a, b, c, d>> \o <<e>> = <<a, b, c, d, e>>
<1> DEFINE S == {a, b, c, d, e}
           s == <<a, b, c, d>>
           t == <<e>>
           u == <<a, b, c, d, e>>
<1>1. s \in Seq(S) /\ t \in Seq(S) /\ u \in Seq(S)
  OBVIOUS
<1>2. /\ Len(s) = 4 /\ Len(t) = 1 /\ Len(u) = 5
      /\ s[1] = a /\ s[2] = b /\ s[3] = c /\ s[4] = d /\ t[1] = e
      /\ u[1] = a /\ u[2] = b /\ u[3] = c /\ u[4] = d /\ u[5] = e
  OBVIOUS
<1> HIDE DEF s, t, u, S
<1>3. (\A i \in 1 .. Len(s) : u[i] = s[i]) /\ (\A i \in 1 .. Len(t) : u[Len(s) + i] = t[i])
  <2>1. (\A i \in 1 .. 4 : i = 1 \/ i = 2 \/ i = 3 \/ i = 4) /\ \A i \in 1 .. 1 : i = 1
    OBVIOUS
  <2> QED
    BY <1>2, <2>1
<1>4. Len(u) = Len(s) + Len(t)
  BY <1>2
<1>5. s \o t = u
  BY <1>1, <1>3, <1>4, Joined, Zenon
<1> QED
  BY <1>5 DEF s, t, u

(* Kernels whose value is the term of their operands. *)
Plain == Functions \ {"copy", "experts", "fused"}

(* The value of a row, by kernel and number of operands. *)
LEMMA CopyValue ==
  ASSUME NEW m, NEW c, NEW x, NEW t \in Int, c.f = "copy", c.from = <<x>>, c.off = 0
  PROVE  Value(m, c, t) = m[x][t]
BY DEF Value

LEMMA NoOperandValue ==
  ASSUME NEW m, NEW c, NEW t, c.f \in Plain, c.from = <<>>
  PROVE  Value(m, c, t) = <<c.f, c.l>>
<1> DEFINE args == [i \in DOMAIN c.from |-> m[c.from[i]][t + c.off]]
<1>1. args = <<>>
  OBVIOUS
<1>2. Value(m, c, t) = <<c.f, c.l>> \o args
  BY Zenon DEF Value, Plain
<1> HIDE DEF args
<1>3. <<c.f, c.l>> \o <<>> = <<c.f, c.l>>
  <2>1. <<c.f, c.l>> \in Seq({c.f, c.l})
    OBVIOUS
  <2> QED
    BY <2>1
<1> QED
  BY <1>1, <1>2, <1>3

LEMMA OneOperandValue ==
  ASSUME NEW m, NEW c, NEW x, NEW t, c.f \in Plain, c.from = <<x>>
  PROVE  Value(m, c, t) = <<c.f, c.l, m[x][t + c.off]>>
<1> DEFINE args == [i \in DOMAIN c.from |-> m[c.from[i]][t + c.off]]
<1>1. args = <<m[x][t + c.off]>>
  OBVIOUS
<1>2. Value(m, c, t) = <<c.f, c.l>> \o args
  BY Zenon DEF Value, Plain
<1> HIDE DEF args
<1> DEFINE d == m[x][t + c.off]
           a == c.f
           b == c.l
<1> HIDE DEF d, a, b
<1>3. <<a, b>> \o <<d>> = <<a, b, d>>
  <2>1. a \in {a, b, d} /\ b \in {a, b, d} /\ d \in {a, b, d}
    OBVIOUS
  <2> QED
    BY <2>1, ThreeAre, Zenon
<1> QED
  BY <1>1, <1>2, <1>3, Zenon DEF a, b, d

LEMMA TwoOperandValue ==
  ASSUME NEW m, NEW c, NEW x, NEW y, NEW t, c.f \in Plain, c.from = <<x, y>>
  PROVE  Value(m, c, t) = <<c.f, c.l, m[x][t + c.off], m[y][t + c.off]>>
<1> DEFINE args == [i \in DOMAIN c.from |-> m[c.from[i]][t + c.off]]
<1>1. args = <<m[x][t + c.off], m[y][t + c.off]>>
  OBVIOUS
<1>2. Value(m, c, t) = <<c.f, c.l>> \o args
  BY Zenon DEF Value, Plain
<1> HIDE DEF args
<1> QED
  BY <1>1, <1>2, TwoAndTwoAre

LEMMA ThreeOperandValue ==
  ASSUME NEW m, NEW c, NEW x, NEW y, NEW z, NEW t, c.f \in Plain, c.from = <<x, y, z>>
  PROVE  Value(m, c, t) = <<c.f, c.l, m[x][t + c.off], m[y][t + c.off], m[z][t + c.off]>>
<1> DEFINE args == [i \in DOMAIN c.from |-> m[c.from[i]][t + c.off]]
<1>1. args = <<m[x][t + c.off], m[y][t + c.off], m[z][t + c.off]>>
  OBVIOUS
<1>2. Value(m, c, t) = <<c.f, c.l>> \o args
  BY Zenon DEF Value, Plain
<1> HIDE DEF args
<1> QED
  BY <1>1, <1>2, TwoAndThreeAre

LEMMA ExpertsValue ==
  ASSUME NEW m, NEW c, NEW x, NEW y, NEW t, c.f = "experts", c.from = <<x, y>>
  PROVE  Value(m, c, t) = <<"moe", c.l, m[x][t + c.off], m[y][t + c.off], c.choice[t]>>
<1> DEFINE args == [i \in DOMAIN c.from |-> m[c.from[i]][t + c.off]]
<1>1. args = <<m[x][t + c.off], m[y][t + c.off]>>
  OBVIOUS
<1>2. Value(m, c, t) = <<"moe", c.l>> \o args \o <<c.choice[t]>>
  BY Zenon DEF Value
<1> HIDE DEF args
<1> DEFINE a == c.l
           b == m[x][t + c.off]
           d == m[y][t + c.off]
           e == c.choice[t]
<1> HIDE DEF a, b, d, e
<1>3. <<"moe", a>> \o <<b, d>> = <<"moe", a, b, d>>
  BY TwoAndTwoAre, Zenon
<1>4. <<"moe", a, b, d>> \o <<e>> = <<"moe", a, b, d, e>>
  BY FourAndOneAre, Zenon
<1> QED
  BY <1>1, <1>2, <1>3, <1>4, Zenon DEF a, b, d, e

LEMMA FusedValue ==
  ASSUME NEW m, NEW c, NEW x, NEW y, NEW t, c.f = "fused", c.from = <<x, y>>
  PROVE  Value(m, c, t) = <<"moe", c.l, m[x][t + c.off], m[y][t + c.off],
                            Chosen(<<"router", c.l, m.norm[t]>>)>>
<1> DEFINE args == [i \in DOMAIN c.from |-> m[c.from[i]][t + c.off]]
           last == Chosen(<<"router", c.l, m.norm[t]>>)
<1>1. args = <<m[x][t + c.off], m[y][t + c.off]>>
  OBVIOUS
<1>2. Value(m, c, t) = <<"moe", c.l>> \o args \o <<last>>
  BY Zenon DEF Value
<1> DEFINE a == c.l
           b == m[x][t + c.off]
           d == m[y][t + c.off]
<1> HIDE DEF args, last, a, b, d
<1>3. <<"moe", a>> \o <<b, d>> = <<"moe", a, b, d>>
  BY TwoAndTwoAre, Zenon
<1>4. <<"moe", a, b, d>> \o <<last>> = <<"moe", a, b, d, last>>
  BY FourAndOneAre, Zenon
<1> QED
  BY <1>1, <1>2, <1>3, <1>4, Zenon DEF a, b, d, last

-----------------------------------------------------------------------------
(* What a command of the pass does, when the pass is safe. *)

Fits(s, k) ==
  /\ s \in Seq(Tokens) /\ k \in Seq(Tokens)
  /\ Len(k) \in 1 .. ChunkSize /\ Len(s) + Len(k) <= NCtx

(* The rows of a pass fit the scratch buffers and the context. *)
LEMMA Sizes ==
  ASSUME NEW s, NEW k, Fits(s, k)
  PROVE  /\ Len(s) \in Nat /\ Len(k) \in Nat /\ Len(k) >= 1
         /\ 0 .. Len(k) - 1 \subseteq Rows /\ 0 \in Rows /\ 0 \in 0 .. Len(k) - 1
         /\ \A t \in 0 .. Len(k) - 1 : Len(s) + t \in Positions
         /\ 0 .. Len(s) - 1 \subseteq Positions
         /\ s \o k \in Seq(Tokens) /\ Len(s \o k) = Len(s) + Len(k)
<1>1. s \in Seq(Tokens) /\ k \in Seq(Tokens) /\ Len(k) \in 1 .. ChunkSize /\ Len(s) + Len(k) <= NCtx
  BY DEF Fits
<1>2. Len(s) \in Nat /\ Len(k) \in Nat /\ Len(k) >= 1 /\ s \o k \in Seq(Tokens)
      /\ Len(s \o k) = Len(s) + Len(k)
  BY <1>1
<1>3. ChunkSize \in Nat /\ NCtx \in Nat
  BY LayersNumber
<1> DEFINE m == Len(s)
           n == Len(k)
<1>4. m \in Nat /\ n \in Nat /\ n >= 1 /\ n <= ChunkSize /\ m + n <= NCtx
  BY <1>1, <1>2
<1> HIDE DEF m, n
<1>5. /\ 0 .. n - 1 \subseteq Rows /\ 0 \in Rows /\ 0 \in 0 .. n - 1
      /\ \A t \in 0 .. n - 1 : m + t \in Positions
      /\ 0 .. m - 1 \subseteq Positions
  BY <1>3, <1>4 DEF Rows, Positions
<1> QED
  BY <1>2, <1>5 DEF m, n

(* What Safe says, part by part. *)
LEMMA SafeIs ==
  ASSUME NEW s, NEW k, NEW a, Safe(s, k, a)
  PROVE  IsMem(a.mem) /\ IsChoice(a.idx) /\ a.used \in BOOLEAN /\ Kept(s \o k, Len(s), a.mem)
BY DEF Safe

(* The KV cache is kept by what does not write it. *)
LEMMA SameKept ==
  ASSUME NEW toks, NEW n, NEW m, NEW e, Kept(toks, n, m), e.kv = m.kv
  PROVE  Kept(toks, n, e)
BY DEF Kept

IsKernel(c) ==
  /\ c = [do |-> "dispatch", f |-> c.f, l |-> c.l, from |-> c.from, to |-> c.to,
          rows |-> c.rows, off |-> c.off, choice |-> c.choice]
  /\ c.f \in Functions /\ c.to \in Buffers

(* Only the experts of the host change when they get their choice. *)
LEMMA BoundKernel ==
  ASSUME NEW c, IsKernel(c), NEW idx
  PROVE  /\ BoundTo(idx, c).f = c.f /\ BoundTo(idx, c).l = c.l /\ BoundTo(idx, c).from = c.from
         /\ BoundTo(idx, c).to = c.to /\ BoundTo(idx, c).rows = c.rows /\ BoundTo(idx, c).off = c.off
         /\ c.f = "experts" => BoundTo(idx, c).choice = idx[c.l]
         /\ c.f # "experts" => BoundTo(idx, c) = c
<1>1. CASE c.f = "experts"
  <2> DEFINE v == idx[c.l]
             b == [c EXCEPT !.choice = v]
  <2>1. BoundTo(idx, c) = b
    BY <1>1, Zenon DEF BoundTo
  <2> HIDE DEF v
  <2>2. /\ b.f = c.f /\ b.l = c.l /\ b.from = c.from /\ b.to = c.to
        /\ b.rows = c.rows /\ b.off = c.off /\ b.choice = v
    BY DEF IsKernel
  <2> HIDE DEF b
  <2> QED
    BY <1>1, <2>1, <2>2 DEF v
<1>2. CASE c.f # "experts"
  BY <1>2, Zenon DEF BoundTo
<1> QED
  BY <1>1, <1>2

(* A kernel of any kind is dispatched. *)
LEMMA DispatchGoes ==
  ASSUME NEW s, NEW k, NEW a, Safe(s, k, a), NEW c, c.do = "dispatch",
         IsMem(Effect(a.mem, BoundTo(a.idx, c))),
         Kept(s \o k, Len(s), Effect(a.mem, BoundTo(a.idx, c)))
  PROVE  \E b : /\ Takes(s, k, a, <<c>>, b) /\ Safe(s, k, b) /\ b.idx = a.idx
                /\ b.mem = Effect(a.mem, BoundTo(a.idx, c))
                /\ Apart(BoundTo(a.idx, c)) => b.used = a.used
<1> DEFINE d == BoundTo(a.idx, c)
           e == Effect(a.mem, d)
           u == a.used \/ ~Apart(d)
           b == [mem |-> e, idx |-> a.idx, used |-> u]
<1>1. u \in BOOLEAN /\ (Apart(d) => u = a.used)
  <2>1. a.used \in BOOLEAN
    BY SafeIs
  <2> HIDE DEF d
  <2> QED
    BY <2>1
<1>2. After(k, a, c) = b
  <2>1. After(k, a, c) = Dispatching(a, d)
    BY Zenon DEF After
  <2> QED
    BY <2>1, Zenon DEF Dispatching
<1> HIDE DEF d, e, u
<1>3. b.mem = e /\ b.idx = a.idx /\ b.used = u /\ b = [mem |-> b.mem, idx |-> b.idx, used |-> b.used]
  OBVIOUS
<1> HIDE DEF b
<1>4. Safe(s, k, b)
  BY <1>1, <1>3, SafeIs DEF Safe, d, e
<1>5. Goes(s, k, a, c, b)
  BY <1>2, <1>4 DEF Goes
<1> QED
  BY <1>1, <1>3, <1>4, <1>5, TakesOne DEF d, e

(* A kernel that writes rows of a buffer. *)
LEMMA KernelTakes ==
  ASSUME NEW s, NEW k, NEW a, Safe(s, k, a), NEW c, IsKernel(c)
  PROVE  \E b : /\ Takes(s, k, a, <<c>>, b) /\ Safe(s, k, b) /\ b.idx = a.idx
                /\ KernelDone(a.mem, b.mem, BoundTo(a.idx, c))
                /\ Apart(BoundTo(a.idx, c)) => b.used = a.used
<1> DEFINE d == BoundTo(a.idx, c)
           e == Effect(a.mem, d)
<1>1. d.f = c.f /\ d.to = c.to /\ d.rows = c.rows
  BY BoundKernel
<1>2. c.f \in Functions /\ c.to \in Buffers /\ c.do = "dispatch"
  BY DEF IsKernel
<1>3. IsMem(a.mem) /\ Kept(s \o k, Len(s), a.mem)
  BY SafeIs
<1> HIDE DEF d
<1>4. IsMem(e) /\ KernelDone(a.mem, e, d)
  BY <1>1, <1>2, <1>3, KernelEffect
<1> HIDE DEF e
<1>5. e.kv = a.mem.kv
  <2>1. "kv" \in Fields /\ c.to # "kv"
    BY <1>2 DEF Fields, Buffers
  <2> QED
    BY <1>1, <1>4, <2>1 DEF Same, KernelDone
<1>6. Kept(s \o k, Len(s), e)
  BY <1>3, <1>5, SameKept
<1>7. PICK b : /\ Takes(s, k, a, <<c>>, b) /\ Safe(s, k, b) /\ b.idx = a.idx
               /\ b.mem = e
               /\ Apart(d) => b.used = a.used
  BY <1>2, <1>4, <1>6, DispatchGoes DEF d, e
<1> QED
  BY <1>4, <1>7 DEF d

(* The dispatch of each kernel that is no Kernel: attention, router, top-k. *)
LEMMA AttendTakes ==
  ASSUME NEW s, NEW k, Fits(s, k), NEW a, Safe(s, k, a), NEW l \in Layers,
         NEW t \in 0 .. Len(k) - 1, NEW p, p = Len(s) + t
  PROVE  \E b : /\ Takes(s, k, a, <<Attend(l, t, p)>>, b) /\ Safe(s, k, b) /\ b.idx = a.idx
                /\ AttendDone(a.mem, b.mem, l, t, p)
<1> DEFINE c == Attend(l, t, p)
           m == a.mem
           e == Effect(m, c)
           kv == [m.kv[l] EXCEPT ![p] = <<"rope", p, m.qkv[t]>>]
<1>1. p \in Positions /\ t \in Rows /\ Len(s) \in Nat /\ p >= Len(s)
  BY Sizes
<1>2. c.do = "dispatch" /\ BoundTo(a.idx, c) = c
  BY DEF Attend, BoundTo
<1>3. IsMem(m) /\ Kept(s \o k, Len(s), m)
  BY SafeIs
<1>4. IsMem(e) /\ AttendDone(m, e, l, t, p)
  BY <1>1, <1>3, AttendEffect
<1>5. \A q \in Positions \ {p} : kv[q] = m.kv[l][q]
  BY <1>3 DEF IsMem
<1>a. e.kv = [m.kv EXCEPT ![l] = kv]
  BY <1>4, Zenon DEF AttendDone
<1> HIDE DEF c, m, e, kv
<1>6. Kept(s \o k, Len(s), e)
  <2> SUFFICES ASSUME NEW j \in Layers, NEW q \in 0 .. Len(s) - 1
               PROVE  e.kv[j][q] = KvRow(j, q, LayerIn(s \o k)[j][q])
    BY DEF Kept
  <2>1. q \in Positions \ {p}
    BY <1>1, Sizes
  <2>2. e.kv[j] = IF j = l THEN kv ELSE m.kv[j]
    BY <1>3, <1>a DEF IsMem
  <2>3. e.kv[j][q] = m.kv[j][q]
    BY <1>5, <2>1, <2>2
  <2> QED
    BY <1>3, <2>3 DEF Kept
<1>7. PICK b : Takes(s, k, a, <<c>>, b) /\ Safe(s, k, b) /\ b.idx = a.idx /\ b.mem = e
  BY <1>2, <1>4, <1>6, DispatchGoes DEF e, m
<1> QED
  BY <1>4, <1>7 DEF c, m

LEMMA RouterTakes ==
  ASSUME NEW s, NEW k, NEW a, Safe(s, k, a), NEW l, NEW x \in Cells, NEW t
  PROVE  \E b : /\ Takes(s, k, a, <<Router(l, x, t)>>, b) /\ Safe(s, k, b) /\ b.idx = a.idx
                /\ RouterDone(a.mem, b.mem, l, x, t)
<1> DEFINE c == Router(l, x, t)
           m == a.mem
           e == Effect(m, c)
<1>1. c.do = "dispatch" /\ BoundTo(a.idx, c) = c
  BY DEF Router, BoundTo
<1>2. IsMem(m) /\ Kept(s \o k, Len(s), m)
  BY SafeIs
<1>3. IsMem(e) /\ RouterDone(m, e, l, x, t)
  BY <1>2, RouterEffect
<1> HIDE DEF c, m, e
<1>4. Kept(s \o k, Len(s), e)
  <2>1. e.kv = m.kv
    BY <1>3 DEF Fields, Same, RouterDone, TopKDone
  <2> QED
    BY <1>2, <2>1, SameKept
<1>5. PICK b : Takes(s, k, a, <<c>>, b) /\ Safe(s, k, b) /\ b.idx = a.idx /\ b.mem = e
  BY <1>1, <1>3, <1>4, DispatchGoes DEF e, m
<1> QED
  BY <1>3, <1>5 DEF c, m

LEMMA TopKTakes ==
  ASSUME NEW s, NEW k, NEW a, Safe(s, k, a), NEW l, NEW M
  PROVE  \E b : /\ Takes(s, k, a, <<TopK(l, M)>>, b) /\ Safe(s, k, b) /\ b.idx = a.idx
                /\ TopKDone(a.mem, b.mem, l, M)
<1> DEFINE c == TopK(l, M)
           m == a.mem
           e == Effect(m, c)
<1>1. c.do = "dispatch" /\ BoundTo(a.idx, c) = c
  BY DEF TopK, BoundTo
<1>2. IsMem(m) /\ Kept(s \o k, Len(s), m)
  BY SafeIs
<1>3. IsMem(e) /\ TopKDone(m, e, l, M)
  BY <1>2, TopKEffect
<1> HIDE DEF c, m, e
<1>4. Kept(s \o k, Len(s), e)
  <2>1. e.kv = m.kv
    BY <1>3 DEF Fields, Same, RouterDone, TopKDone
  <2> QED
    BY <1>2, <2>1, SameKept
<1>5. PICK b : Takes(s, k, a, <<c>>, b) /\ Safe(s, k, b) /\ b.idx = a.idx /\ b.mem = e
  BY <1>1, <1>3, <1>4, DispatchGoes DEF e, m
<1> QED
  BY <1>3, <1>5 DEF c, m

(* Commands of the host. *)
LEMMA BeginTakes ==
  ASSUME NEW s, NEW k, NEW a, Safe(s, k, a)
  PROVE  \E b : /\ Takes(s, k, a, <<Begin>>, b) /\ Safe(s, k, b)
                /\ b.mem = a.mem /\ b.idx = a.idx /\ ~b.used
<1> DEFINE b == Beginning(a)
<1>1. Begin.do = "begin"
  BY DEF Begin, Do
<1>2. After(k, a, Begin) = b
  BY <1>1, Zenon DEF After
<1>3. b.mem = a.mem /\ b.idx = a.idx /\ ~b.used /\ b.used \in BOOLEAN
      /\ b = [mem |-> b.mem, idx |-> b.idx, used |-> b.used]
  BY DEF Beginning
<1> HIDE DEF b
<1>4. Safe(s, k, b)
  BY <1>3, SafeIs DEF Safe
<1>5. Goes(s, k, a, Begin, b)
  BY <1>1, <1>2, <1>4 DEF Goes
<1> QED
  BY <1>3, <1>4, <1>5, TakesOne

(* The end of a batch and the sampling change nothing here. *)
LEMMA NothingTakes ==
  ASSUME NEW s, NEW k, NEW a, Safe(s, k, a), NEW c, c.do \in {"end", "sample"},
         c.do = "sample" => Complete(s, k, a.mem)
  PROVE  Takes(s, k, a, <<c>>, a)
<1>1. After(k, a, c) = a
  BY Zenon DEF After
<1>2. c.do # "gather"
  OBVIOUS
<1>3. Goes(s, k, a, c, a)
  BY <1>1, <1>2 DEF Goes
<1> QED
  BY <1>3, TakesOne

LEMMA EndTakes ==
  ASSUME NEW s, NEW k, NEW a, Safe(s, k, a)
  PROVE  Takes(s, k, a, <<End>>, a)
<1>1. End.do = "end"
  BY DEF End, Do
<1> QED
  BY <1>1, NothingTakes

(* The embeddings of the tokens are written. *)
LEMMA EmbedGoes ==
  ASSUME NEW s, NEW k, Fits(s, k), NEW a, Safe(s, k, a)
  PROVE  \E b : /\ b = After(k, a, Do("embed", 0, Len(k))) /\ Safe(s, k, b)
                /\ \A t \in 0 .. Len(k) - 1 : b.mem.hidden[t] = Emb(k[t + 1])
<1> DEFINE c == Do("embed", 0, Len(k))
           v == [t \in Rows |-> IF t \in c.rows THEN Emb(k[t + 1]) ELSE a.mem.hidden[t]]
           e == [a.mem EXCEPT !.hidden = v]
           b == [mem |-> e, idx |-> a.idx, used |-> a.used]
<1>1. c.do = "embed" /\ c.rows = 0 .. Len(k) - 1
  BY DEF Do
<1>2. After(k, a, c) = Embedding(k, a, c)
  BY <1>1, Zenon DEF After
<1>3. Embedding(k, a, c) = b
  BY DEF Embedding
<1>4. \A t \in Rows \cap c.rows : v[t] = Emb(k[t + 1])
  OBVIOUS
<1>5. IsMem(a.mem) /\ Kept(s \o k, Len(s), a.mem) /\ IsChoice(a.idx) /\ a.used \in BOOLEAN
  BY SafeIs
<1> HIDE DEF c, v
<1>6. e.hidden = v /\ e = [x \in Fields |-> e[x]] /\ \A x \in Fields \ {"hidden"} : e[x] = a.mem[x]
  BY <1>5 DEF IsMem, Fields
<1>7. b.mem = e /\ b.idx = a.idx /\ b.used = a.used /\ b = [mem |-> b.mem, idx |-> b.idx, used |-> b.used]
  OBVIOUS
<1> HIDE DEF e, b
<1>8. e.attn_out = a.mem.attn_out /\ e.kv = a.mem.kv /\ e.gate = a.mem.gate
  BY <1>6 DEF Fields
<1>9. IsMem(e)
  BY <1>5, <1>6, <1>8 DEF IsMem
<1>10. Kept(s \o k, Len(s), e)
  BY <1>5, <1>8, SameKept
<1>11. Safe(s, k, b)
  BY <1>5, <1>7, <1>9, <1>10 DEF Safe
<1>13. b = After(k, a, c)
  BY <1>2, <1>3
<1>14. \A t \in 0 .. Len(k) - 1 : b.mem.hidden[t] = Emb(k[t + 1])
  BY <1>1, <1>4, <1>6, <1>7, Sizes
<1> QED
  BY <1>11, <1>13, <1>14 DEF c

(* The lists are written, under kernels that have nothing to do with them. *)
LEMMA GatherTakes ==
  ASSUME NEW s, NEW k, Fits(s, k), NEW a, Safe(s, k, a), ~a.used, NEW l
  PROVE  \E b : /\ Takes(s, k, a, <<Do("gather", l, Len(k))>>, b) /\ Safe(s, k, b)
                /\ b.idx = a.idx
                /\ Same(b.mem, a.mem, {"gather"})
                /\ \A t \in 0 .. Len(k) - 1 : b.mem.gather[t] = a.idx[l][t]
<1> DEFINE c == Do("gather", l, Len(k))
           v == Lists(a.mem, a.idx, c)
           e == With(a.mem, v)
           b == [mem |-> e, idx |-> a.idx, used |-> a.used]
<1>1. c.do = "gather" /\ c.rows = 0 .. Len(k) - 1 /\ c.l = l
  BY DEF Do
<1>2. After(k, a, c) = Gathering(a, c)
  BY <1>1, Zenon DEF After
<1>3. Gathering(a, c) = b
  BY DEF Gathering
<1>4. \A t \in Rows \cap c.rows : v[t] = a.idx[l][t]
  BY <1>1 DEF Lists
<1>5. IsMem(a.mem) /\ Kept(s \o k, Len(s), a.mem) /\ IsChoice(a.idx) /\ a.used \in BOOLEAN
  BY SafeIs
<1> HIDE DEF c, v
<1>6. e.gather = v /\ e = [x \in Fields |-> e[x]] /\ Same(e, a.mem, {"gather"})
  BY <1>5 DEF IsMem, Fields, With, Same
<1>7. b.mem = e /\ b.idx = a.idx /\ b.used = a.used /\ b = [mem |-> b.mem, idx |-> b.idx, used |-> b.used]
  OBVIOUS
<1> HIDE DEF e, b
<1>8. e.attn_out = a.mem.attn_out /\ e.kv = a.mem.kv /\ e.gate = a.mem.gate
  BY <1>6 DEF Fields, Same
<1>9. IsMem(e)
  BY <1>5, <1>6, <1>8 DEF IsMem
<1>10. Kept(s \o k, Len(s), e)
  BY <1>5, <1>8, SameKept
<1>11. Safe(s, k, b)
  BY <1>5, <1>7, <1>9, <1>10 DEF Safe
<1>12. Goes(s, k, a, c, b)
  BY <1>1, <1>2, <1>3, <1>11 DEF Goes
<1>13. Takes(s, k, a, <<c>>, b)
  BY <1>12, TakesOne
<1>14. \A t \in 0 .. Len(k) - 1 : b.mem.gather[t] = a.idx[l][t]
  BY <1>1, <1>4, <1>6, <1>7, Sizes
<1> QED
  BY <1>6, <1>7, <1>11, <1>13, <1>14 DEF c

(* The host reads what top_k chose for a layer's rows, or chooses for one.  *)
ReadDone(k, what, l, m, idx) ==
  \A t \in 0 .. Len(k) - 1 :
    idx[l][t] = IF what = "read" THEN m.choice[l * Len(k) + t] ELSE Chosen(m.gate[0])

(* The choices are read. *)
LEMMA ReadTakes ==
  ASSUME NEW s, NEW k, Fits(s, k), NEW a, Safe(s, k, a), NEW l \in Layers,
         NEW what \in {"read", "choose"}
  PROVE  \E b : /\ Takes(s, k, a, <<Do(what, l, Len(k))>>, b) /\ Safe(s, k, b)
                /\ b.mem = a.mem /\ ReadDone(k, what, l, a.mem, b.idx)
<1> DEFINE c == Do(what, l, Len(k))
           M == Len(k)
           v == [t \in Rows |->
                  IF t \notin c.rows THEN a.idx[l][t]
                  ELSE IF what = "read" THEN a.mem.choice[l * M + t] ELSE Chosen(a.mem.gate[0])]
           e == [a.idx EXCEPT ![l] = v]
           b == [mem |-> a.mem, idx |-> e, used |-> a.used]
<1>1. c.do = what /\ c.rows = 0 .. M - 1 /\ c.l = l
  BY DEF Do
<1>2. After(k, a, c) = Reading(a, c)
  BY <1>1, Zenon DEF After
<1>3. Cardinality(c.rows) = M
  <2>1. M \in Nat /\ M >= 1
    BY Sizes
  <2>2. 0 \in Int /\ M - 1 \in Int /\ ~(0 > M - 1) /\ (M - 1) - 0 + 1 = M
    BY <2>1
  <2> HIDE DEF M
  <2>3. Cardinality(0 .. M - 1) = IF 0 > M - 1 THEN 0 ELSE (M - 1) - 0 + 1
    BY <2>2, FS_Interval
  <2> QED
    BY <1>1, <2>2, <2>3
<1>4. ChoicesOf(a.mem, a.idx, c) = e
  <2> HIDE DEF M, c
  <2> QED
    BY <1>1, <1>3 DEF ChoicesOf
<1>5. Reading(a, c) = b
  BY <1>4 DEF Reading
<1>6. \A t \in Rows \cap c.rows :
        v[t] = IF what = "read" THEN a.mem.choice[l * M + t] ELSE Chosen(a.mem.gate[0])
  OBVIOUS
<1>7. v = [t \in Rows |-> v[t]]
  OBVIOUS
<1>8. IsMem(a.mem) /\ Kept(s \o k, Len(s), a.mem) /\ IsChoice(a.idx) /\ a.used \in BOOLEAN
  BY SafeIs
<1> HIDE DEF c, v, M
<1>9. IsChoice(e) /\ e[l] = v
  BY <1>7, <1>8 DEF IsChoice
<1>10. b.mem = a.mem /\ b.idx = e /\ b.used = a.used /\ b = [mem |-> b.mem, idx |-> b.idx, used |-> b.used]
  OBVIOUS
<1> HIDE DEF e, b
<1>11. Safe(s, k, b)
  BY <1>8, <1>9, <1>10 DEF Safe
<1>12. Goes(s, k, a, c, b)
  BY <1>1, <1>2, <1>5, <1>11 DEF Goes
<1>13. Takes(s, k, a, <<c>>, b)
  BY <1>12, TakesOne
<1>14. \A t \in 0 .. M - 1 : t \in Rows \cap c.rows
  BY <1>1, Sizes DEF M
<1>15. ReadDone(k, what, l, a.mem, b.idx)
  BY <1>6, <1>9, <1>10, <1>14 DEF ReadDone, M
<1> QED
  BY <1>10, <1>11, <1>13, <1>15 DEF c, M

-----------------------------------------------------------------------------
(* The reference: what enters each layer, at each position. *)

(* What enters layer l when xs enters the one before it. *)
Enters(toks, l, xs) ==
  [p \in 0 .. Len(toks) - 1 |-> IF l = 0 THEN Emb(toks[p + 1]) ELSE LayerForward(l - 1, xs, p)]
EntersUpTo(toks, n, f) ==
  /\ f = [l \in 0 .. n |-> f[l]]
  /\ \A l \in 0 .. n : f[l] = Enters(toks, l, f[l - 1])

(* What enters layer 0 depends on no other layer. *)
LEMMA EntersNoLayer ==
  ASSUME NEW toks, NEW xs, NEW ys
  PROVE  Enters(toks, 0, xs) = Enters(toks, 0, ys)
BY DEF Enters

(* The equation of LayerIn has one solution, *)
LEMMA EntersOnce ==
  ASSUME NEW toks, NEW n \in Nat, NEW f, EntersUpTo(toks, n, f),
         NEW k \in Nat, NEW g, EntersUpTo(toks, k, g)
  PROVE  \A l \in Nat : l <= n /\ l <= k => f[l] = g[l]
<1> DEFINE S == {l \in Nat : l <= n /\ l <= k => f[l] = g[l]}
<1>1. 0 \in S
  <2>0. 0 \in 0 .. n /\ 0 \in 0 .. k
    OBVIOUS
  <2>1. f[0] = Enters(toks, 0, f[0 - 1]) /\ g[0] = Enters(toks, 0, g[0 - 1])
    BY <2>0, Zenon DEF EntersUpTo
  <2>2. f[0] = g[0]
    BY <2>1, EntersNoLayer
  <2> QED
    BY <2>2
<1>2. ASSUME NEW l \in Nat, l \in S PROVE l + 1 \in S
  <2> SUFFICES ASSUME l + 1 <= n, l + 1 <= k PROVE f[l + 1] = g[l + 1]
    OBVIOUS
  <2>1. l <= n /\ l <= k /\ l + 1 \in 0 .. n /\ l + 1 \in 0 .. k /\ (l + 1) - 1 = l
    OBVIOUS
  <2>2. f[l] = g[l]
    BY <1>2, <2>1
  <2>3. f[l + 1] = Enters(toks, l + 1, f[l]) /\ g[l + 1] = Enters(toks, l + 1, g[l])
    <3>1. f[l + 1] = Enters(toks, l + 1, f[(l + 1) - 1]) /\ g[l + 1] = Enters(toks, l + 1, g[(l + 1) - 1])
      BY <2>1 DEF EntersUpTo
    <3> QED
      BY <2>1, <3>1
  <2> QED
    BY <2>2, <2>3
<1>3. \A l \in Nat : l \in S
  <2> HIDE DEF S
  <2> QED
    BY <1>1, <1>2, ByInduction
<1> QED
  BY <1>3

(* and it has one for any number of layers, *)
LEMMA EntersExists ==
  ASSUME NEW toks
  PROVE  \A n \in Nat : \E f : EntersUpTo(toks, n, f)
<1> DEFINE S == {n \in Nat : \E f : EntersUpTo(toks, n, f)}
<1>1. 0 \in S
  <2> DEFINE f == [l \in 0 .. 0 |-> Enters(toks, 0, 0)]
  <2>1. f = [l \in 0 .. 0 |-> f[l]] /\ f[0] = Enters(toks, 0, 0)
    OBVIOUS
  <2> HIDE DEF f
  <2>2. \A l \in 0 .. 0 : f[l] = Enters(toks, l, f[l - 1])
    <3>1. f[0] = Enters(toks, 0, f[0 - 1])
      BY <2>1, EntersNoLayer
    <3>2. \A l \in 0 .. 0 : l = 0
      OBVIOUS
    <3> QED
      BY <3>1, <3>2
  <2> QED
    BY <2>1, <2>2 DEF EntersUpTo
<1>2. ASSUME NEW n \in Nat, n \in S PROVE n + 1 \in S
  <2>1. PICK f : EntersUpTo(toks, n, f)
    BY <1>2
  <2> DEFINE v == Enters(toks, n + 1, f[n])
             g == [l \in 0 .. n + 1 |-> IF l = n + 1 THEN v ELSE f[l]]
  <2>2. g = [l \in 0 .. n + 1 |-> g[l]] /\ g[n + 1] = v
    <3> HIDE DEF v
    <3> QED
      OBVIOUS
  <2>3. \A l \in 0 .. n : g[l] = f[l]
    OBVIOUS
  <2> HIDE DEF g
  <2>4. ASSUME NEW l \in 0 .. n + 1 PROVE g[l] = Enters(toks, l, g[l - 1])
    <3>1. CASE l = n + 1
      <4>1. l - 1 = n /\ g[n] = f[n]
        BY <2>3, <3>1
      <4> QED
        BY <2>2, <3>1, <4>1
    <3>2. CASE l = 0
      <4>a. 0 \in 0 .. n
        OBVIOUS
      <4>1. f[0] = Enters(toks, 0, f[0 - 1]) /\ g[0] = f[0]
        BY <2>1, <2>3, <4>a, Zenon DEF EntersUpTo
      <4>2. Enters(toks, 0, f[0 - 1]) = Enters(toks, 0, g[0 - 1])
        BY EntersNoLayer
      <4> QED
        BY <3>2, <4>1, <4>2
    <3>3. CASE l # n + 1 /\ l # 0
      <4>1. l \in 0 .. n /\ l - 1 \in 0 .. n
        BY <3>3
      <4>2. g[l] = f[l] /\ g[l - 1] = f[l - 1] /\ f[l] = Enters(toks, l, f[l - 1])
        BY <2>1, <2>3, <4>1 DEF EntersUpTo
      <4> QED
        BY <4>2
    <3> QED
      BY <3>1, <3>2, <3>3
  <2>5. EntersUpTo(toks, n + 1, g)
    BY <2>2, <2>4 DEF EntersUpTo
  <2> QED
    BY <2>5
<1>3. \A n \in Nat : n \in S
  <2> HIDE DEF S
  <2> QED
    BY <1>1, <1>2, ByInduction
<1> QED
  BY <1>3

(* so LayerIn is that solution. *)
LEMMA LayerInIs ==
  ASSUME NEW toks
  PROVE  \A l \in Nat : LayerIn(toks)[l] = Enters(toks, l, LayerIn(toks)[l - 1])
<1> DEFINE Body(g) == [l \in Nat |-> [p \in 0 .. Len(toks) - 1 |->
             IF l = 0 THEN Emb(toks[p + 1]) ELSE LayerForward(l - 1, g[l - 1], p)]]
           Eq(g) == g = Body(g)
           In == CHOOSE g : Eq(g)
           To(l) == CHOOSE f : EntersUpTo(toks, l, f)
           F == [l \in Nat |-> To(l)[l]]
<1>1. LayerIn(toks) = In
  BY DEF LayerIn
<1>2. \A g : Body(g) = [l \in Nat |-> Enters(toks, l, g[l - 1])]
  BY DEF Enters
<1>3. \A l \in Nat : EntersUpTo(toks, l, To(l))
  BY EntersExists
<1> HIDE DEF To
<1>4. \A l \in Nat : F[l] = To(l)[l]
  OBVIOUS
<1>5. F = [l \in Nat |-> F[l]]
  OBVIOUS
<1> HIDE DEF F
<1>6. ASSUME NEW l \in Nat PROVE F[l] = Enters(toks, l, F[l - 1])
  <2>1. EntersUpTo(toks, l, To(l)) /\ l \in 0 .. l
    BY <1>3
  <2>2. To(l)[l] = Enters(toks, l, To(l)[l - 1])
    BY <2>1 DEF EntersUpTo
  <2>3. CASE l = 0
    <3>1. Enters(toks, 0, To(l)[l - 1]) = Enters(toks, 0, F[l - 1])
      BY EntersNoLayer
    <3> QED
      BY <1>4, <2>2, <2>3, <3>1
  <2>4. CASE l # 0
    <3>1. l - 1 \in Nat /\ l - 1 <= l /\ l - 1 <= l - 1
      BY <2>4
    <3>2. EntersUpTo(toks, l - 1, To(l - 1))
      BY <1>3, <3>1
    <3>3. To(l)[l - 1] = To(l - 1)[l - 1]
      BY <2>1, <3>1, <3>2, EntersOnce
    <3>4. F[l - 1] = To(l - 1)[l - 1]
      BY <1>4, <3>1
    <3> QED
      BY <1>4, <2>2, <3>3, <3>4
  <2> QED
    BY <2>3, <2>4
<1>7. Eq(F)
  <2>1. F = [l \in Nat |-> Enters(toks, l, F[l - 1])]
    BY <1>5, <1>6
  <2>2. Body(F) = [l \in Nat |-> Enters(toks, l, F[l - 1])]
    BY <1>2
  <2> QED
    BY <2>1, <2>2
<1>8. Eq(In)
  <2> HIDE DEF Eq
  <2> QED
    BY <1>7
<1>9. In = Body(In)
  BY <1>8
<1> HIDE DEF In
<1>10. In = [l \in Nat |-> Enters(toks, l, In[l - 1])]
  <2>1. Body(In) = [l \in Nat |-> Enters(toks, l, In[l - 1])]
    BY <1>2
  <2> HIDE DEF Body
  <2> QED
    BY <1>9, <2>1
<1>11. \A l \in Nat : In[l] = Enters(toks, l, In[l - 1])
  BY <1>10
<1> QED
  BY <1>1, <1>11

(* What enters a layer at a position, for layer 0 and for the next layer. *)
LEMMA EmbeddingEnters ==
  ASSUME NEW toks, NEW q \in 0 .. Len(toks) - 1
  PROVE  LayerIn(toks)[0][q] = Emb(toks[q + 1])
<1>1. LayerIn(toks)[0] = Enters(toks, 0, LayerIn(toks)[0 - 1])
  BY LayerInIs
<1> DEFINE xs == LayerIn(toks)[0 - 1]
<1> HIDE DEF xs
<1>2. Enters(toks, 0, xs)[q] = Emb(toks[q + 1])
  BY DEF Enters
<1> QED
  BY <1>1, <1>2 DEF xs

LEMMA LayerEnters ==
  ASSUME NEW toks, NEW l \in Nat, NEW q \in 0 .. Len(toks) - 1
  PROVE  LayerIn(toks)[l + 1][q] = LayerForward(l, LayerIn(toks)[l], q)
<1>1. l + 1 \in Nat /\ (l + 1) - 1 = l /\ l + 1 # 0
  OBVIOUS
<1>2. LayerIn(toks)[l + 1] = Enters(toks, l + 1, LayerIn(toks)[(l + 1) - 1])
  BY <1>1, LayerInIs
<1> DEFINE xs == LayerIn(toks)[l]
<1>3. LayerIn(toks)[l + 1] = Enters(toks, l + 1, xs)
  BY <1>1, <1>2
<1> HIDE DEF xs
<1>4. Enters(toks, l + 1, xs)[q] = LayerForward(l, xs, q)
  BY <1>1 DEF Enters
<1> QED
  BY <1>3, <1>4 DEF xs

(* What enters a layer at a position depends on the tokens up to it alone.  *)
LEMMA EarlierTokens ==
  ASSUME NEW s, NEW u, NEW n \in Nat, Len(s) \in Nat, Len(u) \in Nat, n <= Len(s), n <= Len(u),
         \A i \in 1 .. n : s[i] = u[i]
  PROVE  \A l \in Nat : \A q \in 0 .. n - 1 : LayerIn(s)[l][q] = LayerIn(u)[l][q]
<1> DEFINE S == {l \in Nat : \A q \in 0 .. n - 1 : LayerIn(s)[l][q] = LayerIn(u)[l][q]}
<1>0. \A q \in 0 .. n - 1 : q \in 0 .. Len(s) - 1 /\ q \in 0 .. Len(u) - 1 /\ q + 1 \in 1 .. n
  OBVIOUS
<1>1. 0 \in S
  <2>1. ASSUME NEW q \in 0 .. n - 1 PROVE LayerIn(s)[0][q] = LayerIn(u)[0][q]
    BY <1>0, EmbeddingEnters
  <2> QED
    BY <2>1
<1>2. ASSUME NEW l \in Nat, l \in S PROVE l + 1 \in S
  <2> SUFFICES ASSUME NEW q \in 0 .. n - 1 PROVE LayerIn(s)[l + 1][q] = LayerIn(u)[l + 1][q]
    OBVIOUS
  <2> DEFINE xs == LayerIn(s)[l]
             ys == LayerIn(u)[l]
  <2>1. \A i \in 0 .. n - 1 : xs[i] = ys[i]
    BY <1>2
  <2> HIDE DEF xs, ys
  <2>2. [i \in 1 .. q + 1 |-> KvRow(l, i - 1, xs[i - 1])] = [i \in 1 .. q + 1 |-> KvRow(l, i - 1, ys[i - 1])]
    <3>1. \A i \in 1 .. q + 1 : i - 1 \in 0 .. n - 1
      OBVIOUS
    <3> QED
      BY <2>1, <3>1
  <2>3. LayerForward(l, xs, q) = LayerForward(l, ys, q)
    <3>1. Attention(l, xs, q) = Attention(l, ys, q)
      BY <2>1, <2>2 DEF Attention
    <3> QED
      BY <2>1, <3>1, Zenon DEF LayerForward
  <2>4. LayerIn(s)[l + 1][q] = LayerForward(l, xs, q) /\ LayerIn(u)[l + 1][q] = LayerForward(l, ys, q)
    BY <1>0, LayerEnters DEF xs, ys
  <2> QED
    BY <2>3, <2>4
<1>3. \A l \in Nat : l \in S
  <2> HIDE DEF S
  <2> QED
    BY <1>1, <1>2, ByInduction
<1> QED
  BY <1>3

-----------------------------------------------------------------------------
(* Commands one after the other. *)

(* Two, three and four commands. *)
LEMMA TakesTwo ==
  ASSUME NEW s, NEW k, NEW a0, NEW a1, NEW a2, NEW c, NEW d,
         Takes(s, k, a0, <<c>>, a1), Takes(s, k, a1, <<d>>, a2)
  PROVE  Takes(s, k, a0, <<c, d>>, a2)
<1>1. <<c>> \o <<d>> = <<c, d>>
  <2>1. c \in {c, d} /\ d \in {c, d}
    OBVIOUS
  <2> QED
    BY <2>1, TwoAre, Zenon
<1>2. Takes(s, k, a0, <<c>> \o <<d>>, a2)
  BY TakesOn
<1> QED
  BY <1>1, <1>2, Zenon

LEMMA TakesThree ==
  ASSUME NEW s, NEW k, NEW a0, NEW a1, NEW a2, NEW a3, NEW c, NEW d, NEW e,
         Takes(s, k, a0, <<c>>, a1), Takes(s, k, a1, <<d>>, a2), Takes(s, k, a2, <<e>>, a3)
  PROVE  Takes(s, k, a0, <<c, d, e>>, a3)
<1>1. <<c, d>> \o <<e>> = <<c, d, e>>
  <2>1. c \in {c, d, e} /\ d \in {c, d, e} /\ e \in {c, d, e}
    OBVIOUS
  <2> QED
    BY <2>1, ThreeAre, Zenon
<1>2. Takes(s, k, a0, <<c, d>>, a2)
  BY TakesTwo, Zenon
<1>3. Takes(s, k, a0, <<c, d>> \o <<e>>, a3)
  BY <1>2, TakesOn, Zenon
<1> QED
  BY <1>1, <1>3, Zenon

LEMMA TakesFour ==
  ASSUME NEW s, NEW k, NEW a0, NEW a1, NEW a2, NEW a3, NEW a4, NEW c, NEW d, NEW e, NEW f,
         Takes(s, k, a0, <<c>>, a1), Takes(s, k, a1, <<d>>, a2), Takes(s, k, a2, <<e>>, a3),
         Takes(s, k, a3, <<f>>, a4)
  PROVE  Takes(s, k, a0, <<c, d, e, f>>, a4)
<1>1. <<c, d, e>> \o <<f>> = <<c, d, e, f>>
  <2>1. c \in {c, d, e, f} /\ d \in {c, d, e, f} /\ e \in {c, d, e, f} /\ f \in {c, d, e, f}
    OBVIOUS
  <2> QED
    BY <2>1, FourAre, Zenon
<1>2. Takes(s, k, a0, <<c, d, e>>, a3)
  BY TakesThree, Zenon
<1>3. Takes(s, k, a0, <<c, d, e>> \o <<f>>, a4)
  BY <1>2, TakesOn, Zenon
<1> QED
  BY <1>1, <1>3, Zenon

-----------------------------------------------------------------------------
(* Kernels on all rows of a pass. *)

Copied(k, m, e, x, to) ==
  /\ Same(e, m, {to}) /\ \A t \in 0 .. Len(k) - 1 : e[to][t] = m[x][t]
Made0(k, m, e, f, l, to) ==
  /\ Same(e, m, {to}) /\ \A t \in 0 .. Len(k) - 1 : e[to][t] = <<f, l>>
Made1(k, m, e, f, l, x, to) ==
  /\ Same(e, m, {to}) /\ \A t \in 0 .. Len(k) - 1 : e[to][t] = <<f, l, m[x][t]>>
Made2(k, m, e, f, l, x, y, to) ==
  /\ Same(e, m, {to}) /\ \A t \in 0 .. Len(k) - 1 : e[to][t] = <<f, l, m[x][t], m[y][t]>>
Made3(k, m, e, f, l, x, y, z, to) ==
  /\ Same(e, m, {to}) /\ \A t \in 0 .. Len(k) - 1 : e[to][t] = <<f, l, m[x][t], m[y][t], m[z][t]>>

(* What Kernel gives is a kernel. *)
LEMMA IsAKernel ==
  ASSUME NEW f \in Functions, NEW l, NEW from, NEW to \in Buffers, NEW M
  PROVE  IsKernel(Kernel(f, l, from, to, M))
BY DEF IsKernel, Kernel

(* The rows a kernel of the whole pass has written. *)
RowsDone(k, m, e, c, to) ==
  /\ Same(e, m, {to}) /\ \A t \in 0 .. Len(k) - 1 : e[to][t] = Value(m, c, t)

(* Its rows are the first ones, as many as the pass has tokens. *)
LEMMA RowsAre ==
  ASSUME NEW s, NEW k, Fits(s, k), NEW m, NEW e, NEW c, NEW to, c.to = to,
         c.rows = 0 .. Len(k) - 1, KernelDone(m, e, c)
  PROVE  RowsDone(k, m, e, c, to)
<1>1. 0 .. Len(k) - 1 \subseteq Rows
  BY Sizes
<1> QED
  BY <1>1 DEF KernelDone, RowsDone

(* The dispatch of a kernel, by what it does and its number of operands. *)
LEMMA CopyTakes ==
  ASSUME NEW s, NEW k, NEW a, Fits(s, k), Safe(s, k, a), NEW l, NEW x, NEW to \in Buffers
  PROVE  \E b : /\ Takes(s, k, a, <<Kernel("copy", l, <<x>>, to, Len(k))>>, b) /\ Safe(s, k, b)
                /\ b.idx = a.idx /\ Copied(k, a.mem, b.mem, x, to)
<1> DEFINE c == Kernel("copy", l, <<x>>, to, Len(k))
<1>1. c.f = "copy" /\ c.from = <<x>> /\ c.off = 0 /\ IsKernel(c) /\ c.to = to /\ c.rows = 0 .. Len(k) - 1
  BY IsAKernel, Names DEF Kernel
<1>2. BoundTo(a.idx, c) = c
  BY <1>1, BoundKernel
<1>3. PICK b : /\ Takes(s, k, a, <<c>>, b) /\ Safe(s, k, b) /\ b.idx = a.idx
               /\ KernelDone(a.mem, b.mem, c)
  BY <1>1, <1>2, KernelTakes
<1>r. RowsDone(k, a.mem, b.mem, c, to)
  BY <1>1, <1>3, RowsAre
<1> HIDE DEF c
<1>4. \A t \in 0 .. Len(k) - 1 : Value(a.mem, c, t) = a.mem[x][t]
  BY <1>1, CopyValue
<1>5. Copied(k, a.mem, b.mem, x, to)
  BY <1>r, <1>4 DEF Copied, RowsDone
<1> QED
  BY <1>3, <1>5 DEF c

LEMMA NoOperandTakes ==
  ASSUME NEW s, NEW k, NEW a, Fits(s, k), Safe(s, k, a), NEW f \in Plain, NEW l, NEW to \in Buffers,
         NEW c, c = Kernel(f, l, <<>>, to, Len(k))
  PROVE  \E b : /\ Takes(s, k, a, <<c>>, b) /\ Safe(s, k, b) /\ b.idx = a.idx
                /\ Made0(k, a.mem, b.mem, f, l, to)
                /\ Apart(c) => b.used = a.used
<1>1. c.f = f /\ c.from = <<>> /\ c.off = 0 /\ c.l = l /\ IsKernel(c)
      /\ c.to = to /\ c.rows = 0 .. Len(k) - 1 /\ f \in Functions /\ f # "experts"
  BY IsAKernel DEF Kernel, Plain
<1>2. BoundTo(a.idx, c) = c
  BY <1>1, BoundKernel
<1>3. PICK b : /\ Takes(s, k, a, <<c>>, b) /\ Safe(s, k, b) /\ b.idx = a.idx
               /\ KernelDone(a.mem, b.mem, c)
               /\ Apart(c) => b.used = a.used
  BY <1>1, <1>2, KernelTakes
<1>r. RowsDone(k, a.mem, b.mem, c, to)
  BY <1>1, <1>3, RowsAre
<1>4. \A t \in 0 .. Len(k) - 1 : Value(a.mem, c, t) = <<f, l>>
  BY <1>1, NoOperandValue
<1>5. Made0(k, a.mem, b.mem, f, l, to)
  BY <1>r, <1>4 DEF Made0, RowsDone
<1> QED
  BY <1>3, <1>5

LEMMA OneOperandTakes ==
  ASSUME NEW s, NEW k, NEW a, Fits(s, k), Safe(s, k, a), NEW f \in Plain, NEW l, NEW x,
         NEW to \in Buffers, NEW c, c = Kernel(f, l, <<x>>, to, Len(k))
  PROVE  \E b : /\ Takes(s, k, a, <<c>>, b) /\ Safe(s, k, b) /\ b.idx = a.idx
                /\ Made1(k, a.mem, b.mem, f, l, x, to)
<1>1. c.f = f /\ c.from = <<x>> /\ c.off = 0 /\ c.l = l /\ IsKernel(c)
      /\ c.to = to /\ c.rows = 0 .. Len(k) - 1 /\ f \in Functions /\ f # "experts"
  BY IsAKernel DEF Kernel, Plain
<1>2. BoundTo(a.idx, c) = c
  BY <1>1, BoundKernel
<1>3. PICK b : /\ Takes(s, k, a, <<c>>, b) /\ Safe(s, k, b) /\ b.idx = a.idx
               /\ KernelDone(a.mem, b.mem, c)
  BY <1>1, <1>2, KernelTakes
<1>r. RowsDone(k, a.mem, b.mem, c, to)
  BY <1>1, <1>3, RowsAre
<1>4. ASSUME NEW t \in 0 .. Len(k) - 1 PROVE Value(a.mem, c, t) = <<f, l, a.mem[x][t]>>
  <2>1. Value(a.mem, c, t) = <<c.f, c.l, a.mem[x][t + c.off]>>
    BY <1>1, OneOperandValue
  <2>2. t + c.off = t
    BY <1>1
  <2> QED
    BY <1>1, <2>1, <2>2
<1>5. Made1(k, a.mem, b.mem, f, l, x, to)
  BY <1>r, <1>4 DEF Made1, RowsDone
<1> QED
  BY <1>3, <1>5

LEMMA TwoOperandTakes ==
  ASSUME NEW s, NEW k, NEW a, Fits(s, k), Safe(s, k, a), NEW f \in Plain, NEW l, NEW x, NEW y,
         NEW to \in Buffers, NEW c, c = Kernel(f, l, <<x, y>>, to, Len(k))
  PROVE  \E b : /\ Takes(s, k, a, <<c>>, b) /\ Safe(s, k, b) /\ b.idx = a.idx
                /\ Made2(k, a.mem, b.mem, f, l, x, y, to)
                /\ Apart(c) => b.used = a.used
<1>1. c.f = f /\ c.from = <<x, y>> /\ c.off = 0 /\ c.l = l /\ IsKernel(c)
      /\ c.to = to /\ c.rows = 0 .. Len(k) - 1 /\ f \in Functions /\ f # "experts"
  BY IsAKernel DEF Kernel, Plain
<1>2. BoundTo(a.idx, c) = c
  BY <1>1, BoundKernel
<1>3. PICK b : /\ Takes(s, k, a, <<c>>, b) /\ Safe(s, k, b) /\ b.idx = a.idx
               /\ KernelDone(a.mem, b.mem, c)
               /\ Apart(c) => b.used = a.used
  BY <1>1, <1>2, KernelTakes
<1>r. RowsDone(k, a.mem, b.mem, c, to)
  BY <1>1, <1>3, RowsAre
<1>4. ASSUME NEW t \in 0 .. Len(k) - 1 PROVE Value(a.mem, c, t) = <<f, l, a.mem[x][t], a.mem[y][t]>>
  <2>1. Value(a.mem, c, t) = <<c.f, c.l, a.mem[x][t + c.off], a.mem[y][t + c.off]>>
    BY <1>1, TwoOperandValue
  <2>2. t + c.off = t
    BY <1>1
  <2> QED
    BY <1>1, <2>1, <2>2
<1>5. Made2(k, a.mem, b.mem, f, l, x, y, to)
  BY <1>r, <1>4 DEF Made2, RowsDone
<1> QED
  BY <1>3, <1>5

LEMMA ThreeOperandTakes ==
  ASSUME NEW s, NEW k, NEW a, Fits(s, k), Safe(s, k, a), NEW f \in Plain, NEW l, NEW x, NEW y, NEW z,
         NEW to \in Buffers, NEW c, c = Kernel(f, l, <<x, y, z>>, to, Len(k))
  PROVE  \E b : /\ Takes(s, k, a, <<c>>, b) /\ Safe(s, k, b) /\ b.idx = a.idx
                /\ Made3(k, a.mem, b.mem, f, l, x, y, z, to)
<1>1. c.f = f /\ c.from = <<x, y, z>> /\ c.off = 0 /\ c.l = l /\ IsKernel(c)
      /\ c.to = to /\ c.rows = 0 .. Len(k) - 1 /\ f \in Functions /\ f # "experts"
  BY IsAKernel DEF Kernel, Plain
<1>2. BoundTo(a.idx, c) = c
  BY <1>1, BoundKernel
<1>3. PICK b : /\ Takes(s, k, a, <<c>>, b) /\ Safe(s, k, b) /\ b.idx = a.idx
               /\ KernelDone(a.mem, b.mem, c)
  BY <1>1, <1>2, KernelTakes
<1>r. RowsDone(k, a.mem, b.mem, c, to)
  BY <1>1, <1>3, RowsAre
<1>4. ASSUME NEW t \in 0 .. Len(k) - 1
      PROVE  Value(a.mem, c, t) = <<f, l, a.mem[x][t], a.mem[y][t], a.mem[z][t]>>
  <2>1. Value(a.mem, c, t) = <<c.f, c.l, a.mem[x][t + c.off], a.mem[y][t + c.off], a.mem[z][t + c.off]>>
    BY <1>1, ThreeOperandValue, SMTT(20)
  <2>2. t + c.off = t
    BY <1>1
  <2> QED
    BY <1>1, <2>1, <2>2
<1>5. Made3(k, a.mem, b.mem, f, l, x, y, z, to)
  BY <1>r, <1>4 DEF Made3, RowsDone
<1> QED
  BY <1>3, <1>5

(* The experts the host chose. *)
Expert(k, m, e, l, idx) ==
  /\ Same(e, m, {"ffn_out"})
  /\ \A t \in 0 .. Len(k) - 1 : e.ffn_out[t] = <<"moe", l, m.ffn_out[t], m.norm[t], idx[l][t]>>

(* The experts that get the choice of the host. *)
LEMMA ExpertsTake ==
  ASSUME NEW s, NEW k, NEW a, Fits(s, k), Safe(s, k, a), NEW l
  PROVE  \E b : /\ Takes(s, k, a, Experts(l, Len(k)), b) /\ Safe(s, k, b) /\ b.idx = a.idx
                /\ Expert(k, a.mem, b.mem, l, a.idx)
<1> DEFINE c == Kernel("experts", l, <<"ffn_out", "norm">>, "ffn_out", Len(k))
           d == BoundTo(a.idx, c)
<1>1. c.f = "experts" /\ c.from = <<"ffn_out", "norm">> /\ c.off = 0 /\ c.l = l /\ IsKernel(c)
      /\ c.to = "ffn_out" /\ c.rows = 0 .. Len(k) - 1
  BY IsAKernel, Names DEF Kernel
<1>2. d.f = "experts" /\ d.from = <<"ffn_out", "norm">> /\ d.off = 0 /\ d.l = l /\ d.choice = a.idx[l]
      /\ d.to = "ffn_out" /\ d.rows = 0 .. Len(k) - 1
  BY <1>1, BoundKernel
<1> HIDE DEF d
<1>3. PICK b : /\ Takes(s, k, a, <<c>>, b) /\ Safe(s, k, b) /\ b.idx = a.idx
               /\ KernelDone(a.mem, b.mem, d)
  BY <1>1, <1>2, KernelTakes DEF d
<1>r. RowsDone(k, a.mem, b.mem, d, "ffn_out")
  BY <1>2, <1>3, RowsAre
<1> HIDE DEF c
<1>4. ASSUME NEW t \in 0 .. Len(k) - 1
      PROVE  Value(a.mem, d, t) = <<"moe", l, a.mem["ffn_out"][t], a.mem["norm"][t], a.idx[l][t]>>
  <2>1. Value(a.mem, d, t) = <<"moe", d.l, a.mem["ffn_out"][t + d.off], a.mem["norm"][t + d.off], d.choice[t]>>
    BY <1>2, ExpertsValue
  <2>2. t + d.off = t
    BY <1>2
  <2> QED
    BY <1>2, <2>1, <2>2
<1>5. Expert(k, a.mem, b.mem, l, a.idx)
  BY <1>r, <1>4 DEF Expert, RowsDone
<1> QED
  BY <1>3, <1>5 DEF c, Experts

(* The experts the fused kernels choose. *)
FusedExpert(k, m, e, l) ==
  /\ Same(e, m, {"ffn_out"})
  /\ \A t \in 0 .. Len(k) - 1 :
       e.ffn_out[t] = <<"moe", l, m.ffn_out[t], m.norm[t], Chosen(<<"router", l, m.norm[t]>>)>>

(* The experts that route by themselves. *)
LEMMA FusedTakes ==
  ASSUME NEW s, NEW k, NEW a, Fits(s, k), Safe(s, k, a), NEW l,
         NEW c, c = Kernel("fused", l, <<"ffn_out", "norm">>, "ffn_out", Len(k))
  PROVE  \E b : /\ Takes(s, k, a, <<c>>, b) /\ Safe(s, k, b) /\ b.idx = a.idx
                /\ FusedExpert(k, a.mem, b.mem, l)
<1>1. c.f = "fused" /\ c.from = <<"ffn_out", "norm">> /\ c.off = 0 /\ c.l = l /\ IsKernel(c)
      /\ c.to = "ffn_out" /\ c.rows = 0 .. Len(k) - 1
  BY IsAKernel, Names DEF Kernel
<1>2. BoundTo(a.idx, c) = c
  BY <1>1, BoundKernel
<1>3. PICK b : /\ Takes(s, k, a, <<c>>, b) /\ Safe(s, k, b) /\ b.idx = a.idx
               /\ KernelDone(a.mem, b.mem, c)
  BY <1>1, <1>2, KernelTakes
<1>r. RowsDone(k, a.mem, b.mem, c, "ffn_out")
  BY <1>1, <1>3, RowsAre
<1>4. ASSUME NEW t \in 0 .. Len(k) - 1
      PROVE  Value(a.mem, c, t) = <<"moe", l, a.mem["ffn_out"][t], a.mem["norm"][t],
                                    Chosen(<<"router", l, a.mem.norm[t]>>)>>
  <2>1. Value(a.mem, c, t) = <<"moe", c.l, a.mem["ffn_out"][t + c.off], a.mem["norm"][t + c.off],
                               Chosen(<<"router", c.l, a.mem.norm[t]>>)>>
    BY <1>1, FusedValue
  <2>2. t + c.off = t
    BY <1>1
  <2> QED
    BY <1>1, <2>1, <2>2
<1>5. FusedExpert(k, a.mem, b.mem, l)
  BY <1>r, <1>4 DEF FusedExpert, RowsDone
<1> QED
  BY <1>3, <1>5

-----------------------------------------------------------------------------
(* Kernels that leave the lists of the gathered experts alone. *)

(* Kernels that neither read nor write the lists. *)
LEMMA ApartKernel ==
  ASSUME NEW c, c.f \in Functions, c.to \in Buffers \ {"gather"},
         \A m, v : IsMem(m) => \A t : Value(With(m, v), c, t) = Value(m, c, t)
  PROVE  Apart(c)
<1> SUFFICES ASSUME NEW m, NEW v, IsMem(m)
             PROVE  /\ IsMem(Effect(m, c)) /\ Effect(m, c).gather = m.gather
                    /\ Effect(With(m, v), c) = With(Effect(m, c), v)
  BY DEF Apart
<1>1. IsMem(Effect(m, c)) /\ KernelDone(m, Effect(m, c), c)
  BY KernelEffect
<1>2. Effect(m, c).gather = m.gather
  <2>1. "gather" \in Fields
    BY DEF Fields
  <2> QED
    BY <1>1, <2>1 DEF KernelDone, Same
<1>3. c.f # "attention" /\ c.f # "router" /\ c.f # "top_k"
  BY DEF Functions
<1> DEFINE w == With(m, v)
           row(n) == [t \in Rows |-> IF t \in c.rows THEN Value(n, c, t) ELSE n[c.to][t]]
<1>4. ASSUME NEW n PROVE Effect(n, c) = [n EXCEPT ![c.to] = row(n)]
  <2>1. Effect(n, c) = [n EXCEPT ![c.to] = [t \in Rows |-> IF t \in c.rows THEN Value(n, c, t) ELSE @[t]]]
    BY <1>3, Zenon DEF Effect
  <2> QED
    BY <2>1
<1>5. row(w) = row(m)
  <2>1. w[c.to] = m[c.to]
    BY DEF With, IsMem, Fields, Buffers
  <2>2. \A t : Value(w, c, t) = Value(m, c, t)
    OBVIOUS
  <2> HIDE DEF w
  <2> QED
    BY <2>1, <2>2
<1>6. Effect(m, c) = [m EXCEPT ![c.to] = row(m)] /\ Effect(w, c) = [w EXCEPT ![c.to] = row(m)]
  <2> HIDE DEF row, w
  <2> QED
    BY <1>4, <1>5
<1> HIDE DEF row
<1>7. [w EXCEPT ![c.to] = row(m)] = With([m EXCEPT ![c.to] = row(m)], v)
  <2> DEFINE r == row(m)
  <2> HIDE DEF r
  <2>1. [With(m, v) EXCEPT ![c.to] = r] = With([m EXCEPT ![c.to] = r], v)
    BY DEF With, IsMem, Fields, Buffers
  <2> QED
    BY <2>1 DEF r
<1>8. Effect(w, c) = With(Effect(m, c), v)
  BY <1>6, <1>7, Zenon
<1> QED
  BY <1>1, <1>2, <1>8

LEMMA ApartZero ==
  ASSUME NEW M
  PROVE  Apart(Kernel("zero", 0, <<>>, "ffn_out", M))
<1> DEFINE c == Kernel("zero", 0, <<>>, "ffn_out", M)
<1>1. c.f = "zero" /\ c.from = <<>> /\ c.to = "ffn_out" /\ c.l = 0
  BY DEF Kernel
<1> HIDE DEF c
<1>2. "zero" \in Plain
  BY DEF Plain, Functions
<1>3. \A m, t : Value(m, c, t) = <<"zero", 0>>
  BY <1>1, <1>2, NoOperandValue
<1>4. c.f \in Functions /\ c.to \in Buffers \ {"gather"}
  BY <1>1 DEF Functions, Buffers
<1>5. Apart(c)
  BY <1>3, <1>4, ApartKernel
<1> QED
  BY <1>5 DEF c

LEMMA ApartShared ==
  ASSUME NEW l, NEW M
  PROVE  Apart(Kernel("shared", l, <<"ffn_out", "norm">>, "ffn_out", M))
<1> DEFINE c == Kernel("shared", l, <<"ffn_out", "norm">>, "ffn_out", M)
<1>1. c.f = "shared" /\ c.from = <<"ffn_out", "norm">> /\ c.to = "ffn_out" /\ c.l = l
  BY DEF Kernel
<1> HIDE DEF c
<1>2. c.f \in Plain
  BY <1>1 DEF Plain, Functions
<1>3. \A m, t : Value(m, c, t) = <<"shared", l, m["ffn_out"][t + c.off], m["norm"][t + c.off]>>
  BY <1>1, <1>2, TwoOperandValue
<1>4. \A m, v : IsMem(m) => With(m, v)["ffn_out"] = m["ffn_out"] /\ With(m, v)["norm"] = m["norm"]
  BY DEF With, IsMem, Fields
<1>5. \A m, v : IsMem(m) => \A t : Value(With(m, v), c, t) = Value(m, c, t)
  BY <1>3, <1>4
<1>6. c.f \in Functions /\ c.to \in Buffers \ {"gather"}
  BY <1>1 DEF Functions, Buffers
<1>7. Apart(c)
  BY <1>5, <1>6, ApartKernel
<1> QED
  BY <1>7 DEF c

-----------------------------------------------------------------------------
(* What the rows of a buffer are in the pass for the tokens k after s. *)

IsRows(k, xs, vs) == \A t \in 0 .. Len(k) - 1 : xs[t] = vs[t]
Row1(k, f, l, u) == [t \in 0 .. Len(k) - 1 |-> <<f, l, u[t]>>]
Row2(k, f, l, u, v) == [t \in 0 .. Len(k) - 1 |-> <<f, l, u[t], v[t]>>]
Row3(k, f, l, u, v, w) == [t \in 0 .. Len(k) - 1 |-> <<f, l, u[t], v[t], w[t]>>]

Ins(s, k, l) == [t \in 0 .. Len(k) - 1 |-> LayerIn(s \o k)[l][Len(s) + t]]
Qkvs(s, k, l) == Row1(k, "qk_norm", l, Row1(k, "qkv", l, Row1(k, "attn_norm", l, Ins(s, k, l))))
Looks(s, k, l) == [t \in 0 .. Len(k) - 1 |->
  <<"attention", l, KvRow(l, Len(s) + t, LayerIn(s \o k)[l][Len(s) + t]),
    [i \in 1 .. Len(s) + t + 1 |-> KvRow(l, i - 1, LayerIn(s \o k)[l][i - 1])]>>]
Mids(s, k, l) == Row2(k, "add", 0, Row1(k, "attn_output", l, Looks(s, k, l)), Ins(s, k, l))
Norms(s, k, l) == Row1(k, "ffn_norm", l, Mids(s, k, l))
Routes(s, k, l) == [t \in 0 .. Len(k) - 1 |-> Chosen(<<"router", l, Norms(s, k, l)[t]>>)]
Zeros(k) == [t \in 0 .. Len(k) - 1 |-> <<"zero", 0>>]
Bases(s, k, l) ==
  IF HasShared THEN Row2(k, "shared", l, Zeros(k), Norms(s, k, l)) ELSE Zeros(k)
Moes(s, k, l) == Row3(k, "moe", l, Bases(s, k, l), Norms(s, k, l), Routes(s, k, l))

(* The rows of a buffer after a kernel, from those of its operands. *)
LEMMA CopiedRows ==
  ASSUME NEW k, NEW m, NEW e, NEW x, NEW to, NEW v, Copied(k, m, e, x, to), IsRows(k, m[x], v)
  PROVE  IsRows(k, e[to], v)
BY DEF Copied, IsRows

LEMMA ZeroRows ==
  ASSUME NEW k, NEW m, NEW e, NEW to, Made0(k, m, e, "zero", 0, to)
  PROVE  IsRows(k, e[to], Zeros(k))
BY DEF Made0, IsRows, Zeros

LEMMA OneRows ==
  ASSUME NEW k, NEW m, NEW e, NEW f, NEW l, NEW x, NEW to, NEW u,
         Made1(k, m, e, f, l, x, to), IsRows(k, m[x], u)
  PROVE  IsRows(k, e[to], Row1(k, f, l, u))
BY DEF Made1, IsRows, Row1

LEMMA TwoRows ==
  ASSUME NEW k, NEW m, NEW e, NEW f, NEW l, NEW x, NEW y, NEW to, NEW u, NEW v,
         Made2(k, m, e, f, l, x, y, to), IsRows(k, m[x], u), IsRows(k, m[y], v)
  PROVE  IsRows(k, e[to], Row2(k, f, l, u, v))
BY DEF Made2, IsRows, Row2

LEMMA ThreeRows ==
  ASSUME NEW k, NEW m, NEW e, NEW f, NEW l, NEW x, NEW y, NEW z, NEW to, NEW u, NEW v, NEW w,
         Made3(k, m, e, f, l, x, y, z, to), IsRows(k, m[x], u), IsRows(k, m[y], v), IsRows(k, m[z], w)
  PROVE  IsRows(k, e[to], Row3(k, f, l, u, v, w))
BY DEF Made3, IsRows, Row3

(* The rows of ffn_out after the experts. *)
LEMMA ExpertRows ==
  ASSUME NEW k, NEW m, NEW e, NEW l, NEW idx, NEW u, NEW v, NEW w, Expert(k, m, e, l, idx),
         IsRows(k, m["ffn_out"], u), IsRows(k, m["norm"], v), IsRows(k, idx[l], w)
  PROVE  IsRows(k, e["ffn_out"], Row3(k, "moe", l, u, v, w))
BY DEF Expert, IsRows, Row3

LEMMA FusedRows ==
  ASSUME NEW s, NEW k, NEW m, NEW e, NEW l, NEW u, FusedExpert(k, m, e, l),
         IsRows(k, m["ffn_out"], u), IsRows(k, m["norm"], Norms(s, k, l))
  PROVE  IsRows(k, e["ffn_out"], Row3(k, "moe", l, u, Norms(s, k, l), Routes(s, k, l)))
<1> DEFINE v == Norms(s, k, l)
<1>1. \A t \in 0 .. Len(k) - 1 : Routes(s, k, l)[t] = Chosen(<<"router", l, v[t]>>)
  BY DEF Routes
<1> HIDE DEF v
<1> DEFINE w == Routes(s, k, l)
<1>2. \A t \in 0 .. Len(k) - 1 : w[t] = Chosen(<<"router", l, v[t]>>)
  BY <1>1
<1> HIDE DEF w
<1>3. IsRows(k, m["norm"], v)
  BY DEF v
<1>4. \A t \in 0 .. Len(k) - 1 : m["norm"][t] = v[t] /\ m["ffn_out"][t] = u[t]
  BY <1>3 DEF IsRows
<1>5. \A t \in 0 .. Len(k) - 1 : e["ffn_out"][t] = <<"moe", l, u[t], v[t], w[t]>>
  BY <1>2, <1>4 DEF FusedExpert
<1>6. IsRows(k, e["ffn_out"], Row3(k, "moe", l, u, v, w))
  BY <1>5 DEF IsRows, Row3
<1> QED
  BY <1>6 DEF v, w

-----------------------------------------------------------------------------
(* States of a pass between the pieces of its layers. *)

(* Layer l is entered. *)
Entered(s, k, l, a) ==
  /\ Safe(s, k, a)
  /\ IsRows(k, a.mem.hidden, Ins(s, k, l)) /\ FilledTo(s \o k, a.mem.kv, l)

(* i rows of layer l have looked at the positions before them. *)
Looked(s, k, l, i, a) ==
  /\ Safe(s, k, a)
  /\ IsRows(k, a.mem.qkv, Qkvs(s, k, l)) /\ IsRows(k, a.mem.residual, Ins(s, k, l))
  /\ FilledTo(s \o k, a.mem.kv, l)
  /\ \A q \in 0 .. Len(s) + i - 1 : a.mem.kv[l][q] = KvRow(l, q, LayerIn(s \o k)[l][q])
  /\ \A t \in 0 .. i - 1 : a.mem.attn_out[t] = Looks(s, k, l)[t]

(* The attention branch of layer l is done. *)
Half(s, k, l, a) ==
  /\ Safe(s, k, a)
  /\ IsRows(k, a.mem.residual, Mids(s, k, l)) /\ IsRows(k, a.mem.norm, Norms(s, k, l))
  /\ FilledTo(s \o k, a.mem.kv, l + 1)

(* i rows of it have been routed; v is what was in ffn_out. *)
Routing(s, k, l, i, v, a) ==
  /\ Half(s, k, l, a) /\ a.mem.ffn_out = v
  /\ \A t \in 0 .. i - 1 : a.mem.gate[l * Len(k) + t] = <<"router", l, Norms(s, k, l)[t]>>

(* The host knows the choice of layer l, and its ffn_out is zero already if v. *)
Ready(s, k, l, v, a) ==
  /\ Half(s, k, l, a) /\ IsRows(k, a.idx[l], Routes(s, k, l))
  /\ v => IsRows(k, a.mem.ffn_out, Zeros(k))

Stage(what, s, k, l, i, v, a) ==
  CASE what = "enter" -> Entered(s, k, i, a)
    [] what = "look"  -> Looked(s, k, l, i, a)
    [] what = "route" -> Routing(s, k, l, i, v, a)
    [] what = "ready" -> Ready(s, k, i, v, a)

(* What each stage is. *)
LEMMA StageIs ==
  ASSUME NEW s, NEW k, NEW l, NEW i, NEW v, NEW a
  PROVE  /\ Stage("enter", s, k, l, i, v, a) <=> Entered(s, k, i, a)
         /\ Stage("look", s, k, l, i, v, a) <=> Looked(s, k, l, i, a)
         /\ Stage("route", s, k, l, i, v, a) <=> Routing(s, k, l, i, v, a)
         /\ Stage("ready", s, k, l, i, v, a) <=> Ready(s, k, i, v, a)
<1>1. Stage("enter", s, k, l, i, v, a) <=> Entered(s, k, i, a)
  BY Zenon DEF Stage
<1>2. Stage("look", s, k, l, i, v, a) <=> Looked(s, k, l, i, a)
  BY Zenon DEF Stage
<1>3. Stage("route", s, k, l, i, v, a) <=> Routing(s, k, l, i, v, a)
  BY Zenon DEF Stage
<1>4. Stage("ready", s, k, l, i, v, a) <=> Ready(s, k, i, v, a)
  BY Zenon DEF Stage
<1> QED
  BY <1>1, <1>2, <1>3, <1>4

Advances(what, s, k, l, v, n, ss) ==
  \A i \in 0 .. n - 1 : \A a : Stage(what, s, k, l, i, v, a) =>
    \E b : Takes(s, k, a, ss[i + 1], b) /\ Stage(what, s, k, l, i + 1, v, b)

(* One piece after the other: g has the pieces put together. *)
LEMMA StagesTake ==
  ASSUME NEW what, NEW s, NEW k, NEW l, NEW v, NEW n \in Nat, NEW ss, NEW g,
         g[0] = <<>>, \A i \in 1 .. n : g[i] = g[i - 1] \o ss[i],
         Advances(what, s, k, l, v, n, ss), NEW a, Stage(what, s, k, l, 0, v, a)
  PROVE  \E b : Takes(s, k, a, g[n], b) /\ Stage(what, s, k, l, n, v, b)
<1> DEFINE There(i) == \E b : Takes(s, k, a, g[i], b) /\ Stage(what, s, k, l, i, v, b)
           S == {i \in Nat : i <= n => There(i)}
<1>1. 0 \in S
  <2>1. Takes(s, k, a, g[0], a)
    BY TakesNone
  <2> QED
    BY <2>1
<1>2. ASSUME NEW i \in Nat, i \in S PROVE i + 1 \in S
  <2> SUFFICES ASSUME i + 1 <= n PROVE There(i + 1)
    OBVIOUS
  <2>1. i <= n /\ i \in 0 .. n - 1 /\ i + 1 \in 1 .. n /\ (i + 1) - 1 = i
    OBVIOUS
  <2>2. PICK b : Takes(s, k, a, g[i], b) /\ Stage(what, s, k, l, i, v, b)
    BY <1>2, <2>1
  <2>3. PICK d : Takes(s, k, b, ss[i + 1], d) /\ Stage(what, s, k, l, i + 1, v, d)
    BY <2>1, <2>2 DEF Advances
  <2>4. g[i + 1] = g[i] \o ss[i + 1]
    BY <2>1
  <2>5. Takes(s, k, a, g[i] \o ss[i + 1], d)
    BY <2>2, <2>3, TakesOn
  <2> QED
    BY <2>3, <2>4, <2>5
<1>3. \A i \in Nat : i \in S
  <2> HIDE DEF S
  <2> QED
    BY <1>1, <1>2, ByInduction
<1> QED
  BY <1>3

-----------------------------------------------------------------------------
(* The attention branch. *)

(* The rows of Q, K and V are those of the reference. *)
LEMMA QkvsAre ==
  ASSUME NEW s, NEW k, NEW l, NEW t \in 0 .. Len(k) - 1
  PROVE  Qkvs(s, k, l)[t] = Qkv(l, Ins(s, k, l)[t])
<1> DEFINE v == Ins(s, k, l)
<1> HIDE DEF v
<1>1. Row1(k, "attn_norm", l, v)[t] = <<"attn_norm", l, v[t]>>
  BY DEF Row1
<1>2. Row1(k, "qkv", l, Row1(k, "attn_norm", l, v))[t] = <<"qkv", l, <<"attn_norm", l, v[t]>>>>
  BY <1>1 DEF Row1
<1>3. Row1(k, "qk_norm", l, Row1(k, "qkv", l, Row1(k, "attn_norm", l, v)))[t]
      = <<"qk_norm", l, <<"qkv", l, <<"attn_norm", l, v[t]>>>>>>
  <2> DEFINE w == Row1(k, "qkv", l, Row1(k, "attn_norm", l, v))
             x == <<"qkv", l, <<"attn_norm", l, v[t]>>>>
  <2> HIDE DEF w, x
  <2>1. w[t] = x
    BY <1>2 DEF w, x
  <2>2. Row1(k, "qk_norm", l, w)[t] = <<"qk_norm", l, x>>
    BY <2>1 DEF Row1
  <2> QED
    BY <2>2 DEF w, x
<1> QED
  BY <1>3 DEF Qkvs, Qkv, v

(* Row t stores its K and V and looks at all positions up to its own. *)
LEMMA LookTakes ==
  ASSUME NEW s, NEW k, Fits(s, k), NEW l \in Layers, NEW t \in 0 .. Len(k) - 1, NEW p,
         p = Len(s) + t, NEW a, Looked(s, k, l, t, a)
  PROVE  \E b : Takes(s, k, a, <<Attend(l, t, p)>>, b) /\ Looked(s, k, l, t + 1, b)
<1> DEFINE xs == LayerIn(s \o k)[l]
           m == a.mem
<1>1. Safe(s, k, a)
  BY DEF Looked
<1>2. PICK b : /\ Takes(s, k, a, <<Attend(l, t, p)>>, b) /\ Safe(s, k, b) /\ b.idx = a.idx
               /\ AttendDone(a.mem, b.mem, l, t, p)
  BY <1>1, AttendTakes
<1> DEFINE e == b.mem
           row == <<"rope", p, m.qkv[t]>>
           kv == [m.kv[l] EXCEPT ![p] = row]
           look == <<"attention", l, row, [i \in 1 .. p + 1 |-> kv[i - 1]]>>
<1>3. /\ Same(e, m, {"kv", "attn_out"})
      /\ e.kv = [m.kv EXCEPT ![l] = kv]
      /\ e.attn_out = [m.attn_out EXCEPT ![t] = look]
  BY <1>2, Zenon DEF AttendDone
<1>4. IsMem(m) /\ Len(s) \in Nat /\ t \in Nat /\ p \in Nat /\ p \in Positions /\ t \in Rows
  BY <1>1, Sizes, SafeIs, SMTT(20)
<1>5. row = KvRow(l, p, xs[p])
  <2>1. m.qkv[t] = Qkvs(s, k, l)[t]
    BY DEF Looked, IsRows
  <2>2. m.qkv[t] = Qkv(l, xs[p])
    <3>1. Ins(s, k, l)[t] = xs[p]
      BY DEF Ins
    <3>2. Qkvs(s, k, l)[t] = Qkv(l, Ins(s, k, l)[t])
      BY QkvsAre
    <3> QED
      BY <2>1, <3>1, <3>2
  <2> QED
    BY <2>2 DEF KvRow
<1>6. (\A q \in Positions \ {p} : kv[q] = m.kv[l][q]) /\ kv[p] = row
  BY <1>4 DEF IsMem
<1>7. \A q \in 0 .. p - 1 : m.kv[l][q] = KvRow(l, q, xs[q])
  BY DEF Looked
<1>8. /\ e.kv[l] = kv /\ \A j \in Layers \ {l} : e.kv[j] = m.kv[j]
      /\ e.attn_out[t] = look /\ \A j \in Rows \ {t} : e.attn_out[j] = m.attn_out[j]
  <2>1. m.kv = [j \in Layers |-> m.kv[j]] /\ m.attn_out = [j \in Rows |-> m.attn_out[j]]
    BY <1>4 DEF IsMem
  <2> HIDE DEF kv, look, e, m
  <2> QED
    BY <1>3, <1>4, <2>1
<1>9. e.qkv = m.qkv /\ e.residual = m.residual
  BY <1>3 DEF Same, Fields
<1> HIDE DEF kv, e, m, xs, row
<1>10. \A q \in 0 .. p : kv[q] = KvRow(l, q, xs[q])
  <2> SUFFICES ASSUME NEW q \in 0 .. p PROVE kv[q] = KvRow(l, q, xs[q])
    OBVIOUS
  <2>1. CASE q = p
    BY <1>5, <1>6, <2>1
  <2>2. CASE q # p
    <3>1. q \in 0 .. p - 1 /\ q \in Positions \ {p}
      BY <1>4, <2>2, LayersNumber DEF Positions
    <3> QED
      BY <1>6, <1>7, <3>1
  <2> QED
    BY <2>1, <2>2
<1>11. look = Looks(s, k, l)[t]
  <2>1. [i \in 1 .. p + 1 |-> kv[i - 1]] = [i \in 1 .. p + 1 |-> KvRow(l, i - 1, xs[i - 1])]
    <3>1. \A i \in 1 .. p + 1 : i - 1 \in 0 .. p
      BY <1>4
    <3> QED
      BY <1>10, <3>1
  <2>2. Looks(s, k, l)[t] = <<"attention", l, KvRow(l, p, xs[p]),
                                  [i \in 1 .. p + 1 |-> KvRow(l, i - 1, xs[i - 1])]>>
    <3>1. xs = LayerIn(s \o k)[l]
      BY DEF xs
    <3> QED
      BY <3>1 DEF Looks
  <2> QED
    BY <1>5, <2>1, <2>2, Zenon
<1> HIDE DEF look
<1>12. \A q \in 0 .. Len(s) + (t + 1) - 1 : e.kv[l][q] = KvRow(l, q, xs[q])
  BY <1>4, <1>8, <1>10
<1>13. \A j \in 0 .. (t + 1) - 1 : e.attn_out[j] = Looks(s, k, l)[j]
  <2> SUFFICES ASSUME NEW j \in 0 .. (t + 1) - 1 PROVE e.attn_out[j] = Looks(s, k, l)[j]
    OBVIOUS
  <2>1. CASE j = t
    BY <1>8, <1>11, <2>1
  <2>2. CASE j # t
    <3>1. j \in 0 .. t - 1 /\ j \in Rows \ {t}
      BY <1>4, <2>2, LayersNumber DEF Rows
    <3>2. m.attn_out[j] = Looks(s, k, l)[j]
      BY <3>1 DEF Looked, m
    <3> QED
      BY <1>8, <3>1, <3>2
  <2> QED
    BY <2>1, <2>2
<1>14. FilledTo(s \o k, e.kv, l)
  <2>1. FilledTo(s \o k, m.kv, l)
    BY DEF Looked, m
  <2>2. \A j \in Layers : j < l => j \in Layers \ {l}
    BY DEF Layers
  <2> QED
    BY <1>8, <2>1, <2>2 DEF FilledTo
<1>15. IsRows(k, e.qkv, Qkvs(s, k, l)) /\ IsRows(k, e.residual, Ins(s, k, l))
  BY <1>9 DEF Looked, m
<1>16. Looked(s, k, l, t + 1, b)
  BY <1>2, <1>12, <1>13, <1>14, <1>15 DEF Looked, e, xs
<1> QED
  BY <1>2, <1>16

(* The names of the kernels whose value is a plain term. *)
LEMMA PlainNames ==
  /\ "attn_norm" \in Plain /\ "qkv" \in Plain /\ "qk_norm" \in Plain /\ "attn_output" \in Plain
  /\ "add" \in Plain /\ "ffn_norm" \in Plain /\ "zero" \in Plain /\ "shared" \in Plain
  /\ "moe" \in Plain /\ "output_norm" \in Plain /\ "output" \in Plain
BY DEF Plain, Functions

(* A sequence but for its last element. *)
LEMMA OneByOne ==
  ASSUME NEW c, NEW i \in Nat, i # 0
  PROVE  [j \in 1 .. i |-> c[j]] = [j \in 1 .. i - 1 |-> c[j]] \o <<c[i]>>
<1> DEFINE S == {c[j] : j \in 1 .. i}
           s == [j \in 1 .. i - 1 |-> c[j]]
           t == <<c[i]>>
           u == [j \in 1 .. i |-> c[j]]
<1>1. i - 1 \in Nat /\ i \in 1 .. i /\ 1 .. i - 1 \subseteq 1 .. i
  OBVIOUS
<1>2. \A j \in 1 .. i : c[j] \in S
  OBVIOUS
<1> HIDE DEF S
<1>3. s \in Seq(S) /\ t \in Seq(S) /\ u \in Seq(S)
  <2>1. s \in [1 .. i - 1 -> S] /\ u \in [1 .. i -> S]
    BY <1>1, <1>2
  <2>2. s \in Seq(S) /\ u \in Seq(S)
    BY <1>1, <2>1
  <2>3. t \in Seq(S)
    BY <1>1, <1>2
  <2> QED
    BY <2>2, <2>3
<1>4. Len(s) = i - 1 /\ Len(t) = 1 /\ Len(u) = i
  <2>1. Len(t) = 1
    OBVIOUS
  <2>2. Len(s) = i - 1 /\ Len(u) = i
    BY <1>1
  <2> QED
    BY <2>1, <2>2
<1>5. (\A j \in 1 .. i - 1 : u[j] = s[j]) /\ u[i] = t[1]
  BY <1>1
<1> HIDE DEF s, t, u
<1>6. (\A j \in 1 .. Len(s) : u[j] = s[j]) /\ (\A j \in 1 .. Len(t) : u[Len(s) + j] = t[j])
  <2>1. \A j \in 1 .. 1 : j = 1 /\ (i - 1) + j = i
    OBVIOUS
  <2> QED
    BY <1>4, <1>5, <2>1
<1>7. Len(u) = Len(s) + Len(t)
  BY <1>4
<1>8. s \o t = u
  BY <1>3, <1>6, <1>7, Joined, Zenon
<1> QED
  BY <1>8 DEF s, t, u

(* One command after the other. *)
LEMMA EachTakes ==
  ASSUME NEW what, NEW s, NEW k, NEW l, NEW v, NEW n \in Nat, NEW c, NEW ss,
         \A i \in 1 .. n : ss[i] = <<c[i]>>,
         Advances(what, s, k, l, v, n, ss), NEW a, Stage(what, s, k, l, 0, v, a)
  PROVE  \E b : Takes(s, k, a, [i \in 1 .. n |-> c[i]], b) /\ Stage(what, s, k, l, n, v, b)
<1> DEFINE g == [i \in 0 .. n |-> [j \in 1 .. i |-> c[j]]]
<1>1. \A i \in 0 .. n : g[i] = [j \in 1 .. i |-> c[j]]
  OBVIOUS
<1> HIDE DEF g
<1>2. g[0] = <<>>
  <2>1. [j \in 1 .. 0 |-> c[j]] = <<>>
    <3>1. 1 .. 0 = {}
      OBVIOUS
    <3> QED
      BY <3>1
  <2>2. 0 \in 0 .. n
    OBVIOUS
  <2> QED
    BY <1>1, <2>1, <2>2
<1>3. ASSUME NEW i \in 1 .. n PROVE g[i] = g[i - 1] \o ss[i]
  <2>1. i \in 0 .. n /\ i - 1 \in 0 .. n /\ i \in Nat /\ i # 0
    OBVIOUS
  <2>2. g[i] = [j \in 1 .. i |-> c[j]] /\ g[i - 1] = [j \in 1 .. i - 1 |-> c[j]]
    BY <1>1, <2>1
  <2>3. [j \in 1 .. i |-> c[j]] = [j \in 1 .. i - 1 |-> c[j]] \o <<c[i]>>
    BY <2>1, OneByOne, Zenon
  <2>4. ss[i] = <<c[i]>>
    OBVIOUS
  <2> QED
    BY <2>2, <2>3, <2>4, Zenon
<1>4. \E b : Takes(s, k, a, g[n], b) /\ Stage(what, s, k, l, n, v, b)
  BY <1>2, <1>3, StagesTake
<1>5. g[n] = [i \in 1 .. n |-> c[i]]
  BY <1>1
<1> QED
  BY <1>4, <1>5, Zenon

(* The attentions of all rows, one after the other. *)
LEMMA LooksTake ==
  ASSUME NEW s, NEW k, Fits(s, k), NEW l \in Layers, NEW a, Looked(s, k, l, 0, a)
  PROVE  \E b : /\ Takes(s, k, a, [i \in 1 .. Len(k) |-> Attend(l, i - 1, Len(s) + i - 1)], b)
                /\ Looked(s, k, l, Len(k), b)
<1> DEFINE n == Len(k)
           c == [i \in 1 .. n |-> Attend(l, i - 1, Len(s) + i - 1)]
           ss == [i \in 1 .. n |-> <<Attend(l, i - 1, Len(s) + i - 1)>>]
<1>1. n \in Nat /\ Len(s) \in Nat
  BY Sizes
<1>2. \A i \in 1 .. n : ss[i] = <<c[i]>>
  OBVIOUS
<1>3. ASSUME NEW i \in 0 .. n - 1, NEW d, Looked(s, k, l, i, d)
      PROVE  \E b : Takes(s, k, d, ss[i + 1], b) /\ Looked(s, k, l, i + 1, b)
  <2>1. Len(s) + (i + 1) - 1 = Len(s) + i /\ (i + 1) - 1 = i /\ i + 1 \in 1 .. n
    BY <1>1
  <2>2. ss[i + 1] = <<Attend(l, i, Len(s) + i)>>
    BY <2>1
  <2>3. \E b : Takes(s, k, d, <<Attend(l, i, Len(s) + i)>>, b) /\ Looked(s, k, l, i + 1, b)
    BY <1>3, LookTakes
  <2> QED
    BY <2>2, <2>3
<1> HIDE DEF ss, c, n
<1>4. Advances("look", s, k, l, 0, n, ss)
  BY <1>3, StageIs DEF Advances
<1>5. Stage("look", s, k, l, 0, 0, a)
  BY StageIs
<1>6. \E b : Takes(s, k, a, [i \in 1 .. n |-> c[i]], b) /\ Stage("look", s, k, l, n, 0, b)
  BY <1>1, <1>2, <1>4, <1>5, EachTakes
<1>7. c = [i \in 1 .. n |-> c[i]]
  BY DEF c
<1> QED
  BY <1>6, <1>7, StageIs DEF c, n

(* From the entry of a layer to the router. *)
LEMMA AttentionBranchTakes ==
  ASSUME NEW s, NEW k, Fits(s, k), NEW l \in Layers, NEW a, Entered(s, k, l, a)
  PROVE  \E b : Takes(s, k, a, AttentionBranch(l, Len(k), Len(s)), b) /\ Half(s, k, l, b)
<1> DEFINE M == Len(k)
           c1 == Kernel("copy", l, <<"hidden">>, "residual", M)
           c2 == Kernel("attn_norm", l, <<"hidden">>, "norm", M)
           c3 == Kernel("qkv", l, <<"norm">>, "qkv", M)
           c4 == Kernel("qk_norm", l, <<"qkv">>, "qkv", M)
           rows == [i \in 1 .. M |-> Attend(l, i - 1, Len(s) + i - 1)]
           c5 == Kernel("attn_output", l, <<"attn_out">>, "hidden", M)
           c6 == Kernel("add", 0, <<"hidden", "residual">>, "hidden", M)
           c7 == Kernel("ffn_norm", l, <<"hidden">>, "norm", M)
           ins == Ins(s, k, l)
<1>1. Safe(s, k, a) /\ IsRows(k, a.mem["hidden"], ins) /\ FilledTo(s \o k, a.mem["kv"], l)
  BY DEF Entered
<1>2. PICK a1 : /\ Takes(s, k, a, <<c1>>, a1) /\ Safe(s, k, a1)
                /\ Copied(k, a.mem, a1.mem, "hidden", "residual")
  BY <1>1, CopyTakes, Names
<1>3. IsRows(k, a1.mem["residual"], ins) /\ a1.mem["hidden"] = a.mem["hidden"] /\ a1.mem["kv"] = a.mem["kv"]
  <2>1. IsRows(k, a1.mem["residual"], ins)
    BY <1>1, <1>2, CopiedRows
  <2>2. a1.mem["hidden"] = a.mem["hidden"] /\ a1.mem["kv"] = a.mem["kv"]
    BY <1>2 DEF Copied, Same, Fields
  <2> QED
    BY <2>1, <2>2
<1>4. PICK a2 : /\ Takes(s, k, a1, <<c2>>, a2) /\ Safe(s, k, a2)
                /\ Made1(k, a1.mem, a2.mem, "attn_norm", l, "hidden", "norm")
  BY <1>2, OneOperandTakes, Names, PlainNames
<1>5. IsRows(k, a1.mem["hidden"], ins)
  BY <1>1, <1>3
<1> DEFINE v1 == Row1(k, "attn_norm", l, ins)
           v2 == Row1(k, "qkv", l, v1)
           v3 == Row1(k, "qk_norm", l, v2)
<1> HIDE DEF ins, v1, v2, v3
<1>6. IsRows(k, a2.mem["norm"], v1)
  BY <1>4, <1>5, OneRows DEF v1
<1>7. a2.mem["residual"] = a1.mem["residual"] /\ a2.mem["kv"] = a1.mem["kv"]
  BY <1>4 DEF Made1, Same, Fields
<1>8. PICK a3 : /\ Takes(s, k, a2, <<c3>>, a3) /\ Safe(s, k, a3)
                /\ Made1(k, a2.mem, a3.mem, "qkv", l, "norm", "qkv")
  BY <1>4, OneOperandTakes, Names, PlainNames
<1>9. IsRows(k, a3.mem["qkv"], v2)
  BY <1>6, <1>8, OneRows DEF v2
<1>10. a3.mem["residual"] = a2.mem["residual"] /\ a3.mem["kv"] = a2.mem["kv"]
  BY <1>8 DEF Made1, Same, Fields
<1>11. PICK a4 : /\ Takes(s, k, a3, <<c4>>, a4) /\ Safe(s, k, a4)
                 /\ Made1(k, a3.mem, a4.mem, "qk_norm", l, "qkv", "qkv")
  BY <1>8, OneOperandTakes, Names, PlainNames
<1>12. IsRows(k, a4.mem["qkv"], v3)
  BY <1>9, <1>11, OneRows DEF v3
<1>13. a4.mem["residual"] = a3.mem["residual"] /\ a4.mem["kv"] = a3.mem["kv"]
  BY <1>11 DEF Made1, Same, Fields
<1>14. v3 = Qkvs(s, k, l)
  BY Zenon DEF v1, v2, v3, ins, Qkvs
<1>15. Looked(s, k, l, 0, a4)
  <2>1. IsRows(k, a4.mem.residual, Ins(s, k, l)) /\ FilledTo(s \o k, a4.mem.kv, l)
    BY <1>1, <1>3, <1>7, <1>10, <1>13 DEF ins
  <2>2. \A q \in 0 .. Len(s) - 1 : a4.mem.kv[l][q] = KvRow(l, q, LayerIn(s \o k)[l][q])
    <3>1. Kept(s \o k, Len(s), a4.mem)
      BY <1>11, SafeIs
    <3> QED
      BY <3>1 DEF Kept
  <2>3. Len(s) + 0 - 1 = Len(s) - 1 /\ \A t \in 0 .. 0 - 1 : FALSE
    BY Sizes
  <2>4. IsRows(k, a4.mem.qkv, Qkvs(s, k, l))
    BY <1>12, <1>14
  <2> QED
    BY <1>11, <2>1, <2>2, <2>3, <2>4 DEF Looked
<1>16. PICK a5 : Takes(s, k, a4, rows, a5) /\ Looked(s, k, l, M, a5)
  BY <1>15, LooksTake
<1>17. /\ Safe(s, k, a5) /\ IsRows(k, a5.mem["attn_out"], Looks(s, k, l))
       /\ IsRows(k, a5.mem["residual"], ins)
  <2>1. Safe(s, k, a5) /\ IsRows(k, a5.mem["residual"], Ins(s, k, l))
    BY <1>16 DEF Looked
  <2>2. IsRows(k, a5.mem["attn_out"], Looks(s, k, l))
    BY <1>16 DEF Looked, IsRows
  <2> QED
    BY <2>1, <2>2 DEF ins
<1>18. FilledTo(s \o k, a5.mem["kv"], l + 1)
  <2>1. FilledTo(s \o k, a5.mem["kv"], l)
    BY <1>16 DEF Looked
  <2>2. Len(s \o k) - 1 = Len(s) + M - 1
    BY Sizes
  <2>3. \A q \in 0 .. Len(s \o k) - 1 : a5.mem.kv[l][q] = KvRow(l, q, LayerIn(s \o k)[l][q])
    BY <1>16, <2>2 DEF Looked
  <2>4. \A j \in Layers : j < l + 1 => j < l \/ j = l
    BY LayersNumber DEF Layers
  <2> QED
    BY <2>1, <2>3, <2>4 DEF FilledTo
<1> DEFINE v4 == Row1(k, "attn_output", l, Looks(s, k, l))
           v5 == Row2(k, "add", 0, v4, ins)
           v6 == Row1(k, "ffn_norm", l, v5)
<1> HIDE DEF v4, v5, v6
<1>19. PICK a6 : /\ Takes(s, k, a5, <<c5>>, a6) /\ Safe(s, k, a6)
                 /\ Made1(k, a5.mem, a6.mem, "attn_output", l, "attn_out", "hidden")
  BY <1>17, OneOperandTakes, Names, PlainNames
<1>20. IsRows(k, a6.mem["hidden"], v4)
  BY <1>17, <1>19, OneRows DEF v4
<1>21. a6.mem["residual"] = a5.mem["residual"] /\ a6.mem["kv"] = a5.mem["kv"]
  BY <1>19 DEF Made1, Same, Fields
<1>22. PICK a7 : /\ Takes(s, k, a6, <<c6>>, a7) /\ Safe(s, k, a7)
                 /\ Made2(k, a6.mem, a7.mem, "add", 0, "hidden", "residual", "hidden")
  BY <1>19, TwoOperandTakes, Names, PlainNames
<1>23. IsRows(k, a7.mem["hidden"], v5)
  <2>1. IsRows(k, a6.mem["residual"], ins)
    BY <1>17, <1>21
  <2> QED
    BY <1>20, <1>22, <2>1, TwoRows DEF v5
<1>24. a7.mem["kv"] = a6.mem["kv"]
  BY <1>22 DEF Made2, Same, Fields
<1>25. PICK a8 : /\ Takes(s, k, a7, <<c1>>, a8) /\ Safe(s, k, a8)
                 /\ Copied(k, a7.mem, a8.mem, "hidden", "residual")
  BY <1>22, CopyTakes, Names
<1>26. IsRows(k, a8.mem["residual"], v5)
  BY <1>23, <1>25, CopiedRows
<1>27. a8.mem["kv"] = a7.mem["kv"] /\ a8.mem["hidden"] = a7.mem["hidden"]
  BY <1>25 DEF Copied, Same, Fields
<1>28. PICK a9 : /\ Takes(s, k, a8, <<c7>>, a9) /\ Safe(s, k, a9)
                 /\ Made1(k, a8.mem, a9.mem, "ffn_norm", l, "hidden", "norm")
  BY <1>25, OneOperandTakes, Names, PlainNames
<1>29. IsRows(k, a9.mem["norm"], v6)
  <2>1. IsRows(k, a8.mem["hidden"], v5)
    BY <1>23, <1>27
  <2> QED
    BY <1>28, <2>1, OneRows DEF v6
<1>30. a9.mem["kv"] = a8.mem["kv"] /\ a9.mem["residual"] = a8.mem["residual"]
  BY <1>28 DEF Made1, Same, Fields
<1>31. v5 = Mids(s, k, l) /\ v6 = Norms(s, k, l)
  BY Zenon DEF v4, v5, v6, ins, Mids, Norms
<1>32. Half(s, k, l, a9)
  BY <1>18, <1>21, <1>24, <1>26, <1>27, <1>28, <1>29, <1>30, <1>31 DEF Half
<1> HIDE DEF c1, c2, c3, c4, c5, c6, c7, rows
<1>33. Takes(s, k, a, <<c1, c2, c3, c4>>, a4)
  BY <1>2, <1>4, <1>8, <1>11, TakesFour, Zenon
<1>34. Takes(s, k, a5, <<c5, c6, c1, c7>>, a9)
  BY <1>19, <1>22, <1>25, <1>28, TakesFour, Zenon
<1>35. Takes(s, k, a, <<c1, c2, c3, c4>> \o rows, a5)
  BY <1>16, <1>33, TakesOn, Zenon
<1>36. Takes(s, k, a, <<c1, c2, c3, c4>> \o rows \o <<c5, c6, c1, c7>>, a9)
  BY <1>34, <1>35, TakesOn, Zenon
<1>37. AttentionBranch(l, M, Len(s)) = <<c1, c2, c3, c4>> \o rows \o <<c5, c6, c1, c7>>
  BY Zenon DEF AttentionBranch, c1, c2, c3, c4, c5, c6, c7, rows
<1> QED
  BY <1>32, <1>36, <1>37, Zenon

-----------------------------------------------------------------------------
(* From the router to the end of a layer. *)

(* What Half says, part by part, *)
LEMMA HalfIs ==
  ASSUME NEW s, NEW k, NEW l, NEW a, Half(s, k, l, a)
  PROVE  /\ Safe(s, k, a) /\ IsRows(k, a.mem["residual"], Mids(s, k, l))
         /\ IsRows(k, a.mem["norm"], Norms(s, k, l)) /\ FilledTo(s \o k, a.mem["kv"], l + 1)
BY DEF Half

(* and what keeps it. *)
LEMMA SameHalf ==
  ASSUME NEW s, NEW k, NEW l, NEW a, Half(s, k, l, a), NEW b, Safe(s, k, b), NEW xs,
         Same(b.mem, a.mem, xs), "residual" \notin xs, "norm" \notin xs, "kv" \notin xs
  PROVE  Half(s, k, l, b)
<1>1. /\ b.mem["residual"] = a.mem["residual"] /\ b.mem["norm"] = a.mem["norm"]
      /\ b.mem["kv"] = a.mem["kv"]
  BY DEF Same, Fields
<1> QED
  BY <1>1 DEF Half

(* ffn_out is set to zero. *)
LEMMA ZeroedTakes ==
  ASSUME NEW s, NEW k, Fits(s, k), NEW l, NEW a, Half(s, k, l, a)
  PROVE  \E b : /\ Takes(s, k, a, Zeroed(Len(k)), b) /\ Half(s, k, l, b) /\ b.idx = a.idx
                /\ b.used = a.used /\ IsRows(k, b.mem.ffn_out, Zeros(k))
<1> DEFINE c == Kernel("zero", 0, <<>>, "ffn_out", Len(k))
<1>1. PICK b : /\ Takes(s, k, a, <<c>>, b) /\ Safe(s, k, b) /\ b.idx = a.idx
               /\ Made0(k, a.mem, b.mem, "zero", 0, "ffn_out")
               /\ Apart(c) => b.used = a.used
  BY HalfIs, NoOperandTakes, Names, PlainNames
<1>2. Apart(c)
  BY ApartZero
<1>3. Zeroed(Len(k)) = <<c>>
  BY DEF Zeroed
<1> HIDE DEF c
<1>4. IsRows(k, b.mem["ffn_out"], Zeros(k))
  BY <1>1, ZeroRows
<1>5. Same(b.mem, a.mem, {"ffn_out"})
  BY <1>1 DEF Made0
<1>6. Half(s, k, l, b)
  BY <1>1, <1>5, SameHalf
<1> QED
  BY <1>1, <1>2, <1>3, <1>4, <1>6

(* The cell of a row of a layer is inside the router's buffers. *)
LEMMA Between ==
  ASSUME NEW N \in Nat, NEW C \in Nat, NEW l \in Nat, NEW M \in Nat, NEW i \in Nat,
         l <= N - 1, M <= C, i <= M - 1
  PROVE  l * M + i \in 0 .. N * C - 1
<1>1. l * M \in Nat /\ N * M \in Nat /\ N * C \in Nat
  OBVIOUS
<1>2. l * M <= (N - 1) * M
  OBVIOUS
<1>3. (N - 1) * M = N * M - M
  OBVIOUS
<1>4. N * M <= N * C
  OBVIOUS
<1> QED
  BY <1>1, <1>2, <1>3, <1>4

LEMMA CellIs ==
  ASSUME NEW s, NEW k, Fits(s, k), NEW l \in Layers, NEW t \in 0 .. Len(k) - 1
  PROVE  l * Len(k) + t \in Cells /\ l * Len(k) \in Nat
<1> DEFINE M == Len(k)
<1>1. M \in Nat /\ M <= ChunkSize /\ ChunkSize \in Nat /\ NLayer \in Nat
  BY LayersNumber DEF Fits
<1>2. l \in Nat /\ l <= NLayer - 1 /\ t \in Nat /\ t <= M - 1
  BY <1>1 DEF Layers
<1> HIDE DEF M
<1>3. l * M + t \in 0 .. NLayer * ChunkSize - 1
  BY <1>1, <1>2, Between
<1>4. l * M \in Nat
  BY <1>1, <1>2
<1> QED
  BY <1>3, <1>4 DEF Cells, M

(* One row, and all rows, are routed. *)
LEMMA RouteTakes ==
  ASSUME NEW s, NEW k, Fits(s, k), NEW l \in Layers, NEW t \in 0 .. Len(k) - 1, NEW v, NEW a,
         Routing(s, k, l, t, v, a)
  PROVE  \E b : /\ Takes(s, k, a, <<Router(l, l * Len(k) + t, t)>>, b)
                /\ Routing(s, k, l, t + 1, v, b)
<1> DEFINE z == l * Len(k)
           x == z + t
           m == a.mem
           v1 == Norms(s, k, l)
<1>1. x \in Cells /\ z \in Nat
  BY CellIs
<1>2. Half(s, k, l, a) /\ m.ffn_out = v /\ \A j \in 0 .. t - 1 : m.gate[z + j] = <<"router", l, v1[j]>>
  BY DEF Routing
<1>3. Safe(s, k, a) /\ IsRows(k, m["norm"], v1)
  BY <1>2, HalfIs
<1>4. PICK b : /\ Takes(s, k, a, <<Router(l, x, t)>>, b) /\ Safe(s, k, b)
               /\ RouterDone(m, b.mem, l, x, t)
  BY <1>1, <1>3, RouterTakes
<1> DEFINE e == b.mem
<1>5. IsMem(m)
  BY <1>3, SafeIs
<1> HIDE DEF z, v1
<1>6. Same(e, m, {"gate"}) /\ e.gate = [m.gate EXCEPT ![x] = <<"router", l, m.norm[t]>>]
  BY <1>4 DEF RouterDone
<1>7. m.norm[t] = v1[t]
  BY <1>3 DEF IsRows
<1>8. /\ e.gate[x] = <<"router", l, v1[t]>>
      /\ \A y \in Cells \ {x} : e.gate[y] = m.gate[y]
  <2>1. m.gate = [y \in Cells |-> m.gate[y]]
    BY <1>5 DEF IsMem
  <2> HIDE DEF e, m, x
  <2> QED
    BY <1>1, <1>6, <1>7, <2>1
<1>9. e.ffn_out = v
  BY <1>2, <1>6 DEF Same, Fields
<1>10. Half(s, k, l, b)
  BY <1>2, <1>4, <1>6, SameHalf
<1>11. ASSUME NEW j \in 0 .. (t + 1) - 1 PROVE e.gate[z + j] = <<"router", l, v1[j]>>
  <2>1. CASE j = t
    BY <1>8, <2>1
  <2>2. CASE j # t
    <3>1. j \in 0 .. t - 1 /\ j \in 0 .. Len(k) - 1 /\ z + j # z + t
      BY <1>1, <2>2, Sizes
    <3>2. z + j \in Cells
      BY <3>1, CellIs DEF z
    <3> HIDE DEF e, m
    <3>3. m.gate[z + j] = <<"router", l, v1[j]>>
      BY <1>2, <3>1
    <3>4. e.gate[z + j] = m.gate[z + j]
      BY <1>8, <3>1, <3>2
    <3> QED
      BY <3>3, <3>4
  <2> QED
    BY <2>1, <2>2
<1> HIDE DEF e, m
<1>12. Routing(s, k, l, t + 1, v, b)
  BY <1>9, <1>10, <1>11 DEF Routing, e, z, v1
<1> QED
  BY <1>4, <1>12 DEF z

LEMMA RoutedTakes ==
  ASSUME NEW s, NEW k, Fits(s, k), NEW l \in Layers, NEW a, Half(s, k, l, a)
  PROVE  \E b : /\ Takes(s, k, a, Routed(l, Len(k)), b)
                /\ Routing(s, k, l, Len(k), a.mem.ffn_out, b)
<1> DEFINE n == Len(k)
           v == a.mem.ffn_out
           c == [i \in 1 .. n |-> Router(l, l * n + i - 1, i - 1)]
           ss == [i \in 1 .. n |-> <<Router(l, l * n + i - 1, i - 1)>>]
<1>1. n \in Nat /\ l * n \in Nat
  BY Sizes, CellIs
<1>2. \A i \in 1 .. n : ss[i] = <<c[i]>>
  OBVIOUS
<1>3. ASSUME NEW i \in 0 .. n - 1, NEW d, Routing(s, k, l, i, v, d)
      PROVE  \E b : Takes(s, k, d, ss[i + 1], b) /\ Routing(s, k, l, i + 1, v, b)
  <2>1. l * n + (i + 1) - 1 = l * n + i /\ (i + 1) - 1 = i /\ i + 1 \in 1 .. n
    BY <1>1
  <2>2. ss[i + 1] = <<Router(l, l * n + i, i)>>
    BY <2>1
  <2> HIDE DEF v
  <2>3. \E b : Takes(s, k, d, <<Router(l, l * n + i, i)>>, b) /\ Routing(s, k, l, i + 1, v, b)
    BY <1>3, RouteTakes
  <2> QED
    BY <2>2, <2>3
<1>4. Routed(l, n) = c
  BY DEF Routed
<1>a. c = [i \in 1 .. n |-> c[i]]
  OBVIOUS
<1>5. Routing(s, k, l, 0, v, a)
  <2>1. \A t \in 0 .. 0 - 1 : FALSE
    OBVIOUS
  <2> QED
    BY <2>1 DEF Routing
<1> HIDE DEF ss, c, n, v
<1>6. Advances("route", s, k, l, v, n, ss)
  BY <1>3, StageIs DEF Advances
<1>7. Stage("route", s, k, l, 0, v, a)
  BY <1>5, StageIs
<1>8. \E b : Takes(s, k, a, [i \in 1 .. n |-> c[i]], b) /\ Stage("route", s, k, l, n, v, b)
  BY <1>1, <1>2, <1>6, <1>7, EachTakes
<1>9. \E b : Takes(s, k, a, c, b) /\ Routing(s, k, l, n, v, b)
  BY <1>8, <1>a, StageIs
<1> QED
  BY <1>4, <1>9 DEF n, v

(* The batch is ended, and then the host reads what the layer's rows are to  *)
(* be routed to.                                                             *)
LEMMA TopKReadBackTakes ==
  ASSUME NEW s, NEW k, Fits(s, k), NEW l \in Layers, NEW v, NEW a,
         Routing(s, k, l, Len(k), v, a)
  PROVE  \E b : /\ Takes(s, k, a, TopKReadBack(l, Len(k)), b) /\ Half(s, k, l, b)
                /\ b.mem.ffn_out = v /\ IsRows(k, b.idx[l], Routes(s, k, l))
<1> DEFINE M == Len(k)
           z == l * M
           v1 == Norms(s, k, l)
           w == Do("read", l, M)
<1>1. /\ Half(s, k, l, a) /\ a.mem.ffn_out = v
      /\ \A t \in 0 .. M - 1 : a.mem.gate[z + t] = <<"router", l, v1[t]>>
  BY DEF Routing
<1>2. Safe(s, k, a)
  BY <1>1, HalfIs
<1>3. PICK b : /\ Takes(s, k, a, <<TopK(l, M)>>, b) /\ Safe(s, k, b)
               /\ TopKDone(a.mem, b.mem, l, M)
  BY <1>2, TopKTakes
<1>4. Takes(s, k, b, <<End>>, b)
  BY <1>3, EndTakes
<1>5. PICK d : /\ Takes(s, k, b, <<w>>, d) /\ Safe(s, k, d)
               /\ d.mem = b.mem
               /\ \A t \in 0 .. M - 1 : d.idx[l][t] = b.mem.choice[z + t]
  <2>1. "read" \in {"read", "choose"}
    OBVIOUS
  <2>2. PICK d : /\ Takes(s, k, b, <<w>>, d) /\ Safe(s, k, d)
                 /\ d.mem = b.mem /\ ReadDone(k, "read", l, b.mem, d.idx)
    BY <1>3, <2>1, ReadTakes
  <2>3. \A t \in 0 .. M - 1 : d.idx[l][t] = b.mem.choice[z + t]
    BY <2>2 DEF ReadDone
  <2> QED
    BY <2>2, <2>3
<1>6. Same(b.mem, a.mem, {"choice"})
      /\ \A y \in Cells : y - z \in 0 .. M - 1 => b.mem.choice[y] = Chosen(a.mem.gate[y])
  BY <1>3 DEF TopKDone
<1>7. Half(s, k, l, d)
  BY <1>1, <1>5, <1>6, SameHalf
<1>8. d.mem.ffn_out = v
  BY <1>1, <1>5, <1>6 DEF Same, Fields
<1>9. IsRows(k, d.idx[l], Routes(s, k, l))
  <2> SUFFICES ASSUME NEW t \in 0 .. M - 1 PROVE d.idx[l][t] = Routes(s, k, l)[t]
    BY DEF IsRows
  <2>1. Routes(s, k, l)[t] = Chosen(<<"router", l, v1[t]>>)
    BY DEF Routes
  <2>2. z + t \in Cells /\ z \in Nat
    BY CellIs
  <2> HIDE DEF z, v1, M
  <2>3. (z + t) - z = t
    BY <2>2, Sizes DEF M
  <2>4. b.mem.choice[z + t] = Chosen(a.mem.gate[z + t])
    BY <1>6, <2>2, <2>3
  <2> QED
    BY <1>1, <1>5, <2>1, <2>4
<1>10. TopKReadBack(l, M) = <<TopK(l, M), End, w>>
  BY DEF TopKReadBack
<1> HIDE DEF w, M
<1>11. Takes(s, k, a, <<TopK(l, M), End, w>>, d)
  BY <1>3, <1>4, <1>5, TakesThree, Zenon
<1> QED
  BY <1>7, <1>8, <1>9, <1>10, <1>11 DEF M

(* The shared expert, when the model has one. *)
LEMMA SharedTakes ==
  ASSUME NEW s, NEW k, Fits(s, k), NEW l, NEW u, HasShared => u, NEW a, Half(s, k, l, a),
         IsRows(k, a.mem.ffn_out, Zeros(k))
  PROVE  \E b : /\ Takes(s, k, a, Shared(l, Len(k), u), b) /\ Half(s, k, l, b)
                /\ b.idx = a.idx /\ b.used = a.used /\ IsRows(k, b.mem.ffn_out, Bases(s, k, l))
<1>1. CASE ~HasShared
  <2>1. Shared(l, Len(k), u) = <<>> /\ Bases(s, k, l) = Zeros(k)
    BY <1>1 DEF Shared, Bases
  <2>2. Takes(s, k, a, <<>>, a)
    BY TakesNone
  <2> QED
    BY <2>1, <2>2
<1>2. CASE HasShared
  <2> DEFINE c == Kernel("shared", l, <<"ffn_out", "norm">>, "ffn_out", Len(k))
  <2>1. PICK b : /\ Takes(s, k, a, <<c>>, b) /\ Safe(s, k, b) /\ b.idx = a.idx
                 /\ Made2(k, a.mem, b.mem, "shared", l, "ffn_out", "norm", "ffn_out")
                 /\ Apart(c) => b.used = a.used
    BY HalfIs, TwoOperandTakes, Names, PlainNames
  <2>2. Apart(c)
    BY ApartShared
  <2>3. Shared(l, Len(k), u) = <<c>>
    BY <1>2 DEF Shared
  <2> HIDE DEF c
  <2>4. IsRows(k, b.mem["ffn_out"], Row2(k, "shared", l, Zeros(k), Norms(s, k, l)))
    BY <2>1, HalfIs, TwoRows
  <2>5. Same(b.mem, a.mem, {"ffn_out"})
    BY <2>1 DEF Made2
  <2>6. Half(s, k, l, b)
    BY <2>1, <2>5, SameHalf
  <2>7. Bases(s, k, l) = Row2(k, "shared", l, Zeros(k), Norms(s, k, l))
    BY <1>2 DEF Bases
  <2> QED
    BY <2>1, <2>2, <2>3, <2>4, <2>6, <2>7
<1> QED
  BY <1>1, <1>2

(* The experts: those the host chose, or those the fused kernels choose, or  *)
(* those whose tokens the host has listed.                                   *)
LEMMA ChosenExpertsTake ==
  ASSUME NEW s, NEW k, Fits(s, k), NEW l, NEW a, Half(s, k, l, a),
         IsRows(k, a.mem.ffn_out, Bases(s, k, l)), IsRows(k, a.idx[l], Routes(s, k, l))
  PROVE  \E b : /\ Takes(s, k, a, Experts(l, Len(k)), b) /\ Half(s, k, l, b)
                /\ IsRows(k, b.mem.ffn_out, Moes(s, k, l))
<1>1. Safe(s, k, a) /\ IsRows(k, a.mem["norm"], Norms(s, k, l))
  BY HalfIs
<1>2. PICK b : /\ Takes(s, k, a, Experts(l, Len(k)), b) /\ Safe(s, k, b) /\ b.idx = a.idx
               /\ Expert(k, a.mem, b.mem, l, a.idx)
  BY <1>1, ExpertsTake
<1>3. IsRows(k, b.mem["ffn_out"], Moes(s, k, l))
  BY <1>1, <1>2, ExpertRows DEF Moes
<1>4. Same(b.mem, a.mem, {"ffn_out"})
  BY <1>2 DEF Expert
<1>5. Half(s, k, l, b)
  BY <1>2, <1>4, SameHalf
<1> QED
  BY <1>2, <1>3, <1>5

(* The fused experts of a layer. *)
LEMMA FusedExpertsTake ==
  ASSUME NEW s, NEW k, Fits(s, k), NEW l, NEW a, Half(s, k, l, a),
         IsRows(k, a.mem.ffn_out, Bases(s, k, l)), NEW c,
         c = Kernel("fused", l, <<"ffn_out", "norm">>, "ffn_out", Len(k))
  PROVE  \E b : /\ Takes(s, k, a, <<c>>, b) /\ Half(s, k, l, b)
                /\ IsRows(k, b.mem.ffn_out, Moes(s, k, l))
<1>1. Safe(s, k, a) /\ IsRows(k, a.mem["norm"], Norms(s, k, l))
  BY HalfIs
<1>2. PICK b : /\ Takes(s, k, a, <<c>>, b) /\ Safe(s, k, b) /\ b.idx = a.idx
               /\ FusedExpert(k, a.mem, b.mem, l)
  BY <1>1, FusedTakes
<1>3. IsRows(k, b.mem["ffn_out"], Moes(s, k, l))
  BY <1>1, <1>2, FusedRows DEF Moes
<1>4. Same(b.mem, a.mem, {"ffn_out"})
  BY <1>2 DEF FusedExpert
<1>5. Half(s, k, l, b)
  BY <1>2, <1>4, SameHalf
<1> QED
  BY <1>2, <1>3, <1>5

(* The gathered experts of a layer: the host's lists, then the kernels. *)
LEMMA ListedExpertsTake ==
  ASSUME NEW s, NEW k, Fits(s, k), NEW l, NEW a, Half(s, k, l, a), ~a.used,
         IsRows(k, a.mem.ffn_out, Bases(s, k, l)), IsRows(k, a.idx[l], Routes(s, k, l))
  PROVE  \E b : /\ Takes(s, k, a, <<Do("gather", l, Len(k))>> \o Scattered(l, Len(k)), b)
                /\ Half(s, k, l, b) /\ IsRows(k, b.mem.ffn_out, Moes(s, k, l))
<1> DEFINE g == Do("gather", l, Len(k))
           c == Kernel("moe", l, <<"ffn_out", "norm", "gather">>, "ffn_out", Len(k))
<1>1. PICK b : /\ Takes(s, k, a, <<g>>, b) /\ Safe(s, k, b) /\ b.idx = a.idx
               /\ Same(b.mem, a.mem, {"gather"})
               /\ \A t \in 0 .. Len(k) - 1 : b.mem.gather[t] = a.idx[l][t]
  BY HalfIs, GatherTakes
<1>2. Half(s, k, l, b)
  BY <1>1, SameHalf
<1>3. IsRows(k, b.mem["gather"], Routes(s, k, l)) /\ IsRows(k, b.mem["ffn_out"], Bases(s, k, l))
  <2>1. b.mem["ffn_out"] = a.mem["ffn_out"]
    BY <1>1 DEF Same, Fields
  <2> QED
    BY <1>1, <2>1 DEF IsRows
<1>4. PICK d : /\ Takes(s, k, b, <<c>>, d) /\ Safe(s, k, d)
               /\ Made3(k, b.mem, d.mem, "moe", l, "ffn_out", "norm", "gather", "ffn_out")
  BY <1>1, ThreeOperandTakes, Names, PlainNames
<1>5. Scattered(l, Len(k)) = <<c>>
  BY DEF Scattered
<1> HIDE DEF c, g
<1>6. IsRows(k, d.mem["ffn_out"], Moes(s, k, l))
  BY <1>2, <1>3, <1>4, HalfIs, ThreeRows DEF Moes
<1>7. Same(d.mem, b.mem, {"ffn_out"})
  BY <1>4 DEF Made3
<1>8. Half(s, k, l, d)
  BY <1>2, <1>4, <1>7, SameHalf
<1>9. Takes(s, k, a, <<g>> \o <<c>>, d)
  BY <1>1, <1>4, TakesOn
<1> QED
  BY <1>5, <1>6, <1>8, <1>9 DEF g

(* What a layer hands to the next is what the reference's layer computes.    *)
LEMMA InsAre ==
  ASSUME NEW s, NEW k, Fits(s, k), NEW l \in Layers
  PROVE  Row2(k, "add", 0, Moes(s, k, l), Mids(s, k, l)) = Ins(s, k, l + 1)
<1> SUFFICES ASSUME NEW t \in 0 .. Len(k) - 1
             PROVE  Row2(k, "add", 0, Moes(s, k, l), Mids(s, k, l))[t] = Ins(s, k, l + 1)[t]
  BY DEF Row2, Ins
<1> DEFINE p == Len(s) + t
           xs == LayerIn(s \o k)[l]
           mid == <<"add", 0, Attention(l, xs, p), xs[p]>>
           norm == <<"ffn_norm", l, mid>>
           base == IF HasShared THEN <<"shared", l, <<"zero", 0>>, norm>> ELSE <<"zero", 0>>
           moe == <<"moe", l, base, norm, Chosen(<<"router", l, norm>>)>>
<1>1. l \in Nat /\ p \in 0 .. Len(s \o k) - 1
  BY Sizes, LayersNumber DEF Layers
<1>2. Ins(s, k, l + 1)[t] = LayerForward(l, xs, p)
  <2>1. LayerIn(s \o k)[l + 1][p] = LayerForward(l, LayerIn(s \o k)[l], p)
    BY <1>1, LayerEnters
  <2> QED
    BY <2>1 DEF Ins
<1>3. LayerForward(l, xs, p) = <<"add", 0, moe, mid>>
  <2>1. Moe(l, norm) = moe
    BY Zenon DEF Moe
  <2>2. LayerForward(l, xs, p) = <<"add", 0, Moe(l, norm), mid>>
    BY Zenon DEF LayerForward
  <2> QED
    BY <2>1, <2>2, Zenon
<1>4. Row1(k, "attn_output", l, Looks(s, k, l))[t] = Attention(l, xs, p)
  <2>1. Looks(s, k, l)[t] = <<"attention", l, KvRow(l, p, xs[p]),
                              [i \in 1 .. p + 1 |-> KvRow(l, i - 1, xs[i - 1])]>>
    BY DEF Looks
  <2>2. Row1(k, "attn_output", l, Looks(s, k, l))[t] = <<"attn_output", l, Looks(s, k, l)[t]>>
    BY DEF Row1
  <2> QED
    BY <2>1, <2>2, Zenon DEF Attention
<1>5. Mids(s, k, l)[t] = mid
  <2>1. Ins(s, k, l)[t] = xs[p]
    BY DEF Ins
  <2>2. Mids(s, k, l)[t] = <<"add", 0, Row1(k, "attn_output", l, Looks(s, k, l))[t], Ins(s, k, l)[t]>>
    BY DEF Mids, Row2
  <2> QED
    BY <1>4, <2>1, <2>2, Zenon
<1> HIDE DEF mid
<1>6. Norms(s, k, l)[t] = norm
  BY <1>5 DEF Norms, Row1
<1> HIDE DEF norm
<1>7. Bases(s, k, l)[t] = base
  BY <1>6 DEF Bases, Row2, Zeros
<1>8. Routes(s, k, l)[t] = Chosen(<<"router", l, norm>>)
  BY <1>6 DEF Routes
<1> HIDE DEF base
<1>9. Moes(s, k, l)[t] = moe
  <2>1. Moes(s, k, l)[t] = <<"moe", l, Bases(s, k, l)[t], Norms(s, k, l)[t], Routes(s, k, l)[t]>>
    BY DEF Moes, Row3
  <2> QED
    BY <1>6, <1>7, <1>8, <2>1, Zenon
<1> HIDE DEF moe
<1>10. Row2(k, "add", 0, Moes(s, k, l), Mids(s, k, l))[t] = <<"add", 0, moe, mid>>
  BY <1>5, <1>9 DEF Row2
<1> QED
  BY <1>2, <1>3, <1>10, Zenon

(* The sum at the end of a layer is what enters the next. *)
LEMMA SummedTakes ==
  ASSUME NEW s, NEW k, Fits(s, k), NEW l \in Layers, NEW a, Half(s, k, l, a),
         IsRows(k, a.mem.ffn_out, Moes(s, k, l))
  PROVE  \E b : Takes(s, k, a, Summed(Len(k)), b) /\ Entered(s, k, l + 1, b)
<1> DEFINE c == Kernel("add", 0, <<"ffn_out", "residual">>, "hidden", Len(k))
<1>1. PICK b : /\ Takes(s, k, a, <<c>>, b) /\ Safe(s, k, b)
               /\ Made2(k, a.mem, b.mem, "add", 0, "ffn_out", "residual", "hidden")
  BY HalfIs, TwoOperandTakes, Names, PlainNames
<1>2. Summed(Len(k)) = <<c>>
  BY DEF Summed
<1> HIDE DEF c
<1>3. IsRows(k, b.mem["hidden"], Row2(k, "add", 0, Moes(s, k, l), Mids(s, k, l)))
  BY <1>1, HalfIs, TwoRows
<1>4. b.mem["kv"] = a.mem["kv"]
  BY <1>1 DEF Made2, Same, Fields
<1>5. Entered(s, k, l + 1, b)
  BY <1>1, <1>3, <1>4, HalfIs, InsAre DEF Entered
<1> QED
  BY <1>1, <1>2, <1>5

-----------------------------------------------------------------------------
(* Layers one after the other. *)

(* f has the beginnings of all that ss are put together to. *)
Strings(ss, n, f) ==
  /\ f = [i \in 1 .. n |-> f[i]]
  /\ \A i \in 1 .. n : f[i] = IF i = 1 THEN ss[i] ELSE f[i - 1] \o ss[i]

(* FlattenSeq puts the pieces one after the other. *)
LEMMA StringsExist ==
  ASSUME NEW ss
  PROVE  \A n \in Nat : \E f : Strings(ss, n, f)
<1> DEFINE S == {n \in Nat : \E f : Strings(ss, n, f)}
<1>1. 0 \in S
  <2> DEFINE f == [i \in 1 .. 0 |-> ss]
  <2>1. Strings(ss, 0, f)
    BY DEF Strings
  <2> QED
    BY <2>1
<1>2. ASSUME NEW n \in Nat, n \in S PROVE n + 1 \in S
  <2>1. PICK f : Strings(ss, n, f)
    BY <1>2
  <2> DEFINE v == IF n = 0 THEN ss[1] ELSE f[n] \o ss[n + 1]
             g == [i \in 1 .. n + 1 |-> IF i = n + 1 THEN v ELSE f[i]]
  <2> HIDE DEF v
  <2>2. g = [i \in 1 .. n + 1 |-> g[i]] /\ g[n + 1] = v /\ \A i \in 1 .. n : g[i] = f[i]
    OBVIOUS
  <2> HIDE DEF g
  <2>3. ASSUME NEW i \in 1 .. n + 1 PROVE g[i] = IF i = 1 THEN ss[i] ELSE g[i - 1] \o ss[i]
    <3>1. CASE i = n + 1 /\ n = 0
      <4>1. i = 1
        BY <3>1
      <4> QED
        BY <2>2, <3>1, <4>1 DEF v
    <3>2. CASE i = n + 1 /\ n # 0
      <4>1. i # 1 /\ i - 1 = n /\ n \in 1 .. n
        BY <3>2
      <4>2. g[i - 1] = f[n]
        BY <2>2, <4>1
      <4>3. g[i] = f[n] \o ss[i]
        BY <2>2, <3>2 DEF v
      <4> QED
        BY <4>1, <4>2, <4>3, Zenon
    <3>3. CASE i # n + 1
      <4>1. i \in 1 .. n /\ (i # 1 => i - 1 \in 1 .. n)
        BY <3>3
      <4>2. f[i] = IF i = 1 THEN ss[i] ELSE f[i - 1] \o ss[i]
        BY <2>1, <4>1 DEF Strings
      <4>3. g[i] = f[i] /\ (i # 1 => g[i - 1] = f[i - 1])
        BY <2>2, <4>1
      <4> QED
        BY <4>2, <4>3, Zenon
    <3> QED
      BY <3>1, <3>2, <3>3
  <2>4. Strings(ss, n + 1, g)
    BY <2>2, <2>3 DEF Strings
  <2> QED
    BY <2>4
<1>3. \A n \in Nat : n \in S
  <2> HIDE DEF S
  <2> QED
    BY <1>1, <1>2, ByInduction
<1> QED
  BY <1>3

LEMMA FlattenIs ==
  ASSUME NEW n \in Nat, n # 0, NEW ss, ss = [i \in 1 .. n |-> ss[i]]
  PROVE  \E f : Strings(ss, n, f) /\ FlattenSeq(ss) = f[n]
<1>1. Len(ss) = n
  <2> DEFINE S == {ss[i] : i \in 1 .. n}
  <2>1. \A i \in 1 .. n : ss[i] \in S
    OBVIOUS
  <2> HIDE DEF S
  <2>2. ss \in [1 .. n -> S]
    BY <2>1
  <2> QED
    BY <2>2
<1> DEFINE Eq(f) == f = [i \in 1 .. n |-> IF i = 1 THEN ss[i] ELSE f[i - 1] \o ss[i]]
           flat == CHOOSE f : Eq(f)
<1>2. \E f : Eq(f)
  <2>1. PICK f : Strings(ss, n, f)
    BY StringsExist
  <2>2. f = [i \in 1 .. n |-> f[i]] /\ \A i \in 1 .. n : f[i] = IF i = 1 THEN ss[i] ELSE f[i - 1] \o ss[i]
    BY <2>1 DEF Strings
  <2>3. Eq(f)
    BY <2>2
  <2> QED
    BY <2>3
<1>3. Eq(flat)
  <2> HIDE DEF Eq
  <2> QED
    BY <1>2
<1>4. FlattenSeq(ss) = flat[n]
  BY <1>1 DEF FlattenSeq
<1> HIDE DEF flat
<1>5. flat = [i \in 1 .. n |-> IF i = 1 THEN ss[i] ELSE flat[i - 1] \o ss[i]]
  BY <1>3, Zenon
<1>6. Strings(ss, n, flat)
  <2>1. \A i \in 1 .. n : flat[i] = IF i = 1 THEN ss[i] ELSE flat[i - 1] \o ss[i]
    BY <1>5
  <2>2. flat = [i \in 1 .. n |-> flat[i]]
    BY <1>5
  <2> QED
    BY <2>1, <2>2, Zenon DEF Strings
<1> QED
  BY <1>4, <1>6

(* Nothing before a sequence. *)
LEMMA NothingBefore ==
  ASSUME NEW s, IsSeq(s)
  PROVE  <<>> \o s = s
<1>1. PICK S : s \in Seq(S)
  BY DEF IsSeq
<1>2. <<>> \in Seq(S) /\ Len(<<>>) = 0
  OBVIOUS
<1>3. <<>> \o s = s
  BY <1>1
<1> QED
  BY <1>3

(* Pieces that each advance by one layer advance through all. *)
LEMMA LayersTake ==
  ASSUME NEW what, NEW s, NEW k, NEW l, NEW v, NEW n \in Nat, NEW ss, ss = [i \in 1 .. n |-> ss[i]],
         Advances(what, s, k, l, v, n, ss), NEW a, Stage(what, s, k, l, 0, v, a)
  PROVE  \E b : Takes(s, k, a, FlattenSeq(ss), b) /\ Stage(what, s, k, l, n, v, b)
<1>1. CASE n = 0
  <2>1. ss = <<>>
    <3>1. 1 .. n = {}
      BY <1>1
    <3> QED
      BY <3>1
  <2>2. FlattenSeq(ss) = <<>>
    <3>1. Len(ss) = 0
      BY <2>1
    <3> QED
      BY <2>1, <3>1 DEF FlattenSeq
  <2>3. Takes(s, k, a, <<>>, a)
    BY TakesNone
  <2> QED
    BY <1>1, <2>2, <2>3
<1>2. CASE n # 0
  <2>1. PICK f : Strings(ss, n, f) /\ FlattenSeq(ss) = f[n]
    BY <1>2, FlattenIs
  <2> DEFINE g == [i \in 0 .. n |-> IF i = 0 THEN <<>> ELSE f[i]]
  <2>2. g[0] = <<>> /\ \A i \in 1 .. n : g[i] = f[i]
    OBVIOUS
  <2> HIDE DEF g
  <2>3. IsSeq(ss[1])
    <3>1. 0 \in 0 .. n - 1
      BY <1>2
    <3>2. \E b : Takes(s, k, a, ss[0 + 1], b)
      BY <3>1 DEF Advances
    <3>3. 0 + 1 = 1
      OBVIOUS
    <3> QED
      BY <3>2, <3>3 DEF Takes
  <2>7. \A i \in 1 .. n : f[i] = IF i = 1 THEN ss[i] ELSE f[i - 1] \o ss[i]
    BY <2>1, Zenon DEF Strings
  <2>4. ASSUME NEW i \in 1 .. n PROVE g[i] = g[i - 1] \o ss[i]
    <3>1. CASE i = 1
      <4>0. i - 1 = 0
        BY <3>1
      <4>a. f[i] = ss[i]
        BY <2>7, <3>1, Zenon
      <4>1. i - 1 = 0 /\ f[i] = ss[i]
        BY <4>0, <4>a
      <4>2. <<>> \o ss[1] = ss[1]
        BY <2>3, NothingBefore
      <4>3. g[i] = ss[1] /\ g[i - 1] = <<>>
        BY <2>2, <3>1, <4>1
      <4> QED
        BY <3>1, <4>2, <4>3, Zenon
    <3>2. CASE i # 1
      <4>0. i - 1 \in 1 .. n
        BY <3>2
      <4>a. f[i] = f[i - 1] \o ss[i]
        BY <2>7, <3>2, Zenon
      <4>1. i - 1 \in 1 .. n /\ f[i] = f[i - 1] \o ss[i]
        BY <4>0, <4>a
      <4>2. g[i] = f[i] /\ g[i - 1] = f[i - 1]
        BY <2>2, <4>1
      <4> QED
        BY <4>1, <4>2, Zenon
    <3> QED
      BY <3>1, <3>2
  <2>5. \E b : Takes(s, k, a, g[n], b) /\ Stage(what, s, k, l, n, v, b)
    BY <2>2, <2>4, StagesTake
  <2>6. g[n] = FlattenSeq(ss)
    <3>1. n \in 1 .. n
      BY <1>2
    <3>2. g[n] = f[n]
      BY <2>2, <3>1
    <3> QED
      BY <2>1, <3>2, Zenon
  <2> QED
    BY <2>5, <2>6, Zenon
<1> QED
  BY <1>1, <1>2

-----------------------------------------------------------------------------
(* Pieces of a schedule. *)

(* All rows of layer l are routed; its ffn_out is zero already if z.         *)
RoutedRow(s, k, l, z, a) ==
  /\ Routing(s, k, l, Len(k), a.mem.ffn_out, a)
  /\ z => IsRows(k, a.mem.ffn_out, Zeros(k))

(* These stages are safe. *)
LEMMA EnteredSafe ==
  ASSUME NEW s, NEW k, NEW l, NEW a, Entered(s, k, l, a)
  PROVE  Safe(s, k, a)
BY DEF Entered

LEMMA ReadySafe ==
  ASSUME NEW s, NEW k, NEW l, NEW z, NEW a, Ready(s, k, l, z, a)
  PROVE  Safe(s, k, a)
BY DEF Ready, Half

(* A batch is begun. *)
LEMMA BeginEntered ==
  ASSUME NEW s, NEW k, NEW l, NEW a, Entered(s, k, l, a)
  PROVE  \E b : Takes(s, k, a, <<Begin>>, b) /\ Entered(s, k, l, b) /\ ~b.used
<1>1. PICK b : /\ Takes(s, k, a, <<Begin>>, b) /\ Safe(s, k, b)
               /\ b.mem = a.mem /\ b.idx = a.idx /\ ~b.used
  BY EnteredSafe, BeginTakes
<1>2. Entered(s, k, l, b)
  BY <1>1 DEF Entered
<1> QED
  BY <1>1, <1>2

(* A batch begins between the halves of a layer. *)
LEMMA BeginReady ==
  ASSUME NEW s, NEW k, NEW l, NEW z, NEW a, Ready(s, k, l, z, a)
  PROVE  \E b : Takes(s, k, a, <<Begin>>, b) /\ Ready(s, k, l, z, b) /\ ~b.used
<1>1. PICK b : /\ Takes(s, k, a, <<Begin>>, b) /\ Safe(s, k, b)
               /\ b.mem = a.mem /\ b.idx = a.idx /\ ~b.used
  BY ReadySafe, BeginTakes
<1>2. Ready(s, k, l, z, b)
  BY <1>1 DEF Ready, Half
<1> QED
  BY <1>1, <1>2

(* The top-k, the end of the batch and the reading of the choices. *)
LEMMA ReadBackTakes ==
  ASSUME NEW s, NEW k, Fits(s, k), NEW l \in Layers, NEW z, NEW a, RoutedRow(s, k, l, z, a)
  PROVE  \E b : Takes(s, k, a, TopKReadBack(l, Len(k)), b) /\ Ready(s, k, l, z, b)
<1> DEFINE v == a.mem.ffn_out
<1>1. Routing(s, k, l, Len(k), v, a) /\ (z => IsRows(k, v, Zeros(k)))
  BY DEF RoutedRow
<1> HIDE DEF v
<1>2. PICK b : /\ Takes(s, k, a, TopKReadBack(l, Len(k)), b) /\ Half(s, k, l, b)
               /\ b.mem.ffn_out = v /\ IsRows(k, b.idx[l], Routes(s, k, l))
  BY <1>1, TopKReadBackTakes
<1>3. Ready(s, k, l, z, b)
  BY <1>1, <1>2 DEF Ready
<1> QED
  BY <1>2, <1>3

(* All rows of the pass are routed. *)
LEMMA OneRowRouted ==
  ASSUME NEW s, NEW k, NEW l, NEW v, NEW z, NEW a, Routing(s, k, l, Len(k), v, a),
         z => IsRows(k, v, Zeros(k))
  PROVE  RoutedRow(s, k, l, z, a)
<1>1. a.mem.ffn_out = v
  BY DEF Routing
<1> QED
  BY <1>1 DEF RoutedRow

(* forward_layer_pre and its counterpart for a chunk. *)
LEMMA ForwardLayerPreTakes ==
  ASSUME NEW s, NEW k, Fits(s, k), Len(k) = 1, NEW l \in Layers, NEW a, Entered(s, k, l, a)
  PROVE  \E b : Takes(s, k, a, ForwardLayerPre(l, Len(s)), b) /\ RoutedRow(s, k, l, TRUE, b)
<1>1. PICK a1 : Takes(s, k, a, AttentionBranch(l, 1, Len(s)), a1) /\ Half(s, k, l, a1)
  BY AttentionBranchTakes
<1>2. PICK a2 : Takes(s, k, a1, Zeroed(1), a2) /\ Half(s, k, l, a2) /\ IsRows(k, a2.mem.ffn_out, Zeros(k))
  BY <1>1, ZeroedTakes
<1>3. PICK b : Takes(s, k, a2, Routed(l, 1), b) /\ Routing(s, k, l, Len(k), a2.mem.ffn_out, b)
  BY <1>2, RoutedTakes
<1>4. RoutedRow(s, k, l, TRUE, b)
  BY <1>2, <1>3, OneRowRouted
<1>5. Takes(s, k, a, AttentionBranch(l, 1, Len(s)) \o Zeroed(1) \o Routed(l, 1), b)
  BY <1>1, <1>2, <1>3, TakesOn, Zenon
<1> QED
  BY <1>4, <1>5, Zenon DEF ForwardLayerPre

LEMMA ForwardChunkPreTakes ==
  ASSUME NEW s, NEW k, Fits(s, k), NEW l \in Layers, NEW a, Entered(s, k, l, a)
  PROVE  \E b : Takes(s, k, a, ForwardChunkPre(l, Len(k), Len(s)), b) /\ RoutedRow(s, k, l, FALSE, b)
<1>1. PICK a1 : Takes(s, k, a, AttentionBranch(l, Len(k), Len(s)), a1) /\ Half(s, k, l, a1)
  BY AttentionBranchTakes
<1>2. PICK b : Takes(s, k, a1, Routed(l, Len(k)), b) /\ Routing(s, k, l, Len(k), a1.mem.ffn_out, b)
  BY <1>1, RoutedTakes
<1>3. RoutedRow(s, k, l, FALSE, b)
  BY <1>2, OneRowRouted
<1>4. Takes(s, k, a, AttentionBranch(l, Len(k), Len(s)) \o Routed(l, Len(k)), b)
  BY <1>1, <1>2, TakesOn, Zenon
<1> QED
  BY <1>3, <1>4, Zenon DEF ForwardChunkPre

(* The shared expert, the experts and the sum, when ffn_out is zero.         *)
LEMMA ExpertsAndSumTake ==
  ASSUME NEW s, NEW k, Fits(s, k), NEW l \in Layers, NEW u, HasShared => u, NEW a,
         Ready(s, k, l, TRUE, a)
  PROVE  \E b, d : /\ Takes(s, k, a, Shared(l, Len(k), u), b)
                   /\ \E e : Takes(s, k, b, Experts(l, Len(k)), e) /\ Takes(s, k, e, Summed(Len(k)), d)
                   /\ Entered(s, k, l + 1, d)
<1>1. /\ Half(s, k, l, a) /\ IsRows(k, a.idx[l], Routes(s, k, l))
      /\ IsRows(k, a.mem.ffn_out, Zeros(k))
  BY DEF Ready
<1>2. PICK b : /\ Takes(s, k, a, Shared(l, Len(k), u), b) /\ Half(s, k, l, b)
               /\ b.idx = a.idx /\ IsRows(k, b.mem.ffn_out, Bases(s, k, l))
  BY <1>1, SharedTakes
<1>3. PICK e : /\ Takes(s, k, b, Experts(l, Len(k)), e) /\ Half(s, k, l, e)
               /\ IsRows(k, e.mem.ffn_out, Moes(s, k, l))
  BY <1>1, <1>2, ChosenExpertsTake
<1>4. PICK d : Takes(s, k, e, Summed(Len(k)), d) /\ Entered(s, k, l + 1, d)
  BY <1>3, SummedTakes
<1> QED
  BY <1>2, <1>3, <1>4

(* forward_layer_post and its counterpart for a chunk, not gathered. *)
LEMMA ForwardLayerPostTakes ==
  ASSUME NEW s, NEW k, Fits(s, k), Len(k) = 1, NEW l \in Layers, HasShared => UseShared, NEW a,
         Ready(s, k, l, TRUE, a)
  PROVE  \E b : Takes(s, k, a, ForwardLayerPost(l), b) /\ Entered(s, k, l + 1, b)
<1>1. PICK b, d : /\ Takes(s, k, a, Shared(l, 1, UseShared), b)
                  /\ \E e : Takes(s, k, b, Experts(l, 1), e) /\ Takes(s, k, e, Summed(1), d)
                  /\ Entered(s, k, l + 1, d)
  BY ExpertsAndSumTake
<1>2. PICK e : Takes(s, k, b, Experts(l, 1), e) /\ Takes(s, k, e, Summed(1), d)
  BY <1>1
<1>3. Takes(s, k, a, Shared(l, 1, UseShared) \o Experts(l, 1) \o Summed(1), d)
  BY <1>1, <1>2, TakesOn, Zenon
<1> QED
  BY <1>1, <1>3, Zenon DEF ForwardLayerPost

LEMMA ForwardChunkPostTakes ==
  ASSUME NEW s, NEW k, Fits(s, k), NEW l \in Layers, HasShared => UseShared, NEW a,
         Ready(s, k, l, FALSE, a)
  PROVE  \E b : Takes(s, k, a, ForwardChunkPost(l, Len(k)), b) /\ Entered(s, k, l + 1, b)
<1> DEFINE M == Len(k)
<1>1. Half(s, k, l, a) /\ IsRows(k, a.idx[l], Routes(s, k, l))
  BY DEF Ready
<1>2. PICK c : /\ Takes(s, k, a, Zeroed(M), c) /\ Half(s, k, l, c) /\ c.idx = a.idx
               /\ IsRows(k, c.mem.ffn_out, Zeros(k))
  BY <1>1, ZeroedTakes
<1>3. Ready(s, k, l, TRUE, c)
  BY <1>1, <1>2 DEF Ready
<1>4. PICK b, d : /\ Takes(s, k, c, Shared(l, M, UseShared), b)
                  /\ \E e : Takes(s, k, b, Experts(l, M), e) /\ Takes(s, k, e, Summed(M), d)
                  /\ Entered(s, k, l + 1, d)
  BY <1>3, ExpertsAndSumTake
<1>5. PICK e : Takes(s, k, b, Experts(l, M), e) /\ Takes(s, k, e, Summed(M), d)
  BY <1>4
<1> HIDE DEF M
<1>6. Takes(s, k, a, Zeroed(M) \o Shared(l, M, UseShared), b)
  BY <1>2, <1>4, TakesOn, Zenon
<1>7. Takes(s, k, a, Zeroed(M) \o Shared(l, M, UseShared) \o Experts(l, M) \o Summed(M), d)
  BY <1>5, <1>6, TakesOn, Zenon
<1> QED
  BY <1>4, <1>7, Zenon DEF ForwardChunkPost, M

(* The shared expert that is always taken.                                   *)
LEMMA SharedAlwaysTakes ==
  ASSUME NEW s, NEW k, Fits(s, k), NEW l, NEW a, Half(s, k, l, a),
         IsRows(k, a.mem.ffn_out, Zeros(k))
  PROVE  \E b : /\ Takes(s, k, a, Shared(l, Len(k), TRUE), b) /\ Half(s, k, l, b)
                /\ b.idx = a.idx /\ b.used = a.used /\ IsRows(k, b.mem.ffn_out, Bases(s, k, l))
<1>1. \A u : (HasShared => u) =>
        \E b : /\ Takes(s, k, a, Shared(l, Len(k), u), b) /\ Half(s, k, l, b)
              /\ b.idx = a.idx /\ b.used = a.used /\ IsRows(k, b.mem.ffn_out, Bases(s, k, l))
  BY SharedTakes
<1> QED
  BY <1>1, Zenon

(* The same, gathered. *)
LEMMA ForwardChunkPostGatheredTakes ==
  ASSUME NEW s, NEW k, Fits(s, k), NEW l \in Layers, NEW a, Ready(s, k, l, FALSE, a), ~a.used
  PROVE  \E b : Takes(s, k, a, ForwardChunkPostGathered(l, Len(k)), b) /\ Entered(s, k, l + 1, b)
<1> DEFINE M == Len(k)
           g == Do("gather", l, M)
<1>1. Half(s, k, l, a) /\ IsRows(k, a.idx[l], Routes(s, k, l))
  BY DEF Ready
<1>2. PICK c : /\ Takes(s, k, a, Zeroed(M), c) /\ Half(s, k, l, c) /\ c.idx = a.idx
               /\ c.used = a.used /\ IsRows(k, c.mem.ffn_out, Zeros(k))
  BY <1>1, ZeroedTakes
<1>3. PICK b : /\ Takes(s, k, c, Shared(l, M, TRUE), b) /\ Half(s, k, l, b)
               /\ b.idx = c.idx /\ b.used = c.used /\ IsRows(k, b.mem.ffn_out, Bases(s, k, l))
  BY <1>2, SharedAlwaysTakes
<1>a. ~b.used /\ b.idx = a.idx
  BY <1>2, <1>3, Zenon
<1>b. IsRows(k, b.idx[l], Routes(s, k, l)) /\ Half(s, k, l, b) /\ IsRows(k, b.mem.ffn_out, Bases(s, k, l))
  BY <1>1, <1>3, <1>a, Zenon
<1>4. PICK e : /\ Takes(s, k, b, <<g>> \o Scattered(l, M), e)
               /\ Half(s, k, l, e) /\ IsRows(k, e.mem.ffn_out, Moes(s, k, l))
  BY <1>a, <1>b, ListedExpertsTake
<1>5. PICK d : Takes(s, k, e, Summed(M), d) /\ Entered(s, k, l + 1, d)
  BY <1>4, SummedTakes
<1> HIDE DEF M, g
<1>6. Takes(s, k, a, Zeroed(M) \o Shared(l, M, TRUE), b)
  BY <1>2, <1>3, TakesOn, Zenon
<1>7. Takes(s, k, a, Zeroed(M) \o Shared(l, M, TRUE) \o (<<g>> \o Scattered(l, M)), e)
  BY <1>4, <1>6, TakesOn, Zenon
<1> DEFINE zs == Zeroed(M) \o Shared(l, M, TRUE)
<1>8. zs \o (<<g>> \o Scattered(l, M)) = (zs \o <<g>>) \o Scattered(l, M)
  <2>1. IsSeq(zs) /\ IsSeq(<<g>>) /\ IsSeq(Scattered(l, M))
    <3>1. IsSeq(zs)
      BY <1>6 DEF Takes
    <3>2. <<g>> \in Seq({g})
      OBVIOUS
    <3>3. Scattered(l, M) \in Seq({Kernel("moe", l, <<"ffn_out", "norm", "gather">>, "ffn_out", M)})
      BY DEF Scattered
    <3> QED
      BY <3>1, <3>2, <3>3 DEF IsSeq
  <2> HIDE DEF zs
  <2>2. PICK S1, S2, S3 : zs \in Seq(S1) /\ <<g>> \in Seq(S2) /\ Scattered(l, M) \in Seq(S3)
    BY <2>1 DEF IsSeq
  <2> DEFINE S == S1 \cup S2 \cup S3
  <2>3. zs \in Seq(S) /\ <<g>> \in Seq(S) /\ Scattered(l, M) \in Seq(S)
    BY <2>2
  <2> QED
    BY <2>3, ConcatAssociative, SMTT(20)
<1>9. Takes(s, k, a, zs \o <<g>> \o Scattered(l, M), e)
  BY <1>7, <1>8, Zenon
<1>10. Takes(s, k, a, zs \o <<g>> \o Scattered(l, M) \o Summed(M), d)
  BY <1>5, <1>9, TakesOn, Zenon
<1> QED
  BY <1>5, <1>10, Zenon DEF ForwardChunkPostGathered, M, g

-----------------------------------------------------------------------------
(* The schedules. *)

(* The shared expert of ds3_metal_moe_ffn, which asks no environment variable. *)
LEMMA OneSharedAlwaysTakes ==
  ASSUME NEW s, NEW k, Fits(s, k), Len(k) = 1, NEW l, NEW a, Half(s, k, l, a),
         IsRows(k, a.mem.ffn_out, Zeros(k))
  PROVE  \E b : /\ Takes(s, k, a, Shared(l, 1, TRUE), b) /\ Half(s, k, l, b)
                /\ b.idx = a.idx /\ b.used = a.used /\ IsRows(k, b.mem.ffn_out, Bases(s, k, l))
<1>1. PICK b : /\ Takes(s, k, a, Shared(l, Len(k), TRUE), b) /\ Half(s, k, l, b)
               /\ b.idx = a.idx /\ b.used = a.used /\ IsRows(k, b.mem.ffn_out, Bases(s, k, l))
  BY SharedAlwaysTakes
<1>2. Takes(s, k, a, Shared(l, 1, TRUE), b)
  BY <1>1, Zenon
<1> QED
  BY <1>1, <1>2

(* ds3_metal_moe_ffn, for one token: fused, or through the host.             *)
LEMMA MoeFfnTakes ==
  ASSUME NEW s, NEW k, Fits(s, k), Len(k) = 1, NEW l \in Layers, NEW a, Half(s, k, l, a),
         IsRows(k, a.mem.ffn_out, Zeros(k))
  PROVE  \E b : /\ Takes(s, k, a, MoeFfn(l), b) /\ Half(s, k, l, b)
                /\ IsRows(k, b.mem.ffn_out, Moes(s, k, l))
<1>1. CASE l \in Fused
  <2> DEFINE c == Kernel("fused", l, <<"ffn_out", "norm">>, "ffn_out", 1)
  <2>1. PICK b : /\ Takes(s, k, a, Shared(l, 1, TRUE), b) /\ Half(s, k, l, b)
                 /\ b.idx = a.idx /\ b.used = a.used /\ IsRows(k, b.mem.ffn_out, Bases(s, k, l))
    BY OneSharedAlwaysTakes, Zenon
  <2>2. PICK d : /\ Takes(s, k, b, <<c>>, d) /\ Half(s, k, l, d)
                 /\ IsRows(k, d.mem.ffn_out, Moes(s, k, l))
    BY <2>1, FusedExpertsTake
  <2>3. Takes(s, k, a, Shared(l, 1, TRUE) \o <<c>>, d)
    BY <2>1, <2>2, TakesOn, Zenon
  <2>4. MoeFfn(l) = Shared(l, 1, TRUE) \o <<c>>
    BY <1>1 DEF MoeFfn
  <2> QED
    BY <2>2, <2>3, <2>4, Zenon
<1>2. CASE l \notin Fused
  <2> DEFINE r == Router(l, 0, 0)
             w == Do("choose", l, 1)
  <2>1. 0 \in Cells /\ 0 \in 0 .. Len(k) - 1
    <3>1. 0 * Len(k) + 0 = 0 /\ 0 \in Layers /\ 0 \in 0 .. Len(k) - 1
      BY Sizes, DeviceAssumption DEF Layers
    <3>2. 0 * Len(k) + 0 \in Cells
      BY <3>1, CellIs
    <3> QED
      BY <3>1, <3>2
  <2>2. Safe(s, k, a) /\ IsRows(k, a.mem["norm"], Norms(s, k, l))
    BY HalfIs
  <2>3. PICK b : Takes(s, k, a, <<r>>, b) /\ Safe(s, k, b) /\ RouterDone(a.mem, b.mem, l, 0, 0)
    BY <2>1, <2>2, RouterTakes
  <2>4. Same(b.mem, a.mem, {"gate"}) /\ b.mem.gate = [a.mem.gate EXCEPT ![0] = <<"router", l, a.mem.norm[0]>>]
    BY <2>3 DEF RouterDone
  <2>5. b.mem.gate[0] = <<"router", l, Norms(s, k, l)[0]>>
    <3>1. a.mem.gate = [y \in Cells |-> a.mem.gate[y]]
      BY <2>2, SafeIs DEF IsMem
    <3>2. a.mem.norm[0] = Norms(s, k, l)[0]
      BY <2>1, <2>2 DEF IsRows
    <3> QED
      BY <2>1, <2>4, <3>1, <3>2
  <2>6. Takes(s, k, b, <<End>>, b)
    BY <2>3, EndTakes
  <2>7. PICK c : /\ Takes(s, k, b, <<w>>, c) /\ Safe(s, k, c)
                 /\ c.mem = b.mem /\ ReadDone(k, "choose", l, b.mem, c.idx)
    BY <2>3, ReadTakes
  <2>8. IsRows(k, c.idx[l], Routes(s, k, l))
    <3> SUFFICES ASSUME NEW t \in 0 .. Len(k) - 1 PROVE c.idx[l][t] = Routes(s, k, l)[t]
      BY DEF IsRows
    <3>1. t = 0
      OBVIOUS
    <3>2. c.idx[l][t] = Chosen(b.mem.gate[0])
      BY <2>7 DEF ReadDone
    <3>3. Routes(s, k, l)[t] = Chosen(<<"router", l, Norms(s, k, l)[t]>>)
      BY DEF Routes
    <3> QED
      BY <2>5, <3>1, <3>2, <3>3
  <2>9. PICK d : /\ Takes(s, k, c, <<Begin>>, d) /\ Safe(s, k, d)
                 /\ d.mem = c.mem /\ d.idx = c.idx /\ ~d.used
    BY <2>7, BeginTakes
  <2>10. Half(s, k, l, d)
    BY <2>4, <2>7, <2>9, SameHalf
  <2>11. IsRows(k, d.mem.ffn_out, Zeros(k))
    BY <2>4, <2>7, <2>9 DEF Same, Fields
  <2>12. PICK e : /\ Takes(s, k, d, Shared(l, 1, TRUE), e) /\ Half(s, k, l, e)
                  /\ e.idx = d.idx /\ e.used = d.used /\ IsRows(k, e.mem.ffn_out, Bases(s, k, l))
    BY <2>10, <2>11, OneSharedAlwaysTakes, Zenon
  <2>13. IsRows(k, e.idx[l], Routes(s, k, l))
    BY <2>8, <2>9, <2>12
  <2>14. PICK f : /\ Takes(s, k, e, Experts(l, 1), f) /\ Half(s, k, l, f)
                  /\ IsRows(k, f.mem.ffn_out, Moes(s, k, l))
    BY <2>12, <2>13, ChosenExpertsTake
  <2>15. MoeFfn(l) = <<r, End, w, Begin>> \o Shared(l, 1, TRUE) \o Experts(l, 1)
    BY <1>2 DEF MoeFfn
  <2> HIDE DEF r, w
  <2>16. Takes(s, k, a, <<r, End, w, Begin>>, d)
    BY <2>3, <2>6, <2>7, <2>9, TakesFour, Zenon
  <2>17. Takes(s, k, a, <<r, End, w, Begin>> \o Shared(l, 1, TRUE) \o Experts(l, 1), f)
    BY <2>12, <2>14, <2>16, TakesOn, Zenon
  <2> QED
    BY <2>14, <2>15, <2>17, Zenon
<1> QED
  BY <1>1, <1>2

(* Schedule gpu_only: a batch for every layer. *)
LEMMA GpuOnlyTakes ==
  ASSUME NEW s, NEW k, Fits(s, k), Len(k) = 1, NEW a, Entered(s, k, 0, a)
  PROVE  \E b : Takes(s, k, a, GpuOnly(Len(s)), b) /\ Entered(s, k, NLayer, b)
<1> DEFINE p == Len(s)
           Layer(l) == <<Begin>> \o ForwardLayerGpuOnly(l, p) \o <<End>>
           ss == [i \in 1 .. NLayer |-> Layer(i - 1)]
<1>1. ASSUME NEW l \in Layers, NEW c, Entered(s, k, l, c)
      PROVE  \E b : Takes(s, k, c, Layer(l), b) /\ Entered(s, k, l + 1, b)
  <2>1. PICK a0 : Takes(s, k, c, <<Begin>>, a0) /\ Entered(s, k, l, a0)
    BY <1>1, BeginEntered
  <2>2. PICK a1 : Takes(s, k, a0, AttentionBranch(l, 1, p), a1) /\ Half(s, k, l, a1)
    BY <2>1, AttentionBranchTakes
  <2>3. PICK a2 : Takes(s, k, a1, Zeroed(1), a2) /\ Half(s, k, l, a2) /\ IsRows(k, a2.mem.ffn_out, Zeros(k))
    BY <2>2, ZeroedTakes
  <2>4. PICK a3 : /\ Takes(s, k, a2, MoeFfn(l), a3) /\ Half(s, k, l, a3)
                  /\ IsRows(k, a3.mem.ffn_out, Moes(s, k, l))
    BY <2>3, MoeFfnTakes
  <2>5. PICK a4 : Takes(s, k, a3, Summed(1), a4) /\ Entered(s, k, l + 1, a4)
    BY <2>4, SummedTakes
  <2>6. Takes(s, k, a4, <<End>>, a4)
    BY <2>5, EnteredSafe, EndTakes
  <2> HIDE DEF p
  <2>7. Takes(s, k, a0, AttentionBranch(l, 1, p) \o Zeroed(1) \o MoeFfn(l), a3)
    BY <2>2, <2>3, <2>4, TakesOn, Zenon
  <2>8. Takes(s, k, a0, ForwardLayerGpuOnly(l, p), a4)
    BY <2>5, <2>7, TakesOn, Zenon DEF ForwardLayerGpuOnly
  <2>9. Takes(s, k, c, <<Begin>> \o ForwardLayerGpuOnly(l, p) \o <<End>>, a4)
    BY <2>1, <2>6, <2>8, TakesOn, Zenon
  <2> QED
    BY <2>5, <2>9
<1>2. GpuOnly(p) = FlattenSeq(ss)
  BY DEF GpuOnly, ByLayer
<1> HIDE DEF Layer
<1>3. \A i \in 1 .. NLayer : ss[i] = Layer(i - 1)
  OBVIOUS
<1>4. ss = [i \in 1 .. NLayer |-> ss[i]]
  OBVIOUS
<1> HIDE DEF ss
<1>5. Advances("enter", s, k, 0, 0, NLayer, ss)
  <2> SUFFICES ASSUME NEW i \in 0 .. NLayer - 1, NEW c, Entered(s, k, i, c)
               PROVE  \E b : Takes(s, k, c, ss[i + 1], b) /\ Entered(s, k, i + 1, b)
    BY StageIs DEF Advances
  <2>1. i + 1 \in 1 .. NLayer /\ (i + 1) - 1 = i /\ i \in Layers
    BY LayersNumber DEF Layers
  <2>2. ss[i + 1] = Layer(i)
    BY <1>3, <2>1
  <2> QED
    BY <1>1, <2>1, <2>2
<1>6. \E b : Takes(s, k, a, FlattenSeq(ss), b) /\ Stage("enter", s, k, 0, NLayer, 0, b)
  BY <1>4, <1>5, LayersNumber, StageIs, LayersTake
<1> QED
  BY <1>2, <1>6, StageIs

(* The first half of a layer with its batch. *)
LEMMA RunLayerPreTopkTakes ==
  ASSUME NEW s, NEW k, Fits(s, k), Len(k) = 1, NEW l \in Layers, NEW a, Entered(s, k, l, a)
  PROVE  \E b : Takes(s, k, a, RunLayerPreTopk(l, Len(s)), b) /\ Ready(s, k, l, TRUE, b)
<1>1. PICK c : Takes(s, k, a, <<Begin>>, c) /\ Entered(s, k, l, c)
  BY BeginEntered
<1>2. PICK d : Takes(s, k, c, ForwardLayerPre(l, Len(s)), d) /\ RoutedRow(s, k, l, TRUE, d)
  BY <1>1, ForwardLayerPreTakes
<1>3. PICK b : Takes(s, k, d, TopKReadBack(l, 1), b) /\ Ready(s, k, l, TRUE, b)
  BY <1>2, ReadBackTakes
<1>4. Takes(s, k, a, <<Begin>> \o ForwardLayerPre(l, Len(s)) \o TopKReadBack(l, 1), b)
  BY <1>1, <1>2, <1>3, TakesOn, Zenon
<1> QED
  BY <1>3, <1>4, Zenon DEF RunLayerPreTopk

(* Schedule overlap: the second half of a layer and the first of the next. *)
LEMMA OverlapTakes ==
  ASSUME NEW s, NEW k, Fits(s, k), Len(k) = 1, HasShared => UseShared, NEW a, Entered(s, k, 0, a)
  PROVE  \E b : Takes(s, k, a, Overlap(Len(s)), b) /\ Entered(s, k, NLayer, b)
<1> DEFINE p == Len(s)
           n == NLayer - 1
           Both(l) == <<Begin>> \o ForwardLayerPost(l) \o ForwardLayerPre(l + 1, p)
                      \o TopKReadBack(l + 1, 1)
           ss == [i \in 1 .. n |-> Both(i - 1)]
           first == RunLayerPreTopk(0, p)
<1>0. n \in Nat /\ n \in Layers /\ 0 \in Layers /\ n + 1 = NLayer
  BY DeviceAssumption DEF Layers
<1>1. ASSUME NEW l \in Layers, l + 1 \in Layers, NEW c, Ready(s, k, l, TRUE, c)
      PROVE  \E b : Takes(s, k, c, Both(l), b) /\ Ready(s, k, l + 1, TRUE, b)
  <2>1. PICK a0 : Takes(s, k, c, <<Begin>>, a0) /\ Ready(s, k, l, TRUE, a0)
    BY <1>1, BeginReady
  <2>2. PICK a1 : Takes(s, k, a0, ForwardLayerPost(l), a1) /\ Entered(s, k, l + 1, a1)
    BY <2>1, ForwardLayerPostTakes
  <2>3. PICK a2 : Takes(s, k, a1, ForwardLayerPre(l + 1, p), a2) /\ RoutedRow(s, k, l + 1, TRUE, a2)
    BY <1>1, <2>2, ForwardLayerPreTakes
  <2>4. PICK b : Takes(s, k, a2, TopKReadBack(l + 1, 1), b) /\ Ready(s, k, l + 1, TRUE, b)
    BY <1>1, <2>3, ReadBackTakes
  <2> HIDE DEF p
  <2>a. Takes(s, k, c, <<Begin>> \o ForwardLayerPost(l), a1)
    BY <2>1, <2>2, TakesOn, Zenon
  <2> DEFINE x == <<Begin>> \o ForwardLayerPost(l)
             y == ForwardLayerPre(l + 1, p)
  <2>b. Takes(s, k, c, x, a1) /\ Takes(s, k, a1, y, a2)
    BY <2>3, <2>a
  <2> HIDE DEF x, y
  <2>c. Takes(s, k, c, x \o y, a2)
    BY <2>b, TakesOn
  <2>5. Takes(s, k, c, <<Begin>> \o ForwardLayerPost(l) \o ForwardLayerPre(l + 1, p), a2)
    BY <2>c DEF x, y
  <2>6. Takes(s, k, c, Both(l), b)
    BY <2>4, <2>5, TakesOn, Zenon
  <2> QED
    BY <2>4, <2>6
<1>2. Overlap(p) = first \o FlattenSeq(ss) \o <<Begin>> \o ForwardLayerPost(n) \o <<End>>
  BY DEF Overlap, ByLayer
<1>3. PICK a1 : Takes(s, k, a, first, a1) /\ Ready(s, k, 0, TRUE, a1)
  BY <1>0, RunLayerPreTopkTakes
<1> HIDE DEF Both
<1>4. \A i \in 1 .. n : ss[i] = Both(i - 1)
  OBVIOUS
<1>5. ss = [i \in 1 .. n |-> ss[i]]
  OBVIOUS
<1> HIDE DEF ss, n, first
<1>6. Advances("ready", s, k, 0, TRUE, n, ss)
  <2> SUFFICES ASSUME NEW i \in 0 .. n - 1, NEW c, Ready(s, k, i, TRUE, c)
               PROVE  \E b : Takes(s, k, c, ss[i + 1], b) /\ Ready(s, k, i + 1, TRUE, b)
    BY StageIs DEF Advances
  <2>1. i + 1 \in 1 .. n /\ (i + 1) - 1 = i /\ i \in Layers /\ i + 1 \in Layers
    BY <1>0, LayersNumber DEF Layers
  <2>2. ss[i + 1] = Both(i)
    BY <1>4, <2>1
  <2> QED
    BY <1>1, <2>1, <2>2
<1>7. PICK a2 : Takes(s, k, a1, FlattenSeq(ss), a2) /\ Ready(s, k, n, TRUE, a2)
  <2>1. Stage("ready", s, k, 0, 0, TRUE, a1)
    BY <1>3, StageIs
  <2>2. \E b : Takes(s, k, a1, FlattenSeq(ss), b) /\ Stage("ready", s, k, 0, n, TRUE, b)
    BY <1>0, <1>5, <1>6, <2>1, LayersTake
  <2> QED
    BY <2>2, StageIs
<1>8. PICK a3 : Takes(s, k, a2, <<Begin>>, a3) /\ Ready(s, k, n, TRUE, a3)
  BY <1>7, BeginReady
<1>9. PICK b : Takes(s, k, a3, ForwardLayerPost(n), b) /\ Entered(s, k, n + 1, b)
  BY <1>0, <1>8, ForwardLayerPostTakes
<1>10. Takes(s, k, b, <<End>>, b)
  BY <1>9, EnteredSafe, EndTakes
<1>11. Takes(s, k, a, first \o FlattenSeq(ss) \o <<Begin>>, a3)
  BY <1>3, <1>7, <1>8, TakesOn, Zenon
<1>12. Takes(s, k, a, first \o FlattenSeq(ss) \o <<Begin>> \o ForwardLayerPost(n) \o <<End>>, b)
  BY <1>9, <1>10, <1>11, TakesOn, Zenon
<1> QED
  BY <1>0, <1>2, <1>9, <1>12, Zenon

(* Schedule fallback: two batches for every layer. *)
LEMMA FallbackTakes ==
  ASSUME NEW s, NEW k, Fits(s, k), Len(k) = 1, HasShared => UseShared, NEW a, Entered(s, k, 0, a)
  PROVE  \E b : Takes(s, k, a, Fallback(Len(s)), b) /\ Entered(s, k, NLayer, b)
<1> DEFINE p == Len(s)
           Layer(l) == RunLayerPreTopk(l, p) \o <<Begin>> \o ForwardLayerPost(l) \o <<End>>
           ss == [i \in 1 .. NLayer |-> Layer(i - 1)]
<1>1. ASSUME NEW l \in Layers, NEW c, Entered(s, k, l, c)
      PROVE  \E b : Takes(s, k, c, Layer(l), b) /\ Entered(s, k, l + 1, b)
  <2>1. PICK a0 : Takes(s, k, c, RunLayerPreTopk(l, p), a0) /\ Ready(s, k, l, TRUE, a0)
    BY <1>1, RunLayerPreTopkTakes
  <2>2. PICK a1 : Takes(s, k, a0, <<Begin>>, a1) /\ Ready(s, k, l, TRUE, a1)
    BY <2>1, BeginReady
  <2>3. PICK b : Takes(s, k, a1, ForwardLayerPost(l), b) /\ Entered(s, k, l + 1, b)
    BY <2>2, ForwardLayerPostTakes
  <2>4. Takes(s, k, b, <<End>>, b)
    BY <2>3, EnteredSafe, EndTakes
  <2> HIDE DEF p
  <2>5. Takes(s, k, c, RunLayerPreTopk(l, p) \o <<Begin>> \o ForwardLayerPost(l), b)
    BY <2>1, <2>2, <2>3, TakesOn, Zenon
  <2>6. Takes(s, k, c, Layer(l), b)
    BY <2>4, <2>5, TakesOn, Zenon
  <2> QED
    BY <2>3, <2>6
<1>2. Fallback(p) = FlattenSeq(ss)
  BY DEF Fallback, ByLayer
<1> HIDE DEF Layer
<1>3. \A i \in 1 .. NLayer : ss[i] = Layer(i - 1)
  OBVIOUS
<1>4. ss = [i \in 1 .. NLayer |-> ss[i]]
  OBVIOUS
<1> HIDE DEF ss
<1>5. Advances("enter", s, k, 0, 0, NLayer, ss)
  <2> SUFFICES ASSUME NEW i \in 0 .. NLayer - 1, NEW c, Entered(s, k, i, c)
               PROVE  \E b : Takes(s, k, c, ss[i + 1], b) /\ Entered(s, k, i + 1, b)
    BY StageIs DEF Advances
  <2>1. i + 1 \in 1 .. NLayer /\ (i + 1) - 1 = i /\ i \in Layers
    BY LayersNumber DEF Layers
  <2>2. ss[i + 1] = Layer(i)
    BY <1>3, <2>1
  <2> QED
    BY <1>1, <2>1, <2>2
<1>6. \E b : Takes(s, k, a, FlattenSeq(ss), b) /\ Stage("enter", s, k, 0, NLayer, 0, b)
  BY <1>4, <1>5, LayersNumber, StageIs, LayersTake
<1> QED
  BY <1>2, <1>6, StageIs

-----------------------------------------------------------------------------
(* The chunk's layers, the output and the pass from its embedding on.        *)

(* The first half of a layer of a chunk with its batch. *)
LEMMA RunChunkLayerPreTopkTakes ==
  ASSUME NEW s, NEW k, Fits(s, k), NEW l \in Layers, NEW a, Entered(s, k, l, a)
  PROVE  \E b : /\ Takes(s, k, a, RunChunkLayerPreTopk(l, Len(k), Len(s)), b)
                /\ Ready(s, k, l, FALSE, b)
<1>1. PICK c : Takes(s, k, a, <<Begin>>, c) /\ Entered(s, k, l, c)
  BY BeginEntered
<1>2. PICK d : Takes(s, k, c, ForwardChunkPre(l, Len(k), Len(s)), d) /\ RoutedRow(s, k, l, FALSE, d)
  BY <1>1, ForwardChunkPreTakes
<1>3. PICK b : Takes(s, k, d, TopKReadBack(l, Len(k)), b) /\ Ready(s, k, l, FALSE, b)
  BY <1>2, ReadBackTakes
<1>4. Takes(s, k, a, <<Begin>> \o ForwardChunkPre(l, Len(k), Len(s)) \o TopKReadBack(l, Len(k)), b)
  BY <1>1, <1>2, <1>3, TakesOn, Zenon
<1> QED
  BY <1>3, <1>4, Zenon DEF RunChunkLayerPreTopk

ChunkPost(e, l, M) == IF e.gathered THEN ForwardChunkPostGathered(l, M) ELSE ForwardChunkPost(l, M)

(* The second half of a layer of a chunk, from the begin of its batch. *)
LEMMA ChunkPostTakes ==
  ASSUME NEW s, NEW k, Fits(s, k), HasShared => UseShared, NEW e, NEW l \in Layers, NEW a,
         Ready(s, k, l, FALSE, a)
  PROVE  \E c, b : /\ Takes(s, k, a, <<Begin>>, c) /\ Takes(s, k, c, ChunkPost(e, l, Len(k)), b)
                   /\ Entered(s, k, l + 1, b)
<1>1. PICK c : Takes(s, k, a, <<Begin>>, c) /\ Ready(s, k, l, FALSE, c) /\ ~c.used
  BY BeginReady
<1>2. \E b : Takes(s, k, c, ChunkPost(e, l, Len(k)), b) /\ Entered(s, k, l + 1, b)
  <2>1. CASE e.gathered
    <3>1. \E b : Takes(s, k, c, ForwardChunkPostGathered(l, Len(k)), b) /\ Entered(s, k, l + 1, b)
      BY <1>1, ForwardChunkPostGatheredTakes
    <3> QED
      BY <2>1, <3>1, Zenon DEF ChunkPost
  <2>2. CASE ~e.gathered
    <3>1. \E b : Takes(s, k, c, ForwardChunkPost(l, Len(k)), b) /\ Entered(s, k, l + 1, b)
      BY <1>1, ForwardChunkPostTakes
    <3> QED
      BY <2>2, <3>1, Zenon DEF ChunkPost
  <2> QED
    BY <2>1, <2>2
<1>3. PICK b : Takes(s, k, c, ChunkPost(e, l, Len(k)), b) /\ Entered(s, k, l + 1, b)
  BY <1>2
<1> QED
  BY <1>1, <1>3

\* Where a chunk's layers are cut.
ChunkLayer(e, l, M, p) ==
  <<Begin>> \o ChunkPost(e, l, M) \o ForwardChunkPre(l + 1, M, p) \o TopKReadBack(l + 1, M)

(* That and the first half of the next layer. *)
LEMMA ChunkLayerTakes ==
  ASSUME NEW s, NEW k, Fits(s, k), HasShared => UseShared, NEW e, NEW l \in Layers, l + 1 \in Layers,
         NEW a, Ready(s, k, l, FALSE, a)
  PROVE  \E b : /\ Takes(s, k, a, ChunkLayer(e, l, Len(k), Len(s)), b)
                /\ Ready(s, k, l + 1, FALSE, b)
<1> DEFINE w == ChunkPost(e, l, Len(k))
           x == <<Begin>> \o w
           y == ForwardChunkPre(l + 1, Len(k), Len(s))
           z == TopKReadBack(l + 1, Len(k))
<1>0. PICK c0, c : /\ Takes(s, k, a, <<Begin>>, c0) /\ Takes(s, k, c0, w, c)
                   /\ Entered(s, k, l + 1, c)
  BY ChunkPostTakes
<1>1. Takes(s, k, a, x, c)
  <2> HIDE DEF w
  <2> QED
    BY <1>0, TakesOn, Zenon
<1>2. PICK d : Takes(s, k, c, y, d) /\ RoutedRow(s, k, l + 1, FALSE, d)
  BY <1>0, ForwardChunkPreTakes
<1>3. PICK b : Takes(s, k, d, z, b) /\ Ready(s, k, l + 1, FALSE, b)
  BY <1>2, ReadBackTakes
<1>4. ChunkLayer(e, l, Len(k), Len(s)) = x \o y \o z
  BY Zenon DEF ChunkLayer
<1> HIDE DEF w, x, y, z
<1>5. Takes(s, k, a, x \o y, d)
  BY <1>1, <1>2, TakesOn
<1>6. Takes(s, k, a, x \o y \o z, b)
  BY <1>3, <1>5, TakesOn
<1> QED
  BY <1>3, <1>4, <1>6, Zenon

(* All layers of a chunk. *)
LEMMA ChunkLayersTake ==
  ASSUME NEW s, NEW k, Fits(s, k), HasShared => UseShared, NEW e, NEW a, Entered(s, k, 0, a)
  PROVE  \E a1, a2, a3, b :
           /\ Takes(s, k, a, RunChunkLayerPreTopk(0, Len(k), Len(s)), a1)
           /\ Takes(s, k, a1, FlattenSeq([i \in 1 .. NLayer - 1 |-> ChunkLayer(e, i - 1, Len(k), Len(s))]), a2)
           /\ Takes(s, k, a2, <<Begin>>, a3)
           /\ Takes(s, k, a3, ChunkPost(e, NLayer - 1, Len(k)), b)
           /\ Entered(s, k, NLayer, b)
<1> DEFINE M == Len(k)
           p == Len(s)
           n == NLayer - 1
           ss == [i \in 1 .. n |-> ChunkLayer(e, i - 1, M, p)]
           first == RunChunkLayerPreTopk(0, M, p)
<1>0. n \in Nat /\ n \in Layers /\ 0 \in Layers /\ n + 1 = NLayer
  BY DeviceAssumption DEF Layers
<1>1. PICK a1 : Takes(s, k, a, first, a1) /\ Ready(s, k, 0, FALSE, a1)
  BY <1>0, RunChunkLayerPreTopkTakes
<1>3. \A i \in 1 .. n : ss[i] = ChunkLayer(e, i - 1, M, p)
  OBVIOUS
<1>4. ss = [i \in 1 .. n |-> ss[i]]
  OBVIOUS
<1> HIDE DEF ss, n, first
<1>5. Advances("ready", s, k, 0, FALSE, n, ss)
  <2> SUFFICES ASSUME NEW i \in 0 .. n - 1, NEW c, Ready(s, k, i, FALSE, c)
               PROVE  \E b : Takes(s, k, c, ss[i + 1], b) /\ Ready(s, k, i + 1, FALSE, b)
    BY StageIs DEF Advances
  <2>1. i + 1 \in 1 .. n /\ (i + 1) - 1 = i /\ i \in Layers /\ i + 1 \in Layers
    BY <1>0, LayersNumber DEF Layers
  <2>2. ss[i + 1] = ChunkLayer(e, i, M, p)
    BY <1>3, <2>1
  <2> QED
    BY <2>1, <2>2, ChunkLayerTakes
<1>6. PICK a2 : Takes(s, k, a1, FlattenSeq(ss), a2) /\ Ready(s, k, n, FALSE, a2)
  <2>1. Stage("ready", s, k, 0, 0, FALSE, a1)
    BY <1>1, StageIs
  <2>2. \E b : Takes(s, k, a1, FlattenSeq(ss), b) /\ Stage("ready", s, k, 0, n, FALSE, b)
    BY <1>0, <1>4, <1>5, <2>1, LayersTake
  <2> QED
    BY <2>2, StageIs
<1>7. PICK a3, b : /\ Takes(s, k, a2, <<Begin>>, a3) /\ Takes(s, k, a3, ChunkPost(e, n, Len(k)), b)
                   /\ Entered(s, k, n + 1, b)
  BY <1>0, <1>6, ChunkPostTakes
<1>8. Entered(s, k, NLayer, b)
  BY <1>0, <1>7, Zenon
<1> QED
  BY <1>1, <1>6, <1>7, <1>8, Zenon DEF ss, n, first

-----------------------------------------------------------------------------
(* The output. *)

(* A kernel that computes one row. *)
IsRow(c, f, x, to, o) ==
  /\ IsKernel(c) /\ c.f = f /\ c.l = 0 /\ c.from = <<x>> /\ c.to = to /\ c.rows = 0 .. 0 /\ c.off = o

(* The output norm takes one row, the last one of a chunk. *)
LEMMA RowIs ==
  ASSUME NEW f \in Plain, NEW x, NEW to \in Buffers, NEW o, NEW c,
         c = [Kernel(f, 0, <<x>>, to, 1) EXCEPT !.off = o]
  PROVE  IsRow(c, f, x, to, o)
<1>1. c = [do |-> "dispatch", f |-> f, l |-> 0, from |-> <<x>>, to |-> to, rows |-> 0 .. 0,
           off |-> o, choice |-> <<>>]
  <2> DEFINE e == Kernel(f, 0, <<x>>, to, 1)
             rs == 0 .. 1 - 1
  <2>1. e = [do |-> "dispatch", f |-> f, l |-> 0, from |-> <<x>>, to |-> to, rows |-> rs,
             off |-> 0, choice |-> <<>>]
    BY DEF Kernel
  <2>2. rs = 0 .. 0
    OBVIOUS
  <2> HIDE DEF e, rs
  <2>3. [e EXCEPT !.off = o] =
          [do |-> "dispatch", f |-> f, l |-> 0, from |-> <<x>>, to |-> to, rows |-> rs,
           off |-> o, choice |-> <<>>]
    BY <2>1
  <2>4. c = [e EXCEPT !.off = o]
    BY Zenon DEF e
  <2> QED
    BY <2>2, <2>3, <2>4, Zenon
<1>2. f \in Functions
  BY DEF Plain
<1> QED
  BY <1>1, <1>2 DEF IsRow, IsKernel

RowMade(m, e, f, x, to, o) == Same(e, m, {to}) /\ e[to][0] = <<f, 0, m[x][o]>>

(* A kernel for that row is dispatched. *)
LEMMA OneRowTakes ==
  ASSUME NEW s, NEW k, NEW a, Safe(s, k, a), NEW f \in Plain, NEW x, NEW to \in Buffers,
         NEW o \in Nat, NEW c, IsRow(c, f, x, to, o)
  PROVE  \E b : /\ Takes(s, k, a, <<c>>, b) /\ Safe(s, k, b)
                /\ RowMade(a.mem, b.mem, f, x, to, o)
<1>1. c.f = f /\ c.from = <<x>> /\ c.off = o /\ c.l = 0 /\ IsKernel(c)
      /\ c.to = to /\ c.rows = 0 .. 0 /\ f \in Functions /\ f # "experts"
  BY DEF IsRow, Plain
<1>2. BoundTo(a.idx, c) = c
  BY <1>1, BoundKernel
<1>3. PICK b : /\ Takes(s, k, a, <<c>>, b) /\ Safe(s, k, b) /\ b.idx = a.idx
               /\ KernelDone(a.mem, b.mem, c)
  BY <1>1, <1>2, KernelTakes
<1>4. 0 \in Rows \cap c.rows
  BY <1>1, LayersNumber, DeviceAssumption DEF Rows
<1>5. Value(a.mem, c, 0) = <<c.f, c.l, a.mem[x][0 + c.off]>>
  <2>1. c.f \in Plain
    BY <1>1
  <2> QED
    BY <1>1, <2>1, OneOperandValue
<1>6. 0 + c.off = o
  BY <1>1
<1>7. Value(a.mem, c, 0) = <<f, 0, a.mem[x][o]>>
  BY <1>1, <1>5, <1>6
<1>8. b.mem[to][0] = Value(a.mem, c, 0) /\ Same(b.mem, a.mem, {to})
  BY <1>1, <1>3, <1>4 DEF KernelDone
<1>9. RowMade(a.mem, b.mem, f, x, to, o)
  BY <1>7, <1>8 DEF RowMade
<1> QED
  BY <1>3, <1>9

(* The pass is done as the reference does it. *)
Finished(s, k, b) ==
  Safe(s, k, b) /\ Complete(s, k, b.mem)

(* The logits are computed from it and sampled. *)
LEMMA OutputTakes ==
  ASSUME NEW s, NEW k, Fits(s, k), NEW a, Entered(s, k, NLayer, a), NEW y \in {"hidden", "norm"},
         NEW c, c = [Kernel("output_norm", 0, <<"hidden">>, y, 1) EXCEPT !.off = Len(k) - 1],
         NEW d, d = Kernel("output", 0, <<y>>, "logits", 1)
  PROVE  \E b : Takes(s, k, a, <<c, d, End, Do("sample", 0, 1)>>, b) /\ Finished(s, k, b)
<1>0. Len(k) - 1 \in Nat /\ Len(k) - 1 \in 0 .. Len(k) - 1 /\ 0 \in Nat
      /\ y \in Buffers /\ "logits" \in Buffers /\ y \in Fields /\ y \notin {"logits", "kv"}
      /\ {"kv", "logits"} \subseteq Fields
      /\ "output" \in Plain /\ "output_norm" \in Plain
  BY PlainNames, Sizes DEF Buffers, Fields
<1>c. IsRow(c, "output_norm", "hidden", y, Len(k) - 1)
  BY <1>0, RowIs
<1>s. Safe(s, k, a)
  BY EnteredSafe
<1>1. PICK a1 : /\ Takes(s, k, a, <<c>>, a1) /\ Safe(s, k, a1)
                /\ RowMade(a.mem, a1.mem, "output_norm", "hidden", y, Len(k) - 1)
  BY <1>0, <1>c, <1>s, OneRowTakes
<1>d. IsRow(d, "output", y, "logits", 0)
  <2>1. d = [Kernel("output", 0, <<y>>, "logits", 1) EXCEPT !.off = 0]
    BY DEF Kernel
  <2> QED
    BY <1>0, <2>1, RowIs
<1>2. PICK b : /\ Takes(s, k, a1, <<d>>, b) /\ Safe(s, k, b)
               /\ RowMade(a1.mem, b.mem, "output", y, "logits", 0)
  BY <1>0, <1>1, <1>d, OneRowTakes
<1>3. a.mem["hidden"][Len(k) - 1] = LayerIn(s \o k)[NLayer][Len(s \o k) - 1]
  <2>1. a.mem.hidden[Len(k) - 1] = Ins(s, k, NLayer)[Len(k) - 1]
    BY <1>0 DEF Entered, IsRows
  <2>2. Ins(s, k, NLayer)[Len(k) - 1] = LayerIn(s \o k)[NLayer][Len(s) + (Len(k) - 1)]
    BY <1>0 DEF Ins
  <2>3. Len(s) + (Len(k) - 1) = Len(s \o k) - 1
    BY DEF Fits
  <2> QED
    BY <2>1, <2>2, <2>3
<1>4. b.mem.logits[0] = Logits(s \o k)
  <2>1. b.mem.logits[0] = <<"output", 0, <<"output_norm", 0, a.mem["hidden"][Len(k) - 1]>>>>
    BY <1>1, <1>2 DEF RowMade
  <2> QED
    BY <1>3, <2>1 DEF Logits
<1>5. b.mem.kv = a.mem.kv
  BY <1>0, <1>1, <1>2 DEF Same, RowMade
<1>6. FilledTo(s \o k, b.mem.kv, NLayer)
  BY <1>5 DEF Entered
<1>7. Finished(s, k, b)
  BY <1>2, <1>4, <1>6 DEF Finished, Complete
<1>8. Takes(s, k, b, <<End>>, b)
  BY <1>2, EndTakes
<1>9. Takes(s, k, b, <<Do("sample", 0, 1)>>, b)
  <2>1. Do("sample", 0, 1).do = "sample"
    BY DEF Do
  <2> DEFINE w == Do("sample", 0, 1)
  <2>2. w.do \in {"end", "sample"}
    BY <2>1
  <2> HIDE DEF w
  <2>3. Takes(s, k, b, <<w>>, b)
    BY <1>2, <1>7, <2>2, NothingTakes DEF Finished
  <2> QED
    BY <2>3 DEF w
<1> DEFINE w == Do("sample", 0, 1)
<1>w. Takes(s, k, a, <<c>>, a1) /\ Takes(s, k, a1, <<d>>, b)
      /\ Takes(s, k, b, <<End>>, b) /\ Takes(s, k, b, <<w>>, b)
  BY <1>1, <1>2, <1>8, <1>9
<1> HIDE DEF w
<1>10. Takes(s, k, a, <<c, d, End, w>>, b)
  BY <1>w, TakesFour
<1> QED
  BY <1>7, <1>10 DEF w

-----------------------------------------------------------------------------
(* A whole pass: the embedding comes first and never again.                  *)

(* Concatenations. *)
LEMMA SeqAssoc ==
  ASSUME NEW x, NEW y, NEW z, IsSeq(x), IsSeq(y), IsSeq(z)
  PROVE  (x \o y) \o z = x \o (y \o z)
<1>1. PICK S1, S2, S3 : x \in Seq(S1) /\ y \in Seq(S2) /\ z \in Seq(S3)
  BY DEF IsSeq
<1> DEFINE S == S1 \cup S2 \cup S3
<1>2. x \in Seq(S) /\ y \in Seq(S) /\ z \in Seq(S)
  BY <1>1
<1> QED
  BY <1>2, ConcatAssociative

Starts(s, k, a, cs, b) ==
  \E rest, a0 : /\ cs = <<Do("embed", 0, Len(k))>> \o rest
                /\ a0 = After(k, a, Do("embed", 0, Len(k))) /\ Safe(s, k, a0)
                /\ Takes(s, k, a0, rest, b)

LEMMA OneIsSeq == \A c : IsSeq(<<c>>)
<1>1. \A c : <<c>> \in Seq({c})
  OBVIOUS
<1> QED
  BY <1>1 DEF IsSeq

(* A pass goes on. *)
LEMMA StartsOn ==
  ASSUME NEW s, NEW k, NEW a, NEW b, NEW d, NEW cs, NEW ds,
         Starts(s, k, a, cs, b), Takes(s, k, b, ds, d)
  PROVE  Starts(s, k, a, cs \o ds, d)
<1> DEFINE c == Do("embed", 0, Len(k))
<1>1. PICK rest, a0 : /\ cs = <<c>> \o rest
                      /\ a0 = After(k, a, c) /\ Safe(s, k, a0) /\ Takes(s, k, a0, rest, b)
  BY DEF Starts
<1>2. IsSeq(<<c>>) /\ IsSeq(rest) /\ IsSeq(ds)
  BY <1>1, OneIsSeq DEF Takes
<1>3. Takes(s, k, a0, rest \o ds, d)
  BY <1>1, TakesOn
<1> HIDE DEF c
<1>4. (<<c>> \o rest) \o ds = <<c>> \o (rest \o ds)
  BY <1>2, SeqAssoc
<1>5. cs \o ds = <<c>> \o (rest \o ds)
  BY <1>1, <1>4, Zenon
<1> QED
  BY <1>1, <1>3, <1>5 DEF Starts, c

(* A pass starts with its embeddings. *)
LEMMA EmbedStarts ==
  ASSUME NEW s, NEW k, Fits(s, k), NEW a, Safe(s, k, a)
  PROVE  \E b : Starts(s, k, a, <<Do("embed", 0, Len(k))>>, b) /\ Entered(s, k, 0, b)
<1> DEFINE c == Do("embed", 0, Len(k))
<1>1. PICK b : /\ b = After(k, a, c) /\ Safe(s, k, b)
               /\ \A t \in 0 .. Len(k) - 1 : b.mem.hidden[t] = Emb(k[t + 1])
  BY EmbedGoes
<1> HIDE DEF c
<1>2. Takes(s, k, b, <<>>, b)
  BY TakesNone
<1>3. <<c>> \o <<>> = <<c>>
  <2>1. <<c>> \in Seq({c})
    OBVIOUS
  <2> QED
    BY <2>1
<1>4. Starts(s, k, a, <<c>>, b)
  BY <1>1, <1>2, <1>3 DEF Starts, c
<1>5. IsRows(k, b.mem.hidden, Ins(s, k, 0))
  <2> SUFFICES ASSUME NEW t \in 0 .. Len(k) - 1 PROVE b.mem.hidden[t] = Ins(s, k, 0)[t]
    BY DEF IsRows
  <2>1. Ins(s, k, 0)[t] = LayerIn(s \o k)[0][Len(s) + t]
    BY DEF Ins
  <2>2. Len(s) + t \in 0 .. Len(s \o k) - 1 /\ (s \o k)[Len(s) + t + 1] = k[t + 1]
    <3>1. s \in Seq(Tokens) /\ k \in Seq(Tokens) /\ t + 1 \in 1 .. Len(k)
      BY Sizes DEF Fits
    <3>2. Len(s \o k) = Len(s) + Len(k) /\ (s \o k)[Len(s) + (t + 1)] = k[t + 1]
      BY <3>1, ConcatIs
    <3>3. Len(s) + (t + 1) = Len(s) + t + 1 /\ Len(s) + t \in 0 .. Len(s) + Len(k) - 1
      BY Sizes
    <3> QED
      BY <3>2, <3>3
  <2>3. LayerIn(s \o k)[0][Len(s) + t] = Emb((s \o k)[Len(s) + t + 1])
    BY <2>2, EmbeddingEnters
  <2> QED
    BY <1>1, <2>1, <2>2, <2>3
<1>6. FilledTo(s \o k, b.mem.kv, 0)
  BY DEF FilledTo, Layers
<1>7. Entered(s, k, 0, b)
  BY <1>1, <1>5, <1>6 DEF Entered
<1> QED
  BY <1>4, <1>7 DEF c

(* forward_chunk and forward_token, from the first command to the last. *)
LEMMA ChunkStarts ==
  ASSUME NEW s, NEW k, Fits(s, k), HasShared => UseShared, NEW e, NEW a, Safe(s, k, a)
  PROVE  \E b : Starts(s, k, a, ForwardChunk(e, Len(k), Len(s)), b) /\ Finished(s, k, b)
<1> DEFINE M == Len(k)
           p == Len(s)
           emb == <<Do("embed", 0, M)>>
           first == RunChunkLayerPreTopk(0, M, p)
           mid == FlattenSeq([i \in 1 .. NLayer - 1 |-> ChunkLayer(e, i - 1, M, p)])
           post == ChunkPost(e, NLayer - 1, M)
           last == <<[Kernel("output_norm", 0, <<"hidden">>, "norm", 1) EXCEPT !.off = M - 1],
                     Kernel("output", 0, <<"norm">>, "logits", 1), End, Do("sample", 0, 1)>>
           both(l) == <<Begin>> \o (IF e.gathered THEN ForwardChunkPostGathered(l, M) ELSE ForwardChunkPost(l, M))
                      \o ForwardChunkPre(l + 1, M, p) \o TopKReadBack(l + 1, M)
<1>1. PICK a0 : Starts(s, k, a, emb, a0) /\ Entered(s, k, 0, a0)
  BY EmbedStarts
<1>2. PICK a1, a2, a3, a4 : /\ Takes(s, k, a0, first, a1) /\ Takes(s, k, a1, mid, a2)
                            /\ Takes(s, k, a2, <<Begin>>, a3) /\ Takes(s, k, a3, post, a4)
                            /\ Entered(s, k, NLayer, a4)
  BY <1>1, ChunkLayersTake
<1>3. PICK b : Takes(s, k, a4, last, b) /\ Finished(s, k, b)
  BY <1>2, OutputTakes
<1>6. ForwardChunk(e, M, p) = emb \o first \o mid \o <<Begin>> \o post \o last
  <2>1. ForwardChunk(e, M, p) =
          emb \o first \o FlattenSeq([i \in 1 .. NLayer - 1 |-> both(i - 1)]) \o <<Begin>> \o post \o last
    BY DEF ForwardChunk, ByLayer, ChunkPost
  <2>2. \A l : both(l) = ChunkLayer(e, l, M, p)
    BY Zenon DEF ChunkLayer, ChunkPost
  <2> HIDE DEF both
  <2>3. [i \in 1 .. NLayer - 1 |-> both(i - 1)] = [i \in 1 .. NLayer - 1 |-> ChunkLayer(e, i - 1, M, p)]
    BY <2>2
  <2> QED
    BY <2>1, <2>3, Zenon
<1> HIDE DEF M, p, emb, first, mid, post, last
<1> DEFINE u == <<Begin>>
<1>4. Takes(s, k, a2, u, a3)
  BY <1>2
<1> HIDE DEF u
<1>5. Starts(s, k, a, emb \o first \o mid, a2)
  BY <1>1, <1>2, StartsOn
<1>7. Starts(s, k, a, emb \o first \o mid \o u \o post, a4)
  BY <1>2, <1>4, <1>5, StartsOn
<1>8. Starts(s, k, a, emb \o first \o mid \o u \o post \o last, b)
  BY <1>3, <1>7, StartsOn
<1> QED
  BY <1>3, <1>6, <1>8 DEF M, p, u

LEMMA TokenStarts ==
  ASSUME NEW s, NEW k, Fits(s, k), Len(k) = 1, HasShared => UseShared, NEW e, NEW a, Safe(s, k, a)
  PROVE  \E b : Starts(s, k, a, ForwardToken(e, Len(s)), b) /\ Finished(s, k, b)
<1> DEFINE p == Len(s)
           emb == <<Do("embed", 0, 1)>>
           mid == CASE e.schedule = "gpu_only" -> GpuOnly(p)
                    [] e.schedule = "overlap"  -> Overlap(p)
                    [] OTHER                     -> Fallback(p)
           c == Kernel("output_norm", 0, <<"hidden">>, "hidden", 1)
           d == Kernel("output", 0, <<"hidden">>, "logits", 1)
           w == Do("sample", 0, 1)
<1>1. PICK a0 : Starts(s, k, a, emb, a0) /\ Entered(s, k, 0, a0)
  <2>1. PICK a0 : Starts(s, k, a, <<Do("embed", 0, Len(k))>>, a0) /\ Entered(s, k, 0, a0)
    BY EmbedStarts
  <2>2. Starts(s, k, a, emb, a0)
    BY <2>1, Zenon
  <2> QED
    BY <2>1, <2>2
<1>2. PICK a1 : Takes(s, k, a0, mid, a1) /\ Entered(s, k, NLayer, a1)
  <2>1. CASE e.schedule = "gpu_only"
    <3>1. \E a1 : Takes(s, k, a0, GpuOnly(Len(s)), a1) /\ Entered(s, k, NLayer, a1)
      BY <1>1, GpuOnlyTakes
    <3>2. mid = GpuOnly(Len(s))
      BY <2>1, Zenon
    <3> QED
      BY <3>1, <3>2, Zenon
  <2>2. CASE e.schedule = "overlap"
    <3>1. \E a1 : Takes(s, k, a0, Overlap(Len(s)), a1) /\ Entered(s, k, NLayer, a1)
      BY <1>1, OverlapTakes
    <3>2. e.schedule # "gpu_only"
      BY <2>2
    <3>3. mid = Overlap(Len(s))
      BY <2>2, <3>2, Zenon
    <3> QED
      BY <3>1, <3>3, Zenon
  <2>3. CASE e.schedule # "gpu_only" /\ e.schedule # "overlap"
    <3>1. \E a1 : Takes(s, k, a0, Fallback(Len(s)), a1) /\ Entered(s, k, NLayer, a1)
      BY <1>1, FallbackTakes
    <3>2. mid = Fallback(Len(s))
      BY <2>3, Zenon
    <3> QED
      BY <3>1, <3>2, Zenon
  <2> QED
    BY <2>1, <2>2, <2>3
<1>3. PICK a2 : Takes(s, k, a1, <<Begin>>, a2) /\ Entered(s, k, NLayer, a2)
  BY <1>2, BeginEntered
<1>4. PICK b : Takes(s, k, a2, <<c, d, End, w>>, b) /\ Finished(s, k, b)
  <2>1. c = [Kernel("output_norm", 0, <<"hidden">>, "hidden", 1) EXCEPT !.off = Len(k) - 1]
    <3>1. Len(k) - 1 = 0
      OBVIOUS
    <3>2. c = [Kernel("output_norm", 0, <<"hidden">>, "hidden", 1) EXCEPT !.off = 0]
      BY DEF Kernel
    <3> QED
      BY <3>1, <3>2
  <2> HIDE DEF c
  <2> QED
    BY <1>3, <2>1, OutputTakes
<1> DEFINE f == Begin
           g == End
<1>5. Takes(s, k, a1, <<f>>, a2) /\ Takes(s, k, a2, <<c, d, g, w>>, b)
  BY <1>3, <1>4
<1>6. ForwardToken(e, p) = emb \o mid \o <<f, c, d, g, w>>
  BY Zenon DEF ForwardToken
<1> HIDE DEF p, emb, mid, c, d, w, f, g
<1>7. <<f>> \o <<c, d, g, w>> = <<f, c, d, g, w>>
  <2> DEFINE S == {f, c, d, g, w}
  <2>1. f \in S /\ c \in S /\ d \in S /\ g \in S /\ w \in S
    OBVIOUS
  <2> HIDE DEF S
  <2> QED
    BY <2>1, OneAndFourAre
<1>8. Takes(s, k, a1, <<f>> \o <<c, d, g, w>>, b)
  BY <1>5, TakesOn
<1>9. Takes(s, k, a1, <<f, c, d, g, w>>, b)
  BY <1>7, <1>8, Zenon
<1>10. Starts(s, k, a, emb \o mid \o <<f, c, d, g, w>>, b)
  <2>1. Starts(s, k, a, emb \o mid, a1)
    BY <1>1, <1>2, StartsOn
  <2> QED
    BY <1>9, <2>1, StartsOn
<1> QED
  BY <1>4, <1>6, <1>10 DEF p

-----------------------------------------------------------------------------
(* All states of a pass. *)

Step(s, k, a, c, b, i) ==
  /\ b = After(k, a, c) /\ Safe(s, k, b)
  /\ (c.do = "gather" => ~a.used) /\ (c.do = "embed" => i = 1)
  /\ c.do = "sample" => Complete(s, k, a.mem)

Through(s, k, cs, r) ==
  /\ r = [i \in 0 .. Len(cs) |-> r[i]] /\ Safe(s, k, r[0])
  /\ \A i \in 1 .. Len(cs) : Step(s, k, r[i - 1], cs[i], r[i], i)

(* The states of a pass, from the first to the last. *)
LEMMA StartsThrough ==
  ASSUME NEW s, NEW k, NEW a, Safe(s, k, a), NEW cs, NEW b, Starts(s, k, a, cs, b)
  PROVE  \E r : Through(s, k, cs, r) /\ r[0] = a
<1> DEFINE c == Do("embed", 0, Len(k))
<1>1. PICK rest, a0 : /\ cs = <<c>> \o rest
                      /\ a0 = After(k, a, c) /\ Safe(s, k, a0) /\ Takes(s, k, a0, rest, b)
  BY DEF Starts
<1>2. c.do = "embed"
  BY DEF Do
<1> HIDE DEF c
<1> DEFINE n == Len(rest)
           m == Len(cs)
<1>3. IsSeq(<<c>>) /\ IsSeq(rest)
  BY <1>1, OneIsSeq DEF Takes
<1>4. /\ m = 1 + n /\ n \in Nat /\ cs[1] = c
      /\ \A i \in 1 .. n : cs[1 + i] = rest[i]
  <2> DEFINE u == <<c>>
  <2>1. Len(u) = 1 /\ u[1] = c
    OBVIOUS
  <2>2. IsSeq(u) /\ IsSeq(rest) /\ cs = u \o rest
    BY <1>1, <1>3
  <2> HIDE DEF u
  <2>3. /\ Len(u \o rest) = Len(u) + Len(rest) /\ Len(rest) \in Nat
        /\ \A i \in 1 .. Len(u) : (u \o rest)[i] = u[i]
        /\ \A i \in 1 .. Len(rest) : (u \o rest)[Len(u) + i] = rest[i]
    BY <2>2, SeqOn
  <2>4. 1 \in 1 .. Len(u)
    BY <2>1
  <2> QED
    BY <2>1, <2>2, <2>3, <2>4
<1>5. PICK q : Runs(s, k, rest, q) /\ q[0] = a0 /\ q[n] = b
  BY <1>1 DEF Takes
<1>6. \A i \in 1 .. n : Goes(s, k, q[i - 1], rest[i], q[i])
  BY <1>5 DEF Runs
<1> HIDE DEF n, m
<1> DEFINE r == [i \in 0 .. m |-> IF i = 0 THEN a ELSE q[i - 1]]
<1>7. /\ r = [i \in 0 .. m |-> r[i]] /\ r[0] = a
      /\ \A i \in 1 .. m : r[i] = q[i - 1]
  BY <1>4
<1> HIDE DEF r
<1>8. ASSUME NEW i \in 1 .. m PROVE Step(s, k, r[i - 1], cs[i], r[i], i)
  <2>1. CASE i = 1
    <3>1. i - 1 = 0 /\ r[i] = a0 /\ r[i - 1] = a /\ cs[i] = c
      BY <1>4, <1>5, <1>7, <2>1
    <3>2. Step(s, k, a, c, a0, i)
      BY <1>1, <1>2, <2>1 DEF Step
    <3> QED
      BY <3>1, <3>2, Zenon
  <2>2. CASE i # 1
    <3> DEFINE j == i - 1
    <3>1. j \in 1 .. n /\ i = 1 + j /\ i - 1 = j /\ j \in 1 .. m
      BY <1>4, <2>2
    <3> HIDE DEF j
    <3>2. r[i] = q[j] /\ r[i - 1] = q[j - 1] /\ cs[i] = rest[j]
      BY <1>4, <1>7, <3>1
    <3>3. Goes(s, k, q[j - 1], rest[j], q[j])
      BY <1>6, <3>1
    <3>4. Step(s, k, q[j - 1], rest[j], q[j], i)
      BY <3>3, Zenon DEF Goes, Step
    <3> QED
      BY <3>2, <3>4, Zenon
  <2> QED
    BY <2>1, <2>2
<1>9. Through(s, k, cs, r)
  BY <1>7, <1>8 DEF Through, m
<1> QED
  BY <1>7, <1>9

(* Every program of a forward pass, under every schedule and for any number  *)
(* of layers, rows and tokens before it: from buffers whose KV cache holds   *)
(* the reference's rows of those tokens, kernels that run when they are      *)
(* dispatched lead to its logits and KV rows where the program samples, keep *)
(* the rows that were there at every command, and have nothing to do with    *)
(* the lists of the gathered experts before those are written (Step).        *)
THEOREM ProgramsExact ==
  ASSUME HasShared => UseShared, NEW s, NEW k, Fits(s, k), NEW e \in Environments,
         NEW chunk \in BOOLEAN, ~chunk => Len(k) = 1, NEW a, Safe(s, k, a)
  PROVE  \E r : Through(s, k, Programs[e][chunk][Len(k)][Len(s)], r) /\ r[0] = a
<1> DEFINE P == Programs[e][chunk][Len(k)][Len(s)]
<1>1. P = IF chunk THEN ForwardChunk(e, Len(k), Len(s)) ELSE ForwardToken(e, Len(s))
  <2>1. Len(k) \in 1 .. ChunkSize /\ Len(s) \in Positions
    BY Sizes, LayersNumber DEF Positions, Fits
  <2> QED
    BY <2>1 DEF Programs
<1> HIDE DEF P
<1>2. \E b : Starts(s, k, a, P, b)
  <2>1. CASE chunk
    <3>1. \E b : Starts(s, k, a, ForwardChunk(e, Len(k), Len(s)), b)
      BY ChunkStarts
    <3> QED
      BY <1>1, <2>1, <3>1, Zenon
  <2>2. CASE ~chunk
    <3>1. \E b : Starts(s, k, a, ForwardToken(e, Len(s)), b)
      BY <2>2, TokenStarts
    <3> QED
      BY <1>1, <2>2, <3>1, Zenon
  <2> QED
    BY <2>1, <2>2
<1>3. \E r : Through(s, k, P, r) /\ r[0] = a
  BY <1>2, StartsThrough
<1> QED
  BY <1>3 DEF P

-----------------------------------------------------------------------------
(* What has been dispatched. *)

AllApart(cs) == \A i \in 1 .. Len(cs) : Apart(cs[i])

(* Kernels that have nothing to do with the lists, after such kernels. *)
LEMMA AllApartOn ==
  ASSUME NEW s, NEW t, IsSeq(s), IsSeq(t), AllApart(s), AllApart(t)
  PROVE  AllApart(s \o t)
<1>1. /\ Len(s \o t) = Len(s) + Len(t) /\ Len(s) \in Nat /\ Len(t) \in Nat
      /\ \A i \in 1 .. Len(s) : (s \o t)[i] = s[i]
      /\ \A i \in 1 .. Len(t) : (s \o t)[Len(s) + i] = t[i]
  BY SeqOn
<1> SUFFICES ASSUME NEW i \in 1 .. Len(s \o t) PROVE Apart((s \o t)[i])
  BY DEF AllApart
<1>2. CASE i <= Len(s)
  <2>1. i \in 1 .. Len(s)
    BY <1>1, <1>2
  <2>2. Apart(s[i]) /\ (s \o t)[i] = s[i]
    BY <1>1, <2>1 DEF AllApart
  <2> QED
    BY <2>2
<1>3. CASE ~(i <= Len(s))
  <2> DEFINE j == i - Len(s)
  <2>1. j \in 1 .. Len(t) /\ i = Len(s) + j
    BY <1>1, <1>3
  <2> HIDE DEF j
  <2>2. Apart(t[j]) /\ (s \o t)[i] = t[j]
    BY <1>1, <2>1 DEF AllApart
  <2> QED
    BY <2>2
<1> QED
  BY <1>2, <1>3

(* A function on 1 .. n is a sequence. *)
LEMMA FunctionIsSeq ==
  ASSUME NEW n \in Nat, NEW T, NEW f \in [1 .. n -> T]
  PROVE  f \in Seq(T) /\ Len(f) = n
OBVIOUS

\* What j dispatches leave as it was.
Keeps(a, b, cs, j) ==
  /\ b.idx = a.idx
  /\ ~b.used => ~a.used /\ \A i \in 1 .. j : Apart(cs[i])

(* No dispatch, and one more. *)
LEMMA KeepsNone ==
  ASSUME NEW a, NEW cs
  PROVE  Keeps(a, a, cs, 0)
<1>1. \A i \in 1 .. 0 : Apart(cs[i])
  OBVIOUS
<1> QED
  BY <1>1, Zenon DEF Keeps

LEMMA KeepsOn ==
  ASSUME NEW a, NEW b, NEW cs, NEW j \in Nat, Keeps(a, b, cs, j)
  PROVE  Keeps(a, Dispatching(b, cs[j + 1]), cs, j + 1)
<1> DEFINE d == Dispatching(b, cs[j + 1])
<1>1. d.idx = b.idx
  BY DEF Dispatching
<1>2. d.used = (b.used \/ ~Apart(cs[j + 1]))
  <2> DEFINE u == b.used \/ ~Apart(cs[j + 1])
             e == Effect(b.mem, cs[j + 1])
  <2>1. d = [mem |-> e, idx |-> b.idx, used |-> u]
    BY Zenon DEF Dispatching
  <2> HIDE DEF u, e, d
  <2>2. d.used = u
    BY <2>1
  <2> QED
    BY <2>2, Zenon DEF u
<1>3. \A i \in 1 .. j + 1 : i \in 1 .. j \/ i = j + 1
  OBVIOUS
<1> HIDE DEF d
<1>4. b.idx = a.idx
  BY DEF Keeps
<1>5. ASSUME ~d.used PROVE ~a.used /\ \A i \in 1 .. j + 1 : Apart(cs[i])
  <2>1. ~b.used /\ Apart(cs[j + 1])
    BY <1>2, <1>5, Zenon
  <2>2. ~a.used /\ \A i \in 1 .. j : Apart(cs[i])
    BY <2>1, Zenon DEF Keeps
  <2> QED
    BY <1>3, <2>1, <2>2, Zenon
<1>6. Keeps(a, d, cs, j + 1)
  BY <1>1, <1>4, <1>5, Zenon DEF Keeps
<1> QED
  BY <1>6 DEF d

\* From a to b the kernels cs were dispatched.
DispatchesTo(a, b, cs) ==
  /\ Ran(a.mem, cs) = b.mem /\ b.idx = a.idx
  /\ ~b.used => ~a.used /\ AllApart(cs)

\* The n commands after the first q of P dispatch cs.
AreDispatched(P, q, n, idx, cs) ==
  /\ cs = [i \in 1 .. n |-> cs[i]]
  /\ \A i \in 1 .. n : P[q + i].do = "dispatch" /\ cs[i] = BoundTo(idx, P[q + i])

(* Kernels that are dispatched one after the other.                          *)
LEMMA DispatchesThrough ==
  ASSUME NEW s, NEW k, NEW P, NEW r, Through(s, k, P, r), NEW q \in Nat, NEW n \in Nat,
         Len(P) \in Nat, q + n <= Len(P),
         NEW cs, AreDispatched(P, q, n, r[q].idx, cs)
  PROVE  DispatchesTo(r[q], r[q + n], cs)
<1> DEFINE a == r[q]
           S == {j \in Nat : j <= n => Keeps(a, r[q + j], cs, j)}
<1>d. cs = [i \in 1 .. n |-> cs[i]]
      /\ \A i \in 1 .. n : P[q + i].do = "dispatch" /\ cs[i] = BoundTo(a.idx, P[q + i])
  BY DEF AreDispatched
<1>0. /\ \A i \in 1 .. n : cs[i] = BoundTo(a.idx, P[q + i])
      /\ Len(cs) = n /\ IsSeq(cs)
  <2> DEFINE T == {BoundTo(a.idx, P[q + i]) : i \in 1 .. n}
  <2>1. cs \in [1 .. n -> T]
    <3>1. \A i \in 1 .. n : cs[i] \in T
      BY <1>d, Zenon
    <3> HIDE DEF T
    <3> QED
      BY <1>d, <3>1
  <2> HIDE DEF T
  <2>2. cs \in Seq(T) /\ Len(cs) = n
    BY <2>1, FunctionIsSeq
  <2> QED
    BY <1>d, <2>2 DEF IsSeq
<1>1. ASSUME NEW j \in 0 .. n - 1, r[q + j].idx = a.idx
      PROVE  r[q + (j + 1)] = Dispatching(r[q + j], cs[j + 1])
  <2> DEFINE i == q + (j + 1)
  <2>1. j + 1 \in 1 .. n /\ i \in 1 .. Len(P) /\ i - 1 = q + j
    OBVIOUS
  <2>3. P[i].do = "dispatch"
    BY <1>d, <2>1
  <2>5. cs[j + 1] = BoundTo(r[q + j].idx, P[i])
    BY <1>0, <1>1, <2>1
  <2> HIDE DEF i
  <2>a. Step(s, k, r[i - 1], P[i], r[i], i)
    BY <2>1, Zenon DEF Through
  <2>2. r[i] = After(k, r[q + j], P[i])
    BY <2>1, <2>a, Zenon DEF Step
  <2>4. After(k, r[q + j], P[i]) = Dispatching(r[q + j], BoundTo(r[q + j].idx, P[i]))
    BY <2>3, Zenon DEF After
  <2>6. r[i] = Dispatching(r[q + j], cs[j + 1])
    BY <2>2, <2>4, <2>5, Zenon
  <2> QED
    BY <2>6 DEF i
<1>2. 0 \in S
  <2>1. q + 0 = q
    OBVIOUS
  <2> QED
    BY <2>1, KeepsNone
<1>3. ASSUME NEW j \in Nat, j \in S PROVE j + 1 \in S
  <2> SUFFICES ASSUME j + 1 <= n PROVE Keeps(a, r[q + (j + 1)], cs, j + 1)
    OBVIOUS
  <2>1. j <= n /\ j \in 0 .. n - 1
    OBVIOUS
  <2>2. Keeps(a, r[q + j], cs, j)
    BY <1>3, <2>1
  <2>3. r[q + j].idx = a.idx
    BY <2>2 DEF Keeps
  <2>4. r[q + (j + 1)] = Dispatching(r[q + j], cs[j + 1])
    BY <1>1, <2>1, <2>3
  <2>5. Keeps(a, Dispatching(r[q + j], cs[j + 1]), cs, j + 1)
    BY <2>2, KeepsOn
  <2> QED
    BY <2>4, <2>5, Zenon
<1> HIDE DEF S
<1>4. \A j \in Nat : j \in S
  BY <1>2, <1>3, ByInduction
<1>a. \A j \in 0 .. n : Keeps(a, r[q + j], cs, j)
  BY <1>4 DEF S
<1>5. \A j \in 0 .. n : r[q + j].idx = a.idx
  BY <1>a DEF Keeps
<1> DEFINE f == [i \in 0 .. n |-> r[q + i].mem]
<1>6. \A i \in 0 .. n : f[i] = r[q + i].mem
  OBVIOUS
<1>7. f = [i \in 0 .. n |-> f[i]]
  OBVIOUS
<1> HIDE DEF f
<1>8. Follows(a.mem, cs, n, f)
  <2>1. f[0] = a.mem
    BY <1>6
  <2>2. ASSUME NEW i \in 1 .. n PROVE f[i] = Effect(f[i - 1], cs[i])
    <3> DEFINE j == i - 1
    <3>1. j \in 0 .. n - 1 /\ j \in 0 .. n /\ i \in 0 .. n /\ j + 1 = i
      OBVIOUS
    <3> HIDE DEF j
    <3>2. r[q + (j + 1)] = Dispatching(r[q + j], cs[j + 1])
      BY <1>1, <1>5, <3>1
    <3>3. r[q + (j + 1)].mem = Effect(r[q + j].mem, cs[j + 1])
      BY <3>2 DEF Dispatching
    <3>4. f[j + 1] = Effect(f[j], cs[j + 1])
      BY <1>6, <3>1, <3>3
    <3> QED
      BY <3>4 DEF j
  <2> QED
    BY <1>7, <2>1, <2>2 DEF Follows
<1>9. Ran(a.mem, cs) = f[n]
  BY <1>0, <1>8, RanIs
<1>10. n \in 0 .. n
  OBVIOUS
<1>11. r[q + n].idx = a.idx /\ (~r[q + n].used => ~a.used /\ AllApart(cs))
  BY <1>0, <1>a, <1>10, Zenon DEF AllApart, Keeps
<1>12. Ran(a.mem, cs) = r[q + n].mem
  BY <1>6, <1>9, <1>10
<1> QED
  BY <1>11, <1>12, Zenon DEF DispatchesTo

(* Kernels that have nothing to do with the lists of the gathered experts.   *)
LEMMA RanApart ==
  ASSUME NEW m, IsMem(m), NEW v, NEW cs, IsSeq(cs), AllApart(cs)
  PROVE  Ran(With(m, v), cs) = With(Ran(m, cs), v) /\ Ran(m, cs).gather = m.gather
<1> DEFINE n == Len(cs)
<1>1. n \in Nat
  BY LenProperties DEF IsSeq
<1>2. PICK f : Follows(m, cs, n, f)
  BY <1>1, FollowingExists
<1> DEFINE g == [i \in 0 .. n |-> With(f[i], v)]
           S == {j \in Nat : j <= n => IsMem(f[j]) /\ f[j].gather = m.gather}
<1>3. 0 \in S
  BY <1>2 DEF Follows
<1>4. ASSUME NEW j \in Nat, j \in S PROVE j + 1 \in S
  <2> SUFFICES ASSUME j + 1 <= n PROVE IsMem(f[j + 1]) /\ f[j + 1].gather = m.gather
    OBVIOUS
  <2>1. j + 1 \in 1 .. n /\ (j + 1) - 1 = j /\ j <= n
    OBVIOUS
  <2>2. IsMem(f[j]) /\ f[j].gather = m.gather
    BY <1>4, <2>1
  <2>3. Apart(cs[j + 1])
    BY <2>1 DEF AllApart
  <2>4. f[j + 1] = Effect(f[j], cs[j + 1])
    BY <1>2, <2>1 DEF Follows
  <2>5. IsMem(Effect(f[j], cs[j + 1])) /\ Effect(f[j], cs[j + 1]).gather = f[j].gather
    BY <2>2, <2>3, Zenon DEF Apart
  <2> QED
    BY <2>2, <2>4, <2>5
<1> HIDE DEF S
<1>5. \A j \in Nat : j \in S
  BY <1>3, <1>4, ByInduction
<1>6. \A j \in 0 .. n : IsMem(f[j]) /\ f[j].gather = m.gather
  BY <1>1, <1>5 DEF S
<1>7. g = [i \in 0 .. n |-> g[i]] /\ \A i \in 0 .. n : g[i] = With(f[i], v)
  OBVIOUS
<1> HIDE DEF g
<1>8. Follows(With(m, v), cs, n, g)
  <2>1. g[0] = With(m, v)
    BY <1>1, <1>2, <1>7 DEF Follows
  <2>2. ASSUME NEW i \in 1 .. n PROVE g[i] = Effect(g[i - 1], cs[i])
    <3> DEFINE j == i - 1
    <3>1. j \in 0 .. n /\ i \in 0 .. n
      BY <1>1
    <3>2. g[i] = With(f[i], v) /\ g[j] = With(f[j], v)
      BY <1>7, <3>1
    <3>3. f[i] = Effect(f[j], cs[i])
      BY <1>2 DEF Follows
    <3> HIDE DEF j
    <3>4. Apart(cs[i]) /\ IsMem(f[j])
      BY <1>6, <3>1 DEF AllApart
    <3>5. Effect(With(f[j], v), cs[i]) = With(Effect(f[j], cs[i]), v)
      BY <3>4, Zenon DEF Apart
    <3>6. g[i] = Effect(g[j], cs[i])
      BY <3>2, <3>3, <3>5, Zenon
    <3> QED
      BY <3>6 DEF j
  <2> HIDE DEF n
  <2> QED
    BY <1>7, <2>1, <2>2 DEF Follows
<1>9. Ran(With(m, v), cs) = g[n] /\ Ran(m, cs) = f[n]
  BY <1>1, <1>2, <1>8, RanIs
<1>10. n \in 0 .. n
  BY <1>1
<1> QED
  BY <1>6, <1>7, <1>9, <1>10

=============================================================================
