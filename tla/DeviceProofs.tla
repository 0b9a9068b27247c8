---------------------------- MODULE DeviceProofs ----------------------------
(***************************************************************************)
(* Proofs about Device, for any number of layers, rows and positions, any   *)
(* prompts and any environment: batches are opened and closed in turn, and  *)
(* the host reads only what has run.                                        *)
(***************************************************************************)
EXTENDS Device, SequenceTheorems, WellFoundedInduction, TLAPS

-----------------------------------------------------------------------------
(* A set of numbers has a least element. *)
LEMMA HasLeast ==
  ASSUME NEW S \in SUBSET Nat, S # {}
  PROVE  \E k \in S : \A j \in S : k <= j
<1> DEFINE R == {xy \in Nat \X Nat : xy[1] < xy[2]}
<1>1. IsWellFoundedOn(R, Nat)
  BY NatLessThanWellFounded DEF OpToRel
<1>2. \A x, y \in Nat : x < y => <<x, y>> \in R
  OBVIOUS
<1> HIDE DEF R
<1>3. PICK x \in S : \A y \in S : ~(<<y, x>> \in R)
  BY <1>1, WFMin
<1>4. \A y \in S : ~(y < x)
  BY <1>2, <1>3
<1> QED
  BY <1>4

-----------------------------------------------------------------------------
(* Sequences that are put together. *)
LEMMA ConcatIs ==
  ASSUME NEW S, NEW s \in Seq(S), NEW t \in Seq(S)
  PROVE  /\ s \o t \in Seq(S) /\ Len(s \o t) = Len(s) + Len(t)
         /\ Len(s) \in Nat /\ Len(t) \in Nat
         /\ \A i \in 1 .. Len(s) : (s \o t)[i] = s[i]
         /\ \A i \in 1 .. Len(t) : (s \o t)[Len(s) + i] = t[i]
OBVIOUS

LEMMA Joined ==
  ASSUME NEW S, NEW s \in Seq(S), NEW t \in Seq(S), NEW u \in Seq(S), Len(u) = Len(s) + Len(t),
         \A i \in 1 .. Len(s) : u[i] = s[i], \A i \in 1 .. Len(t) : u[Len(s) + i] = t[i]
  PROVE  s \o t = u
<1>1. Len(s) \in Nat /\ Len(t) \in Nat
  OBVIOUS
<1>2. ASSUME NEW i \in 1 .. Len(s) + Len(t) PROVE (s \o t)[i] = u[i]
  <2>1. CASE i <= Len(s)
    <3>1. i \in 1 .. Len(s)
      BY <1>1, <2>1
    <3> QED
      BY <3>1, ConcatIs
  <2>2. CASE ~(i <= Len(s))
    <3>1. PICK j \in 1 .. Len(t) : i = Len(s) + j
      <4>1. i - Len(s) \in 1 .. Len(t) /\ i = Len(s) + (i - Len(s))
        BY <1>1, <2>2
      <4> QED
        BY <4>1
    <3>2. (s \o t)[Len(s) + j] = t[j]
      BY ConcatIs
    <3> QED
      BY <3>1, <3>2
  <2> QED
    BY <2>1, <2>2
<1>3. s \o t \in Seq(S) /\ Len(s \o t) = Len(u)
  BY ConcatIs
<1> QED
  BY <1>2, <1>3, SeqEqual

LEMMA TwoAre ==
  ASSUME NEW S, NEW a \in S, NEW b \in S
  PROVE  <<a>> \o <<b>> = <<a, b>>
<1> DEFINE s == <<a>>
           t == <<b>>
           u == <<a, b>>
<1>1. s \in Seq(S) /\ t \in Seq(S) /\ u \in Seq(S)
  OBVIOUS
<1>2. /\ Len(s) = 1 /\ Len(t) = 1 /\ Len(u) = 2
      /\ s[1] = a /\ t[1] = b
      /\ u[1] = a /\ u[2] = b
  OBVIOUS
<1> HIDE DEF s, t, u
<1>3. (\A i \in 1 .. Len(s) : u[i] = s[i]) /\ (\A i \in 1 .. Len(t) : u[Len(s) + i] = t[i])
  <2>1. \A i \in 1 .. 1 : i = 1
    OBVIOUS
  <2> QED
    BY <1>2, <2>1
<1>4. Len(u) = Len(s) + Len(t)
  BY <1>2
<1>5. s \o t = u
  BY <1>1, <1>3, <1>4, Joined, Zenon
<1> QED
  BY <1>5 DEF s, t, u

LEMMA ThreeAre ==
  ASSUME NEW S, NEW a \in S, NEW b \in S, NEW c \in S
  PROVE  <<a, b>> \o <<c>> = <<a, b, c>>
<1> DEFINE s == <<a, b>>
           t == <<c>>
           u == <<a, b, c>>
<1>1. s \in Seq(S) /\ t \in Seq(S) /\ u \in Seq(S)
  OBVIOUS
<1>2. /\ Len(s) = 2 /\ Len(t) = 1 /\ Len(u) = 3
      /\ s[1] = a /\ s[2] = b /\ t[1] = c
      /\ u[1] = a /\ u[2] = b /\ u[3] = c
  OBVIOUS
<1> HIDE DEF s, t, u
<1>3. (\A i \in 1 .. Len(s) : u[i] = s[i]) /\ (\A i \in 1 .. Len(t) : u[Len(s) + i] = t[i])
  <2>1. \A i \in 1 .. 2 : i = 1 \/ i = 2
    OBVIOUS
  <2> QED
    BY <1>2, <2>1
<1>4. Len(u) = Len(s) + Len(t)
  BY <1>2
<1>5. s \o t = u
  BY <1>1, <1>3, <1>4, Joined, Zenon
<1> QED
  BY <1>5 DEF s, t, u

LEMMA FourAre ==
  ASSUME NEW S, NEW a \in S, NEW b \in S, NEW c \in S, NEW d \in S
  PROVE  <<a, b, c>> \o <<d>> = <<a, b, c, d>>
<1> DEFINE s == <<a, b, c>>
           t == <<d>>
           u == <<a, b, c, d>>
<1>1. s \in Seq(S) /\ t \in Seq(S) /\ u \in Seq(S)
  OBVIOUS
<1>2. /\ Len(s) = 3 /\ Len(t) = 1 /\ Len(u) = 4
      /\ s[1] = a /\ s[2] = b /\ s[3] = c /\ t[1] = d
      /\ u[1] = a /\ u[2] = b /\ u[3] = c /\ u[4] = d
  OBVIOUS
<1> HIDE DEF s, t, u
<1>3. (\A i \in 1 .. Len(s) : u[i] = s[i]) /\ (\A i \in 1 .. Len(t) : u[Len(s) + i] = t[i])
  <2>1. \A i \in 1 .. 3 : i = 1 \/ i = 2 \/ i = 3
    OBVIOUS
  <2> QED
    BY <1>2, <2>1
<1>4. Len(u) = Len(s) + Len(t)
  BY <1>2
<1>5. s \o t = u
  BY <1>1, <1>3, <1>4, Joined, Zenon
<1> QED
  BY <1>5 DEF s, t, u

LEMMA OneAndFourAre ==
  ASSUME NEW S, NEW a \in S, NEW b \in S, NEW c \in S, NEW d \in S, NEW e \in S
  PROVE  <<e>> \o <<a, b, c, d>> = <<e, a, b, c, d>>
<1> DEFINE s == <<e>>
           t == <<a, b, c, d>>
           u == <<e, a, b, c, d>>
<1>1. s \in Seq(S) /\ t \in Seq(S) /\ u \in Seq(S)
  OBVIOUS
<1>2. /\ Len(s) = 1 /\ Len(t) = 4 /\ Len(u) = 5
      /\ s[1] = e /\ t[1] = a /\ t[2] = b /\ t[3] = c /\ t[4] = d
      /\ u[1] = e /\ u[2] = a /\ u[3] = b /\ u[4] = c /\ u[5] = d
  OBVIOUS
<1> HIDE DEF s, t, u
<1>3. (\A i \in 1 .. Len(s) : u[i] = s[i]) /\ (\A i \in 1 .. Len(t) : u[Len(s) + i] = t[i])
  <2>1. \A i \in 1 .. 4 : i = 1 \/ i = 2 \/ i = 3 \/ i = 4
    OBVIOUS
  <2> QED
    BY <1>2, <2>1
<1>4. Len(u) = Len(s) + Len(t)
  BY <1>2
<1>5. s \o t = u
  BY <1>1, <1>3, <1>4, Joined, Zenon
<1> QED
  BY <1>5 DEF s, t, u

-----------------------------------------------------------------------------
(* Pieces of a forward pass. *)

Buffers == {"hidden", "residual", "norm", "qkv", "attn_out", "ffn_out", "gather", "logits"}
Functions == {"copy", "attn_norm", "qkv", "qk_norm", "attn_output", "add", "ffn_norm", "zero",
              "shared", "experts", "moe", "fused", "output_norm", "output"}
Waits == {"read", "choose", "sample"}
Others == {"dispatch", "embed", "gather"}

Kernels == [do : {"dispatch"}, f : Functions, l : Int, from : Seq(Buffers), to : Buffers,
            rows : SUBSET Int, off : Int, choice : {<<>>}]
Attends == [do : {"dispatch"}, f : {"attention"}, l : Int, row : Int, at : Int]
Routers == [do : {"dispatch"}, f : {"router"}, l : Int, row : Int, cell : Int]
TopKs   == [do : {"dispatch"}, f : {"top_k"}, rows : SUBSET Int, cell : Int]
HostDos == [do : {"begin", "end"} \cup Waits \cup Others, l : Int, rows : SUBSET Int]
Commands == Kernels \cup Attends \cup Routers \cup TopKs \cup HostDos

(* Whether a batch is open before and after a command. *)
Moves(o1, c, o2) ==
  \/ c.do = "begin" /\ ~o1 /\ o2
  \/ c.do = "end" /\ o1 /\ ~o2
  \/ c.do \in Waits /\ ~o1 /\ ~o2
  \/ c.do \in Others /\ o1 = o2

(* o tells for each place in s whether a batch is open there. *)
Opens(s, o) ==
  /\ o \in [0 .. Len(s) -> BOOLEAN]
  /\ \A i \in 1 .. Len(s) : Moves(o[i - 1], s[i], o[i])

(* s leads from a batch that is open, or not, to one that is, or not. *)
Leads(s, a, b) ==
  s \in Seq(Commands) /\ \E o : Opens(s, o) /\ o[0] = a /\ o[Len(s)] = b

LEMMA LeadsNowhere ==
  ASSUME NEW a \in BOOLEAN
  PROVE  Leads(<<>>, a, a)
<1> DEFINE o == [i \in 0 .. 0 |-> a]
<1>1. Opens(<<>>, o) /\ o[0] = a /\ o[Len(<<>>)] = a
  BY DEF Opens
<1> QED
  BY <1>1 DEF Leads

LEMMA LeadsOne ==
  ASSUME NEW c \in Commands, NEW a \in BOOLEAN, NEW b \in BOOLEAN, Moves(a, c, b)
  PROVE  Leads(<<c>>, a, b)
<1> DEFINE o == [i \in 0 .. 1 |-> IF i = 0 THEN a ELSE b]
<1>1. Len(<<c>>) = 1 /\ <<c>>[1] = c /\ <<c>> \in Seq(Commands)
  OBVIOUS
<1>2. o \in [0 .. 1 -> BOOLEAN] /\ o[0] = a /\ o[1] = b
  OBVIOUS
<1> HIDE DEF o
<1>3. \A i \in 1 .. 1 : i = 1
  OBVIOUS
<1>4. Opens(<<c>>, o)
  BY <1>1, <1>2, <1>3 DEF Opens
<1> QED
  BY <1>1, <1>2, <1>4 DEF Leads

LEMMA LeadsOn ==
  ASSUME NEW s, NEW t, NEW a, NEW b, NEW c, Leads(s, a, b), Leads(t, b, c)
  PROVE  Leads(s \o t, a, c)
<1>1. PICK o : Opens(s, o) /\ o[0] = a /\ o[Len(s)] = b
  BY DEF Leads
<1>2. PICK q : Opens(t, q) /\ q[0] = b /\ q[Len(t)] = c
  BY DEF Leads
<1>3. s \in Seq(Commands) /\ t \in Seq(Commands)
  BY DEF Leads
<1> DEFINE m == Len(s)
           n == Len(t)
           r == [i \in 0 .. m + n |-> IF i <= m THEN o[i] ELSE q[i - m]]
<1>4. m \in Nat /\ n \in Nat /\ Len(s \o t) = m + n /\ s \o t \in Seq(Commands)
  BY <1>3
<1>5. /\ \A i \in 1 .. m : (s \o t)[i] = s[i]
      /\ \A i \in 1 .. n : (s \o t)[m + i] = t[i]
  BY <1>3
<1>6. /\ o \in [0 .. m -> BOOLEAN] /\ \A i \in 1 .. m : Moves(o[i - 1], s[i], o[i])
      /\ q \in [0 .. n -> BOOLEAN] /\ \A i \in 1 .. n : Moves(q[i - 1], t[i], q[i])
      /\ o[m] = q[0]
  BY <1>1, <1>2 DEF Opens
<1> HIDE DEF m, n
<1>7. \A i \in 0 .. m + n : /\ i <= m => r[i] = o[i]
                            /\ ~(i <= m) => r[i] = q[i - m]
  BY Zenon
<1>8. r \in [0 .. m + n -> BOOLEAN]
  <2>1. \A i \in 0 .. m + n : (IF i <= m THEN o[i] ELSE q[i - m]) \in BOOLEAN
    <3> TAKE i \in 0 .. m + n
    <3>1. CASE i <= m
      BY <1>4, <1>6, <3>1
    <3>2. CASE ~(i <= m)
      <4>1. i - m \in 0 .. n
        BY <1>4, <3>2
      <4> QED
        BY <1>6, <3>2, <4>1
    <3> QED
      BY <3>1, <3>2
  <2> QED
    BY <2>1
<1> HIDE DEF r
<1>9. ASSUME NEW i \in 1 .. m + n PROVE Moves(r[i - 1], (s \o t)[i], r[i])
  <2>1. CASE i <= m
    <3>1. i \in 1 .. m /\ i - 1 <= m /\ i - 1 \in 0 .. m + n /\ i \in 0 .. m + n
      BY <1>4, <2>1
    <3>2. r[i - 1] = o[i - 1] /\ r[i] = o[i] /\ (s \o t)[i] = s[i]
      BY <1>5, <1>7, <2>1, <3>1, Zenon
    <3>3. Moves(o[i - 1], s[i], o[i])
      BY <1>6, <3>1
    <3> QED
      BY <3>2, <3>3, Zenon
  <2>2. CASE ~(i <= m)
    <3> DEFINE k == i - m
    <3>1. k \in 1 .. n /\ i = m + k /\ i - 1 \in 0 .. m + n /\ i \in 0 .. m + n
      BY <1>4, <2>2
    <3>2. r[i] = q[k]
      BY <1>7, <2>2, <3>1
    <3>3. r[i - 1] = q[k - 1]
      <4>1. CASE k = 1
        <5>1. i - 1 = m /\ k - 1 = 0
          BY <1>4, <3>1, <4>1
        <5> QED
          BY <1>4, <1>6, <1>7, <3>1, <5>1
      <4>2. CASE k # 1
        <5>1. ~(i - 1 <= m) /\ i - 1 - m = k - 1
          BY <1>4, <3>1, <4>2
        <5> QED
          BY <1>7, <3>1, <5>1
      <4> QED
        BY <4>1, <4>2
    <3>4. (s \o t)[i] = t[k]
      BY <1>5, <3>1
    <3>5. Moves(q[k - 1], t[k], q[k])
      BY <1>6, <3>1
    <3> QED
      BY <3>2, <3>3, <3>4, <3>5, Zenon
  <2> QED
    BY <2>1, <2>2
<1>10. r[0] = a /\ r[m + n] = c
  <2>1. 0 \in 0 .. m + n /\ 0 <= m
    BY <1>4
  <2>2. r[0] = o[0]
    BY <1>7, <2>1, Zenon
  <2>3. PICK x \in 0 .. m + n : x = m + n
    BY <1>4
  <2>4. r[x] = q[n]
    <3>1. CASE n = 0
      <4>1. x = m /\ x <= m
        BY <1>4, <2>3, <3>1
      <4> QED
        BY <1>6, <1>7, <3>1, <4>1, Zenon
    <3>2. CASE n # 0
      <4>1. ~(x <= m) /\ x - m = n
        BY <1>4, <2>3, <3>2
      <4>2. r[x] = q[x - m]
        BY <1>7, <4>1, Zenon
      <4> QED
        BY <4>1, <4>2, Zenon
    <3> QED
      BY <3>1, <3>2
  <2> QED
    BY <1>1, <1>2, <2>2, <2>3, <2>4, Zenon DEF n
<1>11. Opens(s \o t, r)
  BY <1>4, <1>8, <1>9 DEF Opens
<1> QED
  BY <1>4, <1>10, <1>11 DEF Leads

-----------------------------------------------------------------------------
(* One piece after the other. *)

(* f has the beginnings of all that ss are put together to. *)
Flattens(ss, m, f) ==
  /\ f \in [1 .. m -> Seq(Commands)]
  /\ \A i \in 1 .. m : f[i] = IF i = 1 THEN ss[i] ELSE f[i - 1] \o ss[i]

LEMMA FlatteningExists ==
  ASSUME NEW n \in Nat, NEW ss, \A i \in 1 .. n : ss[i] \in Seq(Commands)
  PROVE  \E f : Flattens(ss, n, f)
<1> DEFINE Bad == {m \in Nat : m <= n /\ ~\E f : Flattens(ss, m, f)}
<1> SUFFICES ASSUME Bad # {} PROVE FALSE
  OBVIOUS
<1>1. PICK m \in Bad : \A k \in Bad : m <= k
  <2>1. Bad \in SUBSET Nat
    OBVIOUS
  <2> HIDE DEF Bad
  <2> QED
    BY <2>1, HasLeast
<1>2. m \in Nat /\ m <= n /\ ~\E f : Flattens(ss, m, f)
  OBVIOUS
<1>3. CASE m = 0
  <2> DEFINE f == [i \in 1 .. 0 |-> <<>>]
  <2>1. Flattens(ss, 0, f)
    BY DEF Flattens
  <2> QED
    BY <1>2, <1>3, <2>1
<1>4. CASE m # 0
  <2>1. m - 1 \in Nat /\ m - 1 <= n /\ ~(m <= m - 1) /\ m \in 1 .. n
    BY <1>2, <1>4
  <2>2. PICK g : Flattens(ss, m - 1, g)
    <3>1. m - 1 \notin Bad
      <4> HIDE DEF Bad
      <4> QED
        BY <1>1, <2>1
    <3> QED
      BY <2>1, <3>1
  <2> DEFINE last == IF m = 1 THEN ss[m] ELSE g[m - 1] \o ss[m]
             f == [i \in 1 .. m |-> IF i = m THEN last ELSE g[i]]
  <2>3. \A i \in 1 .. m : i # m => i \in 1 .. m - 1
    BY <1>2
  <2>4. g \in [1 .. m - 1 -> Seq(Commands)] /\ m \in 1 .. m
    BY <1>2, <1>4, <2>2 DEF Flattens
  <2>5. last \in Seq(Commands)
    <3>1. CASE m = 1
      BY <2>1, <3>1
    <3>2. CASE m # 1
      <4>1. m - 1 \in 1 .. m - 1
        BY <2>1, <3>2
      <4>2. g[m - 1] \in Seq(Commands) /\ ss[m] \in Seq(Commands)
        BY <2>1, <2>4, <4>1
      <4> QED
        BY <3>2, <4>2
    <3> QED
      BY <3>1, <3>2
  <2>6. \A i \in 1 .. m : f[i] = IF i = m THEN last ELSE g[i]
    OBVIOUS
  <2>7. f \in [1 .. m -> Seq(Commands)]
    <3> HIDE DEF last
    <3> QED
      BY <2>3, <2>4, <2>5
  <2>8. \A i \in 1 .. m : f[i] = IF i = 1 THEN ss[i] ELSE f[i - 1] \o ss[i]
    <3> HIDE DEF f
    <3> TAKE i \in 1 .. m
    <3>1. CASE i = m
      <4>1. CASE m = 1
        BY <2>6, <3>1, <4>1
      <4>2. CASE m # 1
        <5>1. m - 1 \in 1 .. m /\ m - 1 # m
          BY <2>1, <4>2
        <5>2. f[m - 1] = g[m - 1]
          BY <2>6, <5>1
        <5> QED
          BY <2>6, <3>1, <4>2, <5>2
      <4> QED
        BY <4>1, <4>2
    <3>2. CASE i # m
      <4>1. i \in 1 .. m - 1
        BY <2>3, <3>2
      <4>2. f[i] = g[i]
        BY <2>6, <3>2
      <4>3. g[i] = IF i = 1 THEN ss[i] ELSE g[i - 1] \o ss[i]
        BY <2>2, <4>1 DEF Flattens
      <4>4. i # 1 => i - 1 \in 1 .. m /\ i - 1 # m
        BY <1>2, <4>1
      <4>5. i # 1 => f[i - 1] = g[i - 1]
        BY <2>6, <4>4
      <4> QED
        BY <4>2, <4>3, <4>5
    <3> QED
      BY <3>1, <3>2
  <2>9. Flattens(ss, m, f)
    <3> HIDE DEF f
    <3> QED
      BY <2>7, <2>8 DEF Flattens
  <2> QED
    BY <1>2, <2>9
<1> QED
  BY <1>3, <1>4

(* Layers that each open what they close, and close what they open, do so   *)
(* one after the other.                                                     *)
LEMMA LeadsThrough ==
  ASSUME NEW n \in Nat, NEW ss, ss = [i \in 1 .. n |-> ss[i]],
         \A i \in 1 .. n : Leads(ss[i], FALSE, FALSE)
  PROVE  Leads(FlattenSeq(ss), FALSE, FALSE)
<1>0. ss \in Seq(Seq(Commands)) /\ Len(ss) = n
  <2>1. \A i \in 1 .. n : ss[i] \in Seq(Commands)
    BY DEF Leads
  <2>2. ss \in [1 .. n -> Seq(Commands)]
    BY <2>1
  <2> QED
    BY <2>2
<1>1. CASE n = 0
  <2>1. ss = <<>>
    BY <1>0, <1>1
  <2>2. FlattenSeq(ss) = <<>>
    BY <1>0, <1>1, <2>1 DEF FlattenSeq
  <2> QED
    BY <2>2, LeadsNowhere
<1>2. CASE n # 0
  <2> DEFINE Eq(f) == f = [i \in 1 .. n |-> IF i = 1 THEN ss[i] ELSE f[i - 1] \o ss[i]]
             flat == CHOOSE f : Eq(f)
  <2>1. \E f : Eq(f)
    <3>1. \A i \in 1 .. n : ss[i] \in Seq(Commands)
      BY DEF Leads
    <3>2. PICK f : Flattens(ss, n, f)
      BY <3>1, FlatteningExists
    <3>3. f = [i \in 1 .. n |-> f[i]]
      BY <3>2 DEF Flattens
    <3>4. Eq(f)
      BY <3>2, <3>3 DEF Flattens
    <3> QED
      BY <3>4
  <2>2. Eq(flat)
    <3> HIDE DEF Eq
    <3> QED
      BY <2>1
  <2>3. FlattenSeq(ss) = flat[n]
    BY <1>0, <1>2 DEF FlattenSeq
  <2> HIDE DEF flat
  <2>4. \A i \in 1 .. n : flat[i] = IF i = 1 THEN ss[i] ELSE flat[i - 1] \o ss[i]
    <3>1. flat = [i \in 1 .. n |-> IF i = 1 THEN ss[i] ELSE flat[i - 1] \o ss[i]]
      BY <2>2, Zenon
    <3> QED
      BY <3>1
  <2>5. \A i \in 1 .. n : Leads(flat[i], FALSE, FALSE)
    <3> DEFINE Bad == {k \in 1 .. n : ~Leads(flat[k], FALSE, FALSE)}
    <3> SUFFICES ASSUME Bad # {} PROVE FALSE
      OBVIOUS
    <3>1. PICK k \in Bad : \A j \in Bad : k <= j
      <4>1. Bad \in SUBSET Nat
        <5>1. Bad \subseteq 1 .. n
          BY Zenon
        <5> HIDE DEF Bad
        <5> QED
          BY <5>1
      <4> HIDE DEF Bad
      <4> QED
        BY <4>1, HasLeast
    <3>2. k \in 1 .. n /\ ~Leads(flat[k], FALSE, FALSE)
      OBVIOUS
    <3>3. CASE k = 1
      <4>1. flat[k] = ss[k]
        BY <2>4, <3>2, <3>3
      <4> QED
        BY <3>2, <4>1
    <3>4. CASE k # 1
      <4>1. k - 1 \in 1 .. n /\ ~(k <= k - 1)
        BY <3>2, <3>4
      <4>2. Leads(flat[k - 1], FALSE, FALSE)
        <5>1. k - 1 \notin Bad
          <6> HIDE DEF Bad
          <6> QED
            BY <3>1, <4>1
        <5> QED
          BY <4>1, <5>1
      <4>3. flat[k] = flat[k - 1] \o ss[k]
        BY <2>4, <3>2, <3>4
      <4> QED
        BY <3>2, <4>2, <4>3, LeadsOn
    <3> QED
      BY <3>3, <3>4
  <2>6. n \in 1 .. n
    BY <1>2
  <2> QED
    BY <2>3, <2>5, <2>6, Zenon
<1> QED
  BY <1>1, <1>2

(* Kernels only, which neither open nor close a batch. *)
Dispatches(s) == s \in Seq(Commands) /\ \A i \in 1 .. Len(s) : s[i].do = "dispatch"

LEMMA DispatchesLead ==
  ASSUME NEW s, Dispatches(s), NEW a \in BOOLEAN
  PROVE  Leads(s, a, a)
<1> DEFINE o == [i \in 0 .. Len(s) |-> a]
<1>1. s \in Seq(Commands) /\ \A i \in 1 .. Len(s) : s[i].do = "dispatch"
  BY DEF Dispatches
<1>2. Len(s) \in Nat
  BY <1>1
<1>3. \A i \in 0 .. Len(s) : o[i] = a
  OBVIOUS
<1>4. o \in [0 .. Len(s) -> BOOLEAN]
  OBVIOUS
<1>5. 0 \in 0 .. Len(s) /\ Len(s) \in 0 .. Len(s)
      /\ \A i \in 1 .. Len(s) : i \in 0 .. Len(s) /\ i - 1 \in 0 .. Len(s)
  BY <1>2
<1> HIDE DEF o
<1>6. \A i \in 1 .. Len(s) : Moves(o[i - 1], s[i], o[i])
  BY <1>1, <1>3, <1>5, Zenon DEF Moves, Others
<1> QED
  BY <1>1, <1>3, <1>4, <1>5, <1>6, Zenon DEF Leads, Opens

LEMMA DispatchesOn ==
  ASSUME NEW s, NEW t, Dispatches(s), Dispatches(t)
  PROVE  Dispatches(s \o t)
<1>1. s \in Seq(Commands) /\ t \in Seq(Commands)
  BY DEF Dispatches
<1>2. ASSUME NEW i \in 1 .. Len(s \o t) PROVE (s \o t)[i].do = "dispatch"
  <2>1. CASE i <= Len(s)
    BY <1>1, <2>1 DEF Dispatches
  <2>2. CASE ~(i <= Len(s))
    <3>1. i - Len(s) \in 1 .. Len(t) /\ (s \o t)[i] = t[i - Len(s)]
      BY <1>1, <2>2
    <3> QED
      BY <3>1 DEF Dispatches
  <2> QED
    BY <2>1, <2>2
<1> QED
  BY <1>1, <1>2 DEF Dispatches

-----------------------------------------------------------------------------
(* The commands. *)

IsDispatch(c) == c \in Commands /\ c.do = "dispatch"

LEMMA KernelIs ==
  ASSUME NEW f \in Functions, NEW l \in Int, NEW from \in Seq(Buffers), NEW to \in Buffers,
         NEW M \in Int
  PROVE  IsDispatch(Kernel(f, l, from, to, M))
<1>1. 0 .. M - 1 \in SUBSET Int
  OBVIOUS
<1>2. Kernel(f, l, from, to, M) \in Kernels
  BY <1>1 DEF Kernel, Kernels
<1> QED
  BY <1>2 DEF Kernels, Commands, IsDispatch

(* The kernels, and the buffers they read, are among those. *)
LEMMA Names ==
  /\ "copy" \in Functions /\ "attn_norm" \in Functions /\ "qkv" \in Functions
  /\ "qk_norm" \in Functions /\ "attn_output" \in Functions /\ "add" \in Functions
  /\ "ffn_norm" \in Functions /\ "zero" \in Functions /\ "shared" \in Functions
  /\ "experts" \in Functions /\ "moe" \in Functions /\ "fused" \in Functions
  /\ "output_norm" \in Functions /\ "output" \in Functions
  /\ "hidden" \in Buffers /\ "residual" \in Buffers /\ "norm" \in Buffers
  /\ "qkv" \in Buffers /\ "attn_out" \in Buffers /\ "ffn_out" \in Buffers
  /\ "gather" \in Buffers /\ "logits" \in Buffers
BY DEF Functions, Buffers

LEMMA Operands ==
  /\ <<>> \in Seq(Buffers) /\ <<"hidden">> \in Seq(Buffers) /\ <<"norm">> \in Seq(Buffers)
  /\ <<"qkv">> \in Seq(Buffers) /\ <<"attn_out">> \in Seq(Buffers)
  /\ <<"hidden", "residual">> \in Seq(Buffers) /\ <<"ffn_out", "residual">> \in Seq(Buffers)
  /\ <<"ffn_out", "norm">> \in Seq(Buffers) /\ <<"ffn_out", "norm", "gather">> \in Seq(Buffers)
BY DEF Buffers

LEMMA DoIs ==
  ASSUME NEW what \in {"begin", "end"} \cup Waits \cup Others, NEW l \in Int, NEW M \in Int
  PROVE  Do(what, l, M) \in Commands /\ Do(what, l, M).do = what
<1>1. 0 .. M - 1 \in SUBSET Int
  OBVIOUS
<1>2. Do(what, l, M) \in HostDos /\ Do(what, l, M).do = what
  BY <1>1 DEF Do, HostDos
<1> QED
  BY <1>2 DEF Commands

LEMMA AttendIs ==
  ASSUME NEW l \in Int, NEW t \in Int, NEW p \in Int
  PROVE  IsDispatch(Attend(l, t, p))
<1>1. Attend(l, t, p) \in Attends
  BY DEF Attend, Attends
<1> QED
  BY <1>1 DEF Attends, Commands, IsDispatch

LEMMA RouterIs ==
  ASSUME NEW l \in Int, NEW x \in Int, NEW t \in Int
  PROVE  IsDispatch(Router(l, x, t))
<1>1. Router(l, x, t) \in Routers
  BY DEF Router, Routers
<1> QED
  BY <1>1 DEF Routers, Commands, IsDispatch

LEMMA TopKIs ==
  ASSUME NEW l \in Int, NEW M \in Int
  PROVE  IsDispatch(TopK(l, M))
<1>1. 0 .. M - 1 \in SUBSET Int /\ l * M \in Int
  OBVIOUS
<1>2. TopK(l, M) \in TopKs
  BY <1>1 DEF TopK, TopKs
<1> QED
  BY <1>2 DEF TopKs, Commands, IsDispatch

LEMMA OneDispatch ==
  ASSUME NEW c, IsDispatch(c)
  PROVE  Dispatches(<<c>>)
BY DEF Dispatches, IsDispatch

LEMMA FourDispatch ==
  ASSUME NEW a, NEW b, NEW c, NEW d, IsDispatch(a), IsDispatch(b), IsDispatch(c), IsDispatch(d)
  PROVE  Dispatches(<<a, b, c, d>>)
<1> DEFINE s == <<a, b, c, d>>
<1>1. s \in Seq(Commands) /\ Len(s) = 4
  BY DEF IsDispatch
<1>2. s[1] = a /\ s[2] = b /\ s[3] = c /\ s[4] = d
  OBVIOUS
<1> HIDE DEF s
<1>3. \A i \in 1 .. 4 : i = 1 \/ i = 2 \/ i = 3 \/ i = 4
  OBVIOUS
<1>4. \A i \in 1 .. Len(s) : s[i].do = "dispatch"
  BY <1>1, <1>2, <1>3 DEF IsDispatch
<1>5. Dispatches(s)
  BY <1>1, <1>4 DEF Dispatches
<1> QED
  BY <1>5 DEF s

LEMMA NoDispatch == Dispatches(<<>>)
BY DEF Dispatches

LEMMA BeginLeads == Leads(<<Begin>>, FALSE, TRUE)
<1>1. Begin \in Commands /\ Begin.do = "begin"
  BY DoIs DEF Begin
<1>2. Moves(FALSE, Begin, TRUE)
  BY <1>1 DEF Moves
<1> QED
  BY <1>1, <1>2, LeadsOne, Zenon

LEMMA EndLeads == Leads(<<End>>, TRUE, FALSE)
<1>1. End \in Commands /\ End.do = "end"
  BY DoIs DEF End
<1>2. Moves(TRUE, End, FALSE)
  BY <1>1 DEF Moves
<1> QED
  BY <1>1, <1>2, LeadsOne, Zenon

LEMMA WaitLeads ==
  ASSUME NEW what \in Waits, NEW l \in Int, NEW M \in Int
  PROVE  Leads(<<Do(what, l, M)>>, FALSE, FALSE)
<1>1. Do(what, l, M) \in Commands /\ Do(what, l, M).do = what
  BY DoIs DEF Waits
<1>2. Moves(FALSE, Do(what, l, M), FALSE)
  BY <1>1 DEF Moves
<1> QED
  BY <1>1, <1>2, LeadsOne, Zenon

LEMMA OtherLeads ==
  ASSUME NEW what \in Others, NEW l \in Int, NEW M \in Int, NEW a \in BOOLEAN
  PROVE  Leads(<<Do(what, l, M)>>, a, a)
<1>1. Do(what, l, M) \in Commands /\ Do(what, l, M).do = what
  BY DoIs DEF Others
<1>2. Moves(a, Do(what, l, M), a)
  BY <1>1 DEF Moves
<1> QED
  BY <1>1, <1>2, LeadsOne, Zenon

-----------------------------------------------------------------------------
(* The pieces of a layer. *)

LEMMA AttentionBranchDispatches ==
  ASSUME NEW l \in Int, NEW M \in Nat, NEW p \in Int
  PROVE  Dispatches(AttentionBranch(l, M, p))
<1> DEFINE c1 == Kernel("copy", l, <<"hidden">>, "residual", M)
           c2 == Kernel("attn_norm", l, <<"hidden">>, "norm", M)
           c3 == Kernel("qkv", l, <<"norm">>, "qkv", M)
           c4 == Kernel("qk_norm", l, <<"qkv">>, "qkv", M)
           c5 == Kernel("attn_output", l, <<"attn_out">>, "hidden", M)
           c6 == Kernel("add", 0, <<"hidden", "residual">>, "hidden", M)
           c7 == Kernel("ffn_norm", l, <<"hidden">>, "norm", M)
           before == <<c1, c2, c3, c4>>
           rows == [i \in 1 .. M |-> Attend(l, i - 1, p + i - 1)]
           after == <<c5, c6, c1, c7>>
<1>1. 0 \in Int /\ M \in Int
  OBVIOUS
<1>2. /\ IsDispatch(c1) /\ IsDispatch(c2)
      /\ IsDispatch(c3) /\ IsDispatch(c4)
      /\ IsDispatch(c5) /\ IsDispatch(c6)
      /\ IsDispatch(c7)
  <2>1. IsDispatch(c1)
    BY <1>1, KernelIs, Names, Operands
  <2>2. IsDispatch(c2)
    BY <1>1, KernelIs, Names, Operands
  <2>3. IsDispatch(c3)
    BY <1>1, KernelIs, Names, Operands
  <2>4. IsDispatch(c4)
    BY <1>1, KernelIs, Names, Operands
  <2>5. IsDispatch(c5)
    BY <1>1, KernelIs, Names, Operands
  <2>6. IsDispatch(c6)
    BY <1>1, KernelIs, Names, Operands
  <2>7. IsDispatch(c7)
    BY <1>1, KernelIs, Names, Operands
  <2> HIDE DEF c1, c2, c3, c4, c5, c6, c7
  <2> QED
    BY <2>1, <2>2, <2>3, <2>4, <2>5, <2>6, <2>7
<1>a. Dispatches(before) /\ Dispatches(after)
  <2> HIDE DEF c1, c2, c3, c4, c5, c6, c7
  <2> QED
    BY <1>2, FourDispatch
<1>3. Dispatches(rows)
  <2>1. \A i \in 1 .. M : IsDispatch(rows[i])
    BY AttendIs
  <2>2. rows \in [1 .. M -> Commands]
    BY <2>1 DEF IsDispatch
  <2> HIDE DEF rows
  <2>3. rows \in Seq(Commands) /\ Len(rows) = M
    BY <2>2
  <2> QED
    BY <2>1, <2>3 DEF Dispatches, IsDispatch
<1>4. AttentionBranch(l, M, p) = before \o rows \o after
  BY DEF AttentionBranch
<1> HIDE DEF before, rows, after
<1> QED
  BY <1>a, <1>3, <1>4, DispatchesOn

LEMMA RoutedDispatches ==
  ASSUME NEW l \in Int, NEW M \in Nat
  PROVE  Dispatches(Routed(l, M))
<1> DEFINE rows == [i \in 1 .. M |-> Router(l, l * M + i - 1, i - 1)]
<1>1. \A i \in 1 .. M : IsDispatch(rows[i])
  <2> TAKE i \in 1 .. M
  <2>1. l * M + i - 1 \in Int /\ i - 1 \in Int
    OBVIOUS
  <2> QED
    BY <2>1, RouterIs
<1>2. rows \in [1 .. M -> Commands]
  BY <1>1 DEF IsDispatch
<1>3. Routed(l, M) = rows
  BY DEF Routed
<1> HIDE DEF rows
<1>4. rows \in Seq(Commands) /\ Len(rows) = M
  BY <1>2
<1> QED
  BY <1>1, <1>3, <1>4 DEF Dispatches, IsDispatch

LEMMA PiecesDispatch ==
  ASSUME NEW l \in Int, NEW M \in Nat, NEW used
  PROVE  /\ Dispatches(Zeroed(M)) /\ Dispatches(Summed(M)) /\ Dispatches(Shared(l, M, used))
         /\ Dispatches(Experts(l, M)) /\ Dispatches(Scattered(l, M))
<1> DEFINE c1 == Kernel("zero", 0, <<>>, "ffn_out", M)
           c2 == Kernel("add", 0, <<"ffn_out", "residual">>, "hidden", M)
           c3 == Kernel("shared", l, <<"ffn_out", "norm">>, "ffn_out", M)
           c4 == Kernel("experts", l, <<"ffn_out", "norm">>, "ffn_out", M)
           c5 == Kernel("moe", l, <<"ffn_out", "norm", "gather">>, "ffn_out", M)
<1>1. 0 \in Int /\ M \in Int
  OBVIOUS
<1>2. /\ IsDispatch(c1) /\ IsDispatch(c2)
      /\ IsDispatch(c3) /\ IsDispatch(c4)
      /\ IsDispatch(c5)
  <2>1. IsDispatch(c1)
    BY <1>1, KernelIs, Names, Operands
  <2>2. IsDispatch(c2)
    BY <1>1, KernelIs, Names, Operands
  <2>3. IsDispatch(c3)
    BY <1>1, KernelIs, Names, Operands
  <2>4. IsDispatch(c4)
    BY <1>1, KernelIs, Names, Operands
  <2>5. IsDispatch(c5)
    BY <1>1, KernelIs, Names, Operands
  <2> HIDE DEF c1, c2, c3, c4, c5
  <2> QED
    BY <2>1, <2>2, <2>3, <2>4, <2>5
<1>3. /\ Zeroed(M) = <<c1>> /\ Summed(M) = <<c2>> /\ Shared(l, M, used) \in {<<c3>>, <<>>}
      /\ Experts(l, M) = <<c4>> /\ Scattered(l, M) = <<c5>>
  BY DEF Zeroed, Summed, Shared, Experts, Scattered
<1> HIDE DEF c1, c2, c3, c4, c5
<1> QED
  BY <1>2, <1>3, OneDispatch, NoDispatch

LEMMA LayerPartsDispatch ==
  ASSUME NEW l \in Int, NEW M \in Nat, NEW p \in Int
  PROVE  /\ Dispatches(ForwardLayerPre(l, p)) /\ Dispatches(ForwardLayerPost(l))
         /\ Dispatches(ForwardChunkPre(l, M, p)) /\ Dispatches(ForwardChunkPost(l, M))
<1>1. 1 \in Nat
  OBVIOUS
<1>2. Dispatches(ForwardLayerPre(l, p))
  BY <1>1, AttentionBranchDispatches, RoutedDispatches, PiecesDispatch, DispatchesOn DEF ForwardLayerPre
<1>3. Dispatches(ForwardLayerPost(l))
  BY <1>1, PiecesDispatch, DispatchesOn DEF ForwardLayerPost
<1>4. Dispatches(ForwardChunkPre(l, M, p))
  BY AttentionBranchDispatches, RoutedDispatches, DispatchesOn DEF ForwardChunkPre
<1>5. Dispatches(ForwardChunkPost(l, M))
  BY PiecesDispatch, DispatchesOn DEF ForwardChunkPost
<1> QED
  BY <1>2, <1>3, <1>4, <1>5

-----------------------------------------------------------------------------
(* The schedules. *)

(* ds3_metal_moe_ffn leaves the batch of its caller open, or opens another.  *)
LEMMA MoeFfnLeads ==
  ASSUME NEW l \in Int
  PROVE  Leads(MoeFfn(l), TRUE, TRUE)
<1>1. 1 \in Nat /\ 0 \in Int /\ 1 \in Int
  OBVIOUS
<1>2. CASE l \in Fused
  <2> DEFINE c == Kernel("fused", l, <<"ffn_out", "norm">>, "ffn_out", 1)
  <2>1. IsDispatch(c)
    BY <1>1, KernelIs, Names, Operands
  <2>2. MoeFfn(l) = Shared(l, 1, TRUE) \o <<c>>
    BY <1>2 DEF MoeFfn
  <2> HIDE DEF c
  <2>3. Dispatches(MoeFfn(l))
    BY <1>1, <2>1, <2>2, PiecesDispatch, OneDispatch, DispatchesOn
  <2> QED
    BY <2>3, DispatchesLead, Zenon
<1>3. CASE l \notin Fused
  <2> DEFINE c == Router(l, 0, 0)
             w == Do("choose", l, 1)
             first == <<c, End, w, Begin>>
             rest == Shared(l, 1, TRUE) \o Experts(l, 1)
  <2>1. MoeFfn(l) = first \o Shared(l, 1, TRUE) \o Experts(l, 1)
    BY <1>3 DEF MoeFfn
  <2>2. Leads(first, TRUE, TRUE)
    <3>1. Dispatches(<<c>>)
      BY <1>1, RouterIs, OneDispatch
    <3>2. Leads(<<c>>, TRUE, TRUE)
      BY <3>1, DispatchesLead, Zenon
    <3>3. Leads(<<w>>, FALSE, FALSE)
      BY <1>1, WaitLeads DEF Waits
    <3>4. first = ((<<c>> \o <<End>>) \o <<w>>) \o <<Begin>>
      <4> HIDE DEF c, w
      <4> QED
        OBVIOUS
    <3> HIDE DEF c, w, first
    <3>5. Leads(<<c>> \o <<End>>, TRUE, FALSE)
      BY <3>2, EndLeads, LeadsOn, Zenon
    <3>6. Leads((<<c>> \o <<End>>) \o <<w>>, TRUE, FALSE)
      BY <3>3, <3>5, LeadsOn, Zenon
    <3>7. Leads(((<<c>> \o <<End>>) \o <<w>>) \o <<Begin>>, TRUE, TRUE)
      BY <3>6, BeginLeads, LeadsOn, Zenon
    <3> QED
      BY <3>4, <3>7, Zenon
  <2>3. Leads(Shared(l, 1, TRUE), TRUE, TRUE) /\ Leads(Experts(l, 1), TRUE, TRUE)
    BY <1>1, PiecesDispatch, DispatchesLead, Zenon
  <2> HIDE DEF first
  <2>4. Leads(first \o Shared(l, 1, TRUE), TRUE, TRUE)
    BY <2>2, <2>3, LeadsOn, Zenon
  <2>5. Leads(first \o Shared(l, 1, TRUE) \o Experts(l, 1), TRUE, TRUE)
    BY <2>3, <2>4, LeadsOn, Zenon
  <2> QED
    BY <2>1, <2>5, Zenon
<1> QED
  BY <1>2, <1>3

(* The router's choice is read when the batch has been ended. *)
LEMMA TopKReadBackLeads ==
  ASSUME NEW l \in Int, NEW M \in Int
  PROVE  Leads(TopKReadBack(l, M), TRUE, FALSE)
<1> DEFINE c == TopK(l, M)
           w == Do("read", l, M)
<1>1. Dispatches(<<c>>)
  BY TopKIs, OneDispatch
<1>2. Leads(<<c>>, TRUE, TRUE)
  BY <1>1, DispatchesLead, Zenon
<1>3. Leads(<<w>>, FALSE, FALSE)
  BY WaitLeads DEF Waits
<1>4. TopKReadBack(l, M) = (<<c>> \o <<End>>) \o <<w>>
  <2>1. TopKReadBack(l, M) = <<c, End, w>>
    BY DEF TopKReadBack
  <2>a. c \in Commands /\ End \in Commands /\ w \in Commands
    <3>1. c \in Commands
      BY TopKIs DEF IsDispatch
    <3>2. 0 \in Int /\ "end" \in {"begin", "end"} \cup Waits \cup Others
          /\ "read" \in {"begin", "end"} \cup Waits \cup Others
      BY DEF Waits
    <3>3. End \in Commands /\ w \in Commands
      BY <3>2, DoIs DEF End
    <3> QED
      BY <3>1, <3>3
  <2> HIDE DEF c, w
  <2>2. <<c>> \o <<End>> = <<c, End>>
    BY <2>a, TwoAre
  <2>3. <<c, End>> \o <<w>> = <<c, End, w>>
    BY <2>a, ThreeAre
  <2> QED
    BY <2>1, <2>2, <2>3, Zenon
<1> HIDE DEF c, w
<1>5. Leads(<<c>> \o <<End>>, TRUE, FALSE)
  BY <1>2, EndLeads, LeadsOn, Zenon
<1>6. Leads((<<c>> \o <<End>>) \o <<w>>, TRUE, FALSE)
  BY <1>3, <1>5, LeadsOn, Zenon
<1> QED
  BY <1>4, <1>6, Zenon

(* A batch of kernels. *)
LEMMA BatchLeads ==
  ASSUME NEW s, Dispatches(s)
  PROVE  Leads(<<Begin>> \o s, FALSE, TRUE) /\ Leads(<<Begin>> \o s \o <<End>>, FALSE, FALSE)
<1>1. Leads(s, TRUE, TRUE)
  BY DispatchesLead, Zenon
<1>2. Leads(<<Begin>> \o s, FALSE, TRUE)
  BY <1>1, BeginLeads, LeadsOn, Zenon
<1>3. Leads(<<Begin>> \o s \o <<End>>, FALSE, FALSE)
  BY <1>2, EndLeads, LeadsOn, Zenon
<1> QED
  BY <1>2, <1>3, Zenon

(* A batch that ends with a layer's choice. *)
LEMMA PreTopkLeads ==
  ASSUME NEW s, Dispatches(s), NEW l \in Int, NEW M \in Int
  PROVE  Leads(<<Begin>> \o s \o TopKReadBack(l, M), FALSE, FALSE)
BY BatchLeads, TopKReadBackLeads, LeadsOn, Zenon

LEMMA LayersNumber == NLayer \in Nat /\ NLayer - 1 \in Nat /\ ChunkSize \in Nat /\ NCtx \in Nat
BY DeviceAssumption

LEMMA GpuOnlyLeads ==
  ASSUME NEW p \in Int
  PROVE  Leads(GpuOnly(p), FALSE, FALSE)
<1> DEFINE Layer(l) == <<Begin>> \o ForwardLayerGpuOnly(l, p) \o <<End>>
           ss == [i \in 1 .. NLayer |-> Layer(i - 1)]
<1>1. ASSUME NEW l \in Int PROVE Leads(Layer(l), FALSE, FALSE)
  <2> DEFINE s == AttentionBranch(l, 1, p) \o Zeroed(1)
  <2>1. 1 \in Nat
    OBVIOUS
  <2>2. Dispatches(s) /\ Dispatches(Summed(1))
    BY <2>1, AttentionBranchDispatches, PiecesDispatch, DispatchesOn
  <2>3. Leads(s, TRUE, TRUE) /\ Leads(Summed(1), TRUE, TRUE)
    BY <2>2, DispatchesLead, Zenon
  <2>4. ForwardLayerGpuOnly(l, p) = s \o MoeFfn(l) \o Summed(1)
    BY DEF ForwardLayerGpuOnly
  <2> HIDE DEF s
  <2>5. Leads(s \o MoeFfn(l), TRUE, TRUE)
    BY <2>3, MoeFfnLeads, LeadsOn, Zenon
  <2>6. Leads(s \o MoeFfn(l) \o Summed(1), TRUE, TRUE)
    BY <2>3, <2>5, LeadsOn, Zenon
  <2>7. Leads(<<Begin>> \o ForwardLayerGpuOnly(l, p), FALSE, TRUE)
    BY <2>4, <2>6, BeginLeads, LeadsOn, Zenon
  <2> QED
    BY <2>7, EndLeads, LeadsOn, Zenon
<1>2. GpuOnly(p) = FlattenSeq(ss)
  BY DEF GpuOnly, ByLayer
<1> HIDE DEF Layer
<1>3. \A i \in 1 .. NLayer : ss[i] = Layer(i - 1) /\ i - 1 \in Int
  BY LayersNumber
<1>4. ss = [i \in 1 .. NLayer |-> ss[i]]
  BY <1>3
<1> HIDE DEF ss
<1>5. \A i \in 1 .. NLayer : Leads(ss[i], FALSE, FALSE)
  BY <1>1, <1>3, Zenon
<1> QED
  BY <1>2, <1>4, <1>5, LayersNumber, LeadsThrough, Zenon

LEMMA OverlapLeads ==
  ASSUME NEW p \in Int
  PROVE  Leads(Overlap(p), FALSE, FALSE)
<1> DEFINE Both(l) == <<Begin>> \o ForwardLayerPost(l) \o ForwardLayerPre(l + 1, p)
                      \o TopKReadBack(l + 1, 1)
           n == NLayer - 1
           ss == [i \in 1 .. n |-> Both(i - 1)]
           first == RunLayerPreTopk(0, p)
           last == <<Begin>> \o ForwardLayerPost(n) \o <<End>>
<1>1. n \in Nat /\ n \in Int /\ 0 \in Int /\ 1 \in Int /\ 1 \in Nat
  BY LayersNumber
<1>2. ASSUME NEW l \in Int PROVE Leads(Both(l), FALSE, FALSE)
  <2>1. l + 1 \in Int
    OBVIOUS
  <2>2. Dispatches(ForwardLayerPost(l)) /\ Dispatches(ForwardLayerPre(l + 1, p))
    BY <1>1, <2>1, LayerPartsDispatch
  <2>3. Leads(<<Begin>> \o ForwardLayerPost(l), FALSE, TRUE)
    BY <2>2, BatchLeads, Zenon
  <2>4. Leads(ForwardLayerPre(l + 1, p), TRUE, TRUE)
    BY <2>2, DispatchesLead, Zenon
  <2>5. Leads(<<Begin>> \o ForwardLayerPost(l) \o ForwardLayerPre(l + 1, p), FALSE, TRUE)
    BY <2>3, <2>4, LeadsOn, Zenon
  <2>6. Leads(TopKReadBack(l + 1, 1), TRUE, FALSE)
    BY <1>1, <2>1, TopKReadBackLeads
  <2> QED
    BY <2>5, <2>6, LeadsOn, Zenon
<1>3. Overlap(p) = first \o FlattenSeq(ss) \o <<Begin>> \o ForwardLayerPost(n) \o <<End>>
  BY DEF Overlap, ByLayer
<1>4. Leads(first, FALSE, FALSE)
  <2>1. Dispatches(ForwardLayerPre(0, p))
    BY <1>1, LayerPartsDispatch
  <2> QED
    BY <1>1, <2>1, PreTopkLeads, Zenon DEF RunLayerPreTopk
<1>5. Leads(FlattenSeq(ss), FALSE, FALSE)
  <2> HIDE DEF Both
  <2>1. \A i \in 1 .. n : ss[i] = Both(i - 1) /\ i - 1 \in Int
    BY <1>1
  <2>2. ss = [i \in 1 .. n |-> ss[i]]
    BY <2>1
  <2> HIDE DEF ss, n
  <2>3. \A i \in 1 .. n : Leads(ss[i], FALSE, FALSE)
    BY <1>2, <2>1, Zenon
  <2> QED
    BY <1>1, <2>2, <2>3, LeadsThrough, Zenon
<1> HIDE DEF ss, first, n
<1>6. Leads(first \o FlattenSeq(ss), FALSE, FALSE)
  BY <1>4, <1>5, LeadsOn, Zenon
<1>7. Leads(first \o FlattenSeq(ss) \o <<Begin>>, FALSE, TRUE)
  BY <1>6, BeginLeads, LeadsOn, Zenon
<1>8. Leads(ForwardLayerPost(n), TRUE, TRUE)
  <2>1. Dispatches(ForwardLayerPost(n))
    BY <1>1, LayerPartsDispatch
  <2> QED
    BY <2>1, DispatchesLead, Zenon
<1>9. Leads(first \o FlattenSeq(ss) \o <<Begin>> \o ForwardLayerPost(n), FALSE, TRUE)
  BY <1>7, <1>8, LeadsOn, Zenon
<1> QED
  BY <1>3, <1>9, EndLeads, LeadsOn, Zenon

LEMMA FallbackLeads ==
  ASSUME NEW p \in Int
  PROVE  Leads(Fallback(p), FALSE, FALSE)
<1> DEFINE Layer(l) == RunLayerPreTopk(l, p) \o <<Begin>> \o ForwardLayerPost(l) \o <<End>>
           ss == [i \in 1 .. NLayer |-> Layer(i - 1)]
<1>1. ASSUME NEW l \in Int PROVE Leads(Layer(l), FALSE, FALSE)
  <2>1. 1 \in Nat /\ 1 \in Int
    OBVIOUS
  <2>2. Dispatches(ForwardLayerPre(l, p)) /\ Dispatches(ForwardLayerPost(l))
    BY <2>1, LayerPartsDispatch
  <2>3. Leads(RunLayerPreTopk(l, p), FALSE, FALSE)
    BY <2>1, <2>2, PreTopkLeads, Zenon DEF RunLayerPreTopk
  <2>4. Leads(ForwardLayerPost(l), TRUE, TRUE)
    BY <2>2, DispatchesLead, Zenon
  <2>5. Leads(RunLayerPreTopk(l, p) \o <<Begin>>, FALSE, TRUE)
    BY <2>3, BeginLeads, LeadsOn, Zenon
  <2>6. Leads(RunLayerPreTopk(l, p) \o <<Begin>> \o ForwardLayerPost(l), FALSE, TRUE)
    BY <2>4, <2>5, LeadsOn, Zenon
  <2> QED
    BY <2>6, EndLeads, LeadsOn, Zenon
<1>2. Fallback(p) = FlattenSeq(ss)
  BY DEF Fallback, ByLayer
<1> HIDE DEF Layer
<1>3. \A i \in 1 .. NLayer : ss[i] = Layer(i - 1) /\ i - 1 \in Int
  BY LayersNumber
<1>4. ss = [i \in 1 .. NLayer |-> ss[i]]
  BY <1>3
<1> HIDE DEF ss
<1>5. \A i \in 1 .. NLayer : Leads(ss[i], FALSE, FALSE)
  BY <1>1, <1>3, Zenon
<1> QED
  BY <1>2, <1>4, <1>5, LayersNumber, LeadsThrough, Zenon

-----------------------------------------------------------------------------
(* A forward pass opens and closes its batches in turn, and ends with what  *)
(* reads the logits.                                                        *)

Passes(s) ==
  /\ Leads(s, FALSE, FALSE)
  /\ Len(s) > 0 /\ s[Len(s)].do = "sample"

LEMMA OutputPasses ==
  ASSUME NEW s, Leads(s, FALSE, TRUE), NEW c, NEW d, IsDispatch(c), IsDispatch(d)
  PROVE  Passes(s \o <<c, d, End, Do("sample", 0, 1)>>)
<1> DEFINE w == Do("sample", 0, 1)
           t == <<c, d, End, w>>
<1>1. Leads(<<c>>, TRUE, TRUE) /\ Leads(<<d>>, TRUE, TRUE)
  BY OneDispatch, DispatchesLead, Zenon
<1>2. Leads(<<w>>, FALSE, FALSE) /\ w.do = "sample"
  <2>1. "sample" \in Waits /\ 0 \in Int /\ 1 \in Int
    BY DEF Waits
  <2>2. w.do = "sample"
    BY DEF Do
  <2> QED
    BY <2>1, <2>2, WaitLeads, Zenon
<1> HIDE DEF w
<1>3. t = ((<<c>> \o <<d>>) \o <<End>>) \o <<w>>
  <2>a. c \in Commands /\ d \in Commands /\ End \in Commands /\ w \in Commands
    BY DoIs DEF IsDispatch, End, w, Waits
  <2>1. <<c>> \o <<d>> = <<c, d>> /\ <<c, d>> \o <<End>> = <<c, d, End>>
    BY <2>a, TwoAre, ThreeAre
  <2>2. <<c, d, End>> \o <<w>> = t
    BY <2>a, FourAre
  <2> QED
    BY <2>1, <2>2, Zenon
<1>4. Leads(<<c>> \o <<d>>, TRUE, TRUE)
  BY <1>1, LeadsOn, Zenon
<1>5. Leads((<<c>> \o <<d>>) \o <<End>>, TRUE, FALSE)
  BY <1>4, EndLeads, LeadsOn, Zenon
<1>6. Leads(((<<c>> \o <<d>>) \o <<End>>) \o <<w>>, TRUE, FALSE)
  BY <1>2, <1>5, LeadsOn, Zenon
<1>7. Leads(s \o t, FALSE, FALSE)
  <2>1. Leads(t, TRUE, FALSE)
    BY <1>3, <1>6, Zenon
  <2> HIDE DEF t
  <2> QED
    BY <2>1, LeadsOn, Zenon
<1>8. Len(t) = 4 /\ t[4] = w
  OBVIOUS
<1>9. s \in Seq(Commands) /\ t \in Seq(Commands)
  BY <1>3, <1>6, Zenon DEF Leads
<1> HIDE DEF t
<1>10. Len(s \o t) = Len(s) + 4 /\ Len(s) \in Nat /\ (s \o t)[Len(s) + 4] = t[4]
  <2>1. 4 \in 1 .. Len(t)
    BY <1>8
  <2>2. Len(s \o t) = Len(s) + Len(t) /\ Len(s) \in Nat
    BY <1>9, ConcatIs
  <2>3. (s \o t)[Len(s) + 4] = t[4]
    <3>1. \A i \in 1 .. Len(t) : (s \o t)[Len(s) + i] = t[i]
      BY <1>9, ConcatIs
    <3> QED
      BY <2>1, <3>1
  <2> QED
    BY <1>8, <2>2, <2>3
<1>11. Len(s \o t) > 0 /\ (s \o t)[Len(s \o t)].do = "sample"
  BY <1>2, <1>8, <1>10
<1> QED
  BY <1>7, <1>11, Zenon DEF Passes, t, w

LEMMA TokenPasses ==
  ASSUME NEW e \in Environments, NEW p \in Int
  PROVE  Passes(ForwardToken(e, p))
<1> DEFINE m == Do("embed", 0, 1)
           layers == CASE e.schedule = "gpu_only" -> GpuOnly(p)
                       [] e.schedule = "overlap"  -> Overlap(p)
                       [] OTHER                   -> Fallback(p)
           c == Kernel("output_norm", 0, <<"hidden">>, "hidden", 1)
           d == Kernel("output", 0, <<"hidden">>, "logits", 1)
           w == Do("sample", 0, 1)
<1>1. 0 \in Int /\ 1 \in Int
  OBVIOUS
<1>2. IsDispatch(c)
  BY <1>1, KernelIs, Names, Operands
<1>3. IsDispatch(d)
  BY <1>1, KernelIs, Names, Operands
<1>4. Leads(<<m>>, FALSE, FALSE)
  <2>1. "embed" \in Others
    BY DEF Others
  <2> QED
    BY <1>1, <2>1, OtherLeads, Zenon
<1>5. Leads(layers, FALSE, FALSE)
  <2>1. layers = GpuOnly(p) \/ layers = Overlap(p) \/ layers = Fallback(p)
    OBVIOUS
  <2> HIDE DEF layers
  <2> QED
    BY <2>1, GpuOnlyLeads, OverlapLeads, FallbackLeads, Zenon
<1>6. ForwardToken(e, p) = <<m>> \o layers \o <<Begin, c, d, End, w>>
  BY DEF ForwardToken
<1> HIDE DEF m, layers, c, d
<1>7. <<m>> \o layers \o <<Begin, c, d, End, w>> = (<<m>> \o layers \o <<Begin>>) \o <<c, d, End, w>>
  <2> DEFINE s == <<m>> \o layers
  <2>1. s \in Seq(Commands) /\ Begin \in Commands /\ End \in Commands /\ c \in Commands
        /\ d \in Commands /\ w \in Commands
    <3>1. Leads(s, FALSE, FALSE)
      BY <1>4, <1>5, LeadsOn, Zenon
    <3>2. s \in Seq(Commands)
      BY <3>1, Zenon DEF Leads
    <3>3. Begin \in Commands /\ End \in Commands /\ w \in Commands
      BY <1>1, DoIs DEF Begin, End, Waits
    <3> QED
      BY <1>2, <1>3, <3>2, <3>3, Zenon DEF IsDispatch
  <2>2. <<Begin>> \o <<c, d, End, w>> = <<Begin, c, d, End, w>>
    BY <2>1, OneAndFourAre
  <2>3. <<Begin>> \in Seq(Commands) /\ <<c, d, End, w>> \in Seq(Commands)
    BY <2>1
  <2> HIDE DEF s
  <2> DEFINE t == <<c, d, End, w>>
  <2> HIDE DEF t
  <2>4. s \o (<<Begin>> \o t) = (s \o <<Begin>>) \o t
    BY <2>1, <2>3, ConcatAssociative DEF t
  <2> QED
    BY <2>2, <2>4, Zenon DEF s, t
<1>8. Leads(<<m>> \o layers \o <<Begin>>, FALSE, TRUE)
  <2>1. Leads(<<m>> \o layers, FALSE, FALSE)
    BY <1>4, <1>5, LeadsOn, Zenon
  <2> QED
    BY <2>1, BeginLeads, LeadsOn, Zenon
<1> QED
  BY <1>2, <1>3, <1>6, <1>7, <1>8, OutputPasses, Zenon

(* The experts of a chunk, gathered or not, stay in one batch. *)
LEMMA ChunkPostLeads ==
  ASSUME NEW l \in Int, NEW M \in Nat
  PROVE  /\ Leads(ForwardChunkPost(l, M), TRUE, TRUE)
         /\ Leads(ForwardChunkPostGathered(l, M), TRUE, TRUE)
<1>1. Leads(ForwardChunkPost(l, M), TRUE, TRUE)
  <2>1. Dispatches(ForwardChunkPost(l, M))
    <3>1. 0 \in Int
      OBVIOUS
    <3> QED
      BY <3>1, LayerPartsDispatch
  <2> QED
    BY <2>1, DispatchesLead, Zenon
<1>2. Leads(ForwardChunkPostGathered(l, M), TRUE, TRUE)
  <2> DEFINE s == Zeroed(M) \o Shared(l, M, TRUE)
             g == Do("gather", l, M)
  <2>1. Dispatches(s) /\ Dispatches(Scattered(l, M)) /\ Dispatches(Summed(M))
    BY PiecesDispatch, DispatchesOn
  <2>2. /\ Leads(s, TRUE, TRUE) /\ Leads(Scattered(l, M), TRUE, TRUE)
        /\ Leads(Summed(M), TRUE, TRUE)
    BY <2>1, DispatchesLead, Zenon
  <2>3. Leads(<<g>>, TRUE, TRUE)
    <3>1. "gather" \in Others /\ M \in Int
      BY DEF Others
    <3> QED
      BY <3>1, OtherLeads, Zenon
  <2>4. ForwardChunkPostGathered(l, M) = s \o <<g>> \o Scattered(l, M) \o Summed(M)
    BY DEF ForwardChunkPostGathered
  <2> HIDE DEF s, g
  <2>5. Leads(s \o <<g>>, TRUE, TRUE)
    BY <2>2, <2>3, LeadsOn, Zenon
  <2>6. Leads(s \o <<g>> \o Scattered(l, M), TRUE, TRUE)
    BY <2>2, <2>5, LeadsOn, Zenon
  <2>7. Leads(s \o <<g>> \o Scattered(l, M) \o Summed(M), TRUE, TRUE)
    BY <2>2, <2>6, LeadsOn, Zenon
  <2> QED
    BY <2>4, <2>7, Zenon
<1> QED
  BY <1>1, <1>2

LEMMA ChunkPasses ==
  ASSUME NEW e \in Environments, NEW M \in Nat, NEW p \in Int
  PROVE  Passes(ForwardChunk(e, M, p))
<1> DEFINE Post(l) == IF e.gathered THEN ForwardChunkPostGathered(l, M) ELSE ForwardChunkPost(l, M)
           Both(l) == <<Begin>> \o Post(l) \o ForwardChunkPre(l + 1, M, p)
                      \o TopKReadBack(l + 1, M)
           n == NLayer - 1
           ss == [i \in 1 .. n |-> Both(i - 1)]
           m == Do("embed", 0, M)
           first == RunChunkLayerPreTopk(0, M, p)
           k == Kernel("output_norm", 0, <<"hidden">>, "norm", 1)
           c == [k EXCEPT !.off = M - 1]
           d == Kernel("output", 0, <<"norm">>, "logits", 1)
           last == <<c, d, End, Do("sample", 0, 1)>>
<1>1. n \in Nat /\ n \in Int /\ 0 \in Int /\ 1 \in Int /\ M \in Int
  BY LayersNumber
<1>2. ASSUME NEW l \in Int PROVE Leads(Post(l), TRUE, TRUE)
  <2>1. Post(l) = ForwardChunkPostGathered(l, M) \/ Post(l) = ForwardChunkPost(l, M)
    OBVIOUS
  <2> HIDE DEF Post
  <2> QED
    BY <2>1, ChunkPostLeads, Zenon
<1>3. ForwardChunk(e, M, p) =
        <<m>> \o first \o FlattenSeq(ss) \o <<Begin>> \o Post(n) \o last
  BY DEF ForwardChunk, ByLayer
<1> HIDE DEF Post
<1>4. ASSUME NEW l \in Int PROVE Leads(Both(l), FALSE, FALSE)
  <2>1. l + 1 \in Int
    OBVIOUS
  <2>2. Leads(<<Begin>> \o Post(l), FALSE, TRUE)
    BY <1>2, BeginLeads, LeadsOn, Zenon
  <2>3. Leads(ForwardChunkPre(l + 1, M, p), TRUE, TRUE)
    <3>1. Dispatches(ForwardChunkPre(l + 1, M, p))
      BY <2>1, LayerPartsDispatch
    <3> QED
      BY <3>1, DispatchesLead, Zenon
  <2>4. Leads(<<Begin>> \o Post(l) \o ForwardChunkPre(l + 1, M, p), FALSE, TRUE)
    BY <2>2, <2>3, LeadsOn, Zenon
  <2>5. Leads(TopKReadBack(l + 1, M), TRUE, FALSE)
    BY <1>1, <2>1, TopKReadBackLeads
  <2> QED
    BY <2>4, <2>5, LeadsOn, Zenon
<1>5. Leads(first, FALSE, FALSE)
  <2>1. Dispatches(ForwardChunkPre(0, M, p))
    BY <1>1, LayerPartsDispatch
  <2> QED
    BY <1>1, <2>1, PreTopkLeads, Zenon DEF RunChunkLayerPreTopk
<1>6. Leads(FlattenSeq(ss), FALSE, FALSE)
  <2> HIDE DEF Both
  <2>1. \A i \in 1 .. n : ss[i] = Both(i - 1) /\ i - 1 \in Int
    BY <1>1
  <2>2. ss = [i \in 1 .. n |-> ss[i]]
    BY <2>1
  <2> HIDE DEF ss, n
  <2>3. \A i \in 1 .. n : Leads(ss[i], FALSE, FALSE)
    BY <1>4, <2>1, Zenon
  <2> QED
    BY <1>1, <2>2, <2>3, LeadsThrough, Zenon
<1>7. Leads(<<m>>, FALSE, FALSE)
  <2>1. "embed" \in Others
    BY DEF Others
  <2> QED
    BY <1>1, <2>1, OtherLeads, Zenon
<1>8. IsDispatch(c)
  <2>1. k \in Kernels
    <3>1. 0 .. 1 - 1 \in SUBSET Int
      OBVIOUS
    <3> QED
      BY <1>1, <3>1, Names, Operands DEF Kernel, Kernels
  <2> HIDE DEF k
  <2>2. c \in Kernels
    BY <1>1, <2>1 DEF Kernels
  <2> HIDE DEF c
  <2> QED
    BY <2>2 DEF Kernels, Commands, IsDispatch
<1>9. IsDispatch(d)
  BY <1>1, KernelIs, Names, Operands
<1> HIDE DEF m, first, ss, n, c, d
<1>10. Leads(<<m>> \o first, FALSE, FALSE)
  BY <1>5, <1>7, LeadsOn, Zenon
<1>11. Leads(<<m>> \o first \o FlattenSeq(ss), FALSE, FALSE)
  BY <1>6, <1>10, LeadsOn, Zenon
<1>12. Leads(<<m>> \o first \o FlattenSeq(ss) \o <<Begin>>, FALSE, TRUE)
  BY <1>11, BeginLeads, LeadsOn, Zenon
<1>13. Leads(<<m>> \o first \o FlattenSeq(ss) \o <<Begin>> \o Post(n), FALSE, TRUE)
  <2>1. Leads(Post(n), TRUE, TRUE)
    BY <1>1, <1>2, Zenon
  <2> QED
    BY <1>12, <2>1, LeadsOn, Zenon
<1> QED
  BY <1>3, <1>8, <1>9, <1>13, OutputPasses, Zenon

LEMMA ProgramsPass ==
  ASSUME NEW e \in Environments, NEW chunk \in BOOLEAN, NEW M \in 1 .. ChunkSize, NEW p \in Positions
  PROVE  Passes(Programs[e][chunk][M][p])
<1>1. M \in Nat /\ p \in Int
  BY LayersNumber DEF Positions
<1>2. Programs[e][chunk][M][p] = IF chunk THEN ForwardChunk(e, M, p) ELSE ForwardToken(e, p)
  BY DEF Programs
<1> QED
  BY <1>1, <1>2, ChunkPasses, TokenPasses

-----------------------------------------------------------------------------
(* The invariant. *)

(* What a generate has still to compute, and the pass that runs, fit.       *)
Typed ==
  /\ env \in Environments /\ chunked \in BOOLEAN /\ batch \in BOOLEAN
  /\ text \in Seq(Tokens) /\ wanted \in Seq(Tokens) /\ call \in Seq(Tokens)
PassFits == ~idle => Len(call) \in 1 .. ChunkSize /\ seqLen + Len(call) <= NCtx

(* A batch is open where the pass says so, and only an open one has kernels. *)
BatchFollows ==
  ~idle => /\ pc \in 1 .. Len(Program)
           /\ \E o : Opens(Program, o) /\ o[0] = FALSE /\ batch = o[pc - 1]
NothingLeft == ~batch => encoded = <<>>
ClosedWhenIdle == idle => ~batch

Inv == Typed /\ PassFits /\ BatchFollows /\ NothingLeft /\ ClosedWhenIdle

LEMMA PartIsTyped ==
  ASSUME NEW S, NEW s \in Seq(S), NEW m \in Nat \ {0}, NEW n \in Nat, n <= Len(s)
  PROVE  SubSeq(s, m, n) \in Seq(S) /\ (m = 1 => Len(SubSeq(s, m, n)) = n)
<1>1. CASE m <= n + 1
  <2>1. m \in 1 .. Len(s) + 1 /\ n \in m - 1 .. Len(s)
    BY <1>1
  <2> QED
    BY <2>1, SubSeqProperties
<1>2. CASE ~(m <= n + 1)
  <2>1. SubSeq(s, m, n) = <<>> /\ m # 1
    BY <1>2
  <2> QED
    BY <2>1
<1> QED
  BY <1>1, <1>2

(* The pass that runs is one of those above. *)
LEMMA ProgramPasses ==
  ASSUME Typed, PassFits, ~idle
  PROVE  /\ Passes(Program) /\ Len(Program) \in Nat
         /\ \A i \in 1 .. Len(Program) : Program[i] \in Commands
         /\ \E o : Opens(Program, o) /\ o[0] = FALSE
<1>1. env \in Environments /\ chunked \in BOOLEAN /\ Len(call) \in 1 .. ChunkSize
  BY DEF Typed, PassFits
<1>2. seqLen \in Positions
  <2>1. Len(text) \in Nat /\ Len(call) \in Nat /\ Len(call) > 0 /\ Len(text) + Len(call) <= NCtx
    BY LayersNumber DEF Typed, PassFits, seqLen
  <2> QED
    BY <2>1, LayersNumber DEF Positions, seqLen
<1>3. Passes(Program)
  BY <1>1, <1>2, ProgramsPass DEF Program
<1> HIDE DEF Program
<1>4. Leads(Program, FALSE, FALSE)
  BY <1>3 DEF Passes
<1>5. Program \in Seq(Commands) /\ \E o : Opens(Program, o) /\ o[0] = FALSE
  BY <1>4, Zenon DEF Leads
<1> QED
  BY <1>3, <1>5, ElementOfSeq, LenProperties

(* A batch is open before and after the next command as that command wants. *)
LEMMA NextCommand ==
  ASSUME Inv, ~idle
  PROVE  /\ pc \in 1 .. Len(Program) /\ command \in Commands
         /\ command.do # "sample" => pc + 1 \in 1 .. Len(Program)
         /\ \E o : /\ Opens(Program, o) /\ o[0] = FALSE
                   /\ batch = o[pc - 1] /\ Moves(batch, command, o[pc])
<1>1. pc \in 1 .. Len(Program)
  BY DEF Inv, BatchFollows
<1>2. PICK o : Opens(Program, o) /\ o[0] = FALSE /\ batch = o[pc - 1]
  BY DEF Inv, BatchFollows
<1>3. /\ Passes(Program) /\ Len(Program) \in Nat
      /\ \A i \in 1 .. Len(Program) : Program[i] \in Commands
  BY ProgramPasses DEF Inv
<1>4. command = Program[pc]
  BY DEF command
<1>5. Moves(batch, command, o[pc])
  BY <1>1, <1>2, <1>4, Zenon DEF Opens
<1>6. command.do # "sample" => pc # Len(Program)
  BY <1>3, <1>4, Zenon DEF Passes
<1>7. command.do # "sample" => pc + 1 \in 1 .. Len(Program)
  BY <1>1, <1>3, <1>6
<1> QED
  BY <1>1, <1>2, <1>3, <1>4, <1>5, <1>7, Zenon

(* The kernels that come next are followed by another command.              *)
AheadIsKernels ==
  /\ Ahead \in 0 .. Len(Program) - pc /\ Program[pc + Ahead].do # "dispatch"
  /\ \A i \in 0 .. Ahead - 1 : Program[pc + i].do = "dispatch"

LEMMA AheadDispatches ==
  ASSUME Inv, Running("dispatch")
  PROVE  AheadIsKernels
<1> DEFINE L == Len(Program)
           S == {k \in 0 .. L - pc : Program[pc + k].do # "dispatch"}
           Is(k) == /\ Program[pc + k].do # "dispatch"
                    /\ \A i \in 0 .. k - 1 : Program[pc + i].do = "dispatch"
<1>1. /\ ~idle /\ command.do = "dispatch"
  BY DEF Running
<1>2. /\ pc \in 1 .. L /\ Passes(Program) /\ L \in Nat
  BY <1>1, NextCommand, ProgramPasses DEF Inv
<1>4. \E k \in 0 .. L - pc : Is(k)
  <2>1. L - pc \in S
    <3>1. Program[L].do = "sample" /\ pc + (L - pc) = L /\ L - pc \in 0 .. L - pc
      BY <1>2 DEF Passes
    <3> QED
      BY <3>1
  <2>2. S \in SUBSET Nat
    OBVIOUS
  <2>3. PICK k \in S : \A j \in S : k <= j
    <3> HIDE DEF S
    <3> QED
      BY <2>1, <2>2, HasLeast
  <2>4. k \in 0 .. L - pc /\ Program[pc + k].do # "dispatch"
    OBVIOUS
  <2>5. ASSUME NEW i \in 0 .. k - 1 PROVE Program[pc + i].do = "dispatch"
    <3>1. i \in 0 .. L - pc /\ ~(k <= i)
      BY <1>2, <2>4
    <3>2. i \notin S
      <4> HIDE DEF S
      <4> QED
        BY <2>3, <3>1
    <3> QED
      BY <3>1, <3>2
  <2> QED
    BY <2>4, <2>5
<1>5. Ahead \in 0 .. L - pc /\ Is(Ahead)
  <2>1. Ahead = CHOOSE k \in 0 .. L - pc : Is(k)
    BY DEF Ahead
  <2> HIDE DEF Is
  <2> QED
    BY <1>4, <2>1
<1> QED
  BY <1>5 DEF AheadIsKernels

(* A batch stays as it is until that other command.                         *)
LEMMA AheadIs ==
  ASSUME Inv, Running("dispatch")
  PROVE  /\ pc \in Int /\ Ahead \in Int /\ pc + Ahead \in 1 .. Len(Program)
         /\ \E o : Opens(Program, o) /\ o[0] = FALSE /\ batch = o[pc + Ahead - 1]
<1> DEFINE L == Len(Program)
           Is(k) == /\ Program[pc + k].do # "dispatch"
                    /\ \A i \in 0 .. k - 1 : Program[pc + i].do = "dispatch"
<1>1. /\ ~idle /\ command.do = "dispatch"
  BY DEF Running
<1>2. /\ pc \in 1 .. L /\ Passes(Program) /\ L \in Nat
  BY <1>1, NextCommand, ProgramPasses DEF Inv
<1>3. PICK o : Opens(Program, o) /\ o[0] = FALSE /\ batch = o[pc - 1]
  BY <1>1, NextCommand, Zenon
<1>5. Ahead \in 0 .. L - pc /\ Is(Ahead)
  BY AheadDispatches DEF AheadIsKernels
<1>6. ASSUME NEW k \in 0 .. Ahead PROVE o[pc + k - 1] = batch
  <2> DEFINE Bad == {j \in 0 .. Ahead : o[pc + j - 1] # batch}
  <2>1. Bad = {}
    <3> SUFFICES ASSUME Bad # {} PROVE FALSE
      OBVIOUS
    <3>1. PICK j \in Bad : \A i \in Bad : j <= i
      <4>1. Bad \in SUBSET Nat
        <5>1. Bad \subseteq 0 .. Ahead
          BY Zenon
        <5> HIDE DEF Bad
        <5> QED
          BY <5>1
      <4> HIDE DEF Bad
      <4> QED
        BY <4>1, HasLeast
    <3>2. j \in 0 .. Ahead /\ o[pc + j - 1] # batch
      BY Zenon
    <3>3. j # 0
      <4> SUFFICES ASSUME j = 0 PROVE FALSE
        OBVIOUS
      <4>1. pc + j - 1 = pc - 1
        BY <1>2
      <4> QED
        BY <1>3, <3>2, <4>1, Zenon
    <3> DEFINE i == j - 1
               q == pc + i
    <3>4. /\ i \in 0 .. Ahead /\ i \in 0 .. Ahead - 1 /\ ~(j <= i) /\ q \in 1 .. L
          /\ q = pc + j - 1 /\ q - 1 = pc + i - 1
      BY <1>2, <1>5, <3>2, <3>3
    <3>5. o[pc + i - 1] = batch
      <4>1. i \notin Bad
        <5> HIDE DEF Bad, i
        <5> QED
          BY <3>1, <3>4
      <4> HIDE DEF i
      <4> QED
        BY <3>4, <4>1, Zenon
    <3>6. Program[q].do = "dispatch"
      BY <1>5, <3>4
    <3>7. Moves(o[q - 1], Program[q], o[q])
      <4> HIDE DEF q
      <4> QED
        BY <1>3, <3>4, Zenon DEF Opens
    <3> HIDE DEF i, q
    <3>8. o[q - 1] = o[q]
      <4>1. /\ Program[q].do # "begin" /\ Program[q].do # "end" /\ Program[q].do \notin Waits
        BY <3>6 DEF Waits
      <4> QED
        BY <3>7, <4>1, Zenon DEF Moves
    <3> QED
      BY <3>2, <3>4, <3>5, <3>8, Zenon
  <2> QED
    BY <2>1, Zenon
<1> HIDE DEF Is
<1>7. pc + Ahead \in 1 .. L /\ Ahead \in 0 .. Ahead
  BY <1>2, <1>5
<1>8. pc \in Int /\ Ahead \in Int
  BY <1>2, <1>5
<1>9. o[pc + Ahead - 1] = batch
  BY <1>6, <1>7, Zenon
<1> QED
  BY <1>3, <1>7, <1>8, <1>9, Zenon

-----------------------------------------------------------------------------
(* Every step keeps the invariant. *)

(* A pass that goes on is the same pass. *)
LEMMA SamePass ==
  ASSUME Inv, ~idle, UNCHANGED <<env, call, chunked, text>>
  PROVE  /\ Program' = Program /\ ~idle' /\ PassFits'
BY DEF Inv, PassFits, Program, idle, seqLen

(* It is at another command, and its batch is as that one wants.             *)
LEMMA PassGoesOn ==
  ASSUME Program' = Program, NEW i \in Int, pc' = i + 1, pc' \in 1 .. Len(Program),
         NEW o, Opens(Program, o), o[0] = FALSE, batch' = o[i]
  PROVE  BatchFollows'
<1>1. Opens(Program', o) /\ pc' \in 1 .. Len(Program')
  <2> HIDE DEF Program
  <2> QED
    OBVIOUS
<1>2. pc' - 1 = i
  OBVIOUS
<1>3. batch' = o[pc' - 1]
  BY <1>2, Zenon
<1>4. \E q : Opens(Program', q) /\ q[0] = FALSE /\ batch' = q[pc' - 1]
  BY <1>1, <1>3, Zenon
<1> QED
  BY <1>1, <1>4, Zenon DEF BatchFollows

(* A command of the host that is no kernel, and not the last one, is done.  *)
LEMMA HostStep ==
  ASSUME Inv, ~idle, UNCHANGED <<env, call, chunked, text, wanted>>, pc' = pc + 1,
         command.do # "sample", batch' \in BOOLEAN, ~batch' => encoded' = <<>>,
         \A o2 \in BOOLEAN : Moves(batch, command, o2) => batch' = o2
  PROVE  Inv'
<1>1. Program' = Program /\ ~idle' /\ PassFits'
  BY SamePass
<1>2. Typed'
  BY DEF Inv, Typed
<1>3. BatchFollows'
  <2>1. PICK o : Opens(Program, o) /\ o[0] = FALSE /\ Moves(batch, command, o[pc])
    BY NextCommand, Zenon
  <2>2. pc \in 1 .. Len(Program) /\ pc + 1 \in 1 .. Len(Program) /\ pc \in 0 .. Len(Program)
        /\ pc + 1 - 1 = pc
    BY NextCommand
  <2>3. o[pc] \in BOOLEAN
    BY <2>1, <2>2, Zenon DEF Opens
  <2>4. batch' = o[pc]
    BY <2>1, <2>3, Zenon
  <2> QED
    <3>1. pc' \in 1 .. Len(Program) /\ pc \in Int
      BY <2>2
    <3> QED
      BY <1>1, <2>1, <2>4, <3>1, PassGoesOn, Zenon
<1>4. NothingLeft' /\ ClosedWhenIdle'
  BY <1>1 DEF NothingLeft, ClosedWhenIdle
<1> QED
  BY <1>1, <1>2, <1>3, <1>4 DEF Inv

(* A forward pass is called. *)
LEMMA ForwardStep ==
  ASSUME Inv, NEW toks \in Seq(Tokens), NEW asChunk \in BOOLEAN, Len(toks) \in 1 .. ChunkSize,
         Forward(toks, asChunk)
  PROVE  Inv'
<1>1. /\ call' = toks /\ chunked' = asChunk /\ pc' = 1 /\ seqLen + Len(toks) <= NCtx /\ idle
      /\ UNCHANGED <<env, text, wanted, batch, encoded>>
  BY DEF Forward
<1>2. Typed' /\ PassFits' /\ ~idle'
  <2>1. toks # <<>>
    OBVIOUS
  <2> QED
    BY <1>1, <2>1 DEF Inv, Typed, PassFits, idle, seqLen
<1>3. Program' = Programs[env][asChunk][Len(toks)][seqLen]
  BY <1>1 DEF Program, seqLen
<1>4. Passes(Program')
  <2>1. seqLen \in Positions
    <3>1. Len(text) \in Nat /\ Len(toks) \in Nat /\ Len(toks) > 0 /\ Len(text) + Len(toks) <= NCtx
      BY <1>1, LayersNumber DEF Inv, Typed, seqLen
    <3> QED
      BY <3>1, LayersNumber DEF Positions, seqLen
  <2>2. env \in Environments
    BY DEF Inv, Typed
  <2> QED
    BY <1>3, <2>1, <2>2, ProgramsPass
<1>5. BatchFollows'
  <2>1. PICK o : Opens(Program', o) /\ o[0] = FALSE /\ Program' \in Seq(Commands)
    BY <1>4, Zenon DEF Passes, Leads
  <2>2. 1 \in 1 .. Len(Program') /\ 1 - 1 = 0
    <3>1. Len(Program') > 0
      BY <1>4 DEF Passes
    <3>2. Len(Program') \in Nat
      BY <2>1, LenProperties
    <3> QED
      BY <3>1, <3>2
  <2>3. batch' = FALSE
    BY <1>1 DEF Inv, Typed, ClosedWhenIdle
  <2> QED
    BY <1>1, <2>1, <2>2, <2>3, Zenon DEF BatchFollows
<1>6. NothingLeft' /\ ClosedWhenIdle'
  BY <1>1, <1>2 DEF Inv, NothingLeft, ClosedWhenIdle
<1> QED
  BY <1>2, <1>5, <1>6 DEF Inv

LEMMA InitHolds == Init => Inv
<1> SUFFICES ASSUME Init PROVE Inv
  OBVIOUS
<1>1. <<>> \in Seq(Tokens)
  OBVIOUS
<1> QED
  BY <1>1 DEF Init, Inv, Typed, PassFits, BatchFollows, NothingLeft, ClosedWhenIdle, idle

LEMMA StepHolds ==
  ASSUME Inv, [Next]_vars
  PROVE  Inv'
<1>1. ASSUME NEW prompt \in Prompts, NEW cached \in 0 .. Len(prompt), StartPrompt(prompt, cached)
      PROVE  Inv'
  <2>1. prompt \in Seq(Tokens) /\ prompt # <<>>
    BY DeviceAssumption
  <2> DEFINE n == IF cached = Len(prompt) THEN cached - 1 ELSE cached
  <2>2. n \in Nat /\ n + 1 \in Nat \ {0} /\ n <= Len(prompt) /\ Len(prompt) \in Nat
    <3>1. Len(prompt) \in Nat /\ Len(prompt) > 0
      BY <2>1
    <3> QED
      BY <3>1
  <2>3. /\ text' = SubSeq(prompt, 1, n) /\ wanted' = SubSeq(prompt, n + 1, Len(prompt))
        /\ idle /\ UNCHANGED <<env, batch, encoded, call, chunked, pc>>
    BY <1>1 DEF StartPrompt
  <2> HIDE DEF n
  <2>4. text' \in Seq(Tokens) /\ wanted' \in Seq(Tokens)
    <3>1. 1 \in Nat \ {0}
      OBVIOUS
    <3> QED
      BY <2>1, <2>2, <2>3, <3>1, PartIsTyped
  <2>5. idle'
    BY <2>3 DEF idle
  <2> QED
    BY <2>3, <2>4, <2>5 DEF Inv, Typed, PassFits, BatchFollows, NothingLeft, ClosedWhenIdle
<1>2. ASSUME Prefill PROVE Inv'
  <2>1. PICK m \in 1 .. Len(wanted) :
          \/ m = 1 /\ Forward(SubSeq(wanted, 1, m), FALSE)
          \/ m <= ChunkSize /\ Forward(SubSeq(wanted, 1, m), TRUE)
    BY <1>2 DEF Prefill
  <2> DEFINE toks == SubSeq(wanted, 1, m)
  <2>2. toks \in Seq(Tokens) /\ Len(toks) = m
    <3>1. wanted \in Seq(Tokens) /\ m \in Nat /\ m <= Len(wanted) /\ 1 \in Nat \ {0}
      BY DEF Inv, Typed
    <3> QED
      BY <3>1, PartIsTyped
  <2>3. Len(toks) \in 1 .. ChunkSize
    <3>1. m = 1 \/ m <= ChunkSize
      BY <2>1
    <3>2. ChunkSize \in Nat \ {0}
      BY DeviceAssumption
    <3>3. m \in 1 .. ChunkSize
      BY <3>1, <3>2
    <3> QED
      BY <2>2, <3>3
  <2> HIDE DEF toks
  <2> QED
    BY <2>1, <2>2, <2>3, ForwardStep, Zenon DEF toks
<1>3. ASSUME Decode PROVE Inv'
  <2>1. PICK k \in Generated : Forward(<<k>>, FALSE)
    BY <1>3 DEF Decode
  <2>2. <<k>> \in Seq(Tokens) /\ Len(<<k>>) \in 1 .. ChunkSize
    BY DeviceAssumption
  <2> QED
    BY <2>1, <2>2, ForwardStep
<1>4. ASSUME Embed PROVE Inv'
  <2>1. /\ ~idle /\ command.do = "embed" /\ pc' = pc + 1
        /\ UNCHANGED <<env, call, chunked, text, wanted, batch, encoded>>
    BY <1>4 DEF Embed, Running
  <2>2. \A o2 \in BOOLEAN : Moves(batch, command, o2) => batch' = o2
    BY <2>1 DEF Moves, Waits, Inv, Typed
  <2>3. command.do # "sample" /\ batch' \in BOOLEAN /\ (~batch' => encoded' = <<>>)
    BY <2>1 DEF Inv, Typed, NothingLeft
  <2> QED
    BY <2>1, <2>2, <2>3, HostStep
<1>5. ASSUME BeginBatch PROVE Inv'
  <2>1. /\ ~idle /\ command.do = "begin" /\ pc' = pc + 1 /\ batch' = TRUE
        /\ UNCHANGED <<env, call, chunked, text, wanted>>
    BY <1>5 DEF BeginBatch, Running
  <2>2. \A o2 \in BOOLEAN : Moves(batch, command, o2) => batch' = o2
    BY <2>1 DEF Moves, Waits, Others
  <2>3. command.do # "sample"
    BY <2>1
  <2> QED
    BY <2>1, <2>2, <2>3, HostStep
<1>6. ASSUME Dispatch PROVE Inv'
  <2>1. /\ Running("dispatch") /\ ~idle /\ pc' = pc + Ahead /\ encoded' = Dispatched(Ahead).encoded
        /\ UNCHANGED <<env, call, chunked, text, wanted, batch>>
    BY <1>6 DEF Dispatch, Running
  <2>2. Program' = Program /\ ~idle' /\ PassFits'
    BY <2>1, SamePass
  <2>3. Typed'
    BY <2>1 DEF Inv, Typed
  <2>4. BatchFollows'
    <3>1. pc \in Int /\ Ahead \in Int /\ pc + Ahead \in 1 .. Len(Program)
      BY <2>1, AheadIs
    <3>2. PICK o : Opens(Program, o) /\ o[0] = FALSE /\ batch = o[pc + Ahead - 1]
      BY <2>1, AheadIs
    <3> DEFINE i == pc + Ahead - 1
    <3>3. pc' = pc + Ahead
      BY <2>1
    <3>4. pc' \in 1 .. Len(Program) /\ i \in Int /\ pc' = i + 1
      BY <3>1, <3>3
    <3>5. batch' = o[i]
      BY <2>1, <3>2, Zenon
    <3> HIDE DEF i
    <3> QED
      BY <2>2, <3>2, <3>4, <3>5, PassGoesOn, Zenon
  <2>5. NothingLeft'
    <3>1. ~batch => Dispatched(Ahead).encoded = encoded
      BY DEF Dispatched
    <3> QED
      BY <2>1, <3>1 DEF Inv, NothingLeft
  <2> QED
    BY <2>2, <2>3, <2>4, <2>5 DEF Inv, ClosedWhenIdle
<1>7. ASSUME Ends PROVE Inv'
  <2>1. /\ ~idle /\ command.do = "end" /\ pc' = pc + 1 /\ batch' = FALSE /\ encoded' = <<>>
        /\ UNCHANGED <<env, call, chunked, text, wanted>>
    BY <1>7 DEF Ends, Running, EndBatch
  <2>2. \A o2 \in BOOLEAN : Moves(batch, command, o2) => batch' = o2
    BY <2>1 DEF Moves, Waits, Others
  <2>3. command.do # "sample"
    BY <2>1
  <2> QED
    BY <2>1, <2>2, <2>3, HostStep
<1>8. ASSUME ReadChoice PROVE Inv'
  <2>1. /\ ~idle /\ command.do \in {"read", "choose"} /\ pc' = pc + 1
        /\ UNCHANGED <<env, call, chunked, text, wanted, batch, encoded>>
    BY <1>8 DEF ReadChoice
  <2>2. \A o2 \in BOOLEAN : Moves(batch, command, o2) => batch' = o2
    BY <2>1 DEF Moves, Waits, Others, Inv, Typed
  <2>3. command.do # "sample" /\ batch' \in BOOLEAN /\ (~batch' => encoded' = <<>>)
    BY <2>1 DEF Inv, Typed, NothingLeft
  <2> QED
    BY <2>1, <2>2, <2>3, HostStep
<1>9. ASSUME Gather PROVE Inv'
  <2>1. /\ ~idle /\ command.do = "gather" /\ pc' = pc + 1
        /\ UNCHANGED <<env, call, chunked, text, wanted, batch, encoded>>
    BY <1>9 DEF Gather, Running
  <2>2. \A o2 \in BOOLEAN : Moves(batch, command, o2) => batch' = o2
    BY <2>1 DEF Moves, Waits, Inv, Typed
  <2>3. command.do # "sample" /\ batch' \in BOOLEAN /\ (~batch' => encoded' = <<>>)
    BY <2>1 DEF Inv, Typed, NothingLeft
  <2> QED
    BY <2>1, <2>2, <2>3, HostStep
<1>10. ASSUME Sample PROVE Inv'
  <2>1. /\ ~idle /\ command.do = "sample" /\ text' = text \o call /\ call' = <<>>
        /\ wanted' = SubSeq(wanted, Len(call) + 1, Len(wanted))
        /\ UNCHANGED <<env, batch, encoded, chunked>>
    BY <1>10 DEF Sample, Running
  <2>2. ~batch
    <3>1. PICK o : Moves(batch, command, o[pc])
      BY <2>1, NextCommand, Zenon
    <3> QED
      BY <2>1, <3>1 DEF Moves, Others
  <2>3. Typed'
    <3>1. text \in Seq(Tokens) /\ call \in Seq(Tokens) /\ wanted \in Seq(Tokens)
      BY DEF Inv, Typed
    <3>2. Len(call) + 1 \in Nat \ {0} /\ Len(wanted) \in Nat /\ Len(wanted) <= Len(wanted)
      BY <3>1
    <3>3. wanted' \in Seq(Tokens) /\ text' \in Seq(Tokens) /\ call' \in Seq(Tokens)
      BY <2>1, <3>1, <3>2, PartIsTyped
    <3> QED
      BY <2>1, <3>3 DEF Inv, Typed
  <2>4. idle'
    BY <2>1 DEF idle
  <2> QED
    BY <2>1, <2>2, <2>3, <2>4 DEF Inv, PassFits, BatchFollows, NothingLeft, ClosedWhenIdle
<1>11. ASSUME Fails PROVE Inv'
  <2>1. /\ call' = <<>> /\ batch' = FALSE /\ encoded' = <<>>
        /\ UNCHANGED <<env, text, chunked, wanted>>
    BY <1>11 DEF Fails, EndBatch
  <2>2. idle'
    BY <2>1 DEF idle
  <2>3. Typed'
    <3>1. <<>> \in Seq(Tokens)
      OBVIOUS
    <3> QED
      BY <2>1, <3>1 DEF Inv, Typed
  <2> QED
    BY <2>1, <2>2, <2>3 DEF Inv, PassFits, BatchFollows, NothingLeft, ClosedWhenIdle
<1>12. CASE UNCHANGED vars
  BY <1>12 DEF vars, Inv, Typed, PassFits, BatchFollows, NothingLeft, ClosedWhenIdle, idle, Program, seqLen
<1> QED
  BY <1>1, <1>2, <1>3, <1>4, <1>5, <1>6, <1>7, <1>8, <1>9, <1>10, <1>11, <1>12 DEF Next

(* Typed, PassFits, BatchFollows, NothingLeft and ClosedWhenIdle always hold. *)
THEOREM Invariant == Spec => []Inv
<1>1. Init => Inv
  BY InitHolds
<1>2. Inv /\ [Next]_vars => Inv'
  BY StepHolds
<1> QED
  BY <1>1, <1>2, PTL DEF Spec

(* A forward pass that ended, also one that failed anywhere, leaves no batch *)
(* open and no kernel to run later.                                         *)
THEOREM BatchesAreClosed == Spec => []BatchIsClosed
<1>1. Inv => BatchIsClosed
  BY DEF Inv, NothingLeft, ClosedWhenIdle, BatchIsClosed
<1> QED
  BY <1>1, Invariant, PTL

(* The invariant implies HostWaitsForBatch. *)
LEMMA HostWaits ==
  ASSUME Inv
  PROVE  HostWaitsForBatch
<1> SUFFICES ASSUME ~idle, command.do \in {"begin", "read", "choose", "sample"}
             PROVE  ~batch /\ encoded = <<>>
  BY DEF HostWaitsForBatch
<1>1. PICK o : Moves(batch, command, o[pc])
  BY NextCommand, Zenon
<1>2. ~batch
  BY <1>1 DEF Moves, Others
<1> QED
  BY <1>2 DEF Inv, NothingLeft

(* Under each schedule the host begins a batch and reads what kernels wrote *)
(* only when all of them have run; begin_batch is never refused.            *)
THEOREM HostAlwaysWaits == Spec => []HostWaitsForBatch
<1>1. Inv => HostWaitsForBatch
  BY HostWaits
<1> QED
  BY <1>1, Invariant, PTL
=============================================================================
