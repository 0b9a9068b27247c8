----------------------- MODULE EngineGenerateProofs -----------------------
(***************************************************************************)
(* EngineGenerate for any vocabulary, context, chunk size, number of       *)
(* planes, slots and sessions: Inv is inductive.                           *)
(***************************************************************************)
EXTENDS EngineGenerate, SequenceTheorems, WellFoundedInduction, TLAPS

(* A non-empty set of naturals has a least element. *)
LEMMA HasLeast ==
  ASSUME NEW S \in SUBSET Nat, S # {}
  PROVE  \E k \in S : \A j \in S : k <= j
<1> DEFINE R == {ss \in Nat \X Nat : ss[1] < ss[2]}
<1>1. IsWellFoundedOn(R, Nat)
  BY NatLessThanWellFounded DEF OpToRel
<1>2. \A x, y \in Nat : x < y => <<x, y>> \in R
  OBVIOUS
<1> HIDE DEF R
<1>3. PICK x \in S : \A y \in S : ~(<<y, x>> \in R)
  BY <1>1, WFMin
<1>4. \A y \in S : ~ (y < x)
  BY <1>2, <1>3
<1> QED
  BY <1>4

(* A bounded one also has a greatest. *)
LEMMA HasGreatest ==
  ASSUME NEW b \in Nat, NEW S \in SUBSET (0..b), S # {}
  PROVE  \E n \in S : \A m \in S : m <= n
<1> DEFINE T == {d \in 0..b : b - d \in S}
<1>1. T \in SUBSET Nat
  OBVIOUS
<1>2. T # {}
  <2>1. PICK s \in S : TRUE
    OBVIOUS
  <2>2. b - s \in T
    BY b - (b - s) = s
  <2> QED
    BY <2>2
<1> HIDE DEF T
<1>3. PICK k \in T : \A j \in T : k <= j
  BY <1>1, <1>2, HasLeast
<1>4. b - k \in S /\ k \in 0..b
  BY DEF T
<1>5. \A m \in S : b - m \in T
  BY \A m \in S : b - (b - m) = m DEF T
<1>6. \A m \in S : m <= b - k
  BY <1>3, <1>4, <1>5
<1> QED
  BY <1>4, <1>6

(* First: the least index of a set, 0 if there is none. *)
LEMMA FirstIsIn ==
  ASSUME NEW S \in SUBSET (1..NSlots)
  PROVE  IF S = {} THEN First(S) = 0 ELSE First(S) \in S
<1> USE SizesAssumption
<1>1. CASE S = {}
  BY <1>1 DEF First
<1>2. CASE S # {}
  <2>1. \E k \in S : \A j \in S : k <= j
    BY <1>2, HasLeast
  <2> QED
    BY <1>2, <2>1 DEF First
<1> QED
  BY <1>1, <1>2

LEMMA FindSlotFinds ==
  ASSUME NEW name
  PROVE  /\ FindSlot(name) \in 0..NSlots
         /\ FindSlot(name) # 0 => slots[FindSlot(name)].id = name
         /\ FreeSlot \in 0..NSlots
<1> USE SizesAssumption
<1> DEFINE S == {k \in 1..NSlots : slots[k].valid /\ slots[k].id = name}
           F == {k \in 1..NSlots : ~slots[k].valid}
<1>1. IF S = {} THEN First(S) = 0 ELSE First(S) \in S
  BY FirstIsIn
<1>2. IF F = {} THEN First(F) = 0 ELSE First(F) \in F
  BY FirstIsIn
<1> QED
  BY <1>1, <1>2 DEF FindSlot, FreeSlot

(* What lookup reports is a common prefix of the prompt and the tokens of   *)
(* the slot it found.                                                      *)
LEMMA LookupIsSound ==
  ASSUME TypeOK, NEW name, NEW toks \in Seq(Tokens),
         NEW k, k = FindSlot(name), NEW c, c = CachedPrefix(name, toks)
  PROVE  /\ c \in 0..Len(toks)
         /\ c > 0 => k \in 1..NSlots /\ \A i \in 1..c : slots[k].tokens[i] = toks[i]
<1> USE SizesAssumption
<1>1. k \in 0..NSlots
  BY FindSlotFinds
<1>2. CASE k = 0
  BY <1>2 DEF CachedPrefix
<1>3. CASE k # 0
  <2> DEFINE s == slots[k].tokens
             M == Matches(s, toks)
  <2>1. s \in Seq(Tokens)
    BY <1>1, <1>3 DEF TypeOK, Slot
  <2>2. Len(s) \in Nat /\ Len(toks) \in Nat
    BY <2>1
  <2>3. 0 \in M /\ M \subseteq 0..Len(s)
    BY <2>2 DEF Matches
  <2>4. \E n \in M : \A m \in M : m <= n
    BY <2>2, <2>3, HasGreatest
  <2>5. c = CHOOSE n \in M : \A m \in M : m <= n
    BY <1>3 DEF CachedPrefix
  <2>6. c \in M
    BY <2>4, <2>5
  <2> QED
    BY <1>1, <1>3, <2>2, <2>6 DEF Matches
<1> QED
  BY <1>2, <1>3

(* Division with a remainder, as the buffer layout uses it. *)
LEMMA DivMod ==
  ASSUME NEW n \in Nat \ {0}, NEW q \in Nat, NEW r \in 0..(n - 1)
  PROVE  (q * n + r) \div n = q /\ (q * n + r) % n = r
  OBVIOUS

(* The place of a unit in a buffer, and back. *)
LEMMA Layout ==
  ASSUME NEW n \in Nat \ {0}
  PROVE  /\ n * NPlanes \in Nat
         /\ \A l \in Planes : \A i \in 1..n : 
              /\ At(n, l, i) \in 1..(n * NPlanes)
              /\ ((At(n, l, i) - 1) \div n) + 1 = l
              /\ ((At(n, l, i) - 1) % n) + 1 = i
         /\ \A u \in 1..(n * NPlanes) :
              ((u - 1) \div n) + 1 \in Planes /\ ((u - 1) % n) + 1 \in 1..n
<1> USE SizesAssumption DEF Planes
<1>1. n * NPlanes \in Nat
  OBVIOUS
<1>2. ASSUME NEW l \in Planes, NEW i \in 1..n
      PROVE  /\ At(n, l, i) \in 1..(n * NPlanes)
             /\ ((At(n, l, i) - 1) \div n) + 1 = l
             /\ ((At(n, l, i) - 1) % n) + 1 = i
  <2>1. At(n, l, i) - 1 = (l - 1) * n + (i - 1)
    BY DEF At
  <2>2. ((l - 1) * n + (i - 1)) \div n = l - 1 /\ ((l - 1) * n + (i - 1)) % n = i - 1
    <3> DEFINE q == l - 1
               r == i - 1
    <3>1. q \in Nat /\ r \in 0..(n - 1)
      OBVIOUS
    <3> HIDE DEF q, r
    <3>2. (q * n + r) \div n = q /\ (q * n + r) % n = r
      BY <3>1, DivMod
    <3> QED
      BY <3>2 DEF q, r
  <2>3. (l - 1) * n + n <= n * NPlanes /\ (l - 1) * n \in Nat
    <3> DEFINE d == NPlanes - l
    <3>1. d \in Nat /\ NPlanes = (l - 1) + 1 + d /\ l - 1 \in Nat
      OBVIOUS
    <3> HIDE DEF d
    <3>2. n * ((l - 1) + 1 + d) = (l - 1) * n + n + d * n
      BY <3>1
    <3>3. d * n \in Nat /\ (l - 1) * n \in Nat
      BY <3>1
    <3> QED
      BY <3>1, <3>2, <3>3
  <2>4. At(n, l, i) = (l - 1) * n + i
    BY DEF At
  <2>5. At(n, l, i) \in 1..(n * NPlanes)
    BY <2>3, <2>4
  <2> HIDE DEF Planes
  <2>6. l - 1 + 1 = l /\ i - 1 + 1 = i
    BY DEF Planes
  <2> QED
    BY <2>1, <2>2, <2>5, <2>6
<1>3. ASSUME NEW u \in 1..(n * NPlanes)
      PROVE  ((u - 1) \div n) + 1 \in Planes /\ ((u - 1) % n) + 1 \in 1..n
  OBVIOUS
<1> QED
  BY <1>1, <1>2, <1>3

(* Prefixes of a sequence, and a prefix continued by the next piece. *)
LEMMA PrefixOfPrefix ==
  ASSUME NEW t \in Seq(Tokens), NEW n \in 0..Len(t)
  PROVE  /\ SubSeq(t, 1, n) \in Seq(Tokens) /\ Len(SubSeq(t, 1, n)) = n
         /\ \A i \in 1..n : SubSeq(SubSeq(t, 1, n), 1, i) = SubSeq(t, 1, i)
<1>1. Len(t) \in Nat /\ \A i \in 1..n : t[i] \in Tokens
  OBVIOUS
<1>2. SubSeq(t, 1, n) \in Seq(Tokens) /\ Len(SubSeq(t, 1, n)) = n
  BY <1>1, SubSeqProperties
<1>3. ASSUME NEW i \in 1..n
      PROVE  SubSeq(SubSeq(t, 1, n), 1, i) = SubSeq(t, 1, i)
  <2>1. /\ 1 \in 1..Len(t) /\ n \in 1..Len(t)
        /\ 1 \in 1..(n - 1 + 1) /\ i \in 1..(n - 1 + 1)
    BY <1>1
  <2>2. SubSeq(SubSeq(t, 1, n), 1, i) = SubSeq(t, 1 + 1 - 1, 1 + i - 1)
    BY <2>1, SubSeqOfSubSeq
  <2>3. 1 + 1 - 1 = 1 /\ 1 + i - 1 = i
    OBVIOUS
  <2> QED
    BY <2>2, <2>3
<1> QED
  BY <1>2, <1>3

LEMMA PrefixGoesOn ==
  ASSUME NEW t \in Seq(Tokens), NEW n \in Nat, NEW m \in Nat, n + m <= Len(t),
         NEW i \in 1..m
  PROVE  SubSeq(t, 1, n) \o SubSeq(SubSeq(t, n + 1, n + m), 1, i) = SubSeq(t, 1, n + i)
<1>1. Len(t) \in Nat
  OBVIOUS
<1>2. /\ n + 1 \in 1..Len(t) /\ n + m \in 1..Len(t)
      /\ 1 \in 1..((n + m) - (n + 1) + 1) /\ i \in 1..((n + m) - (n + 1) + 1)
  BY <1>1
<1>3. SubSeq(SubSeq(t, n + 1, n + m), 1, i) = SubSeq(t, (n + 1) + 1 - 1, (n + 1) + i - 1)
  BY <1>2, SubSeqOfSubSeq
<1>4. (n + 1) + 1 - 1 = n + 1 /\ (n + 1) + i - 1 = n + i
  OBVIOUS
<1>5. 1 \in 1..(Len(t) + 1) /\ n \in (1 - 1)..Len(t) /\ n + i \in n..Len(t)
  BY <1>1
<1>6. SubSeq(t, 1, n) \o SubSeq(t, n + 1, n + i) = SubSeq(t, 1, n + i)
  BY <1>5, ConcatAdjacentSubSeq
<1> QED
  BY <1>3, <1>4, <1>6

(* A forward pass writes units, behind what was there, and the right ones   *)
(* if all of it was right.                                                 *)
LEMMA ForwardWritesUnits ==
  ASSUME TypeOK, NEW n \in 0..NCtx, NEW toks \in Seq(Tokens), NEW done,
         Forward(n, toks, done)
  PROVE  gpu' \in [Planes -> [1..NCtx -> Units]]
<1> USE SizesAssumption, CtxAssumption
<1>1. Len(toks) \in Nat /\ gpu \in [Planes -> [1..NCtx -> Units]] /\ 1 \in Planes
  BY DEF TypeOK, Planes
<1>2. ASSUME NEW l \in Planes, NEW j \in (n + 1)..(n + Len(toks))
      PROVE  Computed(n, toks, l, j - n) \in Units
  <2> DEFINE context == IF n = 0 THEN <<>> ELSE gpu[1][n].prefix
             rest == SubSeq(toks, 1, j - n)
  <2>1. context \in Seq(Tokens)
    <3>1. CASE n = 0
      BY <3>1
    <3>2. CASE n # 0
      <4>1. n \in 1..NCtx
        BY <3>2
      <4>2. gpu[1][n] \in Units
        BY <1>1, <4>1
      <4>3. \A u \in Units : u.prefix \in Seq(Tokens)
        <5>1. \A u \in [plane : Planes, prefix : Seq(Tokens)] : u.prefix \in Seq(Tokens)
          OBVIOUS
        <5>2. Junk.prefix = <<>> /\ <<>> \in Seq(Tokens)
          BY DEF Junk
        <5> QED
          BY <5>1, <5>2 DEF Units
      <4> QED
        BY <3>2, <4>2, <4>3
    <3> QED
      BY <3>1, <3>2
  <2>2. j - n \in 0..Len(toks)
    BY <1>1
  <2>3. rest \in Seq(Tokens)
    BY <2>2, PrefixOfPrefix
  <2>4. context \o rest \in Seq(Tokens)
    BY <2>1, <2>3, ConcatProperties
  <2> HIDE DEF context, rest
  <2>5. Unit(l, context \o rest) \in Units /\ Junk \in Units
    BY <2>4 DEF Unit, Units
  <2> QED
    BY <2>5 DEF Computed, context, rest
<1> QED
  BY <1>1, <1>2 DEF Forward

LEMMA ForwardKeepsTheRest ==
  ASSUME NEW n \in Nat, NEW toks, NEW done, Forward(n, toks, done)
  PROVE  \A l \in Planes : \A i \in 1..n : i <= NCtx => gpu'[l][i] = gpu[l][i]
<1> QED
  BY CtxAssumption DEF Forward

LEMMA ForwardIsExact ==
  ASSUME TypeOK, NEW t \in Seq(Tokens), NEW n \in Nat, NEW m \in Nat \ {0},
         n + m <= Len(t), n + m <= NCtx, Holds(n, t),
         Forward(n, SubSeq(t, n + 1, n + m), NPlanes)
  PROVE  \A l \in Planes : \A i \in 1..(n + m) : gpu'[l][i] = Unit(l, SubSeq(t, 1, i))
<1> USE SizesAssumption, CtxAssumption
<1> DEFINE toks == SubSeq(t, n + 1, n + m)
           context == IF n = 0 THEN <<>> ELSE gpu[1][n].prefix
<1>1. Len(t) \in Nat /\ Len(toks) = m /\ 1 \in Planes
  <2>1. Len(t) \in Nat
    OBVIOUS
  <2>2. \A i \in (n + 1)..(n + m) : t[i] \in Tokens
    BY <2>1
  <2>3. Len(toks) = IF n + 1 <= n + m THEN (n + m) - (n + 1) + 1 ELSE 0
    BY <2>2, SubSeqProperties
  <2> QED
    BY <2>1, <2>3 DEF Planes
<1>2. context = SubSeq(t, 1, n)
  <2>1. CASE n = 0
    BY <2>1, SubSeqEmpty
  <2>2. CASE n # 0
    <3>1. gpu[1][n] = Unit(1, SubSeq(t, 1, n))
      BY <1>1, <2>2 DEF Holds
    <3>2. Unit(1, SubSeq(t, 1, n)).prefix = SubSeq(t, 1, n)
      BY DEF Unit
    <3> QED
      BY <2>2, <3>1, <3>2
  <2> QED
    BY <2>1, <2>2
<1>3. Holds(n, context)
  <2>1. Len(SubSeq(t, 1, n)) = n /\ \A i \in 1..n : SubSeq(SubSeq(t, 1, n), 1, i) = SubSeq(t, 1, i)
    BY <1>1, PrefixOfPrefix
  <2>2. \A l \in Planes : \A i \in 1..n :
          gpu[l][i] = Unit(l, SubSeq(SubSeq(t, 1, n), 1, i))
    BY <2>1 DEF Holds
  <2>3. Holds(n, SubSeq(t, 1, n))
    BY <2>1, <2>2 DEF Holds
  <2> HIDE DEF context
  <2> QED
    BY <1>2, <2>3
<1>4. ASSUME NEW l \in Planes, NEW i \in 1..m
      PROVE  Computed(n, toks, l, i) = Unit(l, SubSeq(t, 1, n + i))
  <2>1. SubSeq(t, 1, n) \o SubSeq(toks, 1, i) = SubSeq(t, 1, n + i)
    BY PrefixGoesOn
  <2>2. Computed(n, toks, l, i) = Unit(l, context \o SubSeq(toks, 1, i))
    BY <1>3 DEF Computed
  <2> HIDE DEF toks, context
  <2> QED
    BY <1>2, <2>1, <2>2
<1> HIDE DEF toks, context
<1>5. ASSUME NEW l \in Planes, NEW i \in 1..n
      PROVE  gpu'[l][i] = Unit(l, SubSeq(t, 1, i))
  BY <1>1 DEF Forward, Holds, toks
<1>6. ASSUME NEW l \in Planes, NEW i \in (n + 1)..(n + m)
      PROVE  gpu'[l][i] = Unit(l, SubSeq(t, 1, i))
  <2>1. gpu'[l][i] = Computed(n, toks, l, i - n)
    BY <1>1 DEF Forward, Planes, toks
  <2>2. i - n \in 1..m /\ n + (i - n) = i
    OBVIOUS
  <2> QED
    BY <1>4, <2>1, <2>2
<1> QED
  BY <1>5, <1>6

(* A function on 1..n is a sequence of length n. *)
LEMMA FunctionIsSeq ==
  ASSUME NEW S, NEW n \in Nat, NEW f \in [1..n -> S]
  PROVE  f \in Seq(S) /\ Len(f) = n
<1>1. f \in Seq(S)
  BY SeqDef
<1>2. DOMAIN f = 1..Len(f) /\ Len(f) \in Nat
  BY <1>1, LenProperties
<1>3. DOMAIN f = 1..n
  OBVIOUS
<1> QED
  BY <1>1, <1>2, <1>3

(* The transfers between GPU and host buffer. *)
LEMMA UploadWritesUnits ==
  ASSUME TypeOK, NEW n \in Nat \ {0}, NEW k \in 1..NSlots, NEW done,
         Uploaded(n, Copied(k, n), done)
  PROVE  gpu' \in [Planes -> [1..NCtx -> Units]]
<1> USE SizesAssumption, CtxAssumption
<1>1. gpu \in [Planes -> [1..NCtx -> Units]] /\ slots[k].kv \in Seq(Units)
  BY DEF TypeOK, Slot
<1>2. Junk \in Units
  BY DEF Units
<1>3. \A u \in 1..(n * NPlanes) : Copied(k, n)[u] \in Units
  <2>1. \A u \in DOMAIN slots[k].kv : slots[k].kv[u] \in Units
    BY <1>1
  <2> QED
    BY <1>2, <2>1 DEF Copied
<1>4. \A l \in Planes : \A i \in 1..n : Copied(k, n)[At(n, l, i)] \in Units
  BY <1>3, Layout
<1> QED
  BY <1>1, <1>4 DEF Uploaded

LEMMA DownloadIsLaidOut ==
  ASSUME TypeOK, NEW n \in 1..NCtx
  PROVE  /\ Downloaded(n) \in Seq(Units) /\ Len(Downloaded(n)) = n * NPlanes
         /\ \A l \in Planes : \A i \in 1..n : Downloaded(n)[At(n, l, i)] = gpu[l][i]
<1> USE SizesAssumption, CtxAssumption
<1>1. gpu \in [Planes -> [1..NCtx -> Units]] /\ n \in Nat \ {0}
  BY DEF TypeOK
<1>2. \A u \in 1..(n * NPlanes) :
        gpu[((u - 1) \div n) + 1][((u - 1) % n) + 1] \in Units
  <2>1. \A u \in 1..(n * NPlanes) :
          ((u - 1) \div n) + 1 \in Planes /\ ((u - 1) % n) + 1 \in 1..n
    BY <1>1, Layout
  <2>2. \A i \in 1..n : i \in 1..NCtx
    BY <1>1
  <2> QED
    BY <1>1, <2>1, <2>2
<1>3. n * NPlanes \in Nat /\ Downloaded(n) \in [1..(n * NPlanes) -> Units]
  BY <1>1, <1>2, Layout DEF Downloaded
<1>4. \A l \in Planes : \A i \in 1..n : Downloaded(n)[At(n, l, i)] = gpu[l][i]
  <2> SUFFICES ASSUME NEW l \in Planes, NEW i \in 1..n
               PROVE  Downloaded(n)[At(n, l, i)] = gpu[l][i]
    OBVIOUS
  <2>1. PICK u : u = At(n, l, i)
    OBVIOUS
  <2>2. u \in 1..(n * NPlanes) /\ ((u - 1) \div n) + 1 = l /\ ((u - 1) % n) + 1 = i
    <3>1. \A m \in Planes : \A j \in 1..n :
            /\ At(n, m, j) \in 1..(n * NPlanes)
            /\ ((At(n, m, j) - 1) \div n) + 1 = m
            /\ ((At(n, m, j) - 1) % n) + 1 = j
      BY <1>1, Layout
    <3> QED
      BY <2>1, <3>1
  <2>3. Downloaded(n)[u] = gpu[((u - 1) \div n) + 1][((u - 1) % n) + 1]
    BY <2>2 DEF Downloaded
  <2> QED
    BY <2>1, <2>2, <2>3
<1> QED
  BY <1>3, <1>4, FunctionIsSeq

(* A prefix that was stored alone, clean, comes back as it was. *)
LEMMA CopyIsExact ==
  ASSUME Control, StoredIsExact, pc = "copy", slots[ref].clean,
         Len(slots[ref].tokens) = cached, Matched(ref),
         Uploaded(cached, Copied(ref, cached), NPlanes)
  PROVE  \A l \in Planes : \A i \in 1..cached : gpu'[l][i] = Unit(l, SubSeq(prompt, 1, i))
<1> USE SizesAssumption, CtxAssumption
<1> DEFINE s == slots[ref].tokens
<1>1. /\ ref \in 1..NSlots /\ s \in Seq(Tokens) /\ prompt \in Seq(Tokens)
      /\ cached \in 1..Len(prompt) /\ Len(prompt) \in 1..NCtx
      /\ slots[ref].kv \in Seq(Units) /\ Len(slots[ref].kv) = NPlanes * cached
  BY DEF Control, TypeOK, Slot, FoundStays, Progress, PromptFits, KvLaidOut
<1>2. \A i \in 1..cached : SubSeq(s, 1, i) = SubSeq(prompt, 1, i)
  <2> SUFFICES ASSUME NEW i \in 1..cached
               PROVE  SubSeq(s, 1, i) = SubSeq(prompt, 1, i)
    OBVIOUS
  <2>1. \A j \in 1..cached : s[j] = prompt[j] /\ s[j] \in Tokens
    BY <1>1 DEF Matched
  <2>2. /\ SubSeq(s, 1, i) \in Seq(Tokens) /\ SubSeq(prompt, 1, i) \in Seq(Tokens)
        /\ Len(SubSeq(s, 1, i)) = i /\ Len(SubSeq(prompt, 1, i)) = i
    BY <1>1, PrefixOfPrefix
  <2>3. \A j \in 1..i : SubSeq(s, 1, i)[j] = s[j] /\ SubSeq(prompt, 1, i)[j] = prompt[j]
    BY <1>1, <2>1
  <2> QED
    BY <1>1, <2>1, <2>2, <2>3, SeqEqual
<1>3. ASSUME NEW l \in Planes, NEW i \in 1..cached
      PROVE  gpu'[l][i] = Unit(l, SubSeq(s, 1, i))
  <2>1. cached \in Nat \ {0} /\ i \in 1..NCtx
    BY <1>1
  <2>2. At(cached, l, i) \in 1..(cached * NPlanes)
    BY <2>1, Layout
  <2>3. At(cached, l, i) \in DOMAIN slots[ref].kv
    BY <1>1, <2>1, <2>2
  <2>4. gpu'[l][i] = Copied(ref, cached)[At(cached, l, i)]
    BY <2>1 DEF Uploaded, Planes
  <2>5. gpu'[l][i] = slots[ref].kv[At(cached, l, i)]
    BY <2>2, <2>3, <2>4 DEF Copied
  <2> QED
    BY <1>1, <2>5 DEF StoredIsExact
<1> HIDE DEF s
<1> QED
  BY <1>2, <1>3

(* The next piece of a prompt is what it goes on with, and it is not empty. *)
LEMMA PieceIsNext ==
  ASSUME prompt \in Seq(Tokens), cached \in Nat, MoreToPrefill
  PROVE  /\ Piece \in Seq(Tokens) /\ Len(Piece) \in Nat \ {0}
         /\ cached + Len(Piece) <= Len(prompt)
         /\ Piece = SubSeq(prompt, cached + 1, cached + Len(Piece))
<1> USE CtxAssumption
<1> DEFINE rest == Len(prompt) - cached
           size == IF pc = "tokens" THEN 1 ELSE IF rest < ChunkSize THEN rest ELSE ChunkSize
<1>1. size \in Nat \ {0} /\ cached + size <= Len(prompt) /\ Len(prompt) \in Nat
  BY DEF MoreToPrefill
<1>2. Piece = SubSeq(prompt, cached + 1, cached + size)
  BY DEF Piece
<1> HIDE DEF size
<1>3. \A i \in (cached + 1)..(cached + size) : prompt[i] \in Tokens
  BY <1>1
<1>4. /\ SubSeq(prompt, cached + 1, cached + size) \in Seq(Tokens)
      /\ Len(SubSeq(prompt, cached + 1, cached + size)) =
           IF cached + 1 <= cached + size THEN (cached + size) - (cached + 1) + 1 ELSE 0
  BY <1>1, <1>3, SubSeqProperties
<1>5. Len(Piece) = size
  BY <1>1, <1>2, <1>4
<1> QED
  BY <1>1, <1>2, <1>4, <1>5

LEMMA AllIsASeq ==
  ASSUME prompt \in Seq(Tokens), out \in Seq(Tokens)
  PROVE  All \in Seq(Tokens) /\ Len(All) = Len(prompt) + Len(out)
         /\ \A i \in 1..Len(prompt) : All[i] = prompt[i]
<1> QED
  BY ConcatProperties DEF All

(* What generate_ex leaves behind is typed. *)
LEMMA ReturnIsTyped ==
  ASSUME Return
  PROVE  /\ pc' = "idle" /\ cur' = NoId /\ prompt' \in Seq(Tokens) /\ out' \in Seq(Tokens)
         /\ cached' \in Nat /\ seqLen' \in 0..NCtx /\ next' \in Tokens \cup {Stop}
         /\ ref' \in 0..NSlots /\ late' \in BOOLEAN /\ spoiled' \in BOOLEAN
<1>1. <<>> \in Seq(Tokens)
  OBVIOUS
<1>2. 0 \in 0..NCtx /\ 0 \in 0..NSlots
  BY CtxAssumption, SizesAssumption
<1> QED
  BY <1>1, <1>2 DEF Return

(* The records that create, close and reset put in a slot. *)
LEMMA SlotsMade ==
  ASSUME NEW v \in BOOLEAN, NEW id \in Ids
  PROVE  /\ [Empty EXCEPT !.valid = v, !.id = Name(id), !.cap = LocalTokens] \in Slot
         /\ [Empty EXCEPT !.valid = v, !.id = Name(id)] \in Slot
         /\ [Empty EXCEPT !.id = id] \in Slot
         /\ Empty \in Slot
<1>1. <<>> \in Seq(Tokens) /\ <<>> \in Seq(Units)
  OBVIOUS
<1>2. Name(id) \in Ids \cup {"cut", NoId}
  BY DEF Name
<1> QED
  BY <1>1, <1>2 DEF Empty, Slot

LEMMA SlotsWiped ==
  ASSUME NEW s \in Slot
  PROVE  /\ [s EXCEPT !.tokens = <<>>, !.kv = <<>>] \in Slot
         /\ [s EXCEPT !.valid = TRUE, !.tokens = <<>>, !.kv = <<>>] \in Slot
<1>1. <<>> \in Seq(Tokens) /\ <<>> \in Seq(Units)
  OBVIOUS
<1> QED
  BY <1>1 DEF Slot

(* Every action keeps the types of the variables. *)
LEMMA TypesStay ==
  ASSUME Control, [Next]_vars
  PROVE  TypeOK'
<1> USE IdsAssumption, SizesAssumption, StopAssumption, CtxAssumption
<1>1. ASSUME Lookup PROVE TypeOK'
  BY <1>1, LookupIsSound, FindSlotFinds DEF Control, TypeOK, kvVars, Lookup
<1>2. ASSUME Read PROVE TypeOK'
  BY <1>2, FindSlotFinds DEF Control, TypeOK, kvVars, Read
<1>3. ASSUME ReadFails PROVE TypeOK'
  BY <1>3 DEF Control, TypeOK, kvVars, ReadFails
<1>4. ASSUME Copy PROVE TypeOK'
  <2>1. gpu' \in [Planes -> [1..NCtx -> Units]]
    BY <1>4, UploadWritesUnits DEF Control, Progress, FoundStays, Copy
  <2>2. cached \in 1..NCtx
    BY <1>4 DEF Control, TypeOK, Progress, PromptFits, Copy
  <2> QED
    BY <1>4, <2>1, <2>2 DEF Control, TypeOK, kvVars, Copy
<1>5. ASSUME CopyFails PROVE TypeOK'
  <2>1. gpu' \in [Planes -> [1..NCtx -> Units]]
    BY <1>5, UploadWritesUnits DEF Control, Progress, FoundStays, CopyFails
  <2>2. 0 \in Nat /\ 0 \in 0..NCtx
    OBVIOUS
  <2> QED
    BY <1>5, <2>1, <2>2 DEF Control, TypeOK, kvVars, CopyFails
<1>6. ASSUME Expire PROVE TypeOK'
  BY <1>6, ReturnIsTyped DEF Control, TypeOK, kvVars, Expire
<1>7. ASSUME Plan PROVE TypeOK'
  BY <1>7 DEF Control, TypeOK, kvVars, PromptFits, Plan
<1>8. ASSUME RunLast PROVE TypeOK'
  <2>1. <<prompt[Len(prompt)]>> \in Seq(Tokens)
    BY <1>8 DEF Control, TypeOK, PromptFits, RunLast
  <2>2. gpu' \in [Planes -> [1..NCtx -> Units]]
    BY <1>8, <2>1, ForwardWritesUnits DEF Control, TypeOK, Succeeds, RunLast
  <2> QED
    BY <1>8, <2>2 DEF Control, TypeOK, kvVars, Succeeds, RunLast
<1>9. ASSUME Resume PROVE TypeOK'
  BY <1>9 DEF Control, TypeOK, kvVars, PromptFits, Progress, Resume
<1>10. ASSUME Prefill PROVE TypeOK'
  <2>1. Piece \in Seq(Tokens) /\ Len(Piece) \in Nat
    BY <1>10, PieceIsNext DEF Control, TypeOK, Prefill, MoreToPrefill
  <2>2. gpu' \in [Planes -> [1..NCtx -> Units]]
    BY <1>10, <2>1, ForwardWritesUnits DEF Control, TypeOK, Succeeds, Prefill
  <2> QED
    BY <1>10, <2>1, <2>2 DEF Control, TypeOK, kvVars, Succeeds, Refused, Prefill
<1>11. ASSUME Prefilled PROVE TypeOK'
  BY <1>11 DEF Control, TypeOK, kvVars, Prefilled
<1>12. ASSUME PromptFails PROVE TypeOK'
  <2>1. pc = "last" => <<prompt[Len(prompt)]>> \in Seq(Tokens)
    BY <1>12 DEF Control, TypeOK, PromptFits
  <2>2. MoreToPrefill => Piece \in Seq(Tokens)
    BY <1>12, PieceIsNext DEF Control, TypeOK, PromptFails, MoreToPrefill
  <2>3. gpu' \in [Planes -> [1..NCtx -> Units]]
    BY <1>12, <2>1, <2>2, ForwardWritesUnits DEF Control, TypeOK, Fails, PromptFails
  <2> QED
    BY <1>12, <2>3, ReturnIsTyped DEF Control, TypeOK, kvVars, PromptFails
<1>13. ASSUME Emit PROVE TypeOK'
  <2>1. next \in Tokens /\ out' \in Seq(Tokens)
    BY <1>13 DEF Control, TypeOK, Emit
  <2> QED
    BY <1>13, <2>1 DEF Control, TypeOK, kvVars, Emit
<1>14. ASSUME Step PROVE TypeOK'
  <2>1. <<next>> \in Seq(Tokens)
    BY <1>14 DEF Control, TypeOK, Progress, Step
  <2>2. gpu' \in [Planes -> [1..NCtx -> Units]]
    BY <1>14, <2>1, ForwardWritesUnits DEF Control, TypeOK, Succeeds, Step
  <2> QED
    BY <1>14, <2>2 DEF Control, TypeOK, kvVars, Succeeds, Refused, Progress, Step
<1>15. ASSUME StepFails PROVE TypeOK'
  <2>1. <<next>> \in Seq(Tokens)
    BY <1>15 DEF Control, TypeOK, Progress, StepFails
  <2>2. gpu' \in [Planes -> [1..NCtx -> Units]]
    BY <1>15, <2>1, ForwardWritesUnits DEF Control, TypeOK, Fails, StepFails
  <2> QED
    BY <1>15, <2>2 DEF Control, TypeOK, kvVars, StepFails
<1>16. ASSUME Decoded PROVE TypeOK'
  BY <1>16 DEF Control, TypeOK, kvVars, Decoded
<1>17. ASSUME StoreFind PROVE TypeOK'
  BY <1>17, FindSlotFinds DEF Control, TypeOK, kvVars, StoreFind
<1>18. ASSUME Write PROVE TypeOK'
  <2>1. All \in Seq(Tokens) /\ Len(All) \in 1..NCtx
    BY <1>18, AllIsASeq DEF Control, TypeOK, PromptFits, Progress, Write
  <2>2. Downloaded(Len(All)) \in Seq(Units)
    BY <2>1, DownloadIsLaidOut DEF Control
  <2>3. \A b \in BOOLEAN : [slots[ref] EXCEPT !.tokens = All, !.kv = Downloaded(Len(All)), !.clean = b] \in Slot
    <3>1. slots[ref] \in Slot
      BY <1>18 DEF Control, TypeOK, FoundStays, Write
    <3> QED
      BY <3>1, <2>1, <2>2 DEF Slot
  <2>4. (~spoiled /\ seqLen = Len(All)) \in BOOLEAN
    OBVIOUS
  <2>5. slots' \in [1..NSlots -> Slot]
    BY <1>18, <2>3, <2>4 DEF Control, TypeOK, FoundStays, Store, Write
  <2> QED
    BY <1>18, <2>5, ReturnIsTyped DEF Control, TypeOK, Write
<1>19. ASSUME StoreFails PROVE TypeOK'
  BY <1>19, ReturnIsTyped DEF Control, TypeOK, kvVars, StoreFails
<1>20. ASSUME DeadlinePasses PROVE TypeOK'
  BY <1>20 DEF Control, TypeOK, kvVars, DeadlinePasses
<1>21. ASSUME NEW id \in Ids, NEW p \in Prompts, Start(id, p) PROVE TypeOK'
  <2>1. p \in Seq(Tokens)
    BY SeqDef DEF Prompts
  <2> QED
    BY <1>21, <2>1 DEF Control, TypeOK, kvVars, Start
<1>22. ASSUME NEW id \in Ids, id # cur, CreateFind(id), UNCHANGED genVars PROVE TypeOK'
  <2> DEFINE k == FindSlot(id)
  <2>1. /\ 0 \in 0..NSlots /\ FreeSlot \in 0..NSlots /\ k \in 0..NSlots
        /\ making \in [Ids -> 0..NSlots] /\ slots \in [1..NSlots -> Slot]
    <3>1. making \in [Ids -> 0..NSlots] /\ slots \in [1..NSlots -> Slot]
      BY DEF Control, TypeOK
    <3>2. FreeSlot \in 0..NSlots /\ k \in 0..NSlots
      BY FindSlotFinds
    <3>3. 0 \in 0..NSlots
      BY SizesAssumption
    <3> QED
      BY <3>1, <3>2, <3>3
  <2>2. slots' \in [1..NSlots -> Slot]
    <3>1. \A j \in 1..NSlots : [slots[j] EXCEPT !.tokens = <<>>, !.kv = <<>>] \in Slot
      BY <2>1, SlotsWiped
    <3>2. CASE k # 0
      <4>1. slots' = [slots EXCEPT ![k].tokens = <<>>, ![k].kv = <<>>] /\ k \in 1..NSlots
        <5>1. slots' = IF k = 0 THEN slots ELSE [slots EXCEPT ![k].tokens = <<>>, ![k].kv = <<>>]
          BY <1>22, <3>2, Zenon DEF CreateFind
        <5> HIDE DEF k
        <5> QED
          BY <5>1, <2>1, <3>2
      <4> HIDE DEF k
      <4> QED
        BY <4>1, <3>1, <2>1
    <3>3. CASE k = 0
      BY <1>22, <2>1, <3>3 DEF CreateFind
    <3> QED
      BY <3>2, <3>3
  <2>3. making' \in [Ids -> 0..NSlots] /\ stage' \in [Ids -> {"none", "fill", "publish"}] /\ open' \subseteq Ids
    <3>1. CASE k # 0 \/ FreeSlot = 0
      <4>1. Opened(id)
        BY <1>22, <3>1, Zenon DEF CreateFind
      <4> QED
        BY <4>1, <2>1 DEF Control, TypeOK, Opened
    <3>2. CASE ~(k # 0 \/ FreeSlot = 0)
      <4>1. /\ making' = [making EXCEPT ![id] = FreeSlot] /\ open' = open
            /\ stage' = [stage EXCEPT ![id] = "fill"]
        BY <1>22, <3>2 DEF CreateFind
      <4> HIDE DEF k
      <4> QED
        BY <4>1, <2>1 DEF Control, TypeOK
    <3> QED
      BY <3>1, <3>2
  <2> QED
    BY <1>22, <2>2, <2>3 DEF Control, TypeOK, genVars
<1>23. ASSUME NEW id \in Ids, id # cur, CreateFill(id), UNCHANGED genVars PROVE TypeOK'
  <2>1. 0 \in 0..NSlots /\ (\A k \in 1..NSlots : k \in 0..NSlots) /\ making \in [Ids -> 0..NSlots] /\ slots \in [1..NSlots -> Slot]
    BY DEF Control, TypeOK
  <2>2. slots' \in [1..NSlots -> Slot]
    <3>1. making[id] \in 0..NSlots /\ \A k \in 1..NSlots : slots[k].valid \in BOOLEAN
      BY <2>1 DEF Slot
    <3> QED
      BY <1>23, <3>1, <2>1, SlotsMade DEF CreateFill
  <2>3. making' \in [Ids -> 0..NSlots] /\ stage' \in [Ids -> {"none", "fill", "publish"}] /\ open' \subseteq Ids
    BY <1>23, <2>1 DEF Control, TypeOK, Opened, CreateFill
  <2> QED
    BY <1>23, <2>2, <2>3 DEF Control, TypeOK, genVars
<1>24. ASSUME NEW id \in Ids, id # cur, CreateFails(id), UNCHANGED genVars PROVE TypeOK'
  <2>1. 0 \in 0..NSlots /\ (\A k \in 1..NSlots : k \in 0..NSlots) /\ making \in [Ids -> 0..NSlots] /\ slots \in [1..NSlots -> Slot]
    BY DEF Control, TypeOK
  <2>2. slots' \in [1..NSlots -> Slot]
    <3>1. making[id] \in 0..NSlots /\ \A k \in 1..NSlots : slots[k].valid \in BOOLEAN
      BY <2>1 DEF Slot
    <3> QED
      BY <1>24, <3>1, <2>1, SlotsMade DEF CreateFails
  <2>3. making' \in [Ids -> 0..NSlots] /\ stage' \in [Ids -> {"none", "fill", "publish"}] /\ open' \subseteq Ids
    BY <1>24, <2>1 DEF Control, TypeOK, Opened, CreateFails
  <2> QED
    BY <1>24, <2>2, <2>3 DEF Control, TypeOK, genVars
<1>25. ASSUME NEW id \in Ids, id # cur, CreatePublish(id), UNCHANGED genVars PROVE TypeOK'
  <2>1. 0 \in 0..NSlots /\ (\A k \in 1..NSlots : k \in 0..NSlots) /\ making \in [Ids -> 0..NSlots] /\ slots \in [1..NSlots -> Slot]
    BY DEF Control, TypeOK
  <2>2. slots' \in [1..NSlots -> Slot]
    <3>1. \A k \in 1..NSlots : [slots[k] EXCEPT !.valid = TRUE, !.tokens = <<>>, !.kv = <<>>] \in Slot
      BY <2>1, SlotsWiped
    <3> QED
      BY <1>25, <3>1, <2>1 DEF CreatePublish
  <2>3. making' \in [Ids -> 0..NSlots] /\ stage' \in [Ids -> {"none", "fill", "publish"}] /\ open' \subseteq Ids
    BY <1>25, <2>1 DEF Control, TypeOK, Opened, CreatePublish
  <2> QED
    BY <1>25, <2>2, <2>3 DEF Control, TypeOK, genVars
<1>26. ASSUME NEW id \in Ids, id # cur, CloseSession(id), UNCHANGED genVars PROVE TypeOK'
  <2>1. 0 \in 0..NSlots /\ (\A k \in 1..NSlots : k \in 0..NSlots) /\ making \in [Ids -> 0..NSlots] /\ slots \in [1..NSlots -> Slot]
    BY DEF Control, TypeOK
  <2>2. slots' \in [1..NSlots -> Slot]
    BY <1>26, <2>1, SlotsMade, FindSlotFinds DEF CloseSession
  <2>3. making' \in [Ids -> 0..NSlots] /\ stage' \in [Ids -> {"none", "fill", "publish"}] /\ open' \subseteq Ids
    BY <1>26, <2>1 DEF Control, TypeOK, Opened, CloseSession
  <2> QED
    BY <1>26, <2>2, <2>3 DEF Control, TypeOK, genVars
<1>27. ASSUME NEW id \in Ids, id # cur, ResetSession(id), UNCHANGED genVars PROVE TypeOK'
  <2>1. 0 \in 0..NSlots /\ (\A k \in 1..NSlots : k \in 0..NSlots) /\ making \in [Ids -> 0..NSlots] /\ slots \in [1..NSlots -> Slot]
    BY DEF Control, TypeOK
  <2>2. slots' \in [1..NSlots -> Slot]
    <3>1. \A k \in 1..NSlots : [slots[k] EXCEPT !.tokens = <<>>, !.kv = <<>>] \in Slot
      BY <2>1, SlotsWiped
    <3>2. FindSlot(Name(id)) \in 0..NSlots /\ FindSlot(id) \in 0..NSlots
      BY FindSlotFinds
    <3> QED
      BY <1>27, <3>1, <3>2, <2>1 DEF ResetSession
  <2>3. making' \in [Ids -> 0..NSlots] /\ stage' \in [Ids -> {"none", "fill", "publish"}] /\ open' \subseteq Ids
    BY <1>27, <2>1 DEF Control, TypeOK, Opened, ResetSession
  <2> QED
    BY <1>27, <2>2, <2>3 DEF Control, TypeOK, genVars
<1>28. ASSUME UNCHANGED vars PROVE TypeOK'
  BY <1>28 DEF Control, TypeOK, vars, kvVars, genVars
<1> QED
  BY <1>1, <1>2, <1>3, <1>4, <1>5, <1>6, <1>7, <1>8, <1>9, <1>10, <1>11, <1>12, <1>13, <1>14, <1>15, <1>16, <1>17, <1>18, <1>19, <1>20, <1>21, <1>22, <1>23, <1>24, <1>25, <1>26, <1>27, <1>28
     DEF Next, Engine, Sessions, Creates

(* Every action keeps the account of how far the generate is. *)
LEMMA ProgressStays ==
  ASSUME Control, TypeOK', [Next]_vars
  PROVE  (PromptFits /\ Progress)'
<1> USE CtxAssumption
<1>0. \A s, t \in Seq(Tokens) : Len(s \o t) = Len(s) + Len(t) /\ Len(s) \in Nat /\ Len(t) \in Nat
  BY ConcatProperties
<1>1. ASSUME Lookup PROVE (PromptFits /\ Progress)'
  <2>1. /\ cached' \in 0..Len(prompt) /\ Len(prompt) \in 1..NCtx
        /\ pc = "lookup" /\ pc' = IF cached' > 0 THEN "read" ELSE "plan"
    BY <1>1, LookupIsSound DEF Control, TypeOK, PromptFits, Lookup
  <2> QED
    BY <1>1, <2>1 DEF Control, TypeOK, PromptFits, Progress, Lookup
<1>2. ASSUME Read PROVE (PromptFits /\ Progress)'
  BY <1>2, <1>0 DEF Control, TypeOK, PromptFits, Progress, All, Read
<1>3. ASSUME ReadFails PROVE (PromptFits /\ Progress)'
  BY <1>3, <1>0 DEF Control, TypeOK, PromptFits, Progress, All, ReadFails
<1>4. ASSUME Copy PROVE (PromptFits /\ Progress)'
  <2>1. cached \in 1..Len(prompt) /\ Len(prompt) \in 1..NCtx
    BY <1>4 DEF Control, PromptFits, Progress, Copy
  <2> QED
    BY <1>4, <2>1 DEF Control, TypeOK, PromptFits, Progress, Copy
<1>5. ASSUME CopyFails PROVE (PromptFits /\ Progress)'
  BY <1>5, <1>0 DEF Control, TypeOK, PromptFits, Progress, All, CopyFails
<1>6. ASSUME Expire PROVE (PromptFits /\ Progress)'
  BY <1>6, <1>0 DEF Return, PromptFits, Progress, Expire
<1>7. ASSUME Plan PROVE (PromptFits /\ Progress)'
  <2>1. /\ pc = "plan" /\ out' = <<>> /\ prompt' = prompt /\ cached' = cached
        /\ Len(prompt) \in 1..NCtx /\ seqLen = cached /\ cached <= Len(prompt)
    BY <1>7 DEF Control, PromptFits, Progress, Plan
  <2>2. CASE cached = Len(prompt)
    <3>1. pc' = "last" /\ seqLen' = Len(prompt) - 1
      BY <1>7, <2>2 DEF Plan
    <3> QED
      BY <2>1, <3>1 DEF PromptFits, Progress
  <2>3. CASE cached # Len(prompt)
    <3>1. pc' \in {"tokens", "chunks"} /\ seqLen' = seqLen
      BY <1>7, <2>3 DEF Plan
    <3> QED
      BY <2>1, <3>1 DEF PromptFits, Progress
  <2> QED
    BY <2>2, <2>3
<1>8. ASSUME RunLast PROVE (PromptFits /\ Progress)'
  BY <1>8, <1>0 DEF Control, TypeOK, PromptFits, Progress, All, RunLast
<1>9. ASSUME Resume PROVE (PromptFits /\ Progress)'
  <2>1. All' = All /\ Len(All) = Len(prompt)
    BY <1>9, <1>0 DEF Control, TypeOK, Progress, All, Resume
  <2> QED
    BY <1>9, <2>1 DEF Control, TypeOK, PromptFits, Progress, Resume
<1>10. ASSUME Prefill PROVE (PromptFits /\ Progress)'
  <2>1. cached + Len(Piece) <= Len(prompt) /\ Len(Piece) \in Nat
    BY <1>10, PieceIsNext DEF Control, TypeOK, Prefill
  <2> QED
    BY <1>10, <2>1 DEF Control, TypeOK, PromptFits, Progress, Prefill
<1>11. ASSUME Prefilled PROVE (PromptFits /\ Progress)'
  <2>1. All' = All /\ Len(All) = Len(prompt)
    BY <1>11, <1>0 DEF Control, TypeOK, Progress, All, Prefilled
  <2> QED
    BY <1>11, <2>1 DEF Control, TypeOK, PromptFits, Progress, MoreToPrefill, Prefilled
<1>12. ASSUME PromptFails PROVE (PromptFits /\ Progress)'
  BY <1>12, <1>0 DEF Return, PromptFits, Progress, PromptFails
<1>13. ASSUME Emit PROVE (PromptFits /\ Progress)'
  <2>1. /\ next \in Tokens /\ out' \in Seq(Tokens) /\ Len(out') = Len(out) + 1
        /\ out' # <<>> /\ out'[Len(out')] = next
    BY <1>13 DEF Control, TypeOK, Emit
  <2>2. Len(All)' = Len(All) + 1
    BY <1>13, <1>0, <2>1 DEF Control, TypeOK, All, Emit
  <2> QED
    BY <1>13, <2>1, <2>2 DEF Control, TypeOK, PromptFits, Progress, MoreToDecode, Emit
<1>14. ASSUME Step PROVE (PromptFits /\ Progress)'
  <2>1. All' = All /\ Len(All) \in Nat
    BY <1>14, <1>0 DEF Control, TypeOK, All, Step
  <2> QED
    BY <1>14, <2>1 DEF Control, TypeOK, PromptFits, Progress, Step
<1>15. ASSUME StepFails PROVE (PromptFits /\ Progress)'
  <2>1. All' = All /\ Len(All) \in Nat
    BY <1>15, <1>0 DEF Control, TypeOK, All, StepFails
  <2> QED
    BY <1>15, <2>1 DEF Control, TypeOK, PromptFits, Progress, StepFails
<1>16. ASSUME Decoded PROVE (PromptFits /\ Progress)'
  <2>1. All' = All /\ Len(All) \in Nat
    BY <1>16, <1>0 DEF Control, TypeOK, All, Decoded
  <2> QED
    BY <1>16, <2>1 DEF Control, TypeOK, PromptFits, Progress, Decoded
<1>17. ASSUME StoreFind PROVE (PromptFits /\ Progress)'
  <2>1. All' = All
    BY <1>17 DEF All, StoreFind
  <2> QED
    BY <1>17, <2>1 DEF Control, PromptFits, Progress, StoreFind
<1>18. ASSUME Write PROVE (PromptFits /\ Progress)'
  BY <1>18, <1>0 DEF Return, PromptFits, Progress, Write
<1>19. ASSUME StoreFails PROVE (PromptFits /\ Progress)'
  BY <1>19, <1>0 DEF Return, PromptFits, Progress, StoreFails
<1>20. ASSUME DeadlinePasses PROVE (PromptFits /\ Progress)'
  <2>1. All' = All
    BY <1>20 DEF All, DeadlinePasses
  <2> QED
    BY <1>20, <2>1 DEF Control, PromptFits, Progress, DeadlinePasses
<1>21. ASSUME NEW id \in Ids, NEW p \in Prompts, Start(id, p) PROVE (PromptFits /\ Progress)'
  <2>1. Len(p) \in 1..MaxPrompt
    BY SeqDef, CtxAssumption DEF Prompts
  <2> QED
    BY <1>21, <2>1, CtxAssumption DEF Control, TypeOK, PromptFits, Progress, Start
<1>22. ASSUME NEW id \in Ids, id # cur, CreateFind(id), UNCHANGED genVars PROVE (PromptFits /\ Progress)'
  <2>1. UNCHANGED genVars /\ All' = All
    BY <1>22 DEF All, vars, genVars
  <2> QED
    BY <2>1 DEF Control, PromptFits, Progress, genVars
<1>23. ASSUME NEW id \in Ids, id # cur, CreateFill(id), UNCHANGED genVars PROVE (PromptFits /\ Progress)'
  <2>1. UNCHANGED genVars /\ All' = All
    BY <1>23 DEF All, vars, genVars
  <2> QED
    BY <2>1 DEF Control, PromptFits, Progress, genVars
<1>24. ASSUME NEW id \in Ids, id # cur, CreateFails(id), UNCHANGED genVars PROVE (PromptFits /\ Progress)'
  <2>1. UNCHANGED genVars /\ All' = All
    BY <1>24 DEF All, vars, genVars
  <2> QED
    BY <2>1 DEF Control, PromptFits, Progress, genVars
<1>25. ASSUME NEW id \in Ids, id # cur, CreatePublish(id), UNCHANGED genVars PROVE (PromptFits /\ Progress)'
  <2>1. UNCHANGED genVars /\ All' = All
    BY <1>25 DEF All, vars, genVars
  <2> QED
    BY <2>1 DEF Control, PromptFits, Progress, genVars
<1>26. ASSUME NEW id \in Ids, id # cur, CloseSession(id), UNCHANGED genVars PROVE (PromptFits /\ Progress)'
  <2>1. UNCHANGED genVars /\ All' = All
    BY <1>26 DEF All, vars, genVars
  <2> QED
    BY <2>1 DEF Control, PromptFits, Progress, genVars
<1>27. ASSUME NEW id \in Ids, id # cur, ResetSession(id), UNCHANGED genVars PROVE (PromptFits /\ Progress)'
  <2>1. UNCHANGED genVars /\ All' = All
    BY <1>27 DEF All, vars, genVars
  <2> QED
    BY <2>1 DEF Control, PromptFits, Progress, genVars
<1>28. ASSUME UNCHANGED vars PROVE (PromptFits /\ Progress)'
  <2>1. UNCHANGED genVars /\ All' = All
    BY <1>28 DEF All, vars, genVars
  <2> QED
    BY <2>1 DEF Control, PromptFits, Progress, genVars
<1> QED
  BY <1>1, <1>2, <1>3, <1>4, <1>5, <1>6, <1>7, <1>8, <1>9, <1>10, <1>11, <1>12, <1>13, <1>14, <1>15, <1>16, <1>17, <1>18, <1>19, <1>20, <1>21, <1>22, <1>23, <1>24, <1>25, <1>26, <1>27, <1>28
     DEF Next, Engine, Sessions, Creates

(* Creating, closing and resetting leave the contents of a slot alone or    *)
(* wipe them.                                                              *)
LEMMA SessionsKeepOrWipe ==
  ASSUME TypeOK, NEW id \in Ids, Creates(id) \/ CloseSession(id) \/ ResetSession(id)
  PROVE  \A k \in 1..NSlots :
           \/ slots'[k].tokens = <<>> /\ slots'[k].kv = <<>>
           \/ /\ slots'[k].tokens = slots[k].tokens /\ slots'[k].kv = slots[k].kv
              /\ slots'[k].clean = slots[k].clean
<1> USE SizesAssumption
<1> DEFINE Fine == \A k \in 1..NSlots :
             \/ slots'[k].tokens = <<>> /\ slots'[k].kv = <<>>
             \/ /\ slots'[k].tokens = slots[k].tokens /\ slots'[k].kv = slots[k].kv
                /\ slots'[k].clean = slots[k].clean
<1>1. slots \in [1..NSlots -> Slot] /\ making \in [Ids -> 0..NSlots]
  BY DEF TypeOK
<1>2. ASSUME NEW j, NEW r, r.tokens = <<>>, r.kv = <<>>, slots' = [slots EXCEPT ![j] = r]
      PROVE Fine
  BY <1>1, <1>2
<1> HIDE DEF Fine
<1>3. CASE CreateFind(id)
  <2> DEFINE k == FindSlot(id)
  <2>1. \/ slots' = slots
        \/ slots' = [slots EXCEPT ![k].tokens = <<>>, ![k].kv = <<>>]
    BY <1>3, Zenon DEF CreateFind
  <2> HIDE DEF k
  <2> QED
    BY <2>1, <1>1 DEF Fine, Slot
<1>4. CASE CreateFill(id)
  <2> DEFINE r == [Empty EXCEPT !.valid = slots[making[id]].valid, !.id = Name(id), !.cap = LocalTokens]
  <2>1. slots' = [slots EXCEPT ![making[id]] = r] /\ r.tokens = <<>> /\ r.kv = <<>>
    BY <1>4 DEF CreateFill, Empty
  <2> HIDE DEF r
  <2> QED
    BY <2>1, <1>2
<1>5. CASE CreateFails(id)
  <2> DEFINE r == [Empty EXCEPT !.valid = slots[making[id]].valid, !.id = Name(id)]
  <2>1. slots' = [slots EXCEPT ![making[id]] = r] /\ r.tokens = <<>> /\ r.kv = <<>>
    BY <1>5 DEF CreateFails, Empty
  <2> HIDE DEF r
  <2> QED
    BY <2>1, <1>2
<1>6. CASE CreatePublish(id)
  BY <1>6, <1>1 DEF CreatePublish, Fine, Slot
<1>7. CASE CloseSession(id)
  <2> DEFINE k == FindSlot(id)
             r == [Empty EXCEPT !.id = id]
  <2>1. slots' = slots \/ slots' = [slots EXCEPT ![k] = r]
    BY <1>7, Zenon DEF CloseSession
  <2>2. r.tokens = <<>> /\ r.kv = <<>>
    BY DEF Empty
  <2> HIDE DEF r, k
  <2> QED
    BY <2>1, <2>2, <1>1 DEF Fine, Slot
<1>8. CASE ResetSession(id)
  <2> DEFINE k == FindSlot(id)
  <2>1. slots' = slots \/ slots' = [slots EXCEPT ![k].tokens = <<>>, ![k].kv = <<>>]
    BY <1>8, Zenon DEF ResetSession
  <2> HIDE DEF k
  <2> QED
    BY <2>1, <1>1 DEF Fine, Slot
<1> QED
  BY <1>3, <1>4, <1>5, <1>6, <1>7, <1>8 DEF Creates, Fine

(* A slot that lookup found keeps the prefix or loses everything, and what   *)
(* is stored goes with its tokens.                                         *)
LEMMA FoundSlotStays ==
  ASSUME Control, [Next]_vars
  PROVE  (FoundStays /\ KvLaidOut)'
<1> USE SizesAssumption
<1>0. ASSUME UNCHANGED <<pc, prompt, cached, ref, spoiled>>,
             \A k \in 1..NSlots :
               \/ slots'[k].tokens = <<>> /\ slots'[k].kv = <<>>
               \/ slots'[k].tokens = slots[k].tokens /\ slots'[k].kv = slots[k].kv
      PROVE (FoundStays /\ KvLaidOut)'
  <2>1. KvLaidOut'
    <3>1. \A k \in 1..NSlots : Len(slots[k].kv) = NPlanes * Len(slots[k].tokens)
      BY DEF Control, KvLaidOut
    <3>2. ASSUME NEW k \in 1..NSlots, slots'[k].tokens = <<>>, slots'[k].kv = <<>>
          PROVE  Len(slots'[k].kv) = NPlanes * Len(slots'[k].tokens)
      <4>1. Len(<<>>) = 0 /\ NPlanes * 0 = 0
        OBVIOUS
      <4> QED
        BY <3>2, <4>1, Zenon
    <3>3. ASSUME NEW k \in 1..NSlots, slots'[k].tokens = slots[k].tokens, slots'[k].kv = slots[k].kv
          PROVE  Len(slots'[k].kv) = NPlanes * Len(slots'[k].tokens)
      BY <3>1, <3>3, Zenon
    <3> QED
      BY <1>0, <3>2, <3>3, Zenon DEF KvLaidOut
  <2>2. pc \in {"read", "copy"} => cached # 0
    BY DEF Control, PromptFits, Progress
  <2> QED
    BY <1>0, <2>1, <2>2 DEF Control, FoundStays, Matched
<1>1. ASSUME Lookup PROVE (FoundStays /\ KvLaidOut)'
  <2> DEFINE k == FindSlot(Name(cur))
             c == CachedPrefix(Name(cur), prompt)
  <2>1. /\ c \in 0..Len(prompt)
        /\ c > 0 => k \in 1..NSlots /\ \A i \in 1..c : slots[k].tokens[i] = prompt[i]
    BY LookupIsSound DEF Control, TypeOK
  <2>2. /\ cached' = c /\ ref' = k /\ pc' = (IF c > 0 THEN "read" ELSE "plan")
        /\ UNCHANGED <<slots, prompt>>
    BY <1>1 DEF Lookup, kvVars
  <2> HIDE DEF k, c
  <2> QED
    BY <2>1, <2>2 DEF Control, FoundStays, KvLaidOut, Matched
<1>2. ASSUME Read PROVE (FoundStays /\ KvLaidOut)'
  <2> DEFINE k == FindSlot(Name(cur))
  <2>1. /\ pc = "read" /\ k # 0 /\ ref' = k /\ spoiled' = (k # ref) /\ pc' = "copy"
        /\ UNCHANGED <<slots, prompt, cached>>
    BY <1>2 DEF Read, kvVars
  <2>2. k \in 1..NSlots
    BY <2>1, FindSlotFinds
  <2> HIDE DEF k
  <2> QED
    BY <2>1, <2>2 DEF Control, FoundStays, KvLaidOut, Matched
<1>3. ASSUME ReadFails PROVE (FoundStays /\ KvLaidOut)'
  BY <1>3 DEF Control, FoundStays, KvLaidOut, Matched, kvVars, ReadFails
<1>4. ASSUME Copy PROVE (FoundStays /\ KvLaidOut)'
  BY <1>4 DEF Control, FoundStays, KvLaidOut, Matched, kvVars, Copy
<1>5. ASSUME CopyFails PROVE (FoundStays /\ KvLaidOut)'
  BY <1>5 DEF Control, FoundStays, KvLaidOut, Matched, kvVars, CopyFails
<1>6. ASSUME Expire PROVE (FoundStays /\ KvLaidOut)'
  BY <1>6 DEF Control, FoundStays, KvLaidOut, Matched, kvVars, Return, Expire
<1>7. ASSUME Plan PROVE (FoundStays /\ KvLaidOut)'
  BY <1>7 DEF Control, FoundStays, KvLaidOut, Matched, kvVars, Plan
<1>8. ASSUME RunLast PROVE (FoundStays /\ KvLaidOut)'
  BY <1>8 DEF Control, FoundStays, KvLaidOut, Matched, kvVars, RunLast
<1>9. ASSUME Resume PROVE (FoundStays /\ KvLaidOut)'
  BY <1>9 DEF Control, FoundStays, KvLaidOut, Matched, kvVars, Resume
<1>10. ASSUME Prefill PROVE (FoundStays /\ KvLaidOut)'
  BY <1>10 DEF Control, FoundStays, KvLaidOut, Matched, kvVars, Prefill
<1>11. ASSUME Prefilled PROVE (FoundStays /\ KvLaidOut)'
  BY <1>11 DEF Control, FoundStays, KvLaidOut, Matched, kvVars, Prefilled
<1>12. ASSUME PromptFails PROVE (FoundStays /\ KvLaidOut)'
  BY <1>12 DEF Control, FoundStays, KvLaidOut, Matched, kvVars, Return, PromptFails
<1>13. ASSUME Emit PROVE (FoundStays /\ KvLaidOut)'
  BY <1>13 DEF Control, FoundStays, KvLaidOut, Matched, kvVars, Emit
<1>14. ASSUME Step PROVE (FoundStays /\ KvLaidOut)'
  BY <1>14 DEF Control, FoundStays, KvLaidOut, Matched, kvVars, Step
<1>15. ASSUME StepFails PROVE (FoundStays /\ KvLaidOut)'
  BY <1>15 DEF Control, FoundStays, KvLaidOut, Matched, kvVars, StepFails
<1>16. ASSUME Decoded PROVE (FoundStays /\ KvLaidOut)'
  BY <1>16 DEF Control, FoundStays, KvLaidOut, Matched, kvVars, Decoded
<1>17. ASSUME StoreFind PROVE (FoundStays /\ KvLaidOut)'
  <2> DEFINE k == FindSlot(Name(cur))
  <2>1. k # 0 /\ ref' = k /\ pc' = "write" /\ slots' = slots
    BY <1>17 DEF StoreFind, Writable, kvVars
  <2>2. k \in 1..NSlots
    BY <2>1, FindSlotFinds
  <2> HIDE DEF k
  <2> QED
    BY <2>1, <2>2 DEF Control, FoundStays, KvLaidOut, Matched
<1>18. ASSUME Write PROVE (FoundStays /\ KvLaidOut)'
  <2>1. All \in Seq(Tokens) /\ Len(All) \in 1..NCtx
    BY <1>18, AllIsASeq DEF Control, TypeOK, PromptFits, Progress, Write
  <2> DEFINE n == Len(All)
             down == Downloaded(n)
             b == ~spoiled /\ seqLen = n
  <2>2. Len(down) = n * NPlanes
    BY <2>1, DownloadIsLaidOut DEF Control
  <2>3. slots' = [slots EXCEPT ![ref].tokens = All, ![ref].kv = down, ![ref].clean = b]
    BY <1>18 DEF Write, Store
  <2>4. /\ slots \in [1..NSlots -> Slot] /\ n * NPlanes = NPlanes * n
        /\ \A k \in 1..NSlots : Len(slots[k].kv) = NPlanes * Len(slots[k].tokens)
    BY <2>1, SizesAssumption DEF Control, TypeOK, KvLaidOut
  <2>5. pc' = "idle"
    BY <1>18 DEF Write, Return
  <2> HIDE DEF down, b
  <2>6. KvLaidOut'
    BY <2>2, <2>3, <2>4 DEF KvLaidOut, Slot
  <2> QED
    BY <2>5, <2>6 DEF FoundStays
<1>19. ASSUME StoreFails PROVE (FoundStays /\ KvLaidOut)'
  BY <1>19 DEF Control, FoundStays, KvLaidOut, Matched, kvVars, Return, StoreFails
<1>20. ASSUME DeadlinePasses PROVE (FoundStays /\ KvLaidOut)'
  BY <1>20 DEF Control, FoundStays, KvLaidOut, Matched, kvVars, DeadlinePasses
<1>21. ASSUME NEW id \in Ids, NEW p \in Prompts, Start(id, p) PROVE (FoundStays /\ KvLaidOut)'
  BY <1>21 DEF Control, FoundStays, KvLaidOut, Matched, kvVars, Start
<1>22. ASSUME NEW id \in Ids, id # cur, CreateFind(id), UNCHANGED genVars PROVE (FoundStays /\ KvLaidOut)'
  <2>1. \A k \in 1..NSlots :
           \/ slots'[k].tokens = <<>> /\ slots'[k].kv = <<>>
           \/ slots'[k].tokens = slots[k].tokens /\ slots'[k].kv = slots[k].kv
    BY <1>22, SessionsKeepOrWipe DEF Control, Creates
  <2> QED
    BY <1>22, <2>1, <1>0 DEF genVars
<1>23. ASSUME NEW id \in Ids, id # cur, CreateFill(id), UNCHANGED genVars PROVE (FoundStays /\ KvLaidOut)'
  <2>1. \A k \in 1..NSlots :
           \/ slots'[k].tokens = <<>> /\ slots'[k].kv = <<>>
           \/ slots'[k].tokens = slots[k].tokens /\ slots'[k].kv = slots[k].kv
    BY <1>23, SessionsKeepOrWipe DEF Control, Creates
  <2> QED
    BY <1>23, <2>1, <1>0 DEF genVars
<1>24. ASSUME NEW id \in Ids, id # cur, CreateFails(id), UNCHANGED genVars PROVE (FoundStays /\ KvLaidOut)'
  <2>1. \A k \in 1..NSlots :
           \/ slots'[k].tokens = <<>> /\ slots'[k].kv = <<>>
           \/ slots'[k].tokens = slots[k].tokens /\ slots'[k].kv = slots[k].kv
    BY <1>24, SessionsKeepOrWipe DEF Control, Creates
  <2> QED
    BY <1>24, <2>1, <1>0 DEF genVars
<1>25. ASSUME NEW id \in Ids, id # cur, CreatePublish(id), UNCHANGED genVars PROVE (FoundStays /\ KvLaidOut)'
  <2>1. \A k \in 1..NSlots :
           \/ slots'[k].tokens = <<>> /\ slots'[k].kv = <<>>
           \/ slots'[k].tokens = slots[k].tokens /\ slots'[k].kv = slots[k].kv
    BY <1>25, SessionsKeepOrWipe DEF Control, Creates
  <2> QED
    BY <1>25, <2>1, <1>0 DEF genVars
<1>26. ASSUME NEW id \in Ids, id # cur, CloseSession(id), UNCHANGED genVars PROVE (FoundStays /\ KvLaidOut)'
  <2>1. \A k \in 1..NSlots :
           \/ slots'[k].tokens = <<>> /\ slots'[k].kv = <<>>
           \/ slots'[k].tokens = slots[k].tokens /\ slots'[k].kv = slots[k].kv
    BY <1>26, SessionsKeepOrWipe DEF Control, Creates
  <2> QED
    BY <1>26, <2>1, <1>0 DEF genVars
<1>27. ASSUME NEW id \in Ids, id # cur, ResetSession(id), UNCHANGED genVars PROVE (FoundStays /\ KvLaidOut)'
  <2>1. \A k \in 1..NSlots :
           \/ slots'[k].tokens = <<>> /\ slots'[k].kv = <<>>
           \/ slots'[k].tokens = slots[k].tokens /\ slots'[k].kv = slots[k].kv
    BY <1>27, SessionsKeepOrWipe DEF Control, Creates
  <2> QED
    BY <1>27, <2>1, <1>0 DEF genVars
<1>28. ASSUME UNCHANGED vars PROVE (FoundStays /\ KvLaidOut)'
  BY <1>28 DEF Control, FoundStays, KvLaidOut, Matched, vars, kvVars, genVars
<1> QED
  BY <1>1, <1>2, <1>3, <1>4, <1>5, <1>6, <1>7, <1>8, <1>9, <1>10, <1>11, <1>12, <1>13, <1>14, <1>15, <1>16, <1>17, <1>18, <1>19, <1>20, <1>21, <1>22, <1>23, <1>24, <1>25, <1>26, <1>27, <1>28
     DEF Next, Engine, Sessions, Creates

(* Before the first token is decoded, the sequence is the prompt. *)
LEMMA PromptIsAll ==
  ASSUME prompt \in Seq(Tokens), out = <<>>
  PROVE  All = prompt
<1> QED
  BY ConcatEmptySeq DEF All

LEMMA OneToken ==
  ASSUME NEW t \in Seq(Tokens), NEW n \in Nat, n + 1 <= Len(t)
  PROVE  SubSeq(t, n + 1, n + 1) = <<t[n + 1]>> /\ t[n + 1] \in Tokens
<1>1. t[n + 1] \in Tokens /\ <<t[n + 1]>> \in Seq(Tokens)
  OBVIOUS
<1>2. /\ SubSeq(t, n + 1, n + 1) \in Seq(Tokens) /\ Len(SubSeq(t, n + 1, n + 1)) = 1
      /\ SubSeq(t, n + 1, n + 1)[1] = t[n + 1]
  <2>1. \A i \in (n + 1)..(n + 1) : t[i] \in Tokens
    BY <1>1
  <2> QED
    BY <2>1, SubSeqProperties
<1>3. Len(<<t[n + 1]>>) = 1 /\ <<t[n + 1]>>[1] = t[n + 1]
  OBVIOUS
<1>4. \A i \in 1..1 : SubSeq(t, n + 1, n + 1)[i] = <<t[n + 1]>>[i]
  <2> TAKE i \in 1..1
  <2>1. i = 1
    OBVIOUS
  <2> QED
    BY <2>1, <1>2, <1>3
<1>5. SubSeq(t, n + 1, n + 1) = <<t[n + 1]>>
  BY <1>1, <1>2, <1>3, <1>4, SeqEqual
<1> QED
  BY <1>1, <1>5

LEMMA TokenIsExact ==
  ASSUME TypeOK, NEW t \in Seq(Tokens), NEW n \in Nat, n + 1 <= Len(t), n + 1 <= NCtx,
         Holds(n, t), Forward(n, SubSeq(t, n + 1, n + 1), NPlanes)
  PROVE  \A l \in Planes : \A i \in 1..(n + 1) : gpu'[l][i] = Unit(l, SubSeq(t, 1, i))
<1> DEFINE m == 1
<1>1. /\ m \in Nat \ {0} /\ n + m <= Len(t) /\ n + m <= NCtx
      /\ Forward(n, SubSeq(t, n + 1, n + m), NPlanes)
  OBVIOUS
<1> HIDE DEF m
<1>2. \A l \in Planes : \A i \in 1..(n + m) : gpu'[l][i] = Unit(l, SubSeq(t, 1, i))
  BY <1>1, ForwardIsExact
<1> QED
  BY <1>2 DEF m

LEMMA PrefixOfAppend ==
  ASSUME NEW s \in Seq(Tokens), NEW t \in Seq(Tokens), NEW x \in Tokens,
         NEW i \in 1..Len(s \o t)
  PROVE  SubSeq(s \o Append(t, x), 1, i) = SubSeq(s \o t, 1, i)
<1>1. s \o t \in Seq(Tokens) /\ Len(s \o t) \in Nat /\ <<x>> \in Seq(Tokens)
  BY ConcatProperties
<1>2. s \o Append(t, x) = (s \o t) \o <<x>>
  BY <1>1, AppendIsConcat, ConcatAssociative
<1>3. 1 \in 1..(Len(s \o t) + 1) /\ i \in 0..Len(s \o t)
  BY <1>1
<1>4. SubSeq((s \o t) \o <<x>>, 1, i) = SubSeq(s \o t, 1, i)
  BY <1>1, <1>3, SubSeqOfConcat1
<1> QED
  BY <1>2, <1>4

(* Every action keeps what the engine attends to exact. *)
LEMMA AttentionStaysExact ==
  ASSUME Inv, TypeOK', [Next]_vars
  PROVE  (AttentionIsExact /\ LastIsExact)'
<1>0. /\ All \in Seq(Tokens) /\ Len(All) \in Nat /\ Len(All) = Len(prompt) + Len(out)
      /\ Len(All)' \in Nat
  BY ConcatProperties DEF Inv, Control, TypeOK, All
<1>1. ASSUME Lookup PROVE (AttentionIsExact /\ LastIsExact)'
  <2>1. seqLen' = 0 /\ pc' \in {"read", "plan"} /\ Len(All)' \in Nat
    BY <1>1, <1>0 DEF Inv, Control, Progress, Lookup
  <2> QED
    BY <2>1 DEF AttentionIsExact, LastIsExact, Holds
<1>2. ASSUME Read PROVE (AttentionIsExact /\ LastIsExact)'
  <2>1. pc' = "copy"
    BY <1>2 DEF Read
  <2> QED
    BY <2>1 DEF AttentionIsExact, LastIsExact
<1>3. ASSUME ReadFails PROVE (AttentionIsExact /\ LastIsExact)'
  <2>1. seqLen' = 0 /\ pc' # "resume" /\ Len(All)' \in Nat
    BY <1>3, <1>0 DEF Control, Progress, ReadFails
  <2> QED
    BY <2>1 DEF AttentionIsExact, LastIsExact, Holds
<1>4. ASSUME Copy PROVE (AttentionIsExact /\ LastIsExact)'
  <2>1. pc' = "plan" /\ seqLen' = cached /\ prompt' = prompt /\ out' = <<>>
        /\ cached \in 1..Len(prompt)
    BY <1>4 DEF Inv, Control, Progress, Copy
  <2>2. All' = prompt
    BY <2>1, ConcatEmptySeq DEF Inv, Control, TypeOK, All
  <2>3. CASE spoiled'
    BY <2>1, <2>3 DEF AttentionIsExact, LastIsExact
  <2>4. CASE ~spoiled'
    <3>1. /\ pc = "copy" /\ ~spoiled /\ slots[ref].clean /\ Len(slots[ref].tokens) = cached
          /\ Uploaded(cached, Copied(ref, cached), NPlanes)
      BY <1>4, <2>4 DEF Copy
    <3>2. Matched(ref)
      BY <3>1 DEF Inv, Control, FoundStays
    <3>3. \A l \in Planes : \A i \in 1..cached : gpu'[l][i] = Unit(l, SubSeq(prompt, 1, i))
      BY <3>1, <3>2, CopyIsExact DEF Inv
    <3> QED
      BY <2>1, <2>2, <3>3 DEF AttentionIsExact, LastIsExact, Holds
  <2> QED
    BY <2>3, <2>4
<1>5. ASSUME CopyFails PROVE (AttentionIsExact /\ LastIsExact)'
  <2>1. seqLen' = 0 /\ pc' # "resume" /\ Len(All)' \in Nat
    BY <1>5, <1>0 DEF Control, Progress, CopyFails
  <2> QED
    BY <2>1 DEF AttentionIsExact, LastIsExact, Holds
<1>6. ASSUME Expire PROVE (AttentionIsExact /\ LastIsExact)'
  <2>1. pc' = "idle"
    BY <1>6 DEF Expire, Return
  <2> QED
    BY <2>1 DEF AttentionIsExact, LastIsExact
<1>7. ASSUME Plan PROVE (AttentionIsExact /\ LastIsExact)'
  <2>1. /\ pc = "plan" /\ pc' # "resume" /\ gpu' = gpu /\ spoiled' = spoiled /\ All' = All
        /\ seqLen \in Nat /\ seqLen' \in Nat /\ seqLen' <= seqLen
    BY <1>7 DEF Inv, Control, TypeOK, PromptFits, Progress, All, Plan
  <2>2. ~spoiled => Holds(seqLen, All)
    BY <2>1 DEF Inv, AttentionIsExact
  <2>3. ~spoiled => /\ seqLen' <= Len(All)
                    /\ \A l \in Planes : \A i \in 1..seqLen' : gpu[l][i] = Unit(l, SubSeq(All, 1, i))
    BY <1>0, <2>1, <2>2 DEF Holds
  <2> QED
    BY <2>1, <2>3 DEF AttentionIsExact, LastIsExact, Holds
<1>8. ASSUME RunLast PROVE (AttentionIsExact /\ LastIsExact)'
  <2>1. /\ pc = "last" /\ pc' = "resume" /\ All' = All /\ All = prompt /\ spoiled' = spoiled
        /\ seqLen' = seqLen /\ seqLen \in Nat /\ seqLen + 1 = Len(All) /\ Len(All) <= NCtx
    BY <1>8, PromptIsAll DEF Inv, Control, TypeOK, PromptFits, Progress, All, RunLast
  <2>2. Forward(seqLen, SubSeq(All, seqLen + 1, seqLen + 1), NPlanes)
    <3>1. SubSeq(All, seqLen + 1, seqLen + 1) = <<prompt[Len(prompt)]>>
      BY <1>0, <2>1, OneToken
    <3>2. Forward(seqLen, <<prompt[Len(prompt)]>>, NPlanes)
      BY <1>8 DEF RunLast, Succeeds
    <3> QED
      BY <3>1, <3>2
  <2>3. CASE spoiled
    BY <2>1, <2>3 DEF AttentionIsExact, LastIsExact
  <2>4. CASE ~spoiled
    <3>1. Holds(seqLen, All)
      BY <2>1, <2>4 DEF Inv, AttentionIsExact
    <3>2. \A l \in Planes : \A i \in 1..(seqLen + 1) : gpu'[l][i] = Unit(l, SubSeq(All, 1, i))
      BY <1>0, <2>1, <2>2, <3>1, TokenIsExact DEF Inv, Control
    <3> QED
      BY <2>1, <3>2 DEF AttentionIsExact, LastIsExact, Holds
  <2> QED
    BY <2>3, <2>4
<1>9. ASSUME Resume PROVE (AttentionIsExact /\ LastIsExact)'
  <2>1. /\ pc = "resume" /\ pc' = "decode" /\ All' = All /\ gpu' = gpu /\ spoiled' = spoiled
        /\ seqLen' = seqLen + 1
    BY <1>9 DEF All, Resume
  <2> QED
    BY <2>1 DEF Inv, AttentionIsExact, LastIsExact, Holds
<1>10. ASSUME Prefill PROVE (AttentionIsExact /\ LastIsExact)'
  <2> DEFINE m == Len(Piece)
  <2>1. /\ pc \in {"chunks", "tokens"} /\ pc' = pc /\ All' = All /\ All = prompt
        /\ spoiled' = spoiled /\ seqLen = cached /\ seqLen \in Nat /\ seqLen' = seqLen + m
        /\ ~Refused(seqLen, Piece) /\ Forward(seqLen, Piece, NPlanes)
    BY <1>10, PromptIsAll DEF Inv, Control, TypeOK, Progress, All, Prefill, Succeeds
  <2>2. /\ m \in Nat \ {0} /\ cached + m <= Len(prompt)
        /\ Piece = SubSeq(prompt, cached + 1, cached + m)
    BY <1>10, PieceIsNext DEF Inv, Control, TypeOK, Prefill
  <2>3. Forward(seqLen, SubSeq(All, seqLen + 1, seqLen + m), NPlanes) /\ seqLen + m <= NCtx
    <3>1. SubSeq(All, seqLen + 1, seqLen + m) = Piece
      BY <2>1, <2>2
    <3>2. seqLen + m <= NCtx
      BY <2>1, <2>2, CtxAssumption DEF Refused
    <3> QED
      BY <2>1, <3>1, <3>2
  <2> HIDE DEF m
  <2>4. CASE spoiled
    BY <2>1, <2>4 DEF AttentionIsExact, LastIsExact
  <2>5. CASE ~spoiled
    <3>1. Holds(seqLen, All)
      BY <2>1, <2>5 DEF Inv, AttentionIsExact
    <3>2. \A l \in Planes : \A i \in 1..(seqLen + m) : gpu'[l][i] = Unit(l, SubSeq(All, 1, i))
      BY <1>0, <2>1, <2>2, <2>3, <3>1, ForwardIsExact DEF Inv, Control
    <3> QED
      BY <2>1, <2>2, <3>2 DEF AttentionIsExact, LastIsExact, Holds
  <2> QED
    BY <2>4, <2>5
<1>11. ASSUME Prefilled PROVE (AttentionIsExact /\ LastIsExact)'
  <2>1. gpu' = gpu /\ All' = All /\ seqLen' = seqLen /\ spoiled' = spoiled /\ pc' # "resume"
        /\ pc \notin {"idle", "lookup", "read", "copy"}
    BY <1>11 DEF All, Prefilled
  <2> QED
    BY <2>1 DEF Inv, AttentionIsExact, LastIsExact, Holds
<1>12. ASSUME PromptFails PROVE (AttentionIsExact /\ LastIsExact)'
  <2>1. pc' = "idle"
    BY <1>12 DEF PromptFails, Return
  <2> QED
    BY <2>1 DEF AttentionIsExact, LastIsExact
<1>13. ASSUME Emit PROVE (AttentionIsExact /\ LastIsExact)'
  <2>1. /\ pc = "decode" /\ pc' = "step" /\ gpu' = gpu /\ seqLen' = seqLen /\ spoiled' = spoiled
        /\ next \in Tokens /\ All' = prompt \o Append(out, next)
    BY <1>13 DEF Inv, Control, TypeOK, All, Emit
  <2>2. \A i \in 1..Len(All) : SubSeq(All', 1, i) = SubSeq(All, 1, i)
    <3>1. prompt \in Seq(Tokens) /\ out \in Seq(Tokens)
      BY DEF Inv, Control, TypeOK
    <3>2. \A i \in 1..Len(prompt \o out) :
            SubSeq(prompt \o Append(out, next), 1, i) = SubSeq(prompt \o out, 1, i)
      BY <2>1, <3>1, PrefixOfAppend
    <3> QED
      BY <2>1, <3>2 DEF All
  <2>3. seqLen = Len(All) /\ Len(All)' = Len(All) + 1
    BY <1>0, <2>1, ConcatProperties, AppendProperties DEF Inv, Control, TypeOK, Progress, All
  <2>4. ~spoiled => Holds(seqLen, All)
    BY <2>1 DEF Inv, AttentionIsExact
  <2>5. ~spoiled => \A l \in Planes : \A i \in 1..seqLen : gpu[l][i] = Unit(l, SubSeq(All', 1, i))
    BY <2>2, <2>3, <2>4 DEF Holds
  <2>6. seqLen <= Len(All)'
    BY <1>0, <2>3
  <2> QED
    BY <2>1, <2>5, <2>6 DEF AttentionIsExact, LastIsExact, Holds
<1>14. ASSUME Step PROVE (AttentionIsExact /\ LastIsExact)'
  <2>1. /\ pc = "step" /\ pc' = "decode" /\ All' = All /\ spoiled' = spoiled
        /\ seqLen' = seqLen + 1 /\ seqLen \in Nat /\ seqLen + 1 = Len(All) /\ seqLen < NCtx
        /\ Forward(seqLen, <<next>>, NPlanes)
    BY <1>14 DEF Inv, Control, TypeOK, Progress, All, Step, Succeeds
  <2>2. All[Len(All)] = next
    <3>1. prompt \in Seq(Tokens) /\ out \in Seq(Tokens)
      BY DEF Inv, Control, TypeOK
    <3>2. out # <<>> /\ out[Len(out)] = next
      BY <2>1 DEF Inv, Control, Progress
    <3>3. Len(out) \in Nat \ {0} /\ Len(prompt) \in Nat
      BY <3>1, <3>2, EmptySeq
    <3>4. Len(All) = Len(prompt) + Len(out)
      BY <3>1, ConcatProperties DEF All
    <3>5. All[Len(prompt) + Len(out)] = out[(Len(prompt) + Len(out)) - Len(prompt)]
      BY <3>1, <3>3, ConcatProperties DEF All
    <3> QED
      BY <3>2, <3>3, <3>4, <3>5
  <2>3. Forward(seqLen, SubSeq(All, seqLen + 1, seqLen + 1), NPlanes)
    <3>1. SubSeq(All, seqLen + 1, seqLen + 1) = <<All[Len(All)]>>
      BY <1>0, <2>1, OneToken
    <3>2. SubSeq(All, seqLen + 1, seqLen + 1) = <<next>>
      BY <2>2, <3>1
    <3> QED
      BY <2>1, <3>2
  <2>4. CASE spoiled
    BY <2>1, <2>4 DEF AttentionIsExact, LastIsExact
  <2>5. CASE ~spoiled
    <3>1. Holds(seqLen, All)
      BY <2>1, <2>5 DEF Inv, AttentionIsExact
    <3>2. seqLen + 1 <= NCtx /\ seqLen + 1 <= Len(All) /\ seqLen \in Nat /\ TypeOK
      BY <2>1, CtxAssumption DEF Inv, Control
    <3>3. \A l \in Planes : \A i \in 1..(seqLen + 1) : gpu'[l][i] = Unit(l, SubSeq(All, 1, i))
      BY <1>0, <2>3, <3>1, <3>2, TokenIsExact
    <3> QED
      BY <2>1, <3>3 DEF AttentionIsExact, LastIsExact, Holds
  <2> QED
    BY <2>4, <2>5
<1>15. ASSUME StepFails PROVE (AttentionIsExact /\ LastIsExact)'
  <2>1. /\ pc = "step" /\ pc' = "store" /\ All' = All /\ spoiled' = spoiled /\ seqLen' = seqLen
        /\ seqLen \in 0..NCtx /\ Fails(<<next>>)
    BY <1>15 DEF Inv, Control, TypeOK, All, StepFails
  <2>2. \A l \in Planes : \A i \in 1..seqLen : gpu'[l][i] = gpu[l][i]
    BY <2>1, CtxAssumption, ForwardKeepsTheRest DEF Fails
  <2> QED
    BY <2>1, <2>2 DEF Inv, AttentionIsExact, LastIsExact, Holds
<1>16. ASSUME Decoded PROVE (AttentionIsExact /\ LastIsExact)'
  <2>1. gpu' = gpu /\ All' = All /\ seqLen' = seqLen /\ spoiled' = spoiled /\ pc' # "resume"
        /\ pc \notin {"idle", "lookup", "read", "copy"}
    BY <1>16 DEF All, Decoded
  <2> QED
    BY <2>1 DEF Inv, AttentionIsExact, LastIsExact, Holds
<1>17. ASSUME StoreFind PROVE (AttentionIsExact /\ LastIsExact)'
  <2>1. gpu' = gpu /\ All' = All /\ seqLen' = seqLen /\ spoiled' = spoiled /\ pc' # "resume"
        /\ pc \notin {"idle", "lookup", "read", "copy"}
    BY <1>17 DEF All, StoreFind
  <2> QED
    BY <2>1 DEF Inv, AttentionIsExact, LastIsExact, Holds
<1>18. ASSUME Write PROVE (AttentionIsExact /\ LastIsExact)'
  <2>1. pc' = "idle"
    BY <1>18 DEF Write, Return
  <2> QED
    BY <2>1 DEF AttentionIsExact, LastIsExact
<1>19. ASSUME StoreFails PROVE (AttentionIsExact /\ LastIsExact)'
  <2>1. pc' = "idle"
    BY <1>19 DEF StoreFails, Return
  <2> QED
    BY <2>1 DEF AttentionIsExact, LastIsExact
<1>20. ASSUME DeadlinePasses PROVE (AttentionIsExact /\ LastIsExact)'
  <2>1. gpu' = gpu /\ All' = All /\ seqLen' = seqLen /\ spoiled' = spoiled /\ pc' = pc
    BY <1>20 DEF All, DeadlinePasses
  <2> QED
    BY <2>1 DEF Inv, AttentionIsExact, LastIsExact, Holds
<1>21. ASSUME NEW id \in Ids, NEW p \in Prompts, Start(id, p) PROVE (AttentionIsExact /\ LastIsExact)'
  <2>1. pc' \in {"idle", "lookup"}
    BY <1>21 DEF Start
  <2> QED
    BY <2>1 DEF AttentionIsExact, LastIsExact
<1>22. ASSUME NEW id \in Ids, id # cur, CreateFind(id), UNCHANGED genVars PROVE (AttentionIsExact /\ LastIsExact)'
  <2>1. UNCHANGED genVars /\ All' = All
    BY <1>22 DEF All, vars, genVars
  <2> QED
    BY <2>1 DEF Inv, AttentionIsExact, LastIsExact, Holds, genVars
<1>23. ASSUME NEW id \in Ids, id # cur, CreateFill(id), UNCHANGED genVars PROVE (AttentionIsExact /\ LastIsExact)'
  <2>1. UNCHANGED genVars /\ All' = All
    BY <1>23 DEF All, vars, genVars
  <2> QED
    BY <2>1 DEF Inv, AttentionIsExact, LastIsExact, Holds, genVars
<1>24. ASSUME NEW id \in Ids, id # cur, CreateFails(id), UNCHANGED genVars PROVE (AttentionIsExact /\ LastIsExact)'
  <2>1. UNCHANGED genVars /\ All' = All
    BY <1>24 DEF All, vars, genVars
  <2> QED
    BY <2>1 DEF Inv, AttentionIsExact, LastIsExact, Holds, genVars
<1>25. ASSUME NEW id \in Ids, id # cur, CreatePublish(id), UNCHANGED genVars PROVE (AttentionIsExact /\ LastIsExact)'
  <2>1. UNCHANGED genVars /\ All' = All
    BY <1>25 DEF All, vars, genVars
  <2> QED
    BY <2>1 DEF Inv, AttentionIsExact, LastIsExact, Holds, genVars
<1>26. ASSUME NEW id \in Ids, id # cur, CloseSession(id), UNCHANGED genVars PROVE (AttentionIsExact /\ LastIsExact)'
  <2>1. UNCHANGED genVars /\ All' = All
    BY <1>26 DEF All, vars, genVars
  <2> QED
    BY <2>1 DEF Inv, AttentionIsExact, LastIsExact, Holds, genVars
<1>27. ASSUME NEW id \in Ids, id # cur, ResetSession(id), UNCHANGED genVars PROVE (AttentionIsExact /\ LastIsExact)'
  <2>1. UNCHANGED genVars /\ All' = All
    BY <1>27 DEF All, vars, genVars
  <2> QED
    BY <2>1 DEF Inv, AttentionIsExact, LastIsExact, Holds, genVars
<1>28. ASSUME UNCHANGED vars PROVE (AttentionIsExact /\ LastIsExact)'
  <2>1. UNCHANGED genVars /\ All' = All
    BY <1>28 DEF All, vars, genVars
  <2> QED
    BY <2>1 DEF Inv, AttentionIsExact, LastIsExact, Holds, genVars
<1> QED
  BY <1>1, <1>2, <1>3, <1>4, <1>5, <1>6, <1>7, <1>8, <1>9, <1>10, <1>11, <1>12, <1>13, <1>14, <1>15, <1>16, <1>17, <1>18, <1>19, <1>20, <1>21, <1>22, <1>23, <1>24, <1>25, <1>26, <1>27, <1>28
     DEF Next, Engine, Sessions, Creates

(* Every action keeps what is stored exact. *)
LEMMA StoredStaysExact ==
  ASSUME Inv, [Next]_vars
  PROVE  StoredIsExact'
<1>0. ASSUME slots' = slots PROVE StoredIsExact'
  BY <1>0 DEF Inv, StoredIsExact
<1>1. ASSUME Lookup PROVE StoredIsExact'
  BY <1>1, <1>0 DEF kvVars, Lookup
<1>2. ASSUME Read PROVE StoredIsExact'
  BY <1>2, <1>0 DEF kvVars, Read
<1>3. ASSUME ReadFails PROVE StoredIsExact'
  BY <1>3, <1>0 DEF kvVars, ReadFails
<1>4. ASSUME Copy PROVE StoredIsExact'
  BY <1>4, <1>0 DEF kvVars, Copy
<1>5. ASSUME CopyFails PROVE StoredIsExact'
  BY <1>5, <1>0 DEF kvVars, CopyFails
<1>6. ASSUME Expire PROVE StoredIsExact'
  BY <1>6, <1>0 DEF kvVars, Return, Expire
<1>7. ASSUME Plan PROVE StoredIsExact'
  BY <1>7, <1>0 DEF kvVars, Plan
<1>8. ASSUME RunLast PROVE StoredIsExact'
  BY <1>8, <1>0 DEF kvVars, RunLast
<1>9. ASSUME Resume PROVE StoredIsExact'
  BY <1>9, <1>0 DEF kvVars, Resume
<1>10. ASSUME Prefill PROVE StoredIsExact'
  BY <1>10, <1>0 DEF kvVars, Prefill
<1>11. ASSUME Prefilled PROVE StoredIsExact'
  BY <1>11, <1>0 DEF kvVars, Prefilled
<1>12. ASSUME PromptFails PROVE StoredIsExact'
  BY <1>12, <1>0 DEF kvVars, Return, PromptFails
<1>13. ASSUME Emit PROVE StoredIsExact'
  BY <1>13, <1>0 DEF kvVars, Emit
<1>14. ASSUME Step PROVE StoredIsExact'
  BY <1>14, <1>0 DEF kvVars, Step
<1>15. ASSUME StepFails PROVE StoredIsExact'
  BY <1>15, <1>0 DEF kvVars, StepFails
<1>16. ASSUME Decoded PROVE StoredIsExact'
  BY <1>16, <1>0 DEF kvVars, Decoded
<1>17. ASSUME StoreFind PROVE StoredIsExact'
  BY <1>17, <1>0 DEF kvVars, StoreFind
<1>18. ASSUME Write PROVE StoredIsExact'
  <2>1. /\ All \in Seq(Tokens) /\ Len(All) \in 1..NCtx /\ pc = "write" /\ ref \in 1..NSlots
        /\ slots \in [1..NSlots -> Slot]
    BY <1>18, AllIsASeq DEF Inv, Control, TypeOK, PromptFits, Progress, FoundStays, Write
  <2> DEFINE n == Len(All)
             down == Downloaded(n)
             b == ~spoiled /\ seqLen = n
  <2>2. \A l \in Planes : \A i \in 1..n : down[At(n, l, i)] = gpu[l][i]
    BY <2>1, DownloadIsLaidOut DEF Inv, Control
  <2>3. slots' = [slots EXCEPT ![ref].tokens = All, ![ref].kv = down, ![ref].clean = b]
    BY <1>18 DEF Write, Store
  <2>4. b => \A l \in Planes : \A i \in 1..n : gpu[l][i] = Unit(l, SubSeq(All, 1, i))
    BY <2>1 DEF Inv, AttentionIsExact, Holds
  <2> HIDE DEF down, b, n
  <2>5. /\ slots'[ref].tokens = All /\ slots'[ref].kv = down /\ slots'[ref].clean = b
        /\ \A k \in (1..NSlots) \ {ref} : slots'[k] = slots[k]
    BY <2>1, <2>3 DEF Slot
  <2>6. ASSUME NEW k \in 1..NSlots, slots'[k].clean, NEW l \in Planes,
               NEW i \in 1..Len(slots'[k].tokens)
        PROVE  slots'[k].kv[At(Len(slots'[k].tokens), l, i)] = Unit(l, SubSeq(slots'[k].tokens, 1, i))
    <3>1. CASE k = ref
      BY <2>2, <2>4, <2>5, <2>6, <3>1 DEF n
    <3>2. CASE k # ref
      BY <2>5, <2>6, <3>2 DEF Inv, StoredIsExact
    <3> QED
      BY <3>1, <3>2
  <2> QED
    BY <2>6 DEF StoredIsExact
<1>19. ASSUME StoreFails PROVE StoredIsExact'
  BY <1>19, <1>0 DEF kvVars, Return, StoreFails
<1>20. ASSUME DeadlinePasses PROVE StoredIsExact'
  BY <1>20, <1>0 DEF kvVars, DeadlinePasses
<1>21. ASSUME NEW id \in Ids, NEW p \in Prompts, Start(id, p) PROVE StoredIsExact'
  BY <1>21, <1>0 DEF kvVars, Start
<1>22. ASSUME NEW id \in Ids, id # cur, CreateFind(id), UNCHANGED genVars PROVE StoredIsExact'
  <2>1. \A k \in 1..NSlots :
           \/ slots'[k].tokens = <<>> /\ slots'[k].kv = <<>>
           \/ /\ slots'[k].tokens = slots[k].tokens /\ slots'[k].kv = slots[k].kv
              /\ slots'[k].clean = slots[k].clean
    BY <1>22, SessionsKeepOrWipe DEF Inv, Control, Creates
  <2> QED
    BY <2>1 DEF Inv, StoredIsExact
<1>23. ASSUME NEW id \in Ids, id # cur, CreateFill(id), UNCHANGED genVars PROVE StoredIsExact'
  <2>1. \A k \in 1..NSlots :
           \/ slots'[k].tokens = <<>> /\ slots'[k].kv = <<>>
           \/ /\ slots'[k].tokens = slots[k].tokens /\ slots'[k].kv = slots[k].kv
              /\ slots'[k].clean = slots[k].clean
    BY <1>23, SessionsKeepOrWipe DEF Inv, Control, Creates
  <2> QED
    BY <2>1 DEF Inv, StoredIsExact
<1>24. ASSUME NEW id \in Ids, id # cur, CreateFails(id), UNCHANGED genVars PROVE StoredIsExact'
  <2>1. \A k \in 1..NSlots :
           \/ slots'[k].tokens = <<>> /\ slots'[k].kv = <<>>
           \/ /\ slots'[k].tokens = slots[k].tokens /\ slots'[k].kv = slots[k].kv
              /\ slots'[k].clean = slots[k].clean
    BY <1>24, SessionsKeepOrWipe DEF Inv, Control, Creates
  <2> QED
    BY <2>1 DEF Inv, StoredIsExact
<1>25. ASSUME NEW id \in Ids, id # cur, CreatePublish(id), UNCHANGED genVars PROVE StoredIsExact'
  <2>1. \A k \in 1..NSlots :
           \/ slots'[k].tokens = <<>> /\ slots'[k].kv = <<>>
           \/ /\ slots'[k].tokens = slots[k].tokens /\ slots'[k].kv = slots[k].kv
              /\ slots'[k].clean = slots[k].clean
    BY <1>25, SessionsKeepOrWipe DEF Inv, Control, Creates
  <2> QED
    BY <2>1 DEF Inv, StoredIsExact
<1>26. ASSUME NEW id \in Ids, id # cur, CloseSession(id), UNCHANGED genVars PROVE StoredIsExact'
  <2>1. \A k \in 1..NSlots :
           \/ slots'[k].tokens = <<>> /\ slots'[k].kv = <<>>
           \/ /\ slots'[k].tokens = slots[k].tokens /\ slots'[k].kv = slots[k].kv
              /\ slots'[k].clean = slots[k].clean
    BY <1>26, SessionsKeepOrWipe DEF Inv, Control, Creates
  <2> QED
    BY <2>1 DEF Inv, StoredIsExact
<1>27. ASSUME NEW id \in Ids, id # cur, ResetSession(id), UNCHANGED genVars PROVE StoredIsExact'
  <2>1. \A k \in 1..NSlots :
           \/ slots'[k].tokens = <<>> /\ slots'[k].kv = <<>>
           \/ /\ slots'[k].tokens = slots[k].tokens /\ slots'[k].kv = slots[k].kv
              /\ slots'[k].clean = slots[k].clean
    BY <1>27, SessionsKeepOrWipe DEF Inv, Control, Creates
  <2> QED
    BY <2>1 DEF Inv, StoredIsExact
<1>28. ASSUME UNCHANGED vars PROVE StoredIsExact'
  BY <1>28, <1>0 DEF vars, kvVars
<1> QED
  BY <1>1, <1>2, <1>3, <1>4, <1>5, <1>6, <1>7, <1>8, <1>9, <1>10, <1>11, <1>12, <1>13, <1>14, <1>15, <1>16, <1>17, <1>18, <1>19, <1>20, <1>21, <1>22, <1>23, <1>24, <1>25, <1>26, <1>27, <1>28
     DEF Next, Engine, Sessions, Creates

LEMMA InitOK == Init => Inv
<1> USE IdsAssumption, SizesAssumption, StopAssumption, CtxAssumption
<1> SUFFICES ASSUME Init PROVE Inv
  OBVIOUS
<1>1. <<>> \in Seq(Tokens) /\ <<>> \in Seq(Units) /\ Len(<<>>) = 0 /\ Junk \in Units
  BY DEF Units
<1>2. Empty \in Slot
  BY <1>1 DEF Empty, Slot
<1>3. \A k \in 1..NSlots : slots[k].tokens = <<>> /\ slots[k].kv = <<>>
  BY DEF Init, KvInit, Empty
<1>4. TypeOK
  <2>1. /\ 0 \in 0..NSlots /\ 0 \in 0..NCtx /\ MaxGenerates \in 0..MaxGenerates
        /\ [k \in 1..NSlots |-> Empty] \in [1..NSlots -> Slot]
        /\ [l \in Planes |-> [i \in 1..NCtx |-> Junk]] \in [Planes -> [1..NCtx -> Units]]
    BY <1>1, <1>2
  <2>2. /\ slots \in [1..NSlots -> Slot] /\ making \in [Ids -> 0..NSlots]
        /\ stage \in [Ids -> {"none", "fill", "publish"}] /\ open \subseteq Ids
    BY <2>1 DEF Init, KvInit
  <2>3. /\ pc = "idle" /\ cur \in Ids \cup {NoId} /\ prompt \in Seq(Tokens) /\ out \in Seq(Tokens)
        /\ cached \in Nat /\ seqLen \in 0..NCtx /\ next \in Tokens \cup {Stop} /\ ref \in 0..NSlots
        /\ late \in BOOLEAN /\ left \in 0..MaxGenerates /\ spoiled \in BOOLEAN
    BY <1>1, <2>1 DEF Init
  <2>4. gpu \in [Planes -> [1..NCtx -> Units]]
    BY <2>1 DEF Init
  <2> QED
    BY <2>2, <2>3, <2>4 DEF TypeOK
<1>5. PromptFits /\ Progress /\ FoundStays
  BY DEF PromptFits, Progress, FoundStays, Init
<1>6. KvLaidOut
  BY <1>1, <1>3 DEF KvLaidOut
<1>7. AttentionIsExact /\ LastIsExact
  BY DEF AttentionIsExact, LastIsExact, Init
<1>8. StoredIsExact
  BY <1>1, <1>3 DEF StoredIsExact
<1> QED
  BY <1>4, <1>5, <1>6, <1>7, <1>8 DEF Inv, Control

LEMMA InvStays == Inv /\ [Next]_vars => Inv'
<1> SUFFICES ASSUME Inv, [Next]_vars PROVE Inv'
  OBVIOUS
<1>1. TypeOK'
  BY TypesStay DEF Inv
<1>2. (PromptFits /\ Progress)'
  BY <1>1, ProgressStays DEF Inv
<1>3. (FoundStays /\ KvLaidOut)'
  BY FoundSlotStays DEF Inv
<1>4. (AttentionIsExact /\ LastIsExact)'
  BY <1>1, AttentionStaysExact
<1>5. StoredIsExact'
  BY StoredStaysExact
<1> QED
  BY <1>1, <1>2, <1>3, <1>4, <1>5 DEF Inv, Control

LEMMA InvHolds == Spec => []Inv
<1> QED
  BY InitOK, InvStays, PTL DEF Spec

(* Every variable keeps its type. *)
THEOREM TypeCorrect == Spec => []TypeOK
<1>1. Inv => TypeOK
  BY DEF Inv, Control
<1> QED
  BY <1>1, InvHolds, PTL

(* Every forward pass and every download of ds3_engine_generate_ex fits the *)
(* context, whatever the prompt, the cached prefix and the chunk size.      *)
THEOREM GenerateFitsContext == Spec => []ContextFits
<1>1. Inv => ContextFits
  <2> SUFFICES ASSUME Inv PROVE ContextFits
    OBVIOUS
  <2>1. pc \in {"chunks", "tokens"} /\ MoreToPrefill => seqLen + Len(Piece) <= NCtx
    <3> SUFFICES ASSUME pc \in {"chunks", "tokens"}, MoreToPrefill
                 PROVE  seqLen + Len(Piece) <= NCtx
      OBVIOUS
    <3>1. prompt \in Seq(Tokens) /\ cached \in Nat /\ seqLen = cached /\ Len(prompt) \in 1..NCtx
      BY DEF Inv, Control, TypeOK, PromptFits, Progress
    <3>2. cached + Len(Piece) <= Len(prompt) /\ Len(Piece) \in Nat
      BY <3>1, PieceIsNext
    <3> QED
      BY <3>1, <3>2, CtxAssumption
  <2>2. pc = "last" => seqLen < NCtx
    BY CtxAssumption DEF Inv, Control, TypeOK, PromptFits, Progress
  <2>3. /\ pc = "step" => seqLen < NCtx /\ seqLen + 1 = Len(All)
        /\ pc \in {"store", "write"} => Len(All) <= NCtx
    BY DEF Inv, Control, Progress
  <2> QED
    BY <2>1, <2>2, <2>3 DEF ContextFits
<1> QED
  BY <1>1, InvHolds, PTL

(* What the engine attends to was computed from the prompt and the tokens   *)
(* emitted so far, short of a cached prefix that was not the one it found.  *)
THEOREM AttendsExactly == Spec => []AttentionIsExact
<1>1. Inv => AttentionIsExact
  BY DEF Inv
<1> QED
  BY <1>1, InvHolds, PTL

(* What a clean slot holds is the KV of its tokens, unit for unit.  A slot   *)
(* is clean as Write vouches for it.                                       *)
THEOREM StoresExactly == Spec => []StoredIsExact
<1>1. Inv => StoredIsExact
  BY DEF Inv
<1> QED
  BY <1>1, InvHolds, PTL
-----------------------------------------------------------------------------
(* Slots and their sessions.  First is a minimum, so FindSlot finds the      *)
(* first slot in use with a name, and every slot before a free one that was  *)
(* picked is in use.                                                        *)
LEMMA FirstIsLeast ==
  ASSUME NEW S \in SUBSET (1..NSlots)
  PROVE  /\ S = {} => First(S) = 0
         /\ S # {} => First(S) \in S /\ \A j \in S : First(S) <= j
<1> USE SizesAssumption
<1>1. CASE S = {}
  BY <1>1 DEF First
<1>2. CASE S # {}
  <2>1. \E k \in S : \A j \in S : k <= j
    BY <1>2, HasLeast
  <2> QED
    BY <1>2, <2>1 DEF First
<1> QED
  BY <1>1, <1>2

LEMMA SearchFinds ==
  ASSUME NEW name
  PROVE  /\ FindSlot(name) = 0 => \A c \in 1..NSlots : ~(slots[c].valid /\ slots[c].id = name)
         /\ FindSlot(name) # 0 =>
              /\ FindSlot(name) \in 1..NSlots
              /\ slots[FindSlot(name)].valid /\ slots[FindSlot(name)].id = name
              /\ \A c \in 1..NSlots :
                   slots[c].valid /\ slots[c].id = name => FindSlot(name) <= c
         /\ FreeSlot # 0 =>
              /\ FreeSlot \in 1..NSlots /\ ~slots[FreeSlot].valid
              /\ \A c \in 1..NSlots : c < FreeSlot => slots[c].valid
<1> USE SizesAssumption
<1> DEFINE S == {k \in 1..NSlots : slots[k].valid /\ slots[k].id = name}
           F == {k \in 1..NSlots : ~slots[k].valid}
<1>1. /\ S = {} => First(S) = 0
      /\ S # {} => First(S) \in S /\ \A j \in S : First(S) <= j
  BY FirstIsLeast
<1>2. /\ F = {} => First(F) = 0
      /\ F # {} => First(F) \in F /\ \A j \in F : First(F) <= j
  BY FirstIsLeast
<1>3. FindSlot(name) = First(S) /\ FreeSlot = First(F)
  BY DEF FindSlot, FreeSlot
<1>4. /\ S \subseteq 1..NSlots /\ F \subseteq 1..NSlots
      /\ \A k \in 1..NSlots : k \in S <=> slots[k].valid /\ slots[k].id = name
      /\ \A k \in 1..NSlots : k \in F <=> ~slots[k].valid
  OBVIOUS
<1> HIDE DEF S, F
<1>5. FindSlot(name) = 0 => S = {}
  BY <1>1, <1>3, <1>4
<1>6. FreeSlot # 0 => F # {}
  BY <1>2, <1>3
<1>7. FindSlot(name) # 0 => S # {}
  BY <1>1, <1>3
<1>8. ASSUME FreeSlot # 0, NEW c \in 1..NSlots, c < FreeSlot PROVE slots[c].valid
  <2>1. First(F) \in F /\ First(F) \in 1..NSlots /\ (c \in F => First(F) <= c)
    BY <1>2, <1>4, <1>6, <1>8
  <2>2. c \notin F
    BY <1>3, <1>8, <2>1
  <2> QED
    BY <1>4, <2>2, Zenon
<1>9. FreeSlot # 0 => FreeSlot \in 1..NSlots /\ ~slots[FreeSlot].valid
  <2> SUFFICES ASSUME FreeSlot # 0 PROVE FreeSlot \in 1..NSlots /\ ~slots[FreeSlot].valid
    OBVIOUS
  <2>1. FreeSlot \in F /\ FreeSlot \in 1..NSlots
    BY <1>2, <1>3, <1>4, <1>6
  <2> QED
    BY <1>4, <2>1, Zenon
<1>10. ASSUME FindSlot(name) # 0
       PROVE  /\ FindSlot(name) \in 1..NSlots
              /\ slots[FindSlot(name)].valid /\ slots[FindSlot(name)].id = name
              /\ \A c \in 1..NSlots :
                   slots[c].valid /\ slots[c].id = name => FindSlot(name) <= c
  <2>1. FindSlot(name) \in S /\ FindSlot(name) \in 1..NSlots
        /\ \A j \in S : FindSlot(name) <= j
    BY <1>1, <1>3, <1>4, <1>7, <1>10
  <2>2. slots[FindSlot(name)].valid /\ slots[FindSlot(name)].id = name
    BY <1>4, <2>1, Zenon
  <2>3. ASSUME NEW c \in 1..NSlots, slots[c].valid, slots[c].id = name PROVE FindSlot(name) <= c
    <3>1. c \in S
      BY <1>4, <2>3, Zenon
    <3> QED
      BY <2>1, <3>1
  <2> QED
    BY <2>1, <2>2, <2>3
<1>11. FindSlot(name) = 0 => \A c \in 1..NSlots : ~(slots[c].valid /\ slots[c].id = name)
  <2> SUFFICES ASSUME FindSlot(name) = 0, NEW c \in 1..NSlots,
                      slots[c].valid, slots[c].id = name
               PROVE  FALSE
    OBVIOUS
  <2>1. c \in S
    BY <1>4, Zenon
  <2> QED
    BY <1>5, <2>1
<1> QED
  BY <1>8, <1>9, <1>10, <1>11

(* The slots that were never picked by two creates at once, and those of     *)
(* them that are in use by an id that was not cut.                          *)
Uncontested == (1..NSlots) \ contested
InUse == {k \in Uncontested : slots[k].valid /\ slots[k].id # "cut"}

(* A create has its slot for itself, the slot stays free until the create     *)
(* publishes it, and by then bears its id.                                   *)
PicksApart ==
  /\ \A i \in Ids : making[i] = 0 <=> stage[i] = "none"
  /\ \A i, j \in Ids : making[i] = making[j] /\ making[i] \in Uncontested => i = j
  /\ \A i \in Ids : making[i] \in Uncontested =>
       /\ ~slots[making[i]].valid
       /\ stage[i] = "publish" => slots[making[i]].id = Name(i)

(* A slot in use belongs to an open session; no create for its id goes on.   *)
UsedAreOpen ==
  \A k \in InUse : slots[k].id \in open /\ stage[slots[k].id] = "none"

(* No slot before that of a session, even a free or a contested one, bears   *)
(* its id: so close finds this one, and create finds it rather than a second. *)
FirstOfItsId ==
  \A i \in Ids, k \in Uncontested :
    making[i] = k \/ (slots[k].valid /\ slots[k].id = i) =>
      \A c \in 1..(k - 1) : slots[c].id # i

SlotsApart == PicksApart /\ UsedAreOpen /\ FirstOfItsId

(* Steps that change neither who has a slot nor who is getting one: those of *)
(* the engine, which writes what a slot holds, those of reset, and a create  *)
(* that finds its session or no slot at all.                                *)
KeepsSlots ==
  /\ \A k \in 1..NSlots : (slots'[k].valid <=> slots[k].valid) /\ slots'[k].id = slots[k].id
  /\ making' = making /\ stage' = stage /\ open \subseteq open' /\ contested' = contested

LEMMA EngineKeepsSlots ==
  ASSUME TypeOK, Engine \/ DeadlinePasses \/ (\E id \in Ids, p \in Prompts : Start(id, p))
                 \/ UNCHANGED vars
  PROVE  KeepsSlots
<1>1. slots \in [1..NSlots -> Slot]
  BY DEF TypeOK
<1>2. CASE Write
  BY <1>1, <1>2 DEF Write, Store, KeepsSlots, Slot
<1>3. CASE ~Write
  <2>1. UNCHANGED kvVars
    BY <1>3 DEF Engine, Lookup, Read, ReadFails, Copy, CopyFails, Expire, Plan, RunLast, Resume,
       Prefill, Prefilled, PromptFails, Emit, Step, StepFails, Decoded, StoreFind, StoreFails,
       DeadlinePasses, Start, vars
  <2> QED
    BY <2>1 DEF kvVars, KeepsSlots
<1> QED
  BY <1>2, <1>3

LEMMA KeptSlotsStayApart ==
  ASSUME TypeOK, SlotsApart, KeepsSlots
  PROVE  SlotsApart'
<1> USE DEF KeepsSlots, Uncontested
<1>1. PicksApart'
  BY DEF SlotsApart, PicksApart
<1>2. UsedAreOpen'
  BY DEF SlotsApart, UsedAreOpen, InUse
<1>3. FirstOfItsId'
  <2>1. \A k \in 1..NSlots : \A c \in 1..(k - 1) : c \in 1..NSlots
    BY SizesAssumption
  <2> QED
    BY <2>1 DEF SlotsApart, FirstOfItsId
<1> QED
  BY <1>1, <1>2, <1>3 DEF SlotsApart

(* A create picks a slot no other create works on, or contests it.           *)
LEMMA PickKeepsApart ==
  ASSUME TypeOK, SlotsApart, NEW id \in Ids, CreateFind(id), ~KeepsSlots
  PROVE  SlotsApart'
<1> DEFINE f == FreeSlot
<1> USE SizesAssumption
<1>0. /\ slots \in [1..NSlots -> Slot] /\ making \in [Ids -> 0..NSlots]
      /\ stage \in [Ids -> {"none", "fill", "publish"}]
      /\ id \notin open /\ stage[id] = "none"
  BY DEF TypeOK, CreateFind
<1>1. making[id] = 0
  BY <1>0 DEF SlotsApart, PicksApart
<1>2. FindSlot(id) = 0 /\ f # 0
  <2>1. SUFFICES ASSUME FindSlot(id) # 0 \/ f = 0 PROVE KeepsSlots
    OBVIOUS
  <2> DEFINE k == FindSlot(id)
  <2>2. slots' = slots \/ (k \in 1..NSlots /\ slots' = [slots EXCEPT ![k].tokens = <<>>, ![k].kv = <<>>])
    BY <2>1, SearchFinds DEF CreateFind
  <2>3. \A c \in 1..NSlots : (slots'[c].valid <=> slots[c].valid) /\ slots'[c].id = slots[c].id
    <3>1. slots \in [1..NSlots -> Slot]
      BY <1>0
    <3> HIDE DEF k, f
    <3>2. CASE slots' = slots
      BY <3>2
    <3>3. CASE k \in 1..NSlots /\ slots' = [slots EXCEPT ![k].tokens = <<>>, ![k].kv = <<>>]
      <4>1. slots'[k].valid = slots[k].valid /\ slots'[k].id = slots[k].id
        BY <3>1, <3>3 DEF Slot
      <4>2. \A c \in 1..NSlots : c # k => slots'[c] = slots[c]
        BY <3>1, <3>3
      <4> QED
        BY <4>1, <4>2
    <3> QED
      BY <2>2, <3>2, <3>3
  <2>4. making' = making /\ stage' = stage /\ open' = open \cup {id} /\ contested' = contested
    BY <1>0, <1>1, <2>1 DEF CreateFind, Opened
  <2> QED
    BY <2>3, <2>4 DEF KeepsSlots
<1>3. /\ slots' = slots /\ open' = open
      /\ making' = [making EXCEPT ![id] = f] /\ stage' = [stage EXCEPT ![id] = "fill"]
      /\ contested' = contested \cup ({f} \cap {making[j] : j \in Ids})
  BY <1>2 DEF CreateFind
<1>4. /\ f \in 1..NSlots /\ ~slots[f].valid /\ \A c \in 1..NSlots : c < f => slots[c].valid
      /\ \A c \in 1..NSlots : ~(slots[c].valid /\ slots[c].id = id)
  BY <1>2, SearchFinds
<1> HIDE DEF f
<1>5. Uncontested' \subseteq Uncontested
      /\ (f \in Uncontested' => \A j \in Ids : making[j] # f)
  BY <1>3 DEF Uncontested
<1>6. PicksApart'
  BY <1>0, <1>1, <1>3, <1>4, <1>5 DEF SlotsApart, PicksApart
<1>7. UsedAreOpen'
  <2>1. ASSUME NEW k \in InUse' PROVE slots[k].id \in open /\ stage'[slots[k].id] = "none"
    <3>1. k \in InUse /\ k \in 1..NSlots /\ slots[k].valid
      BY <1>3, <1>5, <2>1 DEF InUse, Uncontested
    <3>2. slots[k].id \in open /\ stage[slots[k].id] = "none" /\ slots[k].id # id
      BY <1>4, <3>1 DEF SlotsApart, UsedAreOpen
    <3> QED
      BY <1>0, <1>3, <3>2
  <2> QED
    BY <1>3, <2>1 DEF UsedAreOpen
<1>8. FirstOfItsId'
  <2> SUFFICES ASSUME NEW i \in Ids, NEW k \in Uncontested', NEW c \in 1..(k - 1),
                      making'[i] = k \/ (slots[k].valid /\ slots[k].id = i)
               PROVE  slots[c].id # i
    BY <1>3 DEF FirstOfItsId
  <2>1. k \in Uncontested /\ k \in 1..NSlots /\ c \in 1..NSlots /\ c < k
    BY <1>5 DEF Uncontested
  <2>2. CASE i = id
    BY <1>0, <1>3, <1>4, <2>1, <2>2
  <2>3. CASE i # id
    BY <1>0, <1>3, <2>1, <2>3 DEF SlotsApart, FirstOfItsId
  <2> QED
    BY <2>2, <2>3
<1> QED
  BY <1>6, <1>7, <1>8 DEF SlotsApart

(* What filling a slot, or giving it up, leaves apart: the id it gets is the *)
(* one of its create.                                                      *)
LEMMA FillKeepsApart ==
  ASSUME TypeOK, SlotsApart, NEW id \in Ids, CreateFill(id) \/ CreateFails(id)
  PROVE  SlotsApart'
<1> DEFINE m == making[id]
<1> USE SizesAssumption
<1>0. /\ slots \in [1..NSlots -> Slot] /\ making \in [Ids -> 0..NSlots]
      /\ stage \in [Ids -> {"none", "fill", "publish"}] /\ stage[id] = "fill"
      /\ "cut" \notin Ids /\ open \subseteq Ids
  BY IdsAssumption DEF TypeOK, CreateFill, CreateFails
<1>1. m \in 1..NSlots
  BY <1>0 DEF SlotsApart, PicksApart
<1>2. \A k \in 1..NSlots : /\ slots'[k].valid <=> slots[k].valid
                           /\ slots'[k].id = IF k = m THEN Name(id) ELSE slots[k].id
  <2> DEFINE v == slots[m].valid
             r == [Empty EXCEPT !.valid = v, !.id = Name(id), !.cap = LocalTokens]
             q == [Empty EXCEPT !.valid = v, !.id = Name(id)]
  <2>1. slots' = [slots EXCEPT ![m] = r] \/ slots' = [slots EXCEPT ![m] = q]
    BY DEF CreateFill, CreateFails
  <2>2. r.valid = v /\ r.id = Name(id) /\ q.valid = v /\ q.id = Name(id)
    BY DEF Empty
  <2>3. v = slots[m].valid /\ slots \in [1..NSlots -> Slot]
    BY <1>0
  <2> HIDE DEF r, q, v, m
  <2> QED
    BY <1>1, <2>1, <2>2, <2>3
<1>3. /\ contested' = contested /\ open \subseteq open'
      /\ \/ making' = making /\ stage' = [stage EXCEPT ![id] = "publish"]
         \/ making' = [making EXCEPT ![id] = 0] /\ stage' = [stage EXCEPT ![id] = "none"]
  BY DEF CreateFill, CreateFails, Opened
<1>4. Uncontested' = Uncontested /\ Uncontested \subseteq 1..NSlots
  BY <1>3 DEF Uncontested
<1> HIDE DEF m
<1>5. m \in Uncontested => ~slots[m].valid /\ \A j \in Ids : making[j] = m => j = id
  BY DEF SlotsApart, PicksApart, m
<1>m. making[id] = m
  BY DEF m
<1>6. PicksApart'
  <2>1. \A i \in Ids : making'[i] = 0 <=> stage'[i] = "none"
    BY <1>0, <1>1, <1>3, <1>m DEF SlotsApart, PicksApart
  <2>2. \A i \in Ids : making'[i] = making[i] \/ making'[i] = 0
    BY <1>0, <1>3
  <2>3. \A i, j \in Ids : making'[i] = making'[j] /\ making'[i] \in Uncontested => i = j
    BY <1>4, <2>2 DEF SlotsApart, PicksApart
  <2>4. ASSUME NEW i \in Ids, making'[i] \in Uncontested
        PROVE  /\ ~slots'[making'[i]].valid
               /\ stage'[i] = "publish" => slots'[making'[i]].id = Name(i)
    <3>1. making'[i] = making[i] /\ making[i] \in Uncontested
      BY <1>4, <2>2, <2>4
    <3>2. CASE i = id
      BY <1>1, <1>2, <1>5, <1>m, <3>1, <3>2
    <3>3. CASE i # id
      <4>1. making[i] # m /\ stage'[i] = stage[i]
        BY <1>0, <1>3, <1>5, <3>1, <3>3
      <4> QED
        BY <1>2, <1>4, <3>1, <4>1 DEF SlotsApart, PicksApart
    <3> QED
      BY <3>2, <3>3
  <2> QED
    BY <1>4, <2>1, <2>3, <2>4 DEF PicksApart
<1>7. \A k \in InUse' : k \in InUse /\ k # m /\ slots'[k].id = slots[k].id /\ slots[k].id # id
  <2>1. ASSUME NEW k \in InUse' PROVE k \in InUse /\ k # m /\ slots'[k].id = slots[k].id
    BY <1>2, <1>4, <1>5, <2>1 DEF InUse
  <2>2. \A k \in InUse : slots[k].id # id
    BY <1>0 DEF SlotsApart, UsedAreOpen
  <2> QED
    BY <2>1, <2>2
<1>8. UsedAreOpen'
  <2> SUFFICES ASSUME NEW k \in InUse' PROVE slots'[k].id \in open' /\ stage'[slots'[k].id] = "none"
    BY DEF UsedAreOpen
  <2>1. k \in InUse /\ slots'[k].id = slots[k].id /\ slots[k].id # id
    BY <1>7
  <2>2. slots[k].id \in open /\ stage[slots[k].id] = "none"
    BY <2>1 DEF SlotsApart, UsedAreOpen
  <2> QED
    BY <1>0, <1>3, <2>1, <2>2
<1>9. FirstOfItsId'
  <2> SUFFICES ASSUME NEW i \in Ids, NEW k \in Uncontested, NEW c \in 1..(k - 1),
                      making'[i] = k \/ (slots'[k].valid /\ slots'[k].id = i)
               PROVE  slots'[c].id # i
    BY <1>4 DEF FirstOfItsId
  <2>1. k \in 1..NSlots /\ c \in 1..NSlots /\ c # k
    BY <1>4
  <2>2. making[i] = k \/ (slots[k].valid /\ slots[k].id = i)
    BY <1>0, <1>1, <1>2, <1>3, <1>5, <1>m, <2>1
  <2>3. slots[c].id # i
    BY <2>2 DEF SlotsApart, FirstOfItsId
  <2>4. CASE c = m /\ Name(id) = i
    <3>1. i = id
      BY <1>0, <2>4 DEF Name
    <3>2. making[i] # k
      BY <1>m, <2>1, <2>4, <3>1
    <3>3. k \in InUse
      BY <1>0, <2>2, <3>2 DEF InUse
    <3> QED
      BY <1>0, <2>2, <3>1, <3>2, <3>3 DEF SlotsApart, UsedAreOpen
  <2>5. CASE ~(c = m /\ Name(id) = i)
    BY <1>2, <2>1, <2>3, <2>5
  <2> QED
    BY <2>4, <2>5
<1> QED
  BY <1>6, <1>8, <1>9 DEF SlotsApart

(* Publishing makes the slot the only one of its session, which is open now. *)
LEMMA PublishKeepsApart ==
  ASSUME TypeOK, SlotsApart, NEW id \in Ids, CreatePublish(id)
  PROVE  SlotsApart'
<1> DEFINE m == making[id]
<1> USE SizesAssumption
<1>0. /\ slots \in [1..NSlots -> Slot] /\ making \in [Ids -> 0..NSlots]
      /\ stage \in [Ids -> {"none", "fill", "publish"}] /\ stage[id] = "publish"
      /\ "cut" \notin Ids
  BY IdsAssumption DEF TypeOK, CreatePublish
<1>1. m \in 1..NSlots
  BY <1>0 DEF SlotsApart, PicksApart
<1>2. \A k \in 1..NSlots : /\ slots'[k].valid <=> (k = m \/ slots[k].valid)
                           /\ slots'[k].id = slots[k].id
  <2>1. slots' = [slots EXCEPT ![m].valid = TRUE, ![m].tokens = <<>>, ![m].kv = <<>>]
    BY DEF CreatePublish
  <2>2. slots \in [1..NSlots -> Slot]
    BY <1>0
  <2> HIDE DEF m
  <2>3. slots'[m].valid = TRUE /\ slots'[m].id = slots[m].id
    BY <1>1, <2>1, <2>2 DEF Slot
  <2>4. \A k \in 1..NSlots : k # m => slots'[k] = slots[k]
    BY <1>1, <2>1, <2>2
  <2> QED
    BY <2>3, <2>4
<1>3. /\ contested' = contested /\ open' = open \cup {id}
      /\ making' = [making EXCEPT ![id] = 0] /\ stage' = [stage EXCEPT ![id] = "none"]
  BY DEF CreatePublish, Opened
<1>4. Uncontested' = Uncontested /\ Uncontested \subseteq 1..NSlots
  BY <1>3 DEF Uncontested
<1> HIDE DEF m
<1>m. making[id] = m
  BY DEF m
<1>5. m \in Uncontested => slots[m].id = Name(id) /\ \A j \in Ids : making[j] = m => j = id
  BY <1>0, <1>m DEF SlotsApart, PicksApart
<1>6. PicksApart'
  <2>1. \A i \in Ids : making'[i] = 0 <=> stage'[i] = "none"
    BY <1>0, <1>3 DEF SlotsApart, PicksApart
  <2>2. \A i \in Ids : making'[i] \in Uncontested => i # id /\ making'[i] = making[i] /\ making[i] # m
    BY <1>0, <1>1, <1>3, <1>4, <1>5
  <2>3. \A i, j \in Ids : making'[i] = making'[j] /\ making'[i] \in Uncontested => i = j
    BY <2>2 DEF SlotsApart, PicksApart
  <2>4. ASSUME NEW i \in Ids, making'[i] \in Uncontested
        PROVE  /\ ~slots'[making'[i]].valid
               /\ stage'[i] = "publish" => slots'[making'[i]].id = Name(i)
    BY <1>0, <1>2, <1>3, <1>4, <2>2, <2>4 DEF SlotsApart, PicksApart
  <2> QED
    BY <1>4, <2>1, <2>3, <2>4 DEF PicksApart
<1>7. UsedAreOpen'
  <2> SUFFICES ASSUME NEW k \in InUse' PROVE slots'[k].id \in open' /\ stage'[slots'[k].id] = "none"
    BY DEF UsedAreOpen
  <2>1. k \in Uncontested /\ slots[k].id # "cut" /\ slots'[k].id = slots[k].id
        /\ (k = m \/ slots[k].valid)
    BY <1>2, <1>4 DEF InUse
  <2>2. CASE k = m
    <3>1. slots[k].id = id
      BY <1>5, <2>1, <2>2 DEF Name
    <3> QED
      BY <1>0, <1>3, <2>1, <3>1
  <2>3. CASE k # m
    <3>1. slots[k].id \in open /\ stage[slots[k].id] = "none"
      BY <2>1, <2>3 DEF SlotsApart, UsedAreOpen, InUse
    <3> QED
      BY <1>0, <1>3, <2>1, <3>1
  <2> QED
    BY <2>2, <2>3
<1>8. FirstOfItsId'
  <2> SUFFICES ASSUME NEW i \in Ids, NEW k \in Uncontested, NEW c \in 1..(k - 1),
                      making'[i] = k \/ (slots'[k].valid /\ slots'[k].id = i)
               PROVE  slots'[c].id # i
    BY <1>4 DEF FirstOfItsId
  <2>1. k \in 1..NSlots /\ c \in 1..NSlots
    BY <1>4
  <2>2. making[i] = k \/ (slots[k].valid /\ slots[k].id = i)
    <3>1. CASE making'[i] = k
      BY <1>0, <1>3, <2>1, <3>1
    <3>2. CASE slots'[k].valid /\ slots'[k].id = i /\ k # m
      BY <1>2, <2>1, <3>2
    <3>3. CASE slots'[k].valid /\ slots'[k].id = i /\ k = m
      <4>1. i = id
        BY <1>0, <1>2, <1>5, <2>1, <3>3 DEF Name
      <4> QED
        BY <1>m, <3>3, <4>1
    <3> QED
      BY <3>1, <3>2, <3>3
  <2>3. slots[c].id # i
    BY <2>2 DEF SlotsApart, FirstOfItsId
  <2> QED
    BY <1>2, <2>1, <2>3
<1> QED
  BY <1>6, <1>7, <1>8 DEF SlotsApart

(* Closing gives back the slot of the session, which is the first and the    *)
(* only one that bears its id.                                             *)
LEMMA CloseKeepsApart ==
  ASSUME TypeOK, SlotsApart, NEW id \in Ids, CloseSession(id)
  PROVE  SlotsApart'
<1> DEFINE f == FindSlot(id)
<1> USE SizesAssumption
<1>0. slots \in [1..NSlots -> Slot] /\ making \in [Ids -> 0..NSlots]
  BY DEF TypeOK
<1>1. /\ making' = making /\ stage' = stage /\ contested' = contested /\ open' = open \ {id}
      /\ slots' = IF f = 0 THEN slots ELSE [slots EXCEPT ![f] = [Empty EXCEPT !.id = id]]
  BY DEF CloseSession
<1>2. /\ f = 0 => \A c \in 1..NSlots : ~(slots[c].valid /\ slots[c].id = id)
      /\ f # 0 => /\ f \in 1..NSlots /\ slots[f].valid /\ slots[f].id = id
                  /\ \A c \in 1..NSlots : slots[c].valid /\ slots[c].id = id => f <= c
  BY SearchFinds
<1> HIDE DEF f
<1>3. \A k \in 1..NSlots : /\ slots'[k].valid <=> (slots[k].valid /\ k # f)
                           /\ slots'[k].id = slots[k].id
  <2>1. CASE f = 0
    BY <1>1, <2>1
  <2>2. CASE f # 0
    <3> DEFINE r == [Empty EXCEPT !.id = id]
    <3>1. slots' = [slots EXCEPT ![f] = r] /\ r.valid = FALSE /\ r.id = id
      BY <1>1, <2>2 DEF Empty
    <3> HIDE DEF r
    <3>2. slots'[f].valid = FALSE /\ slots'[f].id = slots[f].id
      BY <1>0, <1>2, <2>2, <3>1
    <3>3. \A k \in 1..NSlots : k # f => slots'[k] = slots[k]
      BY <1>0, <3>1
    <3> QED
      BY <3>2, <3>3
  <2> QED
    BY <2>1, <2>2
<1>4. Uncontested' = Uncontested /\ Uncontested \subseteq 1..NSlots
  BY <1>1 DEF Uncontested
<1>5. PicksApart'
  BY <1>1, <1>3, <1>4 DEF SlotsApart, PicksApart
<1>6. UsedAreOpen'
  <2> SUFFICES ASSUME NEW k \in InUse' PROVE slots'[k].id \in open' /\ stage'[slots'[k].id] = "none"
    BY DEF UsedAreOpen
  <2>1. k \in InUse /\ k \in Uncontested /\ slots'[k].id = slots[k].id /\ k # f /\ k \in 1..NSlots
        /\ slots[k].valid
    BY <1>3, <1>4 DEF InUse
  <2>2. slots[k].id \in open /\ stage[slots[k].id] = "none"
    BY <2>1 DEF SlotsApart, UsedAreOpen
  <2>3. ASSUME slots[k].id = id PROVE FALSE
    <3>1. \A c \in 1..(k - 1) : slots[c].id # id
      BY <2>1, <2>3 DEF SlotsApart, FirstOfItsId
    <3>2. f \in 1..NSlots /\ slots[f].id = id /\ f <= k
      BY <1>2, <2>1, <2>3
    <3> QED
      BY <2>1, <3>1, <3>2
  <2> QED
    BY <1>1, <2>1, <2>2, <2>3
<1>7. FirstOfItsId'
  <2> SUFFICES ASSUME NEW i \in Ids, NEW k \in Uncontested, NEW c \in 1..(k - 1),
                      making'[i] = k \/ (slots'[k].valid /\ slots'[k].id = i)
               PROVE  slots'[c].id # i
    BY <1>4 DEF FirstOfItsId
  <2>1. k \in 1..NSlots /\ c \in 1..NSlots
    BY <1>4
  <2>2. making[i] = k \/ (slots[k].valid /\ slots[k].id = i)
    BY <1>1, <1>3, <2>1
  <2>3. slots[c].id # i
    BY <2>2 DEF SlotsApart, FirstOfItsId
  <2> QED
    BY <1>3, <2>1, <2>3
<1> QED
  BY <1>5, <1>6, <1>7 DEF SlotsApart

LEMMA SlotsStayApart == TypeOK /\ SlotsApart /\ [Next]_vars => SlotsApart'
<1> SUFFICES ASSUME TypeOK, SlotsApart, [Next]_vars PROVE SlotsApart'
  OBVIOUS
<1>1. ASSUME Engine \/ DeadlinePasses \/ (\E id \in Ids, p \in Prompts : Start(id, p))
             \/ UNCHANGED vars
      PROVE  SlotsApart'
  BY <1>1, EngineKeepsSlots, KeptSlotsStayApart
<1>2. ASSUME NEW id \in Ids, Sessions(id) PROVE SlotsApart'
  <2>1. CASE CreateFind(id)
    BY <2>1, PickKeepsApart, KeptSlotsStayApart
  <2>2. CASE CreateFill(id) \/ CreateFails(id)
    BY <2>2, FillKeepsApart
  <2>3. CASE CreatePublish(id)
    BY <2>3, PublishKeepsApart
  <2>4. CASE CloseSession(id)
    BY <2>4, CloseKeepsApart
  <2>5. CASE ResetSession(id)
    <3> DEFINE k == FindSlot(id)
    <3>1. slots' = slots
          \/ (k \in 1..NSlots /\ slots' = [slots EXCEPT ![k].tokens = <<>>, ![k].kv = <<>>])
      BY <2>5, SearchFinds DEF ResetSession
    <3>2. KeepsSlots
      <4> HIDE DEF k
      <4> QED
        BY <2>5, <3>1 DEF ResetSession, KeepsSlots, TypeOK, Slot
    <3> QED
      BY <3>2, KeptSlotsStayApart
  <2> QED
    BY <1>2, <2>1, <2>2, <2>3, <2>4, <2>5 DEF Sessions, Creates
<1> QED
  BY <1>1, <1>2 DEF Next

LEMMA SlotsApartHolds == Spec => []SlotsApart
<1>1. Init => SlotsApart
  BY DEF Init, KvInit, SlotsApart, PicksApart, UsedAreOpen, FirstOfItsId, InUse, Uncontested, Empty
<1>2. Inv => TypeOK
  BY DEF Inv, Control
<1> QED
  BY <1>1, <1>2, SlotsStayApart, InvHolds, PTL DEF Spec

(* For any number of slots and sessions, and however the creates interleave, *)
(* a slot that two creates did not contest belongs to one open session, and   *)
(* that session has no other.                                               *)
THEOREM SlotsHaveOwners == Spec => []SlotsAreAccountedFor
<1>1. ASSUME TypeOK, SlotsApart PROVE SlotsAreAccountedFor
  <2>0. open \subseteq Ids /\ NSlots \in Nat
    BY <1>1, SizesAssumption DEF TypeOK
  <2>1. \A k \in InUse : slots[k].id \in open
    BY <1>1 DEF SlotsApart, UsedAreOpen
  <2>2. ASSUME NEW k \in InUse, NEW j \in InUse, slots[j].id = slots[k].id PROVE j = k
    <3>1. k \in 1..NSlots /\ j \in 1..NSlots /\ slots[k].id \in Ids
      BY <2>0, <2>1 DEF InUse, Uncontested
    <3>2. (\A c \in 1..(k - 1) : slots[c].id # slots[k].id)
          /\ (\A c \in 1..(j - 1) : slots[c].id # slots[k].id)
      BY <1>1, <2>2, <3>1 DEF SlotsApart, FirstOfItsId, InUse
    <3> QED
      BY <2>0, <2>2, <3>1, <3>2
  <2> QED
    BY <2>1, <2>2 DEF SlotsAreAccountedFor, InUse, Uncontested
<1>2. Inv => TypeOK
  BY DEF Inv, Control
<1> QED
  BY <1>1, <1>2, SlotsApartHolds, InvHolds, PTL
=============================================================================
