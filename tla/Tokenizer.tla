----------------------------- MODULE Tokenizer -----------------------------
(***************************************************************************)
(* The tokenizer (src/ds3_tokenizer.c) as a machine: a text is cut at its   *)
(* added tokens and into pieces, the bytes of a piece are made visible and  *)
(* merged by rank, and what is left is looked up; then the tokens are       *)
(* decoded again.  Bytes are numbers, texts are sequences of bytes, and      *)
(* offsets count from 0 as in the code.                                    *)
(***************************************************************************)
EXTENDS Naturals, Sequences, SequencesExt, FiniteSets, FiniteSetsExt

CONSTANTS
  Tokens,     \* tokenizer.ggml.tokens: the strings of the tokens, by id
  Merges,     \* tokenizer.ggml.merges: pairs of strings, by rank
  Added,      \* added_token_strs: the strings of the added tokens
  Hash(_),    \* hash_bytes
  LetterRanges, DigitRanges,  \* the code points of is_unicode_letter_cp and
              \* is_unicode_digit_cp, as pairs of a first and a last one
  Texts,      \* what is encoded,
  Systems, Users,  \* and formatted as a chat
  Limits,     \* values of max_tokens
  BufSizes    \* and of buf_size, for decoding

ASSUME VocabularyAssumption ==
  /\ \A b \in 1..Len(Merges) : Merges[b][1] # <<>> /\ Merges[b][2] # <<>>
  /\ \A k \in 1..Len(Added) : Added[k] # <<>>
  /\ 0 \notin Limits \cup BufSizes

VARIABLES
  pc,     \* where the call is
  jobs,   \* what is left to encode: texts, and tokens that are pushed as such
  text,   \* the text in progress, and whether it may hold added tokens
  pos, end,  \* its next byte, and where the segment in progress ends
  from,   \* where the piece in progress starts
  syms,   \* its symbols
  out,    \* the tokens so far
  limit,  \* max_tokens
  buf,    \* what has been decoded: bytes, the room, tokens to go
  given   \* history: the text all of this stands for, and whether it is one text

vars == <<pc, jobs, text, pos, end, from, syms, out, limit, buf, given>>
-----------------------------------------------------------------------------
(* The hash table of strings.                                              *)
Unused == [used |-> FALSE, key |-> <<>>, value |-> 0]
NextPow2(n) == LET K == {k \in 0..20 : 2^k >= n} IN 2^Min(K)
EmptyTable(expected) == [i \in 0..NextPow2(2 * expected + 16) - 1 |-> Unused]

Slot(t, key) ==
  LET cap == Cardinality(DOMAIN t)
      Probe[i \in DOMAIN t] ==
        IF t[i].used /\ t[i].key # key THEN Probe[(i + 1) % cap] ELSE i
  IN  Probe[Hash(key) % cap]
Put(t, key, value) ==
  [t EXCEPT ![Slot(t, key)] = [used |-> TRUE, key |-> key, value |-> value]]
None == Len(Tokens) + Len(Merges)
Get(t, key) == IF t[Slot(t, key)].used THEN t[Slot(t, key)].value ELSE None

(* ds3_vocab_load.  A pair is kept as one string, joined by a space, which   *)
(* no token contains.                                                      *)
Joined(a, b) == a \o <<32>> \o b
TokenToId ==
  FoldLeft(LAMBDA t, i : Put(t, Tokens[i], i - 1), EmptyTable(Len(Tokens)),
           [i \in 1..Len(Tokens) |-> i])
MergeRank ==
  FoldLeft(LAMBDA t, r : Put(t, Joined(Merges[r][1], Merges[r][2]), r - 1),
           EmptyTable(Len(Merges)), [r \in 1..Len(Merges) |-> r])
ImStart == Get(TokenToId, Added[1])
ImEnd == Get(TokenToId, Added[2])
-----------------------------------------------------------------------------
(* UTF-8, and the printable stand-ins of bytes.                            *)
Utf8Len(c) == IF c >= 192 /\ c < 224 THEN 2 ELSE IF c >= 224 /\ c < 240 THEN 3
              ELSE IF c >= 240 /\ c < 248 THEN 4 ELSE 1
Utf8(cp) == IF cp < 128 THEN <<cp>> ELSE <<192 + (cp \div 64), 128 + (cp % 64)>>  \* below 2048
CharLen(s, len, p) == LET n == Utf8Len(s[p + 1]) IN IF p + n > len THEN 1 ELSE n
CodePoint(s, len, p) ==
  LET n == CharLen(s, len, p)
      more(k) == s[p + 1 + k] % 64
  IN  CASE n = 1 -> s[p + 1]
        [] n = 2 -> (s[p + 1] % 32) * 64 + more(1)
        [] n = 3 -> (s[p + 1] % 16) * 4096 + more(1) * 64 + more(2)
        [] n = 4 -> (s[p + 1] % 8) * 262144 + more(1) * 4096 + more(2) * 64 + more(3)
Chars(s) ==  \* a string cut into its characters
  LET C[p \in 0..Len(s)] ==
        IF p = Len(s) THEN <<>>
        ELSE LET n == CharLen(s, Len(s), p) IN <<SubSeq(s, p + 1, p + n)>> \o C[p + n]
  IN  C[0]

Visible == (33..126) \cup (161..172) \cup (174..255)
ByteToCp == [b \in 0..255 |-> IF b \in Visible THEN b
                              ELSE 256 + Cardinality({x \in 0..b - 1 : x \notin Visible})]
CpToByte == [cp \in 0..511 |-> LET B == {b \in 0..255 : ByteToCp[b] = cp}
                               IN  IF B = {} THEN 0 ELSE CHOOSE b \in B : TRUE]
ByteEncode(raw) == FlattenSeq([i \in 1..Len(raw) |-> Utf8(ByteToCp[raw[i]])])
ByteDecode(s) ==
  LET cps == [k \in 1..Len(Chars(s)) |-> CodePoint(Chars(s)[k], Len(Chars(s)[k]), 0)]
      known == SelectSeq(cps, LAMBDA cp : cp < 512)
  IN  [k \in 1..Len(known) |-> CpToByte[known[k]]]

(* What counts as a letter and a digit.                                    *)
In(cp, ranges) == \E r \in ranges : r[1] <= cp /\ cp <= r[2]
-----------------------------------------------------------------------------
(* The seven branches of the pre-tokenizer: where a piece that starts at p   *)
(* ends, or p itself if the branch does not apply.                         *)
At(p) == text.s[p + 1]
Blank(p) == At(p) \in {32, 9}
Newline(p) == At(p) \in {10, 13}
Letter(p) == In(CodePoint(text.s, end, p), LetterRanges)
Digit(p) == In(CodePoint(text.s, end, p), DigitRanges)
NextChar(p) == p + CharLen(text.s, end, p)

RunTo(Is(_), p) == Min({q \in p..end : q = end \/ ~Is(q)})

Lower(c) == IF c \in 65..90 THEN c + 32 ELSE c
Short == {115, 116, 109, 100}                        \* s t m d
Long == {<<114, 101>>, <<118, 101>>, <<108, 108>>}   \* re ve ll
ContractionEnd(p) ==
  IF At(p) # 39 THEN p
  ELSE IF p + 2 < end /\ <<Lower(At(p + 1)), Lower(At(p + 2))>> \in Long THEN p + 3
  ELSE IF p + 1 < end /\ Lower(At(p + 1)) \in Short THEN p + 2
  ELSE p

LettersFrom(p) ==
  LET L[q \in p..end] == IF q < end /\ Letter(q) THEN L[NextChar(q)] ELSE q IN L[p]
WordEnd(p) ==
  LET q == NextChar(p) IN
  IF Letter(p) THEN LettersFrom(p)
  ELSE IF q < end /\ ~Newline(p) /\ ~Digit(p) /\ Letter(q) THEN LettersFrom(q)
  ELSE p
DigitEnd(p) == IF Digit(p) THEN p + 1 ELSE p
PunctuationEnd(p) ==
  LET start == IF At(p) = 32 THEN p + 1 ELSE p
      stop == RunTo(LAMBDA q : ~(Blank(q) \/ Newline(q) \/ Letter(q) \/ Digit(q)), start)
  IN  IF stop > start THEN RunTo(Newline, stop) ELSE p
Space(p) == Blank(p) \/ Newline(p)
LinesEnd(p) ==
  LET N == {q \in p..RunTo(Space, p) - 1 : Newline(q)} IN
  IF N = {} THEN p ELSE Max(N) + 1
(* Mutant: all of the spaces before a word. *)
TrailingEnd_All(p) == RunTo(Space, p)
TrailingEnd(p) ==
  LET q == RunTo(Space, p) IN
  IF q = p THEN p ELSE IF q = end THEN q ELSE q - 1
SpacesEnd(p) == RunTo(Space, p)

(* bpe_tokenize_segment takes the first branch that applies. *)
PieceEnd(p) ==
  LET E == <<ContractionEnd(p), WordEnd(p), DigitEnd(p), PunctuationEnd(p), LinesEnd(p),
             TrailingEnd(p), SpacesEnd(p)>>
      K == {k \in 1..7 : E[k] > p}
  IN  IF K = {} THEN p ELSE E[Min(K)]
-----------------------------------------------------------------------------
(* Added tokens.                                                           *)
Here(k, p) ==
  p + Len(Added[k]) <= Len(text.s) /\ SubSeq(text.s, p + 1, p + Len(Added[k])) = Added[k]
AddedAt(p) == {k \in 1..Len(Added) : Here(k, p)}
Longest(K) == CHOOSE k \in K : \A j \in K : Len(Added[j]) <= Len(Added[k])
(* Mutant: up to the first added token of the list. *)
NextAdded_First(p) ==
  LET K == {k \in 1..Len(Added) : \E q \in p..Len(text.s) : Here(k, q)} IN
  IF K = {} THEN Len(text.s) ELSE Min({q \in p..Len(text.s) : Here(Min(K), q)})
NextAdded(p) == Min({Len(text.s)} \cup {q \in p..Len(text.s) : AddedAt(q) # {}})
-----------------------------------------------------------------------------
Said(s, added) == [s |-> s, added |-> added, token |-> None]   \* a text
Pushed(token) == [s |-> <<>>, added |-> FALSE, token |-> token]
Nothing == Said(<<>>, FALSE)
NoBuf == [s |-> <<>>, room |-> 0, todo |-> <<>>]

Init ==
  /\ pc = "idle" /\ jobs = <<>> /\ text = Nothing /\ pos = 0 /\ end = 0 /\ from = 0
  /\ syms = <<>> /\ out = <<>> /\ limit = 0 /\ buf = NoBuf /\ given = [s |-> <<>>, one |-> TRUE]

Encode(s, max) ==   \* ds3_vocab_encode
  /\ pc = "idle"
  /\ pc' = "jobs" /\ jobs' = <<Said(s, TRUE)>> /\ limit' = max /\ given' = [s |-> s, one |-> TRUE]
  /\ UNCHANGED <<text, pos, end, from, syms, out, buf>>

System == <<115, 121, 115, 10>>  \* "system\n", "user\n", "assistant\n": their first letters
User == <<117, 10>>
Assistant == <<97, 10>>
Message(role, s) ==
  <<Pushed(ImStart), Said(role, FALSE), Said(s, FALSE), Pushed(ImEnd), Said(<<10>>, FALSE)>>
(* A part that neither holds an added token nor starts with an empty line,    *)
(* which would share a piece with the newline of the template before it.     *)
Apart(s) ==
  /\ \A k \in 1..Len(Added) : \A p \in 0..Len(s) - Len(Added[k]) :
       SubSeq(s, p + 1, p + Len(Added[k])) # Added[k]
  /\ \A k \in 1..Len(s) : s[k] \in {10, 13} => \E j \in 1..k : s[j] \notin {9, 10, 13, 32}
(* The template that the comment above the function states. *)
Template(role, s) == Added[1] \o role \o s \o Added[2] \o <<10>>
ChatFormat(system, user, max) ==   \* ds3_chat_format
  /\ pc = "idle"
  /\ pc' = "jobs" /\ limit' = max
  /\ jobs' = (IF system = <<>> THEN <<>> ELSE Message(System, system))
               \o Message(User, user) \o <<Pushed(ImStart), Said(Assistant, FALSE)>>
  /\ given' = [s |-> (IF system = <<>> THEN <<>> ELSE Template(System, system))
                       \o Template(User, user) \o Added[1] \o Assistant,
               one |-> Apart(system) /\ Apart(user)]
  /\ UNCHANGED <<text, pos, end, from, syms, out, buf>>

NextJob ==
  /\ pc = "jobs" /\ jobs # <<>>
  /\ jobs' = Tail(jobs)
  /\ IF Head(jobs).token # None
     THEN out' = Append(out, Head(jobs).token) /\ UNCHANGED <<pc, text, pos, end>>
     ELSE /\ text' = Head(jobs) /\ pos' = 0
          /\ IF Head(jobs).added THEN pc' = "scan" /\ end' = 0
             ELSE pc' = "split" /\ end' = Len(Head(jobs).s)
          /\ UNCHANGED out
  /\ UNCHANGED <<from, syms, limit, buf, given>>

Scan ==
  /\ pc = "scan"
  /\ IF pos = Len(text.s) THEN pc' = "jobs" /\ UNCHANGED <<pos, end, out>>
     ELSE IF AddedAt(pos) # {}
     THEN LET k == Longest(AddedAt(pos)) IN
          /\ out' = Append(out, Get(TokenToId, Added[k]))
          /\ pos' = pos + Len(Added[k]) /\ UNCHANGED <<pc, end>>
     ELSE end' = NextAdded(pos) /\ pc' = "split" /\ UNCHANGED <<pos, out>>
  /\ UNCHANGED <<jobs, text, from, syms, limit, buf, given>>

Cut ==
  /\ pc = "split" /\ pos < end
  /\ IF PieceEnd(pos) > pos
     THEN /\ from' = pos /\ pos' = PieceEnd(pos) /\ pc' = "merge"
          /\ syms' = Chars(ByteEncode(SubSeq(text.s, pos + 1, PieceEnd(pos))))
     ELSE pos' = NextChar(pos) /\ UNCHANGED <<pc, from, syms>>
  /\ UNCHANGED <<jobs, text, end, out, limit, buf, given>>
SegmentDone ==
  /\ pc = "split" /\ pos = end
  /\ pc' = IF text.added THEN "scan" ELSE "jobs"
  /\ UNCHANGED <<jobs, text, pos, end, from, syms, out, limit, buf, given>>
-----------------------------------------------------------------------------
(* bpe_encode_piece: the pair of lowest rank, the leftmost of them, until    *)
(* no pair has a rank.                                                     *)
Rank(i) == Get(MergeRank, Joined(syms[i], syms[i + 1]))
Pairs == {i \in 1..Len(syms) - 1 : Rank(i) # None}
Best ==
  CHOOSE i \in Pairs : \A j \in Pairs : Rank(i) < Rank(j) \/ (Rank(i) = Rank(j) /\ i <= j)
Merge ==
  /\ pc = "merge" /\ Pairs # {}
  /\ syms' = ReplaceAt(RemoveAt(syms, Best + 1), Best, syms[Best] \o syms[Best + 1])
  /\ UNCHANGED <<pc, jobs, text, pos, end, from, out, limit, buf, given>>

Known(ids) == SelectSeq(ids, LAMBDA id : id # None)
Ids(sym) ==
  LET id == Get(TokenToId, sym) IN
  IF id # None THEN <<id>>
  ELSE Known([j \in 1..Len(sym) |-> Get(TokenToId, <<sym[j]>>)])
LookUp ==
  /\ pc = "merge" /\ Pairs = {}
  /\ out' = out \o FlattenSeq([i \in 1..Len(syms) |-> Ids(syms[i])])
  /\ pc' = "split" /\ syms' = <<>>
  /\ UNCHANGED <<jobs, text, pos, end, from, limit, buf, given>>

(* At most max_tokens are returned. *)
Returned == SubSeq(out, 1, Min({Len(out), limit}))
Return ==
  /\ pc = "jobs" /\ jobs = <<>>
  /\ out' = Returned /\ pc' = "encoded"
  /\ UNCHANGED <<jobs, text, pos, end, from, syms, limit, buf, given>>
-----------------------------------------------------------------------------
(* ds3_vocab_decode_sequence: token by token into a buffer that keeps a      *)
(* byte for the terminator.                                                *)
Decode(size) ==
  /\ pc = "encoded" /\ out # <<>>
  /\ pc' = "decode" /\ buf' = [s |-> <<>>, room |-> size, todo |-> out]
  /\ UNCHANGED <<jobs, text, pos, end, from, syms, out, limit, given>>
DecodeNothing ==   \* no tokens: -1
  /\ pc = "encoded" /\ out = <<>>
  /\ pc' = "refused"
  /\ UNCHANGED <<jobs, text, pos, end, from, syms, out, limit, buf, given>>
(* Mutant: what fits is written without what came before. *)
Written_Over(s) ==
  LET remain == buf.room - Len(buf.s) IN
  IF Len(s) >= remain THEN [buf EXCEPT !.s = SubSeq(s, 1, remain - 1), !.todo = <<>>]
  ELSE [buf EXCEPT !.s = @ \o s, !.todo = Tail(@)]
Written(s) ==
  LET remain == buf.room - Len(buf.s) IN
  IF Len(s) >= remain THEN [buf EXCEPT !.s = @ \o SubSeq(s, 1, remain - 1), !.todo = <<>>]
  ELSE [buf EXCEPT !.s = @ \o s, !.todo = Tail(@)]
DecodeOne ==
  /\ pc = "decode" /\ buf.todo # <<>>
  /\ buf' = Written(ByteDecode(Tokens[Head(buf.todo) + 1]))
  /\ UNCHANGED <<pc, jobs, text, pos, end, from, syms, out, limit, given>>
Decoded ==
  /\ pc = "decode" /\ buf.todo = <<>>
  /\ pc' = "decoded"
  /\ UNCHANGED <<jobs, text, pos, end, from, syms, out, limit, buf, given>>

Next ==
  \/ \E s \in Texts, max \in Limits : Encode(s, max)
  \/ \E system \in Systems, user \in Users, max \in Limits : ChatFormat(system, user, max)
  \/ NextJob \/ Scan \/ Cut \/ SegmentDone \/ Merge \/ LookUp \/ Return
  \/ (\E size \in BufSizes : Decode(size)) \/ DecodeNothing \/ DecodeOne \/ Decoded
  \/ pc \in {"decoded", "refused"} /\ UNCHANGED vars

Spec == Init /\ [][Next]_vars
-----------------------------------------------------------------------------
(* The reference: the text as characters, the regular expression that the    *)
(* file quotes, rules applied one after the other, no tables.               *)
Char(s) == [k \in 1..Len(Chars(s)) |-> CodePoint(Chars(s)[k], Len(Chars(s)[k]), 0)]
IsL(c) == In(c, LetterRanges) /\ ~In(c, DigitRanges)
IsN(c) == In(c, DigitRanges)
IsS(c) == In(c, {<<9, 13>>, <<32, 32>>, <<133, 133>>, <<160, 160>>, <<5760, 5760>>,
                 <<8192, 8202>>, <<8232, 8233>>, <<8239, 8239>>, <<8287, 8287>>,
                 <<12288, 12288>>})
IsNL(c) == c \in {10, 13}

(* Where each alternative of the expression may end, for a match that starts *)
(* with character i of c.                                                   *)
Matches(c, i) ==
  LET n == Len(c)
      all(P(_), a, b) == \A j \in a..b - 1 : P(c[j])
      low(j) == IF j <= n THEN Lower(c[j]) ELSE 0
      other(x) == ~(IsS(x) \/ IsL(x) \/ IsN(x))
      ends == i + 1..n + 1
  IN  << {e \in ends : c[i] = 39 /\ \/ e = i + 2 /\ low(i + 1) \in Short
                                    \/ e = i + 3 /\ <<low(i + 1), low(i + 2)>> \in Long},
         {e \in ends : \E f \in {i, i + 1} :
            f < e /\ all(IsL, f, e) /\ (f > i => ~(IsNL(c[i]) \/ IsL(c[i]) \/ IsN(c[i])))},
         {e \in {i + 1} : IsN(c[i])},
         {e \in ends : \E f \in {i, i + 1} : \E g \in f + 1..e :
            all(other, f, g) /\ all(IsNL, g, e) /\ (f > i => c[i] = 32)},
         {e \in ends : \E g \in i..e - 1 : all(IsS, i, g) /\ all(IsNL, g, e)},
         {e \in ends : all(IsS, i, e) /\ (e <= n => IsS(c[e]))},
         {e \in ends : all(IsS, i, e)} >>
MatchEnd(c, i) == LET M == Matches(c, i) IN Max(M[Min({k \in 1..7 : M[k] # {}})])

Apply(s, rule) ==   \* a rule to all pairs, from the left
  FoldLeft(LAMBDA done, x : IF done # <<>> /\ <<Last(done), x>> = rule
                            THEN Front(done) \o <<rule[1] \o rule[2]>>
                            ELSE Append(done, x), <<>>, s)
Merged(s) == FoldLeft(Apply, s, Merges)
IdOf(sym) == Max({i \in 1..Len(Tokens) : Tokens[i] = sym}) - 1

PlainIds(s) ==
  LET cs == Chars(s)
      c == Char(s)
      piece(i) == Merged(Chars(ByteEncode(FlattenSeq(SubSeq(cs, i, MatchEnd(c, i) - 1)))))
      From[i \in 1..Len(c) + 1] ==
        IF i > Len(c) THEN <<>>
        ELSE [k \in 1..Len(piece(i)) |-> IdOf(piece(i)[k])] \o From[MatchEnd(c, i)]
  IN  From[1]
Reference(s) ==
  LET at(p) == {k \in 1..Len(Added) :
                  p + Len(Added[k]) <= Len(s) /\ SubSeq(s, p + 1, p + Len(Added[k])) = Added[k]}
      From[p \in 0..Len(s)] ==
        IF p = Len(s) THEN <<>>
        ELSE IF at(p) # {}
        THEN LET a == Added[Longest(at(p))] IN <<IdOf(a)>> \o From[p + Len(a)]
        ELSE LET q == Min({Len(s)} \cup {x \in p..Len(s) : at(x) # {}})
             IN  PlainIds(SubSeq(s, p + 1, q)) \o From[q]
  IN  From[0]
-----------------------------------------------------------------------------
(* Digits of several bytes are cut byte by byte: see the README. *)
ShortDigits(s) == \A k \in 1..Len(Char(s)) : IsN(Char(s)[k]) => Char(s)[k] < 128

(* A piece is what the regular expression of the header takes next: the      *)
(* hand-written branches, which look at bytes, one character ahead, and at    *)
(* the segment's end, agree with it.                                       *)
PiecesFollowRegex ==
  pc = "merge" /\ ShortDigits(text.s) =>
    LET rest == SubSeq(text.s, from + 1, end)
        e == MatchEnd(Char(rest), 1)
    IN  pos - from = Len(FlattenSeq(SubSeq(Chars(rest), 1, e - 1)))

(* The tokens are those of the reference, up to the limit: for a chat too,   *)
(* which is encoded part by part, those of the template as a whole.         *)
EncodesAsReference ==
  pc = "encoded" /\ given.one /\ ShortDigits(given.s) =>
    out = LET ids == Reference(given.s) IN SubSeq(ids, 1, Min({Len(ids), limit}))

(* Decoding gives back the text, as far as max_tokens and the buffer let it,  *)
(* and only a text that is empty is refused.                                 *)
DecodesToText ==
  /\ pc = "refused" => given.s = <<>>
  /\ pc = "decoded" =>
       /\ buf.s = SubSeq(given.s, 1, Len(buf.s)) /\ Len(buf.s) < buf.room
       /\ Len(out) < limit => Len(buf.s) = Min({Len(given.s), buf.room - 1})
=============================================================================
