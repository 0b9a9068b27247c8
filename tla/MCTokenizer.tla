---------------------------- MODULE MCTokenizer ----------------------------
(* A small vocabulary: the bytes of the texts, a few merges, three added tokens.         *)
EXTENDS Tokenizer

Vis(b) == Utf8(ByteToCp[b])
Str(bytes) == ByteEncode(bytes)
(* a a, s s, ss s, space a, newline newline, the two bytes of e with an accent *)
MCMerges == << <<Str(<<97>>), Str(<<97>>)>>, <<Str(<<32>>), Str(<<97>>)>>,
               <<Str(<<97, 97>>), Str(<<97>>)>>, <<Str(<<10>>), Str(<<10>>)>>,
               <<Str(<<195>>), Str(<<169>>)>>, <<Str(<<32, 97>>), Str(<<97>>)>> >>
MCAdded == << <<60, 115, 62>>, <<60, 101, 62>>, <<60, 97>> >>   \* <s>, <e> and <a
Bytes == <<10, 32, 33, 39, 49, 60, 62, 97, 101, 115, 117, 128, 145, 166, 169, 187, 188, 195,
           226, 239, 121>>
MCTokens == [k \in 1..Len(Bytes) |-> Vis(Bytes[k])]
            \o [r \in 1..Len(MCMerges) |-> MCMerges[r][1] \o MCMerges[r][2]] \o MCAdded
MCHash(key) == FoldLeft(LAMBDA h, b : (h * 31 + b) % 65536, 7, key)

(* Those the texts come near: Latin letters; digits of ASCII and of full width. *)
MCLetters == {<<65, 90>>, <<97, 122>>, <<192, 591>>}
MCDigits == {<<48, 57>>, <<65296, 65305>>}

(* a, quote, s, space, newline, 1, !, <s>, <, <a, e-acute, ellipsis, fullwidth 1 *)
Units == {<<97>>, <<39>>, <<115>>, <<32>>, <<10>>, <<49>>, <<33>>, <<60, 115, 62>>, <<60>>, <<60, 97>>,
          <<195, 169>>, <<226, 128, 166>>, <<239, 188, 145>>}
Few == {<<97>>, <<39>>, <<32>>, <<10>>, <<49>>}
MCTexts == {FlattenSeq(u) : u \in UNION {[1..n -> Units] : n \in 0..3}}
           \cup {FlattenSeq(u) : u \in [1..4 -> Few]}
MCSystems == {<<>>, <<32, 97>>}
MCUsers == {FlattenSeq(u) : u \in UNION {[1..n -> {<<97>>, <<32>>, <<33>>, <<10>>, <<60, 97>>}] : n \in 0..3}}
=============================================================================
