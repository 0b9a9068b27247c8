------------------------------ MODULE ChatText ------------------------------
(***************************************************************************)
(* The text functions of the daemon (tools/qwen3-engine-daemon.c): reading   *)
(* JSON, quoting, the chat template, and what is cut out of an answer.       *)
(*                                                                         *)
(* A text is a sequence of units.  A unit is a character that one of these    *)
(* functions looks at, a whole tag or key, or other text, which none of them *)
(* tells apart.  Positions count from 1, and NUL is what stands at the end.   *)
(***************************************************************************)
EXTENDS Naturals, Sequences, SequencesExt, FiniteSetsExt

CONSTANT MaxNesting   \* JSON_MAX_NESTING

Null == <<"NULL">>   \* no string at all
Q == "\""
B == "\\"
NL == "\n"
NUL == "end"
Space == {" ", NL, "\t"}
Digits == {"7"}

At(s, p) == IF p <= Len(s) THEN s[p] ELSE NUL
Ws(s, p) == Min({q \in p..Len(s) + 1 : At(s, q) \notin Space})
Find(s, what, p) ==   \* strstr for a tag; 0 for NULL
  LET S == {q \in p..Len(s) : s[q] = what} IN IF S = {} THEN 0 ELSE Min(S)
-----------------------------------------------------------------------------
(* JSON.  A reader returns whether it succeeded, what it read, and where it   *)
(* stopped.                                                                *)
Bad == [ok |-> FALSE, v |-> <<>>, p |-> 0]
Got(v, p) == [ok |-> TRUE, v |-> v, p |-> p]

Escapes == [c \in {Q, B, "n", "t", "u0001", "ulow"} |->
              CASE c = "n" -> NL [] c = "t" -> "\t" [] c = "u0001" -> "ctl"
                [] c = "ulow" -> "fffd" [] OTHER -> c]
JsonString(s, p0) ==
  LET start == Ws(s, p0)
      More[p \in start..Len(s) + 4] ==
        LET c == At(s, p + 1)
            then(u, q) == LET r == More[q] IN IF r.ok THEN Got(<<u>> \o r.v, r.p) ELSE Bad
        IN  CASE At(s, p) = NUL -> Bad
              [] At(s, p) = Q -> Got(<<>>, p + 1)
              [] At(s, p) \notin {NUL, Q, B} -> then(s[p], p + 1)
              [] At(s, p) = B /\ c = "uhigh" ->   \* half of a pair
                   IF At(s, p + 2) = B /\ At(s, p + 3) = "ulow" THEN then("emoji", p + 4)
                   ELSE then("fffd", p + 2)
              [] At(s, p) = B /\ c # "uhigh" ->
                   IF c \in DOMAIN Escapes THEN then(Escapes[c], p + 2) ELSE Bad
  IN  IF At(s, start) = Q THEN More[start + 1] ELSE Bad

JsonNumber(s, p0) ==
  LET p == Ws(s, p0)
      q == Min({x \in p..Len(s) + 1 : At(s, x) \notin Digits})
  IN  IF q = p THEN Bad ELSE Got(SubSeq(s, p, q - 1), q)

RECURSIVE SkipValue(_, _, _), SkipItems(_, _, _), SkipMembers(_, _, _)
SkipValue(s, p0, depth) ==
  LET inside(c, q) == CASE At(s, q) = (IF c = "[" THEN "]" ELSE "}") -> Got(<<>>, q + 1)
                        [] c = "[" /\ At(s, q) # "]" -> SkipItems(s, q, depth)
                        [] c = "{" /\ At(s, q) # "}" -> SkipMembers(s, q, depth)
      value(p) == CASE At(s, p) = Q -> JsonString(s, p)
                    [] At(s, p) \in {"{", "["} ->
                         IF depth >= MaxNesting THEN Bad ELSE inside(At(s, p), Ws(s, p + 1))
                    [] At(s, p) \in {"true", "false", "null"} -> Got(<<>>, p + 1)
                    [] OTHER -> JsonNumber(s, p)
  IN  value(Ws(s, p0))
SkipItems(s, p, depth) ==
  LET after(q) == CASE At(s, q) = "]" -> Got(<<>>, q + 1)
                    [] At(s, q) = "," -> SkipItems(s, q + 1, depth)
                    [] OTHER -> Bad
      item(r) == IF r.ok THEN after(Ws(s, r.p)) ELSE Bad
  IN  item(SkipValue(s, p, depth + 1))
Key(s, p) ==   \* a key and its colon
  LET colon(k, q) == IF At(s, q) = ":" THEN Got(k.v, q + 1) ELSE Bad
      key(k) == IF k.ok THEN colon(k, Ws(s, k.p)) ELSE Bad
  IN  key(JsonString(s, p))
SkipMembers(s, p, depth) ==
  LET after(q) == CASE At(s, q) = "}" -> Got(<<>>, q + 1)
                    [] At(s, q) = "," -> SkipMembers(s, q + 1, depth)
                    [] OTHER -> Bad
      value(r) == IF r.ok THEN after(Ws(s, r.p)) ELSE Bad
      member(k) == IF k.ok THEN value(SkipValue(s, k.p, depth + 1)) ELSE Bad
  IN  member(Key(s, p))

(* parse_request: what follows the object is not looked at. *)
NoReq == [ok |-> FALSE, method |-> Null, id |-> <<"null">>, params |-> Null]
RECURSIVE RequestMembers(_, _, _)
RequestMembers(s, p0, req) ==
  LET done(x) == [x EXCEPT !.ok = x.method # Null]
      after(now, q) == CASE At(s, q) = "}" -> done(now)
                         [] At(s, q) = "," -> RequestMembers(s, q + 1, now)
                         [] OTHER -> NoReq
      with(k, r) == CASE k.v = <<"method">> -> [req EXCEPT !.method = r.v]
                     [] k.v = <<"id">> -> [req EXCEPT !.id = r.v]
                     [] k.v = <<"params">> -> [req EXCEPT !.params = SubSeq(s, k.p, r.p - 1)]
                     [] OTHER -> req
      value(k) == CASE k.v = <<"method">> -> JsonString(s, k.p)
                    [] k.v = <<"id">> ->
                         IF At(s, k.p) = Q THEN JsonString(s, k.p) ELSE JsonNumber(s, k.p)
                    [] OTHER -> SkipValue(s, k.p, 0)
      use(k, r) == IF r.ok THEN after(with(k, r), Ws(s, r.p)) ELSE NoReq
      member(k) == IF k.ok THEN use(k, value(k)) ELSE NoReq
  IN  IF At(s, Ws(s, p0)) = "}" THEN done(req) ELSE member(Key(s, p0))
ParseRequest(s) ==
  LET p == Ws(s, 1) IN IF At(s, p) = "{" THEN RequestMembers(s, p + 1, NoReq) ELSE NoReq

(* params_get_string. *)
RECURSIVE Param(_, _, _)
Param(s, key, p0) ==
  LET after(q) == IF At(s, q) = "," THEN Param(s, key, q + 1) ELSE Bad
      skip(r) == IF r.ok THEN after(Ws(s, r.p)) ELSE Bad
      member(k) == CASE ~k.ok -> Bad
                     [] k.ok /\ k.v = <<key>> -> Got(<<>>, k.p)
                     [] k.ok /\ k.v # <<key>> -> skip(SkipValue(s, k.p, 0))
  IN  member(Key(s, p0))
ParamAt(params, key) ==   \* where the value of a parameter starts
  LET p == Ws(params, 1) IN IF At(params, p) = "{" THEN Param(params, key, p + 1) ELSE Bad
ParamsGetString(params, key) ==
  LET text(r) == IF r.ok THEN r.v ELSE Null
      value(a) == IF a.ok /\ At(params, a.p) = Q THEN text(JsonString(params, a.p)) ELSE Null
  IN  value(ParamAt(params, key))
ParamsGetBool(params, key) ==
  LET value(a) == a.ok /\ At(params, Ws(params, a.p)) = "true" IN value(ParamAt(params, key))

(* parse_message_array. *)
NoMessage == [role |-> <<>>, content |-> <<>>, calls |-> Null, call_id |-> Null, name |-> Null]
Fields == [role |-> "role", content |-> "content", tool_calls |-> "calls",
           tool_call_id |-> "call_id", tool_name |-> "name"]
RECURSIVE MessageFields(_, _, _), Messages(_, _, _)
MessageFields(s, p0, m) ==
  LET known(k) == Len(k.v) = 1 /\ k.v[1] \in DOMAIN Fields
      raw(k) == ~known(k) \/ k.v[1] = "tool_calls"
      after(now, q) == CASE At(s, q) = "}" -> Got(now, q + 1)
                         [] At(s, q) = "," -> MessageFields(s, q + 1, now)
                         [] OTHER -> Bad
      with(k, r) == IF ~known(k) THEN m
                   ELSE [m EXCEPT ![Fields[k.v[1]]] =
                           IF raw(k) THEN SubSeq(s, k.p, r.p - 1) ELSE r.v]
      use(k, r) == CASE r.ok -> after(with(k, r), Ws(s, r.p))
                     [] ~r.ok /\ raw(k) -> Bad
                     [] ~r.ok /\ ~raw(k) -> after(m, Ws(s, k.p))
      member(k) == IF ~k.ok THEN Bad
                   ELSE use(k, IF raw(k) THEN SkipValue(s, k.p, 0) ELSE JsonString(s, k.p))
  IN  IF At(s, Ws(s, p0)) = "}" THEN Got(m, Ws(s, p0) + 1) ELSE member(Key(s, p0))
Messages(s, p0, read) ==
  LET after(m, q) == CASE At(s, q) = "]" -> Got(Append(read, m), q + 1)
                       [] At(s, q) = "," -> Messages(s, q + 1, Append(read, m))
                       [] OTHER -> Bad
      message(r) == IF r.ok THEN after(r.v, Ws(s, r.p)) ELSE Bad
  IN  IF At(s, Ws(s, p0)) # "{" THEN Bad
      ELSE message(MessageFields(s, Ws(s, p0) + 1, NoMessage))
ParseMessageArray(s) ==
  LET p == Ws(s, 1)
      q == Ws(s, p + 1)
  IN  IF At(s, p) # "[" THEN Bad
      ELSE IF At(s, q) = "]" THEN Got(<<>>, q + 1) ELSE Messages(s, q, <<>>)

(* json_escape_to_buf. *)
Escape(s) ==
  FlattenSeq([k \in 1..Len(s) |->
    CASE s[k] \in {Q, B} -> <<B, s[k]>> [] s[k] = NL -> <<B, "n">>
      [] s[k] = "\t" -> <<B, "t">> [] s[k] = "ctl" -> <<B, "u0001">> [] OTHER -> <<s[k]>>])
Quoted(s) == <<Q>> \o Escape(s) \o <<Q>>
Field(key, value) == <<Q, key, Q, ":">> \o value
Object(fields) ==
  <<"{">> \o FlattenSeq([k \in 1..Len(fields) |-> (IF k = 1 THEN <<>> ELSE <<",">>) \o fields[k]])
  \o <<"}">>
-----------------------------------------------------------------------------
(* The chat template.                                                      *)
Start(role) == <<"<|im_start|>", role, NL>>
End == <<"<|im_end|>", NL>>
Message(m) ==
  CASE m.role \in {<<"user">>, <<"system">>} -> Start(m.role[1]) \o m.content \o End
    [] m.role = <<"assistant">> ->
         Start("assistant") \o m.content \o
         (IF m.calls \in {Null, <<>>} THEN <<>>
          ELSE <<NL, "<tool_call>", NL>> \o m.calls \o <<NL, "</tool_call>", NL>>) \o End
    [] m.role = <<"tool_result">> ->
         Start("tool") \o (IF Null \notin {m.call_id, m.name}
                           THEN <<"[">> \o m.call_id \o <<"]", " ">> \o m.name \o <<":", " ">>
                           ELSE <<>>) \o m.content \o End
    [] OTHER -> <<>>
Prefix(system, context, history) ==
  Start("system") \o system \o (IF context \in {Null, <<>>} THEN <<>> ELSE <<NL, NL>> \o context) \o End
  \o FlattenSeq([k \in 1..Len(history) |-> Message(history[k])])
Said(role, content) == [NoMessage EXCEPT !.role = <<role>>, !.content = content]
BuildChatPrompt(system, context, history, user) ==
  Prefix(system, context, history)
  \o (IF user \in {Null, <<>>} THEN <<>> ELSE Message(Said("user", user)))
  \o Start("assistant") \o <<"<think>", NL, NL, "</think>", NL, NL>>
-----------------------------------------------------------------------------
(* strip_think_blocks: newlines after the tag, then blanks. *)
From(s, p) == SubSeq(s, p, Len(s))
DropWhile(s, S) == From(s, Min({p \in 1..Len(s) + 1 : At(s, p) \notin S}))
StripThink(s) ==
  LET close == Find(s, "</think>", 1)
      open == Find(s, "<think>", 1)
      answer == IF close # 0 THEN From(s, close + 1)
                ELSE IF open # 0 THEN From(s, open + 1) ELSE s
  IN  DropWhile(DropWhile(answer, {NL}), {" ", "\t"})

(* extract_tool_calls_json: the bodies of tool calls whose brackets balance. *)
Trim(s) ==
  LET t == DropWhile(s, Space)
      K == {k \in 0..Len(t) : k = 0 \/ t[k] \notin Space}
  IN  SubSeq(t, 1, Max(K))
(* Mutant: a quote after a backslash ends the string too. *)
Balanced_AnyQuote(s) ==
  LET step(st, c) ==
        IF ~st.ok \/ c = B THEN st
        ELSE IF c = Q THEN [st EXCEPT !.str = ~@]
        ELSE IF st.str THEN st
        ELSE IF c \in {"{", "["} THEN [st EXCEPT !.depth = @ + 1]
        ELSE IF c \in {"}", "]"} THEN IF st.depth = 0 THEN [st EXCEPT !.ok = FALSE]
                                      ELSE [st EXCEPT !.depth = @ - 1]
        ELSE st
      end == FoldLeft(step, [ok |-> TRUE, str |-> FALSE, depth |-> 0], s)
  IN  At(s, 1) \in {"{", "["} /\ end.ok /\ end.depth = 0
Balanced(s) ==
  LET step(st, c) ==
        IF ~st.ok THEN st
        ELSE IF c = B THEN [st EXCEPT !.run = @ + 1]
        ELSE LET s0 == [st EXCEPT !.run = 0] IN
             IF c = Q /\ st.run % 2 = 0 THEN [s0 EXCEPT !.str = ~@]
             ELSE IF st.str THEN s0
             ELSE IF c \in {"{", "["} THEN [s0 EXCEPT !.depth = @ + 1]
             ELSE IF c \in {"}", "]"} THEN IF st.depth = 0 THEN [s0 EXCEPT !.ok = FALSE]
                                           ELSE [s0 EXCEPT !.depth = @ - 1]
             ELSE s0
      end == FoldLeft(step, [ok |-> TRUE, str |-> FALSE, depth |-> 0, run |-> 0], s)
  IN  At(s, 1) \in {"{", "["} /\ end.ok /\ end.depth = 0
RECURSIVE Bodies(_, _)
Bodies(s, p) ==
  LET start == Find(s, "<tool_call>", p)
      end == IF start = 0 THEN 0 ELSE Find(s, "</tool_call>", start)
      body == Trim(SubSeq(s, start + 1, end - 1))
  IN  IF end = 0 THEN <<>>
      ELSE (IF Balanced(body) THEN <<body>> ELSE <<>>) \o Bodies(s, end + 1)
Inlined(body) == IF body[1] = "[" THEN SubSeq(body, 2, Len(body) - 1) ELSE body
ExtractToolCalls(s) ==   \* "[]" for NULL, as handle_generate has it
  LET b == Bodies(s, 1) IN
  <<"[">> \o FlattenSeq([k \in 1..Len(b) |-> (IF k = 1 THEN <<>> ELSE <<",">>) \o Inlined(b[k])])
  \o <<"]">>
=============================================================================
