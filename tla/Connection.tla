----------------------------- MODULE Connection -----------------------------
(***************************************************************************)
(* One connection of tools/qwen3-engine-daemon.c from its first byte to its  *)
(* last: handle_connection, read_line and send_response over a socket that   *)
(* delivers what was sent in any pieces, the handlers with the text they     *)
(* read and write, and the client at the other end, which asks one thing at  *)
(* a time.  ChatText has the text functions, SessionTable what goes on       *)
(* between several connections.                                              *)
(***************************************************************************)
EXTENDS ChatText

CONSTANTS
  Script,           \* bound: what the client may ask first, second and so on:
                    \*   sets of records of id, method and params
  Outputs,          \* what the model may say: sequences of pieces of text
  ReadSize,         \* sizeof(tmp) in read_line
  MaxRequestSize,   \* ds->max_request_size
  MaxCut            \* bound: the calls, from the first, that may arrive in two parts

ASSUME ConnectionAssumption ==
  {ReadSize, MaxRequestSize, MaxCut} \subseteq Nat /\ ReadSize > 0

VARIABLES
  pc,        \* where handle_connection is
  line,      \* the buffer of read_line
  req,       \* the request in work
  session,   \* the session "s": whether it is there, its system prompt, its history
  gen,       \* a generate: the pieces the model says, and how many it has said
  net,       \* the socket: bytes up and down, the client has sent its last byte
             \*   (eof) or closed it (gone), a write timed out half way (stalled)
  cl,        \* the client: the call it waits for, what is left to send of it,
             \*   the last turn it has seen, and how many calls it has made
  log        \* of the generate in work: its prompt, what the model said, how it failed
daemon == <<pc, line, req, session, gen, log>>
vars == <<daemon, net, cl>>

NoCall == [id |-> <<>>, method |-> <<"none">>, params |-> <<>>]
Blank == [id |-> <<>>, method |-> <<"blank">>, params |-> <<>>]   \* an empty line
NoTurn == [prompt |-> <<>>, text |-> <<>>]
NoLog == [prompt |-> <<>>, said |-> <<>>, failure |-> ""]
NoGen == [pieces |-> <<>>, said |-> 0]

(* What a client writes: json.dumps with (",", ":") for separators, and the   *)
(* parameters only if there are any.                                         *)
Dump(text) ==
  LET written == [c \in {Q, B, NL, "\t", "emoji"} |->
        CASE c = NL -> <<B, "n">> [] c = "\t" -> <<B, "t">>
          [] c = "emoji" -> <<B, "uhigh", B, "ulow">> [] OTHER -> <<B, c>>]
  IN  <<Q>> \o FlattenSeq([k \in 1..Len(text) |->
                 IF text[k] \in DOMAIN written THEN written[text[k]] ELSE <<text[k]>>]) \o <<Q>>
Wire(c) ==
  IF c = Blank THEN <<NL>>
  ELSE LET members == [k \in DOMAIN c.params |-> Field(c.params[k][1], c.params[k][2])]
           params == IF members = <<>> THEN <<>> ELSE <<Field("params", Object(members))>>
       IN  Object(<<Field("id", Dump(c.id)), Field("method", Dump(c.method))>> \o params) \o <<NL>>

(* send_response: a line arrives whole, or not at all when the client is     *)
(* gone, or up to where the client stopped reading.                          *)
Reply(id, body) ==
  Object(IF id = <<>> THEN <<body>> ELSE <<Field("id", Quoted(id)), body>>) \o <<NL>>
Result(value) == Field("result", value)
Error(message) ==
  Field("error", Object(<<Field("code", <<"7">>), Field("message", Quoted(<<message>>))>>))
Written(n, text) == IF n.gone THEN n ELSE [n EXCEPT !.down = @ \o text]
Stalls(n, text) ==
  IF n.gone \/ n.stalled THEN {}
  ELSE {[n EXCEPT !.stalled = TRUE, !.down = @ \o SubSeq(text, 1, Len(text) - 1)]}
Sent(n, text) == {Written(n, text)} \cup Stalls(n, text)

Init ==
  /\ pc = "poll" /\ line = <<>> /\ req = NoReq /\ gen = NoGen
  /\ session = [live |-> TRUE, system |-> <<"sys">>, history |-> <<>>]
  /\ net = [up |-> <<>>, down |-> <<>>, eof |-> FALSE, gone |-> FALSE, stalled |-> FALSE]
  /\ cl = [call |-> NoCall, todo |-> <<>>, turn |-> NoTurn, calls |-> 0]
  /\ log = NoLog
-----------------------------------------------------------------------------
(* handle_connection and read_line.                                        *)
Poll ==
  /\ pc = "poll" /\ (net.up # <<>> \/ net.eof)
  /\ pc' = "read" /\ line' = <<>>
  /\ UNCHANGED <<req, session, gen, log, net, cl>>

(* The idle time is over, or the daemon is told to stop, which interrupts    *)
(* the poll and the read; a read also times out when nothing comes.          *)
Leave ==
  /\ pc = "poll" \/ (pc = "read" /\ net.up = <<>>)
  /\ pc' = "closed"
  /\ UNCHANGED <<line, req, session, gen, log, net, cl>>

Arrived == SubSeq(net.up, 1, Min({Len(net.up), ReadSize}))
TakeArrived == [net EXCEPT !.up = From(@, Len(Arrived) + 1)]
TooLarge == Len(line) + Len(Arrived) > MaxRequestSize
(* Mutant: the search starts one byte late.                                  *)
EndsIn_SkipsFirst(got) == NL \in Range(Tail(got))
EndsIn(got) == NL \in Range(got)
Read ==
  /\ pc = "read" /\ net.up # <<>> /\ ~TooLarge
  /\ line' = line \o Arrived /\ net' = TakeArrived
  /\ pc' = IF EndsIn(Arrived) THEN "line" ELSE "read"
  /\ UNCHANGED <<req, session, gen, log, cl>>
ReadTooLarge ==
  /\ pc = "read" /\ net.up # <<>> /\ TooLarge
  /\ net' \in Sent(TakeArrived, Reply(<<>>, Error("request too large")))
  /\ pc' = "closed"
  /\ UNCHANGED <<line, req, session, gen, log, cl>>
ReadEnd ==
  /\ pc = "read" /\ net.up = <<>> /\ net.eof
  /\ pc' = IF line = <<>> THEN "closed" ELSE "line"
  /\ UNCHANGED <<line, req, session, gen, log, net, cl>>

Trimmed == SubSeq(line, 1, Max({k \in 0..Len(line) : k = 0 \/ line[k] # NL}))
EmptyLine ==
  /\ pc = "line" /\ Trimmed = <<>> /\ pc' = "poll" /\ line' = <<>>
  /\ UNCHANGED <<req, session, gen, log, net, cl>>
BadLine ==
  /\ pc = "line" /\ Trimmed # <<>> /\ ~ParseRequest(Trimmed).ok
  /\ net' \in Sent(net, Reply(<<>>, Error("invalid request"))) /\ pc' = "poll" /\ line' = <<>>
  /\ UNCHANGED <<req, session, gen, log, cl>>
(* What the handlers read from the parameters, which do not change.          *)
Strings == {"session_id", "system_prompt", "role", "content", "tool_call_id", "tool_name",
            "context", "user_prompt"}
MessagesIn(params) ==
  LET read(a, v) == [given |-> a.ok /\ v.ok,
                     list |-> IF a.ok /\ v.ok THEN ParseMessageArray(SubSeq(params, a.p, v.p - 1))
                              ELSE Bad]
      at(a) == read(a, SkipValue(params, a.p, 0))
  IN  at(ParamAt(params, "messages"))
Given(params) ==
  [there |-> params # Null,
   strings |-> [key \in Strings |-> ParamsGetString(params, key)],
   stream |-> ParamsGetBool(params, "stream"),
   messages |-> MessagesIn(params)]
Dispatch ==
  /\ pc = "line" /\ Trimmed # <<>>
  /\ \E r \in {ParseRequest(Trimmed)} :
       r.ok /\ req' = [r EXCEPT !.params = Given(r.params)] /\ pc' = "dispatch"
  /\ line' = <<>>
  /\ UNCHANGED <<session, gen, log, net, cl>>
-----------------------------------------------------------------------------
(* The handlers.                                                           *)
P(key) == req.params.strings[key]
Text(v) == IF v = Null THEN <<>> ELSE v
Is(method) == pc = "dispatch" /\ req.method = <<method>>
HasParams(methods) ==
  pc = "dispatch" /\ req.params.there /\ req.method \in {<<m>> : m \in methods}
Handled(s, body) ==
  /\ session' = s /\ net' \in Sent(net, Reply(req.id, body))
  /\ pc' = "poll" /\ req' = NoReq
  /\ UNCHANGED <<line, gen, log, cl>>
Refused(message) == Handled(session, Error(message))
Flag(key) == Result(Object(<<Field(key, <<"true">>)>>))
NeedsSession == {"generate", "append_turn", "replace_history", "reset_session"}
NeedsParams == NeedsSession \cup {"create_session", "close_session"}

Named == P("session_id") \notin {Null, <<>>}
Finds == P("session_id") = <<"s">> /\ session.live

UnknownMethod ==
  /\ pc = "dispatch"
  /\ req.method \notin {<<m>> : m \in NeedsParams \cup {"health"}}
  /\ Refused("method not found")
(* Parameters that the request does not have are read all the same, which    *)
(* ends the whole daemon.                                                   *)
NullParams ==
  /\ pc = "dispatch" /\ ~req.params.there /\ req.method \in {<<m>> : m \in NeedsParams}
  /\ pc' = "crashed"
  /\ UNCHANGED <<line, req, session, gen, log, net, cl>>
NoSessionId == HasParams(NeedsParams) /\ ~Named /\ Refused("missing session_id")
SessionNotFound == HasParams(NeedsSession) /\ Named /\ ~Finds /\ Refused("session not found")
CreateSession ==
  /\ Is("create_session") /\ Named
  /\ Handled(IF P("session_id") # <<"s">> THEN session
             ELSE [live |-> TRUE, system |-> Text(P("system_prompt")), history |-> <<>>],
             Result(Object(<<Field("session_id", Quoted(P("session_id")))>>)))
CloseSession ==
  /\ Is("close_session") /\ Named
  /\ Handled(IF Finds THEN [session EXCEPT !.live = FALSE, !.history = <<>>] ELSE session,
             Flag("closed"))
ResetSession ==
  /\ Is("reset_session") /\ Finds
  /\ Handled([session EXCEPT !.history = <<>>], Flag("reset"))
Health == Is("health") /\ Handled(session, Flag("status"))
AppendTurn ==
  /\ Is("append_turn") /\ Finds
  /\ IF P("role") \in {Null, <<>>} THEN Refused("missing role")
     ELSE Handled([session EXCEPT !.history = Append(@,
                     [role |-> P("role"), content |-> Text(P("content")), calls |-> Null,
                      call_id |-> P("tool_call_id"), name |-> P("tool_name")])],
                  Flag("appended"))
ReplaceHistory ==
  /\ Is("replace_history") /\ Finds
  /\ LET m == req.params.messages
     IN  IF ~m.given THEN Refused("missing messages")
         ELSE IF ~m.list.ok THEN Refused("invalid messages")
         ELSE Handled([session EXCEPT !.history = m.list.v], Flag("replaced"))
-----------------------------------------------------------------------------
(* handle_generate, generate_for_session and generate_stream_cb.           *)
Streams == req.params.stream
Spoken == FlattenSeq(SubSeq(gen.pieces, 1, gen.said))
Generate ==
  /\ Is("generate") /\ Finds
  /\ gen' \in {[pieces |-> o, said |-> 0] : o \in Outputs}
  /\ log' = [NoLog EXCEPT !.prompt = BuildChatPrompt(session.system, P("context"),
                                                      session.history, P("user_prompt"))]
  /\ pc' = "generate"
  /\ UNCHANGED <<line, req, session, net, cl>>

GenerateFails(message) ==
  /\ log' = [log EXCEPT !.failure = message]
  /\ net' \in Sent(net, Reply(req.id, Error(message)))
  /\ pc' = "poll" /\ req' = NoReq /\ gen' = NoGen
  /\ UNCHANGED <<line, session, cl>>
EngineFails ==
  /\ pc = "generate"
  /\ \E message \in {"context overflow", "generation timeout", "generation failed"} :
       /\ message = "context overflow" => gen.said = 0
       /\ GenerateFails(message)
StreamFails == pc = "lost" /\ GenerateFails("stream write failed")

(* A token: when streaming, all that was said so far is sent. *)
Token ==
  /\ pc = "generate" /\ gen.said < Len(gen.pieces)
  /\ gen' = [gen EXCEPT !.said = @ + 1] /\ log' = [log EXCEPT !.said = Spoken']
  /\ LET chunk == Reply(req.id, Result(Object(<<Field("text", Quoted(Spoken')),
                                                Field("done", <<"false">>)>>)))
     IN  \/ /\ ~Streams /\ pc' = pc /\ net' = net
         \/ /\ Streams /\ ~net.gone /\ pc' = pc /\ net' = Written(net, chunk)
         \/ /\ Streams /\ net.gone /\ pc' = "lost" /\ net' = net
         \/ /\ Streams /\ pc' = "lost" /\ net' \in Stalls(net, chunk)
  /\ UNCHANGED <<line, req, session, cl>>

(* What the session remembers of a turn.                                   *)
(* Mutant: the whole text is remembered, with the reasoning.                 *)
Remembered_Raw(user, text) ==
  (IF user \in {Null, <<>>} THEN <<>> ELSE <<Said("user", user)>>) \o <<Said("assistant", Spoken)>>
Remembered(user, text) ==
  (IF user \in {Null, <<>>} THEN <<>> ELSE <<Said("user", user)>>) \o <<Said("assistant", text)>>
Answer ==
  /\ pc = "generate" /\ gen.said = Len(gen.pieces)
  /\ LET text == StripThink(Spoken)
         result == <<Field("session_id", Quoted(P("session_id"))), Field("text", Quoted(text)),
                     Field("tool_calls", ExtractToolCalls(text))>>
                   \o (IF Streams THEN <<Field("done", <<"true">>)>> ELSE <<>>)
     IN  /\ net' \in Sent(net, Reply(req.id, Result(Object(result))))
         /\ session' = [session EXCEPT !.history = @ \o Remembered(P("user_prompt"), text)]
  /\ pc' = "poll" /\ req' = NoReq /\ gen' = NoGen
  /\ UNCHANGED <<line, log, cl>>

Works ==
  \/ Poll \/ Read \/ ReadTooLarge \/ ReadEnd \/ EmptyLine \/ BadLine \/ Dispatch
  \/ UnknownMethod \/ NullParams \/ NoSessionId \/ SessionNotFound \/ CreateSession \/ CloseSession
  \/ ResetSession \/ Health \/ AppendTurn \/ ReplaceHistory
  \/ Generate \/ EngineFails \/ StreamFails \/ Token \/ Answer
-----------------------------------------------------------------------------
(* The client, and how it reads JSON: a value is a pair of its type and what *)
(* it holds; members of an object are pairs of a key and a value.            *)
StringUnits == [c \in {Q, B, "n", "t", "u0001"} |->
                  CASE c = "n" -> NL [] c = "t" -> "\t" [] c = "u0001" -> "ctl" [] OTHER -> c]
RECURSIVE StringIn(_, _), ValueIn(_, _), ItemsIn(_, _, _, _)
StringIn(s, p) ==
  LET c == At(s, p) d == At(s, p + 1)
      rest(u, q) == LET r == StringIn(s, q) IN IF r.ok THEN Got(<<u>> \o r.v, r.p) ELSE Bad
  IN  IF c \in {NUL, NL, "ctl", "\t"} THEN Bad
      ELSE IF c = Q THEN Got(<<>>, p + 1)
      ELSE IF c # B THEN rest(c, p + 1)
      ELSE IF d \in DOMAIN StringUnits THEN rest(StringUnits[d], p + 2) ELSE Bad
ValueIn(s, p0) ==
  LET p == Ws(s, p0) c == At(s, p) IN
  IF c = Q THEN LET r == StringIn(s, p + 1) IN IF r.ok THEN Got(<<"string", r.v>>, r.p) ELSE Bad
  ELSE IF c = "{" THEN ItemsIn(s, p + 1, "}", <<>>)
  ELSE IF c = "[" THEN ItemsIn(s, p + 1, "]", <<>>)
  ELSE IF c \in {"true", "false", "null", "7"} THEN Got(<<"literal", c>>, p + 1) ELSE Bad
ItemsIn(s, p0, end, read) ==
  LET after(item, q) == CASE At(s, q) = end -> Got(<<end, Append(read, item)>>, q + 1)
                          [] At(s, q) = "," -> ItemsIn(s, q + 1, end, Append(read, item))
                          [] OTHER -> Bad
      value(k, v) == IF v.ok THEN after(<<k, v.v>>, Ws(s, v.p)) ELSE Bad
      colon(k, q) == IF At(s, q) = ":" THEN value(k, ValueIn(s, q + 1)) ELSE Bad
      first(r) == CASE ~r.ok -> Bad
                    [] r.ok /\ end = "]" -> after(r.v, Ws(s, r.p))
                    [] r.ok /\ end = "}" ->
                         IF r.v[1] = "string" THEN colon(r.v, Ws(s, r.p)) ELSE Bad
  IN  IF At(s, Ws(s, p0)) = end /\ read = <<>> THEN Got(<<end, read>>, Ws(s, p0) + 1)
      ELSE first(ValueIn(s, p0))
Json(s) == LET r == ValueIn(s, 1) IN IF r.ok /\ Ws(s, r.p) > Len(s) THEN r ELSE Bad
Absent == <<"absent", <<>>>>
Member(value, key) ==
  IF value[1] # "}" THEN Absent
  ELSE LET M == {k \in DOMAIN value[2] : value[2][k][1] = <<"string", <<key>>>>}
       IN  IF M = {} THEN Absent ELSE value[2][Min(M)][2]

HasLine == NL \in Range(net.down)
Line == SubSeq(net.down, 1, Find(net.down, NL, 1) - 1)
Closes(l) == Member(Member(Json(l).v, "result"), "done") # <<"literal", "false">>
Seen(l) ==
  LET text == Member(Member(Json(l).v, "result"), "text") IN
  IF cl.call.method = <<"generate">> /\ text # Absent
  THEN [prompt |-> log.prompt, text |-> text[2]] ELSE cl.turn

Asks(c) ==
  LET w == Wire(c)
      forgets == c.method \in {<<"create_session">>, <<"close_session">>, <<"reset_session">>,
                               <<"replace_history">>}
  IN  \E k \in {Len(w)} \cup (IF cl.calls < MaxCut THEN 1..Len(w) - 1 ELSE {}) :
        /\ net' = [net EXCEPT !.up = @ \o SubSeq(w, 1, k)]
        /\ cl' = [cl EXCEPT !.call = c, !.todo = From(w, k + 1), !.calls = @ + 1,
                            !.turn = IF forgets THEN NoTurn ELSE @]
Ask ==
  /\ cl.call = NoCall /\ cl.calls < Len(Script) /\ ~net.eof
  /\ \E c \in Script[cl.calls + 1] : Asks(c)
  /\ UNCHANGED daemon
SendRest ==
  /\ cl.todo # <<>> /\ ~net.eof
  /\ net' = [net EXCEPT !.up = @ \o cl.todo] /\ cl' = [cl EXCEPT !.todo = <<>>]
  /\ UNCHANGED daemon
TakeLine ==
  /\ HasLine /\ Json(Line).ok   \* and waits for ever after a broken one
  /\ net' = [net EXCEPT !.down = From(@, Len(Line) + 2)]
  /\ IF Closes(Line) THEN cl' = [cl EXCEPT !.call = NoCall, !.turn = Seen(Line)] /\ log' = NoLog
     ELSE UNCHANGED <<cl, log>>
  /\ UNCHANGED <<pc, line, req, session, gen>>
SendsNoMore ==
  /\ cl.call # NoCall /\ ~net.eof /\ net' = [net EXCEPT !.eof = TRUE]
  /\ UNCHANGED <<daemon, cl>>
HangsUp ==
  /\ cl.call # NoCall /\ ~net.gone /\ net' = [net EXCEPT !.eof = TRUE, !.gone = TRUE, !.down = <<>>]
  /\ UNCHANGED <<daemon, cl>>
Client == Ask \/ SendRest \/ TakeLine \/ SendsNoMore \/ HangsUp

Daemon == Works \/ Leave

Next == Daemon \/ Client
Spec == Init /\ [][Next]_vars
(* The daemon works on while it can: WF_vars(Works), with ENABLED Works and a *)
(* step of it written out, which TLC evaluates faster.  It need not leave,     *)
(* and the client need do nothing.                                           *)
CanWork == \/ pc \in {"poll", "read"} /\ (net.up # <<>> \/ net.eof)
           \/ pc \in {"line", "dispatch", "generate", "lost"}
Moves == <<pc, line, gen>>' # <<pc, line, gen>>
FairSpec == Spec /\ ([]<>~CanWork \/ []<><<Moves>>_vars)
-----------------------------------------------------------------------------
(* What a client makes of what the model said: the text after the reasoning, *)
(* and the JSON values between tool call tags.                               *)
Unclosed(said) == Find(said, "<think>", 1) # 0 /\ Find(said, "</think>", 1) = 0
Shown(said) == DropWhile(From(said, Find(said, "</think>", 1) + 1), Space)
RECURSIVE ToolCalls(_)
ToolCalls(text) ==
  LET a == Find(text, "<tool_call>", 1)
      z == Find(text, "</tool_call>", a)
      body == Json(SubSeq(text, a + 1, z - 1))
      here == IF ~body.ok THEN <<>> ELSE IF body.v[1] = "]" THEN body.v[2] ELSE <<body.v>>
  IN  IF a = 0 \/ z = 0 THEN <<>> ELSE here \o ToolCalls(From(text, z + 1))
(* What extract_tool_calls_json takes for a tool call and copies, and is none *)
(* that a line of JSON can hold.                                           *)
Odd(body) == Json(body).v \in {<<>>, <<"]", <<>>>>} \/ NL \in Range(body)
Garbled == cl.call.method = <<"generate">> /\ \E b \in Range(Bodies(StripThink(log.said), 1)) : Odd(b)

Whole == cl.todo \in {<<>>, <<NL>>}   \* an end of file ends a line too
Refusal(v, message) ==
  Member(v, "id") = Absent /\ Member(Member(v, "error"), "message") = <<"string", <<message>>>>
IsFinal(result) ==
  LET text == Member(result, "text") IN
  /\ text[1] = "string"
  /\ Unclosed(log.said) \/ DropWhile(text[2], Space) = Shown(log.said)
  /\ Garbled \/ Member(result, "tool_calls") = <<"]", ToolCalls(text[2])>>
Expected(v) ==
  LET result == Member(v, "result")
  IN  IF Len(Wire(cl.call)) - Len(cl.todo) > MaxRequestSize THEN Refusal(v, "request too large")
      ELSE IF ~Whole THEN Refusal(v, "invalid request")   \* the client gave up
      ELSE /\ Member(v, "id") = <<"string", cl.call.id>>
           /\ cl.call.method = <<"generate">> /\ result # Absent =>
                IF Member(result, "done") = <<"literal", "false">>
                THEN IsPrefix(Member(result, "text")[2], log.said)
                ELSE IsFinal(result)
           /\ cl.call.method = <<"generate">> /\ log.failure # "" /\ Closes(Line) =>
                Member(Member(v, "error"), "message") = <<"string", <<log.failure>>>>

(* A line that is JSON answers the call the client waits for: with that       *)
(* call's id, with the text the model said after its reasoning and the tool     *)
(* calls in it, or with the reason it failed; a call cut short by the client or *)
(* too large is refused and never taken for another one.  It holds for any      *)
(* cutting of the bytes on their way, until a write to the client times out     *)
(* half way through a line.  And every line is JSON, but for the last one of a  *)
(* generate whose text holds a tool call that is Odd; of the tool calls of such *)
(* a generate, and of the text of one whose reasoning is never closed, nothing  *)
(* is said: the code does not do there what its comments promise.              *)
AnswersMatch ==
  HasLine /\ ~net.stalled =>
    IF Json(Line).ok THEN cl.call \notin {NoCall, Blank} /\ Expected(Json(Line).v) ELSE Garbled

(* A prompt goes on from the last turn the client saw: it starts with that    *)
(* turn's prompt, short of the empty reasoning the prompt ends with, and the   *)
(* answer as the client read it.  The model goes on from what was said, and    *)
(* the engine finds the first part of it in the KV cache.                     *)
Dialogue(p) == From(p, Find(p, "<|im_end|>", 1))
Header == <<"<think>", NL, NL, "</think>", NL, NL>>
PromptGoesOn ==
  pc = "generate" /\ cl.turn # NoTurn =>
    LET before == Dialogue(cl.turn.prompt) IN
    IsPrefix(SubSeq(before, 1, Len(before) - Len(Header)) \o cl.turn.text, Dialogue(log.prompt))

(* A call that was sent to its end is answered, or the connection is closed,  *)
(* unless it has no parameters and its handler reads them.                   *)
CallsAreAnswered ==
  (cl.call \notin {NoCall, Blank} /\ cl.todo = <<>>) ~>
     (cl.call = NoCall \/ HasLine \/ pc \in {"closed", "crashed"} \/ net.stalled \/ net.eof)
=============================================================================
