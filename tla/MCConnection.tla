---------------------------- MODULE MCConnection ----------------------------
EXTENDS Connection

S(text) == Dump(text)
Sid == <<"session_id", S(<<"s">>)>>
Call(id, method, params) == [id |-> <<id>>, method |-> <<method>>, params |-> params]
Turn(content) == <<"{", Q, "role", Q, ":", Q, "tool_result", Q, ",", Q, "content", Q, ":">>
                 \o S(content) \o <<",", Q, "tool_call_id", Q, ":", Q, "c", Q, ",",
                                    Q, "tool_name", Q, ":", Q, "ls", Q, "}">>
MCCalls == {
  Call("1", "generate", <<Sid, <<"user_prompt", S(<<"hi", NL, Q>>)>>>>),
  Call("2", "generate", <<Sid, <<"stream", <<"true">>>>, <<"context", S(<<"note", "emoji">>)>>>>),
  Call("3", "append_turn", <<Sid, <<"role", S(<<"user">>)>>, <<"content", S(<<B, "more">>)>>>>),
  Call("4", "replace_history", <<Sid, <<"messages", <<"[">> \o Turn(<<"\t", "out">>) \o <<"]">>>>>>),
  Call("5", "reset_session", <<Sid>>),
  Call("6", "close_session", <<Sid>>),
  Call("8", "create_session", <<Sid, <<"system_prompt", S(<<"be", " ", "brief">>)>>>>),
  Call("9", "health", <<>>),
  Call("10", "nothing", <<Sid>>),
  Call("11", "append_turn", <<Sid>>),
  Call("12", "generate", <<<<"context", S(<<"note">>)>>>>),
  Call("13", "generate", <<Sid, <<"user_prompt", S([k \in 1..56 |-> "long"])>>>>),
  Call("14", "replace_history", <<Sid, <<"messages", <<"[", "7", "]">>>>>>),
  Call("15", "reset_session", <<>>),
  [Call("16", "", <<Sid>>) EXCEPT !.method = <<>>],
  Blank}
Some(ids) == {c \in MCCalls : c.id \in {<<k>> : k \in ids}}
MCScript == <<MCCalls \ Some({"5", "8"}), Some({"1", "3", "4", "5", "8"}), Some({"2"})>>

Tool(k) == <<"{", Q, "tool", Q, ":", Q, B, Q, "ls", "}", Q, ",", Q, "n", Q, ":", k, "}">>
MCOutputs == {
  <<<<"<think>", "hmm", Q>>, <<"</think>", NL, NL, " ", "ok", NL, "\t", B, "emoji", "ctl">>>>,
  <<<<"<tool_call>", NL>> \o Tool("7") \o <<NL>>, <<"</tool_call>">>>>,
  <<<<"\t", NL, "see", "<tool_call>", "[">> \o Tool("7") \o <<",">> \o Tool("true") \o <<"]", "</tool_call>">>,
    <<"<tool_call>", "{", "oops", "</tool_call>", "<tool_call>", "{", "}", "</tool_call>", "<tool_call>">>>>,
  <<<<"<think>", "so", NL>>>>,
  <<<<"<tool_call>", "[", "]", "</tool_call>">>, <<"<tool_call>", "{", "oops", "}", "</tool_call>">>>>,
  <<>>}
=============================================================================
