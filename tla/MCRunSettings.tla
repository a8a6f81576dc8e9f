---------------------------- MODULE MCRunSettings ----------------------------
EXTENDS RunSettings

d == <<"d">>
r == <<"r">>
sx == <<"s", ".", "x">>     \* s.x and s_x look alike once sanitised,
s_x == <<"s", "_", "x">>    \* and s_y once cut off
s_y == <<"s", "_", "y">>
f == <<"f">>
b == <<"b">>
MCRefOrder == <<<<b, <<"x">>>>, <<b, <<"y">>>>, <<d, sx>>, <<d, s_x>>, <<d, s_y>>, <<r, sx>>, <<r, s_x>>>>
MCInventory == (b :> {<<"x">>, <<"y">>}) @@ (d :> {sx, s_x, s_y}) @@ (r :> {sx, s_x})
MCBuiltin == {b, d}
MCBadSchemas == {<<b, <<"y">>>>}

Message(role, content) == [kind |-> "message", role |-> role, content |-> content]
Id(kind, id) == [kind |-> kind, call_id |-> id]
Search(kind, ex, id) == [kind |-> kind, execution |-> ex, call_id |-> id]
Mcp(tool, id) == [kind |-> "mcp_call", server |-> d, name |-> tool, id |-> id]
Loose == {Message("system", "string"), Message("developer", "image"), Message("user", "parts"),
          Message("assistant", "string"), Message("assistant", "parts"),
          [kind |-> "output_item", content |-> <<"output_text", "refusal">>],
          [kind |-> "reasoning", content |-> FALSE, summary |-> FALSE, encrypted |-> FALSE],
          [kind |-> "reasoning", content |-> FALSE, summary |-> TRUE, encrypted |-> FALSE],
          Id("local_shell_call", 0), Search("tool_search_call", "server", 29),
          Search("tool_search_output", "client", 0),
          [kind |-> "code_interpreter_call", id |-> 23], [kind |-> "web_search_call", id |-> 24],
          Mcp(sx, 25), Mcp(s_x, 26), Mcp(s_y, 28)}
Function(space, name, id) == [kind |-> "function_call", namespace |-> space, name |-> name, call_id |-> id]
Answered == {<<Function(<<>>, f, 21), Id("function_call_output", 21)>>,
             <<Function(<<"n">>, f, 21), Id("function_call_output", 21)>>,
             <<Id("local_shell_call", 21), Id("function_call_output", 21)>>,
             <<Id("custom_tool_call", 21), Id("custom_tool_call_output", 21)>>,
             <<Search("tool_search_call", "client", 21), Search("tool_search_output", "client", 21)>>}
Histories == {<<>>} \cup {<<m>> : m \in Loose} \cup {<<m, n>> : m, n \in Loose} \cup Answered
             \cup {<<m>> \o a : m \in Loose, a \in Answered}
             \cup {<<a[1], Function(<<>>, <<"g">>, 22), a[2], Id("function_call_output", 22)>> : a \in Answered}

Tool(type, name) == [type |-> type, name |-> name]
Declaration(l, url) ==
  [type |-> "mcp", label |-> l, url |-> url, connector_id |-> FALSE, require_approval |-> None,
   authorization |-> FALSE, headers |-> FALSE, authorization_headers |-> 0,
   narrow |-> FALSE, allowed |-> {}]
Server == Declaration(d, None)
Narrow == [Server EXCEPT !.narrow = TRUE, !.allowed = {s_x}]
Remote == [Declaration(r, "https") EXCEPT !.headers = TRUE, !.authorization_headers = 1]
BadServers == {[Server EXCEPT !.connector_id = TRUE], [Server EXCEPT !.require_approval = "always"],
               [Server EXCEPT !.headers = TRUE], [Narrow EXCEPT !.allowed = {}], Declaration(r, None),
               Declaration(r, "localhost"), [Remote EXCEPT !.authorization_headers = 2]}
Space(name, tools) == [type |-> "namespace", name |-> name, tools |-> tools]
Lark == [type |-> "custom", name |-> <<"c">>, lark |-> TRUE]
CodeInterpreter == <<"code_interpreter">>
Tools == {Tool("function", f), Tool("code_interpreter", CodeInterpreter), Tool("web_search", WebSearch),
          Lark, [Lark EXCEPT !.lark = FALSE], Space(<<"n">>, <<f, <<"f", "g">>>>), Space(<<"n", "f">>, <<<<"g">>>>),
          Server, Narrow, Remote, Declaration(b, None), Declaration(d, "https"), Tool("function", HostedPrefix)}
ToolLists == {<<>>} \cup {<<t>> : t \in Tools \cup BadServers} \cup {<<t, u>> : t, u \in Tools}
             \cup {<<t, Remote, Server>> : t \in Tools}

Choice(type, name) == [type |-> type, name |-> name]
McpChoice(l, name) == [type |-> "mcp", label |-> l, name |-> name]
Entries == {Choice("hosted", <<"web_search_preview">>), Choice("hosted", CodeInterpreter),
            Choice("function", f), Choice("function", <<"n", "f">>), McpChoice(d, <<>>), McpChoice(d, s_x),
            McpChoice(r, sx), McpChoice(b, <<"x">>)}
ToolChoices == {[type |-> t] : t \in {"auto", "none", "required"}} \cup Entries
           \cup {[type |-> "allowed_tools", mode |-> mo, tools |-> es] : mo \in {"auto", "required"},
                 es \in {x \in SUBSET Entries : Cardinality(x) <= 2}}

Request(input, tools, choice) ==
  [input |-> input, tools |-> tools, tool_choice |-> choice, instructions |-> TRUE,
   harmony |-> FALSE, format |-> FALSE, upstream |-> "responses"]
Auto == [type |-> "auto"]
Past == {<<>>, <<Mcp(s_x, 21)>>}
MCFirstRequests ==
  {Request(h, ts, Auto) : h \in Histories, ts \in {<<>>, <<Server>>}}
  \cup {Request(h, ts, c) : h \in Past, ts \in ToolLists, c \in ToolChoices}
  \cup {[Request(<<>>, ts, c) EXCEPT !.harmony = hm, !.format = fm, !.upstream = up] :
          ts \in {<<Tool("function", f)>>, <<Tool("function", f), Lark>>, <<Space(<<"n">>, <<f>>)>>, <<Server>>}, c \in ToolChoices,
          hm, fm \in BOOLEAN, up \in {"responses", "chat"}}
MCOffers == {[tools |-> ts, tool_choice |-> c] :
               ts \in {<<Server, Remote>>, <<Declaration(d, "https")>>}, c \in {Auto, McpChoice(d, sx)}}

==============================================================================
