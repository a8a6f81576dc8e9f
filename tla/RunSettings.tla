----------------------------- MODULE RunSettings -----------------------------
(***************************************************************************)
(* types/openai.py: what a request becomes before the model runs --        *)
(* as_run_settings (the history, the tools offered, the instructions) and  *)
(* as_openai_responses_settings (what is forced on the upstream).  The     *)
(* specification follows a client over several requests: a request is      *)
(* converted, the model calls one of the tools it was offered, the call    *)
(* comes back as an item, and the client sends the longer history again.   *)
(*                                                                         *)
(* MCP servers declared by URL are enabled and their URLs checked, as by   *)
(* default.  Texts, arguments and schemas are left out; an item keeps what *)
(* decides how it is replayed, a tool whether and how it is offered.       *)
(***************************************************************************)
EXTENDS McpNames

CONSTANTS Inventory,      \* [server label -> names of the tools it lists]
          Builtin,        \* the labels the built-in runtime knows
          BadSchemas,     \* the <<label, name>> whose input schema is no object schema
          FirstRequests,  \* the requests a client begins with
          Offers,         \* what a later request declares: [tools, tool_choice]
          MaxTurns        \* bound on the requests of a client

VARIABLES request, settings, turn
settingsVars == <<request, settings, turn>>

None == "none"     \* of a string; 0 is no call_id, <<>> no name
Pending == [phase |-> "pending"]
Refused == [phase |-> "refused"]
CodeExecution == <<"code_execution">>
WebSearch == <<"web_search">>
ExecCommand == <<"exec_command">>
ToolSearch == <<"tool_search">>
------------------------------------------------------------------------------
(* What a client sends: it keeps the items it was sent, with their ids,    *)
(* and replays an output after its call; a tool_choice is one of the       *)
(* types the schema knows; Inventory knows every server declared.          *)
Kinds == {"message", "output_item", "reasoning", "function_call", "function_call_output",
          "custom_tool_call", "custom_tool_call_output", "tool_search_call", "tool_search_output",
          "local_shell_call", "code_interpreter_call", "web_search_call", "mcp_call"}
BuiltinKinds == {"code_interpreter_call", "web_search_call", "mcp_call"}
Searched(m) == m.execution = "client" /\ m.call_id # 0
CallOf(m, out) ==
  /\ m.kind \in IF out.kind = "tool_search_output" THEN {"tool_search_call"}
                 ELSE {"function_call", "local_shell_call"}
  /\ m.call_id = out.call_id
  /\ m.kind = "tool_search_call" => Searched(m)

IsHistory(input) ==
  /\ input \in Seq(Range(input))
  /\ \A j \in DOMAIN input :
       LET m == input[j] IN
       /\ m.kind \in Kinds
       /\ m.kind = "output_item" => m.content \in Seq(Range(m.content))
       /\ m.kind = "mcp_call" => <<m.server, m.name>> \in Range(RefOrder)
       /\ m.kind \in BuiltinKinds =>
            \A i \in DOMAIN input :
              input[i].kind \in BuiltinKinds /\ input[i].id = m.id => input[i] = m
       /\ m.kind = "function_call_output" \/ (m.kind = "tool_search_output" /\ Searched(m)) =>
            m.call_id # 0 /\ \E i \in 1 .. j - 1 : CallOf(input[i], m)
AskedWell(tools, c) ==
  /\ c.type \in {"auto", "none", "required", "allowed_tools", "hosted", "function", "mcp"}
  /\ c.type = "allowed_tools" => \A e \in c.tools : e.type \in {"hosted", "function", "mcp"}
  /\ \A i \in DOMAIN tools : tools[i].type = "mcp" => tools[i].label \in DOMAIN Inventory

ASSUME RequestsAssumption ==
  /\ \A r \in FirstRequests :
       /\ DOMAIN r = {"input", "tools", "tool_choice", "instructions", "harmony", "format", "upstream"}
       /\ IsHistory(r.input) /\ AskedWell(r.tools, r.tool_choice)
       /\ \A i \in DOMAIN r.input : r.input[i].kind \in BuiltinKinds => r.input[i].id \in Nat
  /\ \A o \in Offers : AskedWell(o.tools, o.tool_choice)
ASSUME InventoryAssumption ==
  \A l \in DOMAIN Inventory : \A t \in Inventory[l] : <<l, t>> \in Range(RefOrder)
------------------------------------------------------------------------------
(* The history. *)
Items(input, kinds) == {input[i] : i \in {j \in DOMAIN input : input[j].kind \in kinds}}

HistoricalRefs(input) == {<<m.server, m.name>> : m \in Items(input, {"mcp_call"})}
Reserve(input) ==
  LET refs == HistoricalRefs(input)
  IN RegisterAll(<<>>, refs, [l \in {p[1] : p \in refs} |-> "hosted"])

Call(name, id) == [by |-> "model", part |-> "call", name |-> name, id |-> id]
Return(name, id) == [by |-> "client", part |-> "return", name |-> name, id |-> id]
Text(by) == [by |-> by, part |-> "text"]
BuiltinPair(name, id) == <<[by |-> "model", part |-> "builtin_call", name |-> name, id |-> id],
                           [by |-> "model", part |-> "builtin_return", name |-> name, id |-> id]>>

IsSystem(m) == m.kind = "message" /\ m.role \in {"system", "developer"}
FoldMessage(m) == IF IsSystem(m) THEN <<>>
                  ELSE <<Text(IF m.role = "user" THEN "client" ELSE "model")>>
ReplayOutputItem(m) == [i \in DOMAIN m.content |-> Text("model")]
ReplayReasoning(m) ==
  IF m.content \/ m.summary \/ m.encrypted THEN <<[by |-> "model", part |-> "thinking"]>> ELSE <<>>

_codex_function_call_tool_name(m) == m.namespace \o m.name
ReplayFunctionCall(m) == <<Call(_codex_function_call_tool_name(m), m.call_id)>>

FunctionCallNames(input, id) ==
  LET ours == {i \in DOMAIN input : input[i].kind = "function_call" /\ input[i].call_id = id}
  IN IF ours = {} THEN <<>> ELSE _codex_function_call_tool_name(input[Min(ours)])

(* An output takes the name of the first item with its call_id: a function *)
(* call, or a local shell call, which is replayed as exec_command.         *)
CallNames(input, id) ==
  LET ours == {i \in DOMAIN input : input[i].kind \in {"function_call", "local_shell_call"}
                                       /\ input[i].call_id = id}
  IN IF ours = {} THEN <<>>
     ELSE LET m == input[Min(ours)]
          IN IF m.kind = "function_call" THEN _codex_function_call_tool_name(m) ELSE ExecCommand
ReplayFunctionOutput(m, input) == <<Return(CallNames(input, m.call_id), m.call_id)>>

ReplayCustom(m) == <<Text("model")>>

ReplayToolSearchCall(m) == IF Searched(m) THEN <<Call(ToolSearch, m.call_id)>> ELSE <<Text("model")>>
ReplayToolSearchOutput(m) == IF Searched(m) THEN <<Return(ToolSearch, m.call_id)>> ELSE <<Text("model")>>
ReplayLocalShell(m) == IF m.call_id = 0 THEN <<Text("model")>> ELSE <<Call(ExecCommand, m.call_id)>>
ReplayCode(m) == BuiltinPair(Plain(CodeExecution), m.id)
ReplayWebSearch(m) == BuiltinPair(Plain(WebSearch), m.id)
ReplayMcp(m, names) ==
  BuiltinPair(NameOf(McpToolRef(<<m.server, m.name>>, "hosted"), names), m.id)

Replay(m, input, names) ==
  CASE m.kind = "message" -> FoldMessage(m)
    [] m.kind = "output_item" -> ReplayOutputItem(m)
    [] m.kind = "reasoning" -> ReplayReasoning(m)
    [] m.kind = "function_call" -> ReplayFunctionCall(m)
    [] m.kind = "function_call_output" -> ReplayFunctionOutput(m, input)
    [] m.kind \in {"custom_tool_call", "custom_tool_call_output"} -> ReplayCustom(m)
    [] m.kind = "tool_search_call" -> ReplayToolSearchCall(m)
    [] m.kind = "tool_search_output" -> ReplayToolSearchOutput(m)
    [] m.kind = "local_shell_call" -> ReplayLocalShell(m)
    [] m.kind = "code_interpreter_call" -> ReplayCode(m)
    [] m.kind = "web_search_call" -> ReplayWebSearch(m)
    [] m.kind = "mcp_call" -> ReplayMcp(m, names)

(* Instructions must be text; an assistant message must be a string. *)
_instruction_text_is_bad(m) == IsSystem(m) /\ m.content = "image"
BadMessage(m) == m.kind = "message"
  /\ (_instruction_text_is_bad(m) \/ (m.role = "assistant" /\ m.content # "string"))

History(input, names) ==
  FlattenSeq([i \in DOMAIN input |-> Replay(input[i], input, names)])
------------------------------------------------------------------------------
(* The tools: builtin and deferred hold names, mcp maps a server label to  *)
(* the tools selected on it.                                               *)
NoTools == [builtin |-> {}, deferred |-> {}, mcp |-> <<>>]
Some(o) == o.builtin # {} \/ o.deferred # {} \/ DOMAIN o.mcp # {}
Of(tools, type) == {tools[i] : i \in {j \in DOMAIN tools : tools[j].type = type}}

validate_tools(tools) ==
  LET named == SelectSeq(tools, LAMBDA t : t.type \notin {"mcp", "namespace"})
  IN IsInjective([i \in DOMAIN named |-> named[i].name])

(* The names a declaration offers: an unsupported custom format offers     *)
(* nothing, a namespace one flat name for each of its functions.           *)
DeferredNames(t) ==
  CASE t.type = "function" \/ (t.type = "custom" /\ t.lark) -> <<t.name>>
    [] t.type = "namespace" -> [i \in DOMAIN t.tools |-> t.name \o t.tools[i]]
    [] OTHER -> <<>>
AllDeferred(tools) == FlattenSeq([i \in DOMAIN tools |-> DeferredNames(tools[i])])
IsReserved(name) == Len(name) >= 3 /\ SubSeq(name, 1, 3) = HostedPrefix

ToolsAreBad(tools) ==
  \/ \E t \in Of(tools, "function") : IsReserved(t.name)
  \/ ~IsInjective(AllDeferred(tools))
  \/ \E i, j \in DOMAIN tools : i < j /\ tools[i].type = "mcp" /\ tools[j].type = "mcp"
                                  /\ tools[i].label = tools[j].label

Listed(d) == IF d.narrow THEN Inventory[d.label] \cap d.allowed ELSE Inventory[d.label]
validate_request_remote_server_url(url) == url \notin {"http", "no_host", "localhost", "ip_literal"}
build_request_remote_headers_fails(d) == ~d.authorization /\ d.authorization_headers > 1

resolve_mcp_declaration_fails(d) ==
  \/ d.connector_id \/ d.require_approval \notin {None, "never"}
  \/ IF d.url = None
     THEN d.authorization \/ d.headers \/ d.label \notin Builtin
     ELSE ~validate_request_remote_server_url(d.url) \/ build_request_remote_headers_fails(d)
  \/ Listed(d) = {}

ProcessTools(tools) ==
  [builtin |-> {t.name : t \in Of(tools, "code_interpreter") \cup Of(tools, "web_search")},
   deferred |-> ToSet(AllDeferred(tools)),
   mcp |-> [l \in {d.label : d \in Of(tools, "mcp")} |->
              Listed(CHOOSE d \in Of(tools, "mcp") : d.label = l)]]
Modes(tools) == [l \in {d.label : d \in Of(tools, "mcp")} |->
  IF (CHOOSE d \in Of(tools, "mcp") : d.label = l).url = None THEN "hosted" ELSE "request_remote"]
------------------------------------------------------------------------------
(* tool_choice. *)
_normalize_hosted_tool_type(n) ==
  IF n \in {<<"web_search_preview">>, <<"web_search_2025_08_26">>} THEN WebSearch ELSE n
Normal(c) == IF c.type = "hosted" THEN _normalize_hosted_tool_type(c.name) ELSE c.name

AllowedOnByName(label, entries, o) ==
  LET named == {e \in entries : e.type = "mcp" /\ e.label = label /\ e.name # <<>>}
  IN IF named = {} THEN o.mcp[label] ELSE {e.name : e \in named}

(* Named entries of a server widen one another; one without a name takes all. *)
AllowedOn(label, entries, o) ==
  LET ours == {e \in entries : e.type = "mcp" /\ e.label = label}
  IN IF \E e \in ours : e.name = <<>> THEN o.mcp[label] ELSE {e.name : e \in ours}
NamesOf(entries, type) == {Normal(e) : e \in {f \in entries : f.type = type}}

IsAbsent(c, o) ==
  CASE c.type = "hosted" -> Normal(c) \notin o.builtin
    [] c.type = "function" -> c.name \notin o.deferred
    [] c.type = "mcp" -> \/ c.label \notin DOMAIN o.mcp
                         \/ c.name # <<>> /\ c.name \notin o.mcp[c.label]

_apply_allowed_tools_choice(c, o) ==
  [builtin |-> o.builtin \cap NamesOf(c.tools, "hosted"),
   deferred |-> o.deferred \cap NamesOf(c.tools, "function"),
   mcp |-> [l \in {e.label : e \in {f \in c.tools : f.type = "mcp"}} |-> AllowedOn(l, c.tools, o)]]

ChoiceIsBad(c, o) ==
  CASE c.type = "required" -> ~Some(o)
    [] c.type = "allowed_tools" -> \/ \E e \in c.tools : IsAbsent(e, o)
                                   \/ c.mode = "required" /\ c.tools = {}
    [] c.type \in {"hosted", "function", "mcp"} -> IsAbsent(c, o)
    [] OTHER -> FALSE

Choose(c, o) ==
  CASE c.type \in {"auto", "required"} -> o
    [] c.type = "none" -> NoTools
    [] c.type = "allowed_tools" -> _apply_allowed_tools_choice(c, o)
    [] c.type = "hosted" -> [NoTools EXCEPT !.builtin = {Normal(c)}]
    [] c.type = "function" -> [NoTools EXCEPT !.deferred = {c.name}]
    [] c.type = "mcp" -> [NoTools EXCEPT !.mcp =
         [l \in {c.label} |-> IF c.name = <<>> THEN o.mcp[l] ELSE {c.name}]]

_build_required_tool_choice_instruction(c) ==
  CASE c.type = "required" -> <<"any">>
    [] c.type = "allowed_tools" -> IF c.mode = "required" THEN <<"allowed">> ELSE <<>>
    [] c.type \in {"hosted", "function", "mcp"} -> <<c.type>>
    [] OTHER -> <<>>

Instructions(r) ==
  (IF r.instructions THEN <<"instructions">> ELSE <<>>)
  \o [i \in 1 .. Cardinality({j \in DOMAIN r.input : IsSystem(r.input[j])}) |-> "input"]
  \o _build_required_tool_choice_instruction(r.tool_choice)
------------------------------------------------------------------------------
(* What is forced on an upstream that speaks the Responses API. *)
_has_effective_custom_function_tools(r) == Of(r.tools, "function") # {}
NamedFunctionChoice(r) ==
  _has_effective_custom_function_tools(r) /\ r.tool_choice.type = "function"

_is_non_auto_custom_function_tool_choice(r) ==
  /\ _has_effective_custom_function_tools(r)
  /\ \/ r.tool_choice.type \in {"required", "function"}
     \/ r.tool_choice.type = "allowed_tools" /\ r.tool_choice.mode = "required"
        /\ \E e \in r.tool_choice.tools : e.type = "function"

_as_openai_responses_transport_tool_choice(r) ==
  LET c == r.tool_choice
  IN IF c.type = "function"
     THEN IF \E t \in Of(r.tools, "function") : t.name = c.name THEN c.name ELSE <<>>
     ELSE IF \/ c.type = "required" /\ _has_effective_custom_function_tools(r)
             \/ c.type = "allowed_tools" /\ c.mode = "required"
                /\ \E e \in c.tools : e.type = "function"
     THEN <<"required">> ELSE <<>>

as_openai_responses_settings_fails(r) ==
  r.upstream = "responses" /\ _is_non_auto_custom_function_tool_choice(r) /\ (r.harmony \/ r.format)
as_openai_responses_settings(r) ==
  [tool_choice |-> _as_openai_responses_transport_tool_choice(r),
   format |-> r.format /\ ~_is_non_auto_custom_function_tool_choice(r)]

(* Chat Completions is sent the format alone: choices stay instructions.   *)
as_openai_chat_settings(r) == [tool_choice |-> <<>>, format |-> r.format]
------------------------------------------------------------------------------
(* as_run_settings, after the agent has been built: only the schemas of    *)
(* the MCP tools that are left are looked at.                              *)
Selected(o) == UNION {{<<l, t>> : t \in o.mcp[l]} : l \in DOMAIN o.mcp}
_normalize_mcp_input_schema_fails(o) == Selected(o) \cap BadSchemas # {}
build_mcp_toolset_for_request(o, tools, names) ==
  RegisterAll(names, Selected(o), Modes(tools))

IsRefused(r) ==
  \/ ~validate_tools(r.tools) \/ as_openai_responses_settings_fails(r)
  \/ \E i \in DOMAIN r.input : BadMessage(r.input[i])
  \/ ToolsAreBad(r.tools) \/ \E d \in Of(r.tools, "mcp") : resolve_mcp_declaration_fails(d)
  \/ ChoiceIsBad(r.tool_choice, ProcessTools(r.tools))
  \/ _normalize_mcp_input_schema_fails(Choose(r.tool_choice, ProcessTools(r.tools)))

as_run_settings(r) ==
  LET reserved == Reserve(r.input)
      offered == Choose(r.tool_choice, ProcessTools(r.tools))
  IN [phase |-> "ready", history |-> History(r.input, reserved), offered |-> offered,
      names |-> build_mcp_toolset_for_request(offered, r.tools, reserved),
      instructions |-> Instructions(r), upstream |-> IF r.upstream = "responses" THEN as_openai_responses_settings(r)
                                     ELSE as_openai_chat_settings(r)]

Converted == settings.phase = "ready"

SettingsInit == request \in FirstRequests /\ turn = 1 /\ settings = Pending

Convert ==
  /\ settings = Pending
  /\ settings' = IF IsRefused(request) THEN Refused ELSE as_run_settings(request)
  /\ UNCHANGED <<request, turn>>

(* The names the model sees: of MCP tools, of built-in and of deferred ones. *)
McpNamesOffered(s, r) ==
  {NameOf(McpToolRef(p, Modes(r.tools)[p[1]]), s.names) : p \in Selected(s.offered)}
NamesOffered(s, r) ==
  McpNamesOffered(s, r) \cup {Plain(n) : n \in s.offered.builtin \cup s.offered.deferred}

(* The item a call comes back as: the normalizer looks the name up among   *)
(* the MCP names first, then the built-in tools, then the Codex names.     *)
CallItem(n, s, r, id) ==
  LET space == {t \in Of(r.tools, "namespace") : n.text \in ToSet(DeferredNames(t))}
  IN IF n \in DOMAIN s.names
     THEN [kind |-> "mcp_call", server |-> s.names[n].server, name |-> s.names[n].tool, id |-> id]
     ELSE IF n.text \in s.offered.builtin
     THEN [kind |-> IF n.text = WebSearch THEN "web_search_call" ELSE "code_interpreter_call", id |-> id]
     ELSE IF \E t \in Of(r.tools, "custom") : t.name = n.text
     THEN [kind |-> "custom_tool_call", call_id |-> id]
     ELSE IF space # {}
     THEN LET t == CHOOSE t \in space : TRUE
          IN [kind |-> "function_call", namespace |-> t.name, call_id |-> id,
              name |-> SubSeq(n.text, Len(t.name) + 1, Len(n.text))]
     ELSE [kind |-> "function_call", namespace |-> <<>>, call_id |-> id, name |-> n.text]

(* The client answers the calls that are its own to answer. *)
Answer(m) ==
  IF m.kind = "function_call"
  THEN <<m, [kind |-> "function_call_output", call_id |-> m.call_id]>>
  ELSE IF m.kind = "custom_tool_call"
  THEN <<m, [kind |-> "custom_tool_call_output", call_id |-> m.call_id]>>
  ELSE <<m>>

(* The ids the model gives are new: those of a first request are not negative. *)
ModelCalls(n) ==
  /\ Converted /\ turn < MaxTurns
  /\ n \in NamesOffered(settings, request)
  /\ LET item == CallItem(n, settings, request, -turn)
     IN \E o \in Offers : request' = [request EXCEPT !.input = @ \o Answer(item),
                                                     !.tools = o.tools, !.tool_choice = o.tool_choice]
  /\ settings' = Pending /\ turn' = turn + 1

SettingsNext == Convert \/ (Converted /\ \E n \in NamesOffered(settings, request) : ModelCalls(n))
SettingsSpec == SettingsInit /\ [][SettingsNext]_settingsVars
------------------------------------------------------------------------------
Covers(e, type, label, name) ==
  /\ e.type = type
  /\ IF type = "mcp" THEN e.label = label /\ e.name \in {<<>>, name} ELSE Normal(e) = name
Permits(c, type, label, name) ==
  CASE c.type \in {"auto", "required"} -> TRUE
    [] c.type = "none" -> FALSE
    [] c.type = "allowed_tools" -> \E e \in c.tools : Covers(e, type, label, name)
    [] OTHER -> Covers(c, type, label, name)
Forced(c) == \/ c.type \in {"required", "hosted", "function", "mcp"}
             \/ c.type = "allowed_tools" /\ c.mode = "required"

(* A request that is accepted offers exactly the declared tools its        *)
(* tool_choice permits, whatever kinds it mixes, and one that demands a    *)
(* call offers something to call and says so to the model.                 *)
OffersObeyChoice ==
  Converted =>
    LET c == request.tool_choice
        declared == ProcessTools(request.tools)
        o == settings.offered
    IN /\ o.builtin = {n \in declared.builtin : Permits(c, "hosted", <<>>, n)}
       /\ o.deferred = {n \in declared.deferred : Permits(c, "function", <<>>, n)}
       /\ \A l \in DOMAIN declared.mcp :
            {t \in declared.mcp[l] : Permits(c, "mcp", l, t)} =
              IF l \in DOMAIN o.mcp THEN o.mcp[l] ELSE {}
       /\ Forced(c) <=> Len(Instructions(request)) >
                          Len(Instructions([request EXCEPT !.tool_choice = [type |-> "auto"]]))
       /\ Forced(c) => NamesOffered(settings, request) # {}

(* Over several turns a history stays one the model can follow: an output  *)
(* carries the name of the call before it; a replayed MCP call names its   *)
(* own tool, by the name under which a built-in server still offers it;    *)
(* and two MCP tools never share a name, however alike theirs are.         *)
ReplayIsConsistent ==
  Converted =>
    LET h == settings.history
        mcp == settings.offered.mcp
        calls == {i \in DOMAIN request.input : request.input[i].kind = "mcp_call"}
    IN /\ \A j \in DOMAIN h : h[j].part = "return" =>
            \E i \in 1 .. j - 1 : h[i].part = "call" /\ h[i].id = h[j].id /\ h[i].name = h[j].name
       /\ \A i \in calls :
            LET m == request.input[i]
                own == {h[j].name : j \in {k \in DOMAIN h : h[k].part = "builtin_call" /\ h[k].id = m.id}}
            IN \A n \in own : /\ settings.names[n] = McpToolRef(<<m.server, m.name>>, "hosted")
                              /\ m.server \in DOMAIN mcp /\ m.name \in mcp[m.server]
                                 /\ Modes(request.tools)[m.server] = "hosted"
                                 => n \in McpNamesOffered(settings, request)
       /\ Cardinality(McpNamesOffered(settings, request)) =
            Cardinality(Selected(settings.offered))

(* What is forced on the upstream agrees with what the model is offered    *)
(* and told, and a text format that is asked for is never lost on the way. *)
(* (With no plain function tool declared, allowed_tools may still force a  *)
(* namespaced or custom one beside a format: see the README.)              *)
UpstreamAgrees ==
  Converted =>
    LET u == settings.upstream
    IN /\ u.tool_choice # <<>> => /\ Forced(request.tool_choice)
            /\ (_has_effective_custom_function_tools(request) => ~u.format /\ ~request.harmony)
       /\ u.tool_choice \notin {<<>>, <<"required">>} => u.tool_choice \in settings.offered.deferred
       /\ request.format => u.format

==============================================================================
