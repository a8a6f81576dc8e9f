------------------------ MODULE PydanticAINormalizer ------------------------
(***************************************************************************)
(* The normaliser of one request (responses_core/normalizer.py): it turns  *)
(* the events of a pydantic_ai run into the normalised events the composer *)
(* consumes.  Part indexes restart at 0 in every model turn, so item keys  *)
(* "part:{index}" are reused from turn to turn; tool results find their    *)
(* item through the key registered for their tool_call_id.                 *)
(*                                                                         *)
(* Every operator On...(...) describes one handler: the normalised events  *)
(* it returns (left in `pending` for the composer) and its own state.      *)
(***************************************************************************)
EXTENDS ResponseComposer, FiniteSets

CONSTANTS
  ToolNames,      \* every tool name the model may put in a call
  McpTools,       \* names in mcp_tool_name_map
  BuiltinTools,   \* builtin_tool_names: the built-ins enabled for the request
  CustomTools,    \* codex custom tools of the request
  FunctionTools,  \* declared function tools of the request
  RawContents     \* lists of raw thoughts a provider may report, chunk by chunk

CI == "code_interpreter"
WebSearch == "web_search"

(* Only the two built-ins exist; declared names do not collide (the tool   *)
(* sets of one pydantic_ai run have distinct names).                       *)
ASSUME ToolAssumption ==
  /\ McpTools \cup BuiltinTools \cup CustomTools \cup FunctionTools \subseteq ToolNames
  /\ BuiltinTools \subseteq {CI, WebSearch}
  /\ McpTools \cap ({CI, WebSearch} \cup CustomTools \cup FunctionTools) = {}
  /\ BuiltinTools \cap (CustomTools \cup FunctionTools) = {}
  /\ CustomTools \cap FunctionTools = {}

(* A chunk of raw text is a draft and how much of it there is: a longer    *)
(* chunk of the same draft starts with the shorter, another draft does not.*)
RawChunk == [draft : Nat, len : Nat]

ASSUME RawAssumption == RawContents \subseteq Seq(RawChunk)

VARIABLES
  probe,      \* text_tool_call_probe_names is not empty; the same for all of a request
  keyOf,      \* _tool_call_id_to_item_key
  itemKind,   \* _item_kind
  buffer,     \* _text_part_buffers: chunks held back while probing
  raw,        \* _reasoning_raw_content: the raw text of a part by its key, if any
  pending     \* normalised events returned by on_event, not fed yet

normalizerVars == <<keyOf, itemKind, buffer, raw, pending>>

NoKey == -1
NoKind == "none"
NormalizerKinds == ItemKinds \cup {"text_tool_call_probe", NoKind}
PartTypes == {"text", "thinking", "tool"}

(* The result of a tool as pydantic_ai reports it: a RetryPromptPart, or a *)
(* ToolReturnPart whose MCP payload is unreadable, names another tool,     *)
(* carries an error, or is fine.                                           *)
Results == {"retry", "unreadable", "mismatch", "error", "ok"}

NormalizerInit ==
  /\ keyOf = [c \in CallIds |-> NoKey]
  /\ itemKind = [k \in Keys |-> NoKind]
  /\ buffer = [k \in Keys |-> 0]
  /\ raw = [k \in {} |-> <<>>]
  /\ pending = <<>>

Event(type, key, call, text) ==
  [type |-> type, key |-> key, call |-> call, text |-> text]

(* The kind of item a structured tool call becomes.                        *)
CallKind(tool) ==
  CASE tool \in McpTools -> "mcp_call"
    [] tool \in BuiltinTools \cap {WebSearch} -> "web_search_call"
    [] tool \in BuiltinTools \cap {CI} -> "code_interpreter_call"
    [] tool \in CustomTools -> "custom_tool_call"
    [] OTHER -> "function_call"

StartType(kind) ==
  CASE kind = "mcp_call" -> "McpCallStarted"
    [] kind = "web_search_call" -> "WebSearchCallStarted"
    [] kind = "code_interpreter_call" -> "CodeInterpreterCallStarted"
    [] kind = "custom_tool_call" -> "CustomToolCallStarted"
    [] OTHER -> "FunctionCallStarted"

(* args_as_json_str() renders absent arguments as the two characters "{}". *)
ArgsAsJson(n) == IF n = 0 THEN 1 ELSE n

(* Argument text leaves with the start of a call and with its deltas; that *)
(* of web searches and custom calls never does, and the extractor of the   *)
(* "code" string may hold a fragment back.                                 *)
Speaks(kind) == kind \notin {"web_search_call", "custom_tool_call"}
MayBeSilent(kind) ==
  kind \in {"web_search_call", "custom_tool_call", "code_interpreter_call"}

DeltaType(kind) ==
  CASE kind = "code_interpreter_call" -> "CodeInterpreterCallCodeDelta"
    [] kind = "mcp_call" -> "McpCallArgumentsDelta"
    [] OTHER -> "FunctionCallArgumentsDelta"

(* Faulty variant: an empty text part announces no message.                *)
OnTextStartIfAny(key, n) ==
  /\ itemKind' = [itemKind EXCEPT ![key] = "message"]
  /\ pending' = IF n > 0 THEN <<Event("MessageStarted", key, NoCall, 0),
                                Event("MessageDelta", key, NoCall, n)>> ELSE <<>>
  /\ UNCHANGED <<keyOf, buffer, raw>>

OnTextStart(key, n) ==
  /\ \/ /\ probe
        /\ itemKind' = [itemKind EXCEPT ![key] = "text_tool_call_probe"]
        /\ buffer' = [buffer EXCEPT ![key] = n]
        /\ pending' = <<>>
     \/ /\ ~probe
        /\ itemKind' = [itemKind EXCEPT ![key] = "message"]
        /\ pending' = IF n > 0
                      THEN <<Event("MessageStarted", key, NoCall, 0),
                             Event("MessageDelta", key, NoCall, n)>>
                      ELSE <<Event("MessageStarted", key, NoCall, 0)>>
        /\ UNCHANGED buffer
  /\ UNCHANGED <<keyOf, raw>>

(* What a provider's details say of a thinking part, or of one of its      *)
(* deltas once it is merged: nothing, nothing raw, or the whole raw text.   *)
Details == [kind : {"none", "other"}, text : {<<>>}] \cup [kind : {"raw"}, text : RawContents]

(* The characters of a raw text, each by its chunk and its place in it.     *)
Characters(text) == UNION {{i} \X (1 .. text[i].len) : i \in DOMAIN text}
Size(text) == Cardinality(Characters(text))

StartsWith(chunk, prefix) ==
  prefix.len = 0 \/ (chunk.draft = prefix.draft /\ chunk.len >= prefix.len)

(* Of a chunk that starts with what it was only the rest is new, of one    *)
(* that does not, all of it.                                               *)
Kept(previous, current, i) ==
  IF i \in DOMAIN previous /\ StartsWith(current[i], previous[i]) THEN previous[i].len ELSE 0

RawDiff(previous, current) ==
  Cardinality(UNION {{i} \X (Kept(previous, current, i) + 1 .. current[i].len) :
                       i \in DOMAIN current})

RawOf(key) == IF key \in DOMAIN raw THEN raw[key] ELSE <<>>
PutRaw(key, text) ==
  raw' = [k \in DOMAIN raw \cup {key} |-> IF k = key THEN text ELSE raw[k]]

(* Raw text goes before the content of the part.                           *)
OnThinkingStart(key, n, details) ==
  LET size == IF details.kind = "raw" THEN Size(details.text) ELSE n
  IN /\ itemKind' = [itemKind EXCEPT ![key] = "reasoning"]
     /\ pending' = IF size > 0
                   THEN <<Event("ReasoningStarted", key, NoCall, 0),
                          Event("ReasoningDelta", key, NoCall, size)>>
                   ELSE <<Event("ReasoningStarted", key, NoCall, 0)>>
     /\ IF details.kind = "raw" THEN PutRaw(key, details.text) ELSE UNCHANGED raw
     /\ UNCHANGED <<keyOf, buffer>>

OnToolStart(key, tool, call, n) ==
  LET kind    == CallKind(tool)
      started == Event(StartType(kind), key, call, 0)
      initial == IF kind = "code_interpreter_call" THEN n ELSE ArgsAsJson(n)
  IN /\ keyOf' = [keyOf EXCEPT ![call] = key]
     /\ itemKind' = [itemKind EXCEPT ![key] = kind]
     /\ \/ MayBeSilent(kind) /\ pending' = <<started>>
        \/ /\ Speaks(kind) /\ initial > 0
           /\ pending' = <<started, Event(DeltaType(kind), key, call, initial)>>
     /\ UNCHANGED <<buffer, raw>>

OnTextDelta(key, n) ==
  /\ \/ /\ itemKind[key] = "text_tool_call_probe"
        /\ buffer' = [buffer EXCEPT ![key] = @ + n]
        /\ pending' = <<>>
     \/ /\ itemKind[key] # "text_tool_call_probe"
        /\ pending' = IF n > 0 THEN <<Event("MessageDelta", key, NoCall, n)>> ELSE <<>>
        /\ UNCHANGED buffer
  /\ UNCHANGED <<keyOf, itemKind, raw>>

(* Details that bring nothing raw leave the raw text there is as it was;   *)
(* where there is raw text the content of a delta with details is dropped. *)
OnThinkingDelta(key, n, details) ==
  LET patched == details.kind = "raw" \/ (details.kind = "other" /\ key \in DOMAIN raw)
      current == IF details.kind = "raw" THEN details.text ELSE RawOf(key)
      size    == IF patched THEN RawDiff(RawOf(key), current) ELSE n
  IN /\ pending' = IF size > 0 THEN <<Event("ReasoningDelta", key, NoCall, size)>> ELSE <<>>
     /\ IF patched THEN PutRaw(key, current) ELSE UNCHANGED raw
     /\ UNCHANGED <<keyOf, itemKind, buffer>>

(* The key of a tool delta or of a tool result is the one its call id was  *)
(* registered with; a delta falls back to the key of its part.             *)
KeyOfCall(call, key) == IF keyOf[call] = NoKey THEN key ELSE keyOf[call]

OnToolDelta(key, call, n) ==
  /\ LET k == KeyOfCall(call, key) IN
       \/ MayBeSilent(itemKind[k]) /\ pending' = <<>>
       \/ /\ Speaks(itemKind[k])
          /\ pending' = <<Event(DeltaType(itemKind[k]), k, call, n)>>
  /\ UNCHANGED <<keyOf, itemKind, buffer, raw>>

(* A text part ends.  When probing, the whole text is inspected: plain     *)
(* text is replayed as a message, a recognised call (declared tools only)  *)
(* becomes a call item that starts and finishes at once.                   *)
OnTextEnd(key, n) ==
  LET text == IF buffer[key] > 0 THEN buffer[key] ELSE n
  IN
  \/ /\ itemKind[key] # "text_tool_call_probe"
     /\ pending' = <<Event("MessageDone", key, NoCall, n)>>
     /\ UNCHANGED <<keyOf, itemKind, buffer, raw>>
  \/ /\ itemKind[key] = "text_tool_call_probe"
     /\ buffer' = [buffer EXCEPT ![key] = 0]
     /\ UNCHANGED <<keyOf, raw>>
     /\ \/ /\ itemKind' = [itemKind EXCEPT ![key] = "message"]
           /\ pending' = IF text > 0
                         THEN <<Event("MessageStarted", key, NoCall, 0),
                                Event("MessageDelta", key, NoCall, text),
                                Event("MessageDone", key, NoCall, text)>>
                         ELSE <<Event("MessageStarted", key, NoCall, 0),
                                Event("MessageDone", key, NoCall, text)>>
        \/ /\ text > 0 /\ CustomTools # {}
           /\ itemKind' = [itemKind EXCEPT ![key] = "custom_tool_call"]
           /\ pending' = <<Event("CustomToolCallStarted", key, NoCall, 0),
                           Event("CustomToolCallDone", key, NoCall, text)>>
        \/ /\ text > 0 /\ FunctionTools # {}
           /\ itemKind' = [itemKind EXCEPT ![key] = "function_call"]
           /\ pending' = <<Event("FunctionCallStarted", key, NoCall, 0),
                           Event("FunctionCallDone", key, NoCall, text)>>

(* Faulty variant: the raw text stays behind and meets the next part that  *)
(* has the key.                                                            *)
OnThinkingEndKeepsRaw(key, n) ==
  /\ pending' = <<Event("ReasoningDone", key, NoCall,
                        IF key \in DOMAIN raw THEN Size(raw[key]) ELSE n)>>
  /\ UNCHANGED <<keyOf, itemKind, buffer, raw>>

OnThinkingEnd(key, n) ==
  /\ pending' = <<Event("ReasoningDone", key, NoCall,
                        IF key \in DOMAIN raw THEN Size(raw[key]) ELSE n)>>
  /\ raw' = [k \in DOMAIN raw \ {key} |-> raw[k]]
  /\ UNCHANGED <<keyOf, itemKind, buffer>>

(* Code and MCP calls stay open until their result, web search calls say   *)
(* nothing here, the others are finished: the client executes them.        *)
OnToolEnd(key, call, n) ==
  /\ LET k == KeyOfCall(call, key) IN
       pending' =
         CASE itemKind[k] = "code_interpreter_call" ->
                <<Event("CodeInterpreterCallCodeDone", k, call, n)>>
           [] itemKind[k] = "web_search_call" -> <<>>
           [] itemKind[k] = "mcp_call" -> <<Event("McpCallArgumentsDone", k, call, n)>>
           [] itemKind[k] = "custom_tool_call" ->
                <<Event("CustomToolCallDone", k, call, n)>>
           [] OTHER -> <<Event("FunctionCallDone", k, call, n)>>
  /\ UNCHANGED <<keyOf, itemKind, buffer, raw>>

(* The events about a call whose id has no item are dropped.               *)
Registered(call) == keyOf[call] # NoKey

(* The run is about to execute a call: only the tool's name is looked at.  *)
OnFunctionToolCall(call, tool) ==
  /\ pending' =
       CASE Registered(call) /\ tool = CI ->
              <<Event("CodeInterpreterCallInterpreting", keyOf[call], call, 0)>>
         [] Registered(call) /\ tool = WebSearch ->
              <<Event("WebSearchCallSearching", keyOf[call], call, 0)>>
         [] OTHER -> <<>>
  /\ UNCHANGED <<keyOf, itemKind, buffer, raw>>

(* Faulty variant: a tool that fails leaves its item as it is.             *)
OnFunctionToolResultIfOk(call, tool, result) ==
  LET type == CASE itemKind[keyOf[call]] = "mcp_call" -> "McpCallCompleted"
                [] tool = WebSearch -> "WebSearchCallCompleted"
                [] OTHER -> "CodeInterpreterCallCompleted"
  IN
  /\ pending' = IF Registered(call) /\ result = "ok" /\ tool \in {CI, WebSearch} \cup McpTools
                THEN <<Event(type, keyOf[call], call, 0)>> ELSE <<>>
  /\ UNCHANGED <<keyOf, itemKind, buffer, raw>>

(* The result finishes the item of its call: an MCP call completes or      *)
(* fails as its payload says, a retry prompt completes a code interpreter  *)
(* call with empty output and says nothing of a web search.                *)
OnFunctionToolResult(call, tool, result) ==
  LET mcp     == Registered(call) /\ itemKind[keyOf[call]] = "mcp_call"
      builtin == Registered(call) /\ itemKind[keyOf[call]] # "mcp_call"
  IN
  /\ pending' =
       CASE mcp /\ result = "ok" -> <<Event("McpCallCompleted", keyOf[call], call, 0)>>
         [] mcp /\ result # "ok" -> <<Event("McpCallFailed", keyOf[call], call, 0)>>
         [] builtin /\ tool = WebSearch /\ result # "retry" ->
              <<Event("WebSearchCallCompleted", keyOf[call], call, 0)>>
         [] builtin /\ tool = CI ->
              <<Event("CodeInterpreterCallCompleted", keyOf[call], call, 0)>>
         [] OTHER -> <<>>
  /\ UNCHANGED <<keyOf, itemKind, buffer, raw>>

NormalizerTypeOK ==
  /\ keyOf \in [CallIds -> Keys \cup {NoKey}]
  /\ itemKind \in [Keys -> NormalizerKinds]
  /\ buffer \in [Keys -> Nat]
  /\ DOMAIN raw \subseteq Keys /\ raw \in [DOMAIN raw -> RawContents]
=============================================================================
