--------------------------- MODULE ResponseStream ---------------------------
(***************************************************************************)
(* One POST /v1/responses request from the pipeline that is built for it   *)
(* to the last frame (lm.py LMEngine, responses_core/sse.py,               *)
(* routers/serving.py), over the normaliser and the composer.              *)
(*                                                                         *)
(* Actors: the pydantic_ai run (external: model turns made of parts, then  *)
(* the tool calls of the turn, whose results arrive in any order), the     *)
(* engine that feeds the composer and persists the terminal response, the  *)
(* response store (external here: a write succeeds, or raises whether it   *)
(* took effect or not), and the                                            *)
(* reader, who may go away at any moment.                                  *)
(***************************************************************************)
EXTENDS PydanticAINormalizer

CONSTANTS
  MaxTurns,       \* bound: model turns of one run
  MaxChunks,      \* bound: chunks of one part
  MaxRewrites,    \* bound: deltas that do not append to the thoughts
  RetriedTools    \* tools the run may answer with a retry prompt

ASSUME BoundsAssumption ==
  /\ MaxTurns \in Nat \ {0}
  /\ MaxChunks \in Nat
  /\ MaxRewrites \in Nat
  /\ RetriedTools \subseteq ToolNames

VARIABLES
  agent,      \* the run: "model", "tools", "finished", "failed" or "broken"
  turn,       \* current model turn
  nextPart,   \* index of the turn's next part
  part,       \* the open part
  calls,      \* tool calls by id
  rewrites,    \* history: deltas of thoughts that did not append to them
  mode,       \* body.stream: "stream" or "json"
  store,      \* body.store
  engine,     \* where the request is
  status,     \* response.status
  output,     \* response.output, as output indexes
  stored,     \* status and output of the row written for the response
  lifecycle   \* lifecycle frames on the wire, with the [DONE] marker

agentVars == <<agent, turn, nextPart, part, calls, rewrites>>
engineVars == <<mode, store, probe, engine, status, output, stored, lifecycle>>
vars == <<composerVars, normalizerVars, agentVars, engineVars>>

NoPart == [type |-> "none", index |-> -1, tool |-> "none", call |-> NoCall, chunks |-> 0]
Part == [type : PartTypes, index : Keys, tool : ToolNames \cup {"none"},
         call : CallIds \cup {NoCall}, chunks : 0 .. MaxChunks]
CallStates == {"unused", "named", "issued", "answered", "deferred"}
Call == [state : CallStates, tool : ToolNames \cup {"none"}]
StreamEvent == [type : ItemEventTypes \cup {"UsageFinal", "UsageFinalIncomplete"},
                key : Keys, call : CallIds \cup {NoCall}, text : Nat]
Ended == {"closed", "aborted", "rejected", "disconnected"}
Statuses == {"none", "in_progress", "completed", "incomplete", "failed"}
NotStored == [status |-> "none", output |-> <<>>]

Init ==
  /\ ComposerInit
  /\ NormalizerInit
  /\ agent = "model" /\ turn = 1 /\ nextPart = 0 /\ part = NoPart
  /\ calls = [c \in CallIds |-> [state |-> "unused", tool |-> "none"]]
  /\ rewrites = 0
  /\ mode \in {"stream", "json"}
  /\ store \in BOOLEAN
  /\ probe \in BOOLEAN
  /\ engine = "building"
  /\ status = "none" /\ output = <<>> /\ stored = NotStored
  /\ lifecycle = <<>>

-----------------------------------------------------------------------------
(* The pydantic_ai run.  The engine asks for the next event only when      *)
(* every normalised event of the previous one has been fed.                *)

Asked == engine = "running" /\ pending = <<>>

(* The run announces the start of a text or thinking part or a tool call.  *)
PartStart ==
  /\ Asked /\ agent = "model" /\ part = NoPart /\ nextPart \in Keys
  /\ \E n \in 0 .. MaxChunks :
       \/ /\ OnTextStart(nextPart, n)
          /\ part' = [NoPart EXCEPT !.type = "text", !.index = nextPart, !.chunks = n]
          /\ UNCHANGED calls
       \/ /\ \E details \in Details : OnThinkingStart(nextPart, n, details)
          /\ part' = [NoPart EXCEPT !.type = "thinking", !.index = nextPart, !.chunks = n]
          /\ UNCHANGED calls
       \/ \E tool \in ToolNames, c \in CallIds :
            /\ calls[c].state = "unused"
            /\ OnToolStart(nextPart, tool, c, n)
            /\ part' = [type |-> "tool", index |-> nextPart, tool |-> tool,
                        call |-> c, chunks |-> n]
            /\ calls' = [calls EXCEPT ![c] = [state |-> "named", tool |-> tool]]
  /\ nextPart' = nextPart + 1
  /\ UNCHANGED <<composerVars, agent, turn, rewrites, engineVars>>

(* The raw text grew at its end: what was sent of it still stands, in the  *)
(* order it was sent.                                                      *)
GrowsAtEnd(previous, current) ==
  \A i \in DOMAIN previous :
    /\ i \in DOMAIN current /\ StartsWith(current[i], previous[i])
    /\ current[i].len > previous[i].len
         => \A j \in DOMAIN previous : j > i => previous[j].len = 0

(* A delta of thoughts adds to what was sent of them: raw text does not    *)
(* follow content, nor content raw text, and raw text grows at its end.    *)
Appends(key, sent, n, details) ==
  CASE details.kind = "raw" /\ key \in DOMAIN raw -> GrowsAtEnd(raw[key], details.text)
    [] details.kind = "raw" /\ key \notin DOMAIN raw -> sent = 0
    [] details.kind = "none" -> key \in DOMAIN raw => n = 0
    [] OTHER -> TRUE

PartDelta ==
  /\ Asked /\ agent = "model" /\ part # NoPart
  /\ \E n \in 0 .. MaxChunks - part.chunks :
       /\ part' = [part EXCEPT !.chunks = @ + n]
       /\ \/ part.type = "text" /\ OnTextDelta(part.index, n) /\ UNCHANGED rewrites
          \/ part.type = "tool" /\ OnToolDelta(part.index, part.call, n) /\ UNCHANGED rewrites
          \/ /\ part.type = "thinking"
             /\ \E details \in Details :
                  /\ OnThinkingDelta(part.index, n, details)
                  /\ IF Appends(part.index, part.chunks, n, details)
                       THEN UNCHANGED rewrites
                       ELSE rewrites < MaxRewrites /\ rewrites' = rewrites + 1
  /\ UNCHANGED <<composerVars, agent, turn, nextPart, calls, engineVars>>

PartEnd ==
  /\ Asked /\ agent = "model" /\ part # NoPart
  /\ part' = NoPart
  /\ \/ part.type = "text" /\ OnTextEnd(part.index, part.chunks)
     \/ part.type = "thinking" /\ OnThinkingEnd(part.index, part.chunks)
     \/ part.type = "tool" /\ OnToolEnd(part.index, part.call, part.chunks)
  /\ UNCHANGED <<composerVars, agent, turn, nextPart, calls, rewrites, engineVars>>

(* Names the run cannot execute: it answers them with a retry prompt.      *)
UnknownTools == ToolNames \ (McpTools \cup BuiltinTools \cup CustomTools \cup FunctionTools)

InState(s) == {c \in CallIds : calls[c].state = s}

(* The model turn is over; its calls are executed, those of the client's   *)
(* own tools are left for the client.                                      *)
TurnEnd ==
  /\ Asked /\ agent = "model" /\ part = NoPart /\ InState("named") # {}
  /\ agent' = "tools"
  /\ UNCHANGED <<composerVars, normalizerVars, turn, nextPart, part, calls, rewrites, engineVars>>

ToolCall(c) ==
  /\ Asked /\ agent = "tools" /\ calls[c].state = "named"
  /\ OnFunctionToolCall(c, calls[c].tool)
  /\ calls' = [calls EXCEPT ![c].state =
                 IF calls[c].tool \in CustomTools \cup FunctionTools THEN "deferred" ELSE "issued"]
  /\ UNCHANGED <<composerVars, agent, turn, nextPart, part, rewrites, engineVars>>

(* Tools run concurrently: results arrive in any order.                    *)
ToolResult(c, result) ==
  /\ Asked /\ agent = "tools" /\ InState("named") = {} /\ calls[c].state = "issued"
  /\ result = "retry" => calls[c].tool \in RetriedTools \cup UnknownTools
  /\ result = "ok" => calls[c].tool \notin UnknownTools
  /\ result \in {"unreadable", "mismatch", "error"} => calls[c].tool \in McpTools
  /\ OnFunctionToolResult(c, calls[c].tool, result)
  /\ calls' = [calls EXCEPT ![c].state = "answered"]
  /\ UNCHANGED <<composerVars, agent, turn, nextPart, part, rewrites, engineVars>>

AllAnswered == InState("named") = {} /\ InState("issued") = {}

(* Another model request: part indexes start again at 0.                   *)
NextTurn ==
  /\ Asked /\ agent = "tools" /\ AllAnswered /\ InState("deferred") = {}
  /\ turn < MaxTurns
  /\ agent' = "model" /\ turn' = turn + 1 /\ nextPart' = 0
  /\ UNCHANGED <<composerVars, normalizerVars, part, calls, rewrites, engineVars>>

(* AgentRunResultEvent: a final text, or calls deferred to the client.     *)
RunResult ==
  /\ Asked /\ part = NoPart /\ nextPart > 0
  /\ \/ agent = "model" /\ InState("named") = {}
     \/ agent = "tools" /\ AllAnswered /\ InState("deferred") # {}
  /\ agent' = "finished"
  /\ \E type \in {"UsageFinal", "UsageFinalIncomplete"} :
       pending' = <<Event(type, 0, NoCall, 0)>>
  /\ UNCHANGED <<composerVars, keyOf, itemKind, buffer, raw, turn, nextPart, part, calls, rewrites,
                 engineVars>>

(* ModelHTTPError or UnexpectedModelBehavior ("failed"), or any other      *)
(* exception, such as UsageLimitExceeded of the request limit ("broken").  *)
RunRaises ==
  /\ Asked /\ agent \in {"model", "tools"}
  /\ agent' \in {"failed", "broken"}
  /\ UNCHANGED <<composerVars, normalizerVars, turn, nextPart, part, calls, rewrites, engineVars>>

-----------------------------------------------------------------------------
(* The engine.                                                             *)

(* Rehydration and settings either raise, before the first chunk and so    *)
(* with an HTTP error, or start the stream.                                *)
Build ==
  /\ engine = "building"
  /\ \/ engine' = "rejected" /\ UNCHANGED <<status, lifecycle>>
     \/ /\ engine' = "running"
        /\ status' = "in_progress"
        /\ lifecycle' = IF mode = "stream" THEN <<"created", "in_progress">> ELSE <<>>
  /\ UNCHANGED <<composerVars, normalizerVars, agentVars, mode, store, probe, output, stored>>

Terminal(e) == e.type \in {"UsageFinal", "UsageFinalIncomplete"}

(* An exception the engine does not translate: the SSE stream just breaks, *)
(* a JSON request gets an HTTP error.                                      *)
Breakdown == IF mode = "stream" THEN "aborted" ELSE "rejected"

(* A key the composer does not know would raise KeyError: Known never      *)
(* fails (NoKeyError), so the raise has no action of its own.              *)
FeedPending ==
  /\ engine = "running" /\ pending # <<>> /\ ~Terminal(Head(pending))
  /\ Feed(Head(pending))
  /\ pending' = Tail(pending)
  /\ UNCHANGED <<keyOf, itemKind, buffer, raw, agentVars, engineVars>>

CompleteResponse ==
  /\ engine = "running" /\ pending # <<>> /\ Terminal(Head(pending))
  /\ pending' = Tail(pending)
  /\ output' = outputItems
  /\ status' = IF Head(pending).type = "UsageFinal" THEN "completed" ELSE "incomplete"
  /\ engine' = "persisting"
  /\ UNCHANGED <<composerVars, keyOf, itemKind, buffer, raw, agentVars, mode, store, probe, stored,
                 lifecycle>>

(* Faulty variant: only completed responses are written.                   *)
PersistCompletedOnly ==
  /\ engine = "persisting"
  /\ engine' = "closing"
  /\ stored' = IF store /\ status = "completed"
               THEN [status |-> status, output |-> output] ELSE stored
  /\ lifecycle' = IF mode = "json" THEN lifecycle ELSE Append(lifecycle, status)
  /\ UNCHANGED <<composerVars, normalizerVars, agentVars, mode, store, probe, status, output>>

(* The terminal frame leaves after the write; [DONE] follows `completed`   *)
(* at once and `incomplete` when the stream ends.                          *)
Persist ==
  /\ engine = "persisting"
  /\ engine' = "closing"
  /\ stored' = IF store THEN [status |-> status, output |-> output] ELSE stored
  /\ lifecycle' = IF mode = "json" THEN lifecycle
                  ELSE lifecycle \o (IF status = "completed" THEN <<"completed", "[DONE]">>
                                                             ELSE <<"incomplete">>)
  /\ UNCHANGED <<composerVars, normalizerVars, agentVars, mode, store, probe, status, output>>

Row == [status |-> status, output |-> output]

(* The write raises: its commit may have taken effect all the same, and    *)
(* the cache is only filled once it has.                                   *)
PersistRaises ==
  /\ engine = "persisting" /\ store
  /\ engine' = Breakdown
  /\ stored' \in {stored, Row}
  /\ UNCHANGED <<composerVars, normalizerVars, agentVars, mode, store, probe, status, output,
                 lifecycle>>

(* A model failure becomes `error` and `response.failed` frames.           *)
FailResponse ==
  /\ engine = "running" /\ agent = "failed"
  /\ \/ /\ mode = "stream"
        /\ status' = "failed"
        /\ lifecycle' = lifecycle \o <<"error", "failed", "[DONE]">>
        /\ engine' = "closing"
     \/ /\ mode = "json"
        /\ engine' = "rejected"
        /\ UNCHANGED <<status, lifecycle>>
  /\ UNCHANGED <<composerVars, normalizerVars, agentVars, mode, store, probe, output, stored>>

BreakStream ==
  /\ engine = "running" /\ agent = "broken"
  /\ engine' = Breakdown
  /\ UNCHANGED <<composerVars, normalizerVars, agentVars, mode, store, probe, status, output,
                 stored, lifecycle>>

Marked == \E i \in DOMAIN lifecycle : lifecycle[i] = "[DONE]"

(* The event iterator is exhausted: the marker is sent if it was not.      *)
Close ==
  /\ engine = "closing"
  /\ engine' = "closed"
  /\ lifecycle' = IF mode = "json" \/ Marked THEN lifecycle ELSE Append(lifecycle, "[DONE]")
  /\ UNCHANGED <<composerVars, normalizerVars, agentVars, mode, store, probe, status, output, stored>>

(* The client goes away; a write under way may or may not have committed.  *)
Disconnect ==
  /\ engine \in {"running", "persisting", "closing"}
  /\ engine' = "disconnected"
  /\ \/ UNCHANGED stored
     \/ engine = "persisting" /\ store /\ stored' = Row
  /\ UNCHANGED <<composerVars, normalizerVars, agentVars, mode, store, probe, status, output, lifecycle>>

(* The request is over.                                                    *)
Over == engine \in Ended /\ UNCHANGED vars

Next ==
  \/ PartStart \/ PartDelta \/ PartEnd \/ TurnEnd
  \/ \E c \in CallIds : ToolCall(c)
  \/ \E c \in CallIds, result \in Results : ToolResult(c, result)
  \/ NextTurn \/ RunResult \/ RunRaises
  \/ Build \/ FeedPending \/ CompleteResponse
  \/ Persist \/ PersistRaises \/ FailResponse \/ BreakStream \/ Close \/ Disconnect
  \/ Over

Spec == Init /\ [][Next]_vars

-----------------------------------------------------------------------------
(* Properties *)

AgentTypeOK ==
  /\ agent \in {"model", "tools", "finished", "failed", "broken"}
  /\ turn \in 1 .. MaxTurns
  /\ nextPart \in 0 .. MaxParts
  /\ part \in Part \cup {NoPart}
  /\ calls \in [CallIds -> Call]
  /\ rewrites \in 0 .. MaxRewrites

EngineTypeOK ==
  /\ mode \in {"stream", "json"}
  /\ store \in BOOLEAN /\ probe \in BOOLEAN
  /\ engine \in {"building", "running", "persisting", "closing"} \cup Ended
  /\ status \in Statuses
  /\ output \in Seq(Nat)
  /\ stored \in [status : Statuses, output : Seq(Nat)]
  /\ lifecycle \in Seq({"created", "in_progress", "completed", "incomplete",
                        "error", "failed", "[DONE]"})

(* The type of every variable.                                             *)
TypeOK ==
  /\ ComposerTypeOK
  /\ NormalizerTypeOK
  /\ pending \in Seq(StreamEvent)
  /\ AgentTypeOK
  /\ EngineTypeOK

(* Every normalised event names an item the composer has registered, over  *)
(* turns that reuse the keys, text held back by the probe and results that *)
(* come late: self._items[event.item_key] never raises KeyError.           *)
NoKeyError ==
  pending # <<>> /\ ~Terminal(Head(pending)) => Known(Head(pending))

(* Frames produced for a tool call carry the output_index of the item that *)
(* was added for that very call, although keys are reused and results are  *)
(* reordered (_tool_call_id_to_item_key and _items agree).                 *)
FramesReachTheirCall ==
  pending # <<>> /\ Head(pending).call # NoCall /\ Head(pending).type \notin StartTypes
    => client[Slot(Head(pending))].call = Head(pending).call

(* When a terminal response is built every item it announced is done.      *)
TerminalClosesItems ==
  status \in {"completed", "incomplete"} => \A i \in DOMAIN client : client[i].dones = 1

(* response.output of a terminal response lists every announced item once. *)
OutputListsEachItem ==
  status \in {"completed", "incomplete"} =>
    /\ Len(output) = Len(client)
    /\ {output[n] : n \in DOMAIN output} = 0 .. Len(client) - 1

(* The reader hears `completed` or `incomplete` of a stored response only  *)
(* when the row with that status and output is written; and a row is only  *)
(* ever written of a response that was to be stored and is complete,       *)
(* whatever the write, the run or the reader did: a failed request, or one *)
(* that broke off earlier, leaves nothing that can be continued from.      *)
TerminalIsDurable ==
  /\ \A i \in DOMAIN lifecycle :
       lifecycle[i] \in {"completed", "incomplete"} /\ store
         => stored = [status |-> lifecycle[i], output |-> output]
  /\ stored # NotStored =>
       store /\ stored = Row /\ status \in {"completed", "incomplete"}

(* The deltas of a finished message add up to its final text, and so do    *)
(* those of the shared reasoning item once the response is terminal, over  *)
(* turns that reuse part keys and thoughts that come as content or as raw  *)
(* text, as long as raw text grew at its end and did not mix with content. *)
DeltasSpellText ==
  \A i \in DOMAIN client :
    (\/ client[i].kind = "message" /\ client[i].dones > 0
     \/ client[i].kind = "reasoning" /\ rewrites = 0 /\ status \in {"completed", "incomplete"})
      => client[i].sent = client[i].text

(* An item as the client sees it.  One that is marked done again, or whose *)
(* done frame is followed by other frames about it, is spoilt, a state the *)
(* contract does not have; the reasoning item, which every thinking        *)
(* segment of the response extends, is the exception.                      *)
Seen(it) ==
  CASE it.dones = 0 -> "open"
    [] it.dones = 1 /\ (it.late => it.kind = "reasoning") -> "done"
    [] OTHER -> "spoilt"

(* The request keeps the contract a client relies on, over everything the  *)
(* run, the composer and the store do: added, deltas and done of every     *)
(* item, all of them before the terminal frame, and a response that can be *)
(* continued once its terminal frame is sent.                              *)
Contract ==
  INSTANCE StreamContract WITH
    view   <- [i \in DOMAIN client |-> Seen(client[i])],
    phase  <- CASE engine = "building" -> "waiting"
                [] engine \in {"running", "persisting"} -> "live"
                [] engine \in {"closing", "closed"} ->
                     IF status = "failed" THEN "failed" ELSE "concluded"
                [] engine = "rejected" -> "refused"
                [] OTHER -> "lost",
    wanted <- store,
    saved  <- stored # NotStored

KeepsContract == Contract!Spec

=============================================================================
