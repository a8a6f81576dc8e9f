-------------------------- MODULE ResponseComposer --------------------------
(***************************************************************************)
(* The composer of one response (responses_core/composer.py): it turns the *)
(* normalised events of a request into the frames of the Responses event   *)
(* stream and into the final list `response.output`.                       *)
(*                                                                         *)
(* An output item is identified by its output_index (the item id is        *)
(* allocated together with it and never shared).  Text, arguments and code *)
(* are abstracted to the number of chunks they are made of.                *)
(*                                                                         *)
(* `client` is what a reader of the stream reconstructs: one record per    *)
(* output_index, updated by the frames that carry that index.              *)
(***************************************************************************)
EXTENDS Integers, Sequences

CONSTANTS
  MaxParts,   \* bound: parts of one model turn, hence distinct item keys
  CallIds     \* tool_call_ids the model may use

ASSUME MaxPartsAssumption == MaxParts \in Nat \ {0}

VARIABLES
  items,          \* _items: item key -> output_index of the state stored there
  nextIndex,      \* _next_output_index
  outputItems,    \* _output_items, as output indexes
  reasoningItem,  \* _reasoning_item / _reasoning_state
  reasoningDone,  \* _reasoning_item_done_emitted
  client          \* the reader's reconstruction, in output_index order

composerVars ==
  <<items, nextIndex, outputItems, reasoningItem, reasoningDone, client>>

Keys == 0 .. MaxParts - 1     \* the item keys "part:{index}"
NoItem == -1
NoCall == "no call"

ASSUME CallIdsAssumption == NoCall \notin CallIds

ItemKinds == { "message", "reasoning", "function_call", "custom_tool_call",
               "code_interpreter_call", "web_search_call", "mcp_call" }

(***************************************************************************)
(* What the frames about one item have told the reader: its kind and call, *)
(* the chunks received in deltas, the length of the final text (done       *)
(* frames), how many output_item.done frames arrived, and whether any      *)
(* frame came after the first of them.                                     *)
(***************************************************************************)
ClientItem ==
  [kind : ItemKinds, call : CallIds \cup {NoCall}, sent : Nat, text : Nat,
   dones : Nat, late : BOOLEAN]

StartedKind ==
  [ MessageStarted             |-> "message",
    ReasoningStarted           |-> "reasoning",
    FunctionCallStarted        |-> "function_call",
    CustomToolCallStarted      |-> "custom_tool_call",
    CodeInterpreterCallStarted |-> "code_interpreter_call",
    WebSearchCallStarted       |-> "web_search_call",
    McpCallStarted             |-> "mcp_call" ]

StartTypes == DOMAIN StartedKind

DeltaTypes == { "MessageDelta", "ReasoningDelta", "FunctionCallArgumentsDelta",
                "McpCallArgumentsDelta", "CodeInterpreterCallCodeDelta" }

NoticeTypes == { "CodeInterpreterCallCodeDone", "CodeInterpreterCallInterpreting",
                 "WebSearchCallSearching", "McpCallArgumentsDone" }

FinishTypes == { "MessageDone", "FunctionCallDone", "CustomToolCallDone",
                 "CodeInterpreterCallCompleted", "WebSearchCallCompleted",
                 "McpCallCompleted", "McpCallFailed" }

ItemEventTypes ==
  StartTypes \cup DeltaTypes \cup NoticeTypes \cup FinishTypes \cup {"ReasoningDone"}

(* Events whose done frame carries the whole text or all the arguments.    *)
TextTypes == { "MessageDone", "FunctionCallDone", "McpCallArgumentsDone" }

ItemEvent ==
  [type : ItemEventTypes, key : Keys, call : CallIds \cup {NoCall}, text : Nat]

ComposerInit ==
  /\ items = [k \in Keys |-> NoItem]
  /\ nextIndex = 0
  /\ outputItems = <<>>
  /\ reasoningItem = NoItem
  /\ reasoningDone = FALSE
  /\ client = <<>>

(* The reader's record of a fresh item, after its output_item.added.       *)
AddedItem(kind, call) ==
  [kind |-> kind, call |-> call, sent |-> 0, text |-> 0, dones |-> 0, late |-> FALSE]

(* A frame about an item: late when that item's done frame preceded it.    *)
Touched(it) == [it EXCEPT !.late = @ \/ it.dones > 0]

(* The composer looks the item up by key; a missing key is a KeyError.     *)
Known(e) == e.type \in StartTypes \/ items[e.key] # NoItem

Slot(e) == items[e.key] + 1       \* position in client of the event's item

(* Faulty variant: a key that is already registered keeps its old item.    *)
AddItemOnce(e, kind) ==
  /\ items' = IF items[e.key] = NoItem THEN [items EXCEPT ![e.key] = nextIndex] ELSE items
  /\ nextIndex' = nextIndex + 1
  /\ client' = Append(client, AddedItem(kind, e.call))

AddItem(e, kind) ==
  /\ items' = [items EXCEPT ![e.key] = nextIndex]
  /\ nextIndex' = nextIndex + 1
  /\ client' = Append(client, AddedItem(kind, e.call))

StartItem(e) ==
  /\ e.type \in StartTypes \ {"ReasoningStarted"}
  /\ AddItem(e, StartedKind[e.type])
  /\ UNCHANGED <<outputItems, reasoningItem, reasoningDone>>

(* Faulty variant: the reasoning item is announced but not listed.         *)
StartReasoningUnlisted(e) ==
  /\ e.type = "ReasoningStarted"
  /\ \/ /\ reasoningItem # NoItem
        /\ items' = [items EXCEPT ![e.key] = reasoningItem]
        /\ UNCHANGED <<nextIndex, reasoningItem, client>>
     \/ /\ reasoningItem = NoItem
        /\ AddItem(e, "reasoning")
        /\ reasoningItem' = nextIndex
  /\ UNCHANGED <<outputItems, reasoningDone>>

(* All thinking parts of a response share one reasoning item, listed in    *)
(* the output as soon as it is created.                                    *)
StartReasoning(e) ==
  /\ e.type = "ReasoningStarted"
  /\ \/ /\ reasoningItem # NoItem
        /\ items' = [items EXCEPT ![e.key] = reasoningItem]
        /\ UNCHANGED <<nextIndex, outputItems, reasoningItem, client>>
     \/ /\ reasoningItem = NoItem
        /\ AddItem(e, "reasoning")
        /\ reasoningItem' = nextIndex
        /\ outputItems' = Append(outputItems, nextIndex)
  /\ UNCHANGED reasoningDone

(* What a frame of the event tells about the item: a delta, the final text *)
(* if the event has it, the end of the item.                               *)
FinalText(it, e) == IF e.type \in TextTypes THEN e.text ELSE it.text

Streamed(it, e) == [Touched(it) EXCEPT !.sent = it.sent + e.text]
Noticed(it, e) == [Touched(it) EXCEPT !.text = FinalText(it, e)]
Finished(it, e) == [Touched(it) EXCEPT !.text = FinalText(it, e), !.dones = it.dones + 1]

ItemDelta(e) ==
  /\ e.type \in DeltaTypes
  /\ client' = [client EXCEPT ![Slot(e)] = Streamed(@, e)]
  /\ UNCHANGED <<items, nextIndex, outputItems, reasoningItem, reasoningDone>>

ItemNotice(e) ==
  /\ e.type \in NoticeTypes
  /\ client' = [client EXCEPT ![Slot(e)] = Noticed(@, e)]
  /\ UNCHANGED <<items, nextIndex, outputItems, reasoningItem, reasoningDone>>

FinishItem(e) ==
  /\ e.type \in FinishTypes
  /\ client' = [client EXCEPT ![Slot(e)] = Finished(@, e)]
  /\ outputItems' = Append(outputItems, items[e.key])
  /\ UNCHANGED <<items, nextIndex, reasoningItem, reasoningDone>>

(* The text joins the content of the shared item; output_item.done is sent *)
(* with the first segment only.                                            *)
OwnSegment(e) == items[e.key] = reasoningItem

Segment(it, e) ==
  [Touched(it) EXCEPT
     !.text  = IF OwnSegment(e) THEN it.text + e.text ELSE it.text,
     !.dones = IF OwnSegment(e) /\ ~reasoningDone THEN it.dones + 1 ELSE it.dones]

FinishReasoning(e) ==
  /\ e.type = "ReasoningDone"
  /\ client' = [client EXCEPT ![Slot(e)] = Segment(@, e)]
  /\ reasoningDone' = (reasoningDone \/ OwnSegment(e))
  /\ UNCHANGED <<items, nextIndex, outputItems, reasoningItem>>

Feed(e) ==
  /\ Known(e)
  /\ \/ StartItem(e)
     \/ StartReasoning(e)
     \/ ItemDelta(e)
     \/ ItemNotice(e)
     \/ FinishItem(e)
     \/ FinishReasoning(e)

ComposerTypeOK ==
  /\ items \in [Keys -> Nat \cup {NoItem}]
  /\ nextIndex \in Nat
  /\ outputItems \in Seq(Nat)
  /\ reasoningItem \in Nat \cup {NoItem}
  /\ reasoningDone \in BOOLEAN
  /\ client \in Seq(ClientItem)
=============================================================================
