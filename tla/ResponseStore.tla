---------------------------- MODULE ResponseStore ----------------------------
(***************************************************************************)
(* Stateful conversations (responses_core/store.py DBResponseStore): what  *)
(* a request continues from when it names a previous_response_id, and what *)
(* is stored when it is answered, over a database of insert-only rows and  *)
(* an optional cache that may fail, expire or be emptied at any moment.    *)
(*                                                                         *)
(* Requests run concurrently in any number of gateway processes, which     *)
(* share the database and the cache and nothing else; every await between  *)
(* two of their accesses is a point where others may act.  The response id *)
(* of a request is the request itself (ids are random and never collide).  *)
(*                                                                         *)
(* Texts are abstracted to who wrote them: an input item is the role of a  *)
(* message and the request that brought it.                                *)
(***************************************************************************)
EXTENDS SequencesExt

CONSTANTS
  Requests,       \* bound: the requests of one behaviour
  Bodies,         \* what a request may say (see Body)
  CacheEnabled    \* runtime_config.response_store_cache

None == "none"    \* no request, no id, no instruction, no tools

ToolsGiven == {"omitted", "function", "mcp with credentials"}
ChoiceGiven == {"omitted", "auto", "function", "mcp"}

(* The fields of a request that matter: does it have a system message, a   *)
(* developer message, tools and a tool_choice of its own (auto, or one     *)
(* that names a function or an MCP tool), and is the response stored.      *)
Body == [system : BOOLEAN, developer : BOOLEAN, tools : ToolsGiven,
         choice : ChoiceGiven, store : BOOLEAN]

ASSUME StoreAssumption ==
  /\ Bodies \subseteq Body
  /\ CacheEnabled \in BOOLEAN
  /\ None \notin Requests

VARIABLES
  rows,       \* table responses_state, by response_id
  cache,      \* entries of the cache, by response_id
  pc,         \* where each request is
  body,       \* its fields
  prev,       \* its previous_response_id
  got,        \* what the lookup of the previous response returned
  hydrated    \* the hydrated request handed to the model run

vars == <<rows, cache, pc, body, prev, got, hydrated>>

Roles == {"system", "developer", "user", "output"}
Item == [role : Roles, by : Requests]
Tools == {None, "function", "mcp with credentials", "mcp"}
ToolChoices == {"auto", "function", "mcp"}

(* The columns and the payload of a row that matter.                       *)
Row == [id : Requests \cup {None}, input : Seq(Item), output : Seq(Item), tools : Tools,
        choice : ToolChoices, system : Requests \cup {None}]
NoRow == [id |-> None, input |-> <<>>, output |-> <<>>, tools |-> None,
          choice |-> "auto", system |-> None]

Hydrated == [input : Seq(Item), tools : Tools, choice : ToolChoices, system : Requests \cup {None}]
NotHydrated == [input |-> <<>>, tools |-> None, choice |-> "auto", system |-> None]

NoBody == [system |-> FALSE, developer |-> FALSE, tools |-> "omitted",
           choice |-> "omitted", store |-> FALSE]

Lookups == {"lookup", "query", "refill", "hydrate"}
Endings == {"answered", "failed", "not found", "refused", "unresolved", "gone"}
Places == {"idle", "running", "commit", "publish"} \cup Lookups \cup Endings

Init ==
  /\ rows = [id \in Requests |-> NoRow]
  /\ cache = [id \in Requests |-> NoRow]
  /\ pc = [r \in Requests |-> "idle"]
  /\ body = [r \in Requests |-> NoBody]
  /\ prev = [r \in Requests |-> None]
  /\ got = [r \in Requests |-> NoRow]
  /\ hydrated = [r \in Requests |-> NotHydrated]

-----------------------------------------------------------------------------
(* What is computed from a request and a stored response.                  *)

Message(role, r) == [role |-> role, by |-> r]

(* The input of a request: its messages, the user's last.                  *)
Input(r) ==
  (IF body[r].system THEN <<Message("system", r)>> ELSE <<>>)
    \o (IF body[r].developer THEN <<Message("developer", r)>> ELSE <<>>)
    \o <<Message("user", r)>>

Replayable == Roles \ {"system", "developer"}
NotSystem == Roles \ {"system"}

(* The messages of the input that have one of the roles, in order.         *)
WithRoles(input, roles) ==
  LET kept[i \in 0 .. Len(input)] ==
        IF i = 0 THEN <<>>
        ELSE IF input[i].role \in roles THEN Append(kept[i - 1], input[i])
        ELSE kept[i - 1]
  IN kept[Len(input)]

(* The system instruction a list of messages carries.                      *)
SystemIn(input) ==
  IF \E i \in DOMAIN input : input[i].role = "system"
  THEN LET i == CHOOSE i \in DOMAIN input : input[i].role = "system" IN input[i].by
  ELSE None

Else(value, default) == IF value # None THEN value ELSE default

Sanitized(tools) == IF tools = "mcp with credentials" THEN "mcp" ELSE tools

OwnTools(r) == IF body[r].tools = "omitted" THEN None ELSE body[r].tools
OwnChoice(r) == IF body[r].choice = "omitted" THEN "auto" ELSE body[r].choice

(* A request without previous_response_id goes on as it is, its system     *)
(* message still in its input.                                             *)
Root(r) ==
  [input |-> Input(r), tools |-> OwnTools(r), choice |-> OwnChoice(r), system |-> None]

(* Faulty variant: the output of the previous response is left out.        *)
ContinuedWithoutOutput(r, stored) ==
  [input  |-> WithRoles(stored.input, Replayable) \o WithRoles(Input(r), NotSystem),
   tools  |-> IF body[r].tools = "omitted" THEN stored.tools ELSE body[r].tools,
   choice |-> IF body[r].choice = "omitted" THEN stored.choice ELSE body[r].choice,
   system |-> Else(SystemIn(Input(r)), Else(stored.system, SystemIn(stored.input)))]

(* hydrated_input = stored.hydrated_input + response.output + new input;   *)
(* tools, tool_choice and the system instruction are the new ones if given *)
(* and otherwise the stored ones.                                          *)
Continued(r, stored) ==
  [input  |-> WithRoles(stored.input, Replayable) \o stored.output
                \o WithRoles(Input(r), NotSystem),
   tools  |-> IF body[r].tools = "omitted" THEN stored.tools ELSE body[r].tools,
   choice |-> IF body[r].choice = "omitted" THEN stored.choice ELSE body[r].choice,
   system |-> Else(SystemIn(Input(r)), Else(stored.system, SystemIn(stored.input)))]

(* A tool_choice that names a tool needs tools of the same request.        *)
BadChoice(r) == body[r].tools = "omitted" /\ body[r].choice \in {"function", "mcp"}

(* An MCP tool is resolved for every request anew, with what the effective *)
(* tools say of it, inherited or given.                                    *)
DeclaresMcp(h) == h.tools \in {"mcp", "mcp with credentials"}

(* The tool a tool_choice names must be among the effective tools.         *)
Runnable(h) ==
  \/ h.choice = "auto"
  \/ h.choice = "function" /\ h.tools = "function"
  \/ h.choice = "mcp" /\ DeclaresMcp(h)

(* Faulty variant: tools with credentials are dropped, not stripped.       *)
PayloadWithoutMcp(r) ==
  LET h == hydrated[r] IN
  [id |-> r, input |-> WithRoles(h.input, Replayable), output |-> <<Message("output", r)>>,
   tools |-> IF h.tools = "mcp with credentials" THEN None ELSE h.tools,
   choice |-> h.choice, system |-> Else(h.system, SystemIn(h.input))]

(* What is stored of an answered request.                                  *)
Payload(r) ==
  LET h == hydrated[r] IN
  [id |-> r, input |-> WithRoles(h.input, Replayable), output |-> <<Message("output", r)>>,
   tools |-> Sanitized(h.tools), choice |-> h.choice, system |-> Else(h.system, SystemIn(h.input))]

-----------------------------------------------------------------------------
(* One request.                                                            *)

Step(r, from, to) == pc[r] = from /\ pc' = [pc EXCEPT ![r] = to]

(* A request arrives; the client may name any response it has heard of,    *)
(* finished or not.                                                        *)
Arrive(r, b, p) ==
  /\ p # None => pc[p] # "idle"
  /\ body' = [body EXCEPT ![r] = b]
  /\ prev' = [prev EXCEPT ![r] = p]
  /\ Step(r, "idle", IF p = None THEN "hydrate" ELSE IF CacheEnabled THEN "lookup" ELSE "query")
  /\ UNCHANGED <<rows, cache, got, hydrated>>

(* get(): the cache first; a miss and any error fall through.              *)
CacheHit(r) ==
  /\ Step(r, "lookup", "hydrate")
  /\ cache[prev[r]] # NoRow
  /\ got' = [got EXCEPT ![r] = cache[prev[r]]]
  /\ UNCHANGED <<rows, cache, body, prev, hydrated>>

CacheMiss(r) ==
  /\ Step(r, "lookup", "query")
  /\ UNCHANGED <<rows, cache, body, prev, got, hydrated>>

Query(r) ==
  /\ \/ /\ Step(r, "query", "not found")
        /\ rows[prev[r]] = NoRow
        /\ UNCHANGED got
     \/ /\ Step(r, "query", IF CacheEnabled THEN "refill" ELSE "hydrate")
        /\ rows[prev[r]] # NoRow
        /\ got' = [got EXCEPT ![r] = rows[prev[r]]]
  /\ UNCHANGED <<rows, cache, body, prev, hydrated>>

(* The schema cannot be set up or the query raises.                        *)
QueryRaises(r) ==
  /\ Step(r, "query", "failed")
  /\ UNCHANGED <<rows, cache, body, prev, got, hydrated>>

(* Faulty variant: the entry is written under the id of the new response.  *)
RefillOwnKey(r) ==
  /\ Step(r, "refill", "hydrate")
  /\ cache' = [cache EXCEPT ![r] = got[r]]
  /\ UNCHANGED <<rows, body, prev, got, hydrated>>

(* The row that was read is put in the cache; an error is ignored.         *)
Refill(r) ==
  /\ Step(r, "refill", "hydrate")
  /\ \/ cache' = [cache EXCEPT ![prev[r]] = got[r]]
     \/ UNCHANGED cache
  /\ UNCHANGED <<rows, body, prev, got, hydrated>>

(* The conversation is put together and handed to the model, or the        *)
(* request is refused as a whole: because its tool_choice does not fit, or *)
(* because an MCP tool cannot be resolved (resolve_mcp_declarations: the   *)
(* server is unknown, switched off, unreachable, or does not list its      *)
(* tools to a request without the credentials that were not stored).       *)
Hydrate(r) ==
  LET h      == IF prev[r] = None THEN Root(r) ELSE Continued(r, got[r])
      unfit  == prev[r] # None /\ BadChoice(r)
  IN /\ \/ /\ ~unfit /\ Runnable(h)
           /\ Step(r, "hydrate", "running")
           /\ hydrated' = [hydrated EXCEPT ![r] = h]
        \/ /\ unfit \/ ~Runnable(h)
           /\ Step(r, "hydrate", "refused")
           /\ UNCHANGED hydrated
        \/ /\ ~unfit /\ DeclaresMcp(h)
           /\ Step(r, "hydrate", "unresolved")
           /\ UNCHANGED hydrated
     /\ UNCHANGED <<rows, cache, body, prev, got>>

(* Faulty variant: incomplete responses are answered without being stored. *)
FinishCompletedOnly(r) ==
  /\ \E status \in {"completed", "incomplete", "failed"} :
       Step(r, "running",
            CASE status = "failed" -> "failed"
              [] status = "completed" /\ body[r].store -> "commit"
              [] OTHER -> "answered")
  /\ UNCHANGED <<rows, cache, body, prev, got, hydrated>>

(* The model run ends: completed and incomplete responses of requests with *)
(* store are persisted before they are answered.                           *)
Finish(r) ==
  /\ \E status \in {"completed", "incomplete", "failed"} :
       Step(r, "running",
            IF status = "failed" THEN "failed"
            ELSE IF body[r].store THEN "commit" ELSE "answered")
  /\ UNCHANGED <<rows, cache, body, prev, got, hydrated>>

Commit(r) ==
  /\ Step(r, "commit", IF CacheEnabled THEN "publish" ELSE "answered")
  /\ rows' = [rows EXCEPT ![r] = Payload(r)]
  /\ UNCHANGED <<cache, body, prev, got, hydrated>>

(* Faulty variant: the cache is written although the commit raises.        *)
CommitRaisesCached(r) ==
  /\ Step(r, "commit", "failed")
  /\ cache' = [cache EXCEPT ![r] = Payload(r)]
  /\ UNCHANGED <<rows, body, prev, got, hydrated>>

(* The insert raises; when the connection is lost after the commit was     *)
(* sent the row may be there all the same.                                 *)
CommitRaises(r) ==
  /\ Step(r, "commit", "failed")
  /\ \/ rows' = [rows EXCEPT ![r] = Payload(r)]
     \/ UNCHANGED rows
  /\ UNCHANGED <<cache, body, prev, got, hydrated>>

(* The new row is put in the cache; an error is ignored.                   *)
Publish(r) ==
  /\ Step(r, "publish", "answered")
  /\ \/ cache' = [cache EXCEPT ![r] = Payload(r)]
     \/ UNCHANGED cache
  /\ UNCHANGED <<rows, body, prev, got, hydrated>>

(* The client disconnects or the gateway process dies; a commit or a cache *)
(* write that is under way may still be executed.                          *)
Leave(r) ==
  /\ pc[r] \notin {"idle"} \cup Endings
  /\ pc' = [pc EXCEPT ![r] = "gone"]
  /\ \/ UNCHANGED <<rows, cache>>
     \/ pc[r] = "commit" /\ rows' = [rows EXCEPT ![r] = Payload(r)] /\ UNCHANGED cache
     \/ pc[r] = "publish" /\ cache' = [cache EXCEPT ![r] = Payload(r)] /\ UNCHANGED rows
  /\ UNCHANGED <<body, prev, got, hydrated>>

(* The time to live of an entry passes, or the cache server drops it.      *)
Expire(id) ==
  /\ cache[id] # NoRow
  /\ cache' = [cache EXCEPT ![id] = NoRow]
  /\ UNCHANGED <<rows, pc, body, prev, got, hydrated>>

Next ==
  \/ \E r \in Requests :
       \/ \E b \in Bodies, p \in Requests \cup {None} : Arrive(r, b, p)
       \/ CacheHit(r) \/ CacheMiss(r) \/ Query(r) \/ QueryRaises(r) \/ Refill(r)
       \/ Hydrate(r) \/ Finish(r) \/ Commit(r) \/ CommitRaises(r) \/ Publish(r) \/ Leave(r)
  \/ \E id \in Requests : Expire(id)

Spec == Init /\ [][Next]_vars

-----------------------------------------------------------------------------
(* Properties *)

TypeOK ==
  /\ rows \in [Requests -> Row]
  /\ cache \in [Requests -> Row]
  /\ pc \in [Requests -> Places]
  /\ body \in [Requests -> Body]
  /\ prev \in [Requests -> Requests \cup {None}]
  /\ got \in [Requests -> Row]
  /\ hydrated \in [Requests -> Hydrated]

(* What the cache says of a response is what the database says of it,      *)
(* whatever failed, expired or was abandoned half-way: a reader served by  *)
(* the cache cannot be told from one served by the database.               *)
CacheIsTransparent ==
  \A id \in Requests : cache[id] # NoRow => cache[id] = rows[id]

(* A response that was answered with store=true is never "not found"       *)
(* afterwards, whichever process looks it up.                              *)
AnsweredIsFound ==
  [][\A r \in Requests :
       pc[r] = "query" /\ pc'[r] = "not found"
         => ~(pc[prev[r]] = "answered" /\ body[prev[r]].store)]_vars

(* The turns a request continues, from the first one to itself.            *)
Turns(r) ==
  LET turns[q \in Requests] ==
        IF prev[q] = None THEN <<q>> ELSE Append(turns[prev[q]], q)
  IN turns[r]

(* The last of the turns that is one of the requests, if any is.           *)
LastOf(turns, requests) ==
  LET at == {i \in DOMAIN turns : turns[i] \in requests}
  IN IF at = {} THEN None ELSE turns[Max(at)]

GaveTools == {q \in Requests : body[q].tools # "omitted"}
GaveChoice == {q \in Requests : body[q].choice # "omitted"}
GaveSystem == {q \in Requests : body[q].system}

(* A stored response can be continued: a request that leaves tools and     *)
(* tool_choice to what is stored is never refused because the two do not   *)
(* fit, although they are inherited separately and may come from different *)
(* turns.  Only the resolution of an MCP tool can stop it, and that only   *)
(* when the tools most recently given in its chain were MCP tools.         *)
InheritedFieldsAreAccepted ==
  [][\A r \in Requests :
       pc[r] = "hydrate" /\ body[r].tools = "omitted" /\ body[r].choice = "omitted"
         => /\ pc'[r] # "refused"
            /\ pc'[r] = "unresolved" =>
                 \E q \in Requests : /\ q = LastOf(Turns(r), GaveTools)
                                     /\ body[q].tools = "mcp with credentials"]_vars

(* What was said in the turns: a user message each, answered but for the   *)
(* last.                                                                   *)
Said(turns) ==
  [i \in 1 .. 2 * Len(turns) - 1 |->
     IF i % 2 = 1 THEN Message("user", turns[(i + 1) \div 2])
     ELSE Message("output", turns[i \div 2])]

(* What the model run of a request should get.                             *)
Continues(r) ==
  LET h      == hydrated[r]
      turns  == Turns(r)
      tools  == LastOf(turns, GaveTools)
      choice == LastOf(turns, GaveChoice)
  IN /\ WithRoles(h.input, Replayable) = Said(turns)
     /\ \A i \in DOMAIN h.input :
          h.input[i].role \in {"system", "developer"} => h.input[i].by = r
     /\ body[r].developer => \E i \in DOMAIN h.input : h.input[i] = Message("developer", r)
     /\ h.tools = IF tools = None THEN None
                  ELSE IF tools = r THEN body[r].tools
                  ELSE Sanitized(body[tools].tools)
     /\ h.choice = IF choice = None THEN "auto" ELSE body[choice].choice
     /\ Else(h.system, SystemIn(h.input)) = LastOf(turns, GaveSystem)

(* The model run gets the whole conversation and nothing else: the users'  *)
(* messages and the outputs of the chain of previous responses in order,   *)
(* the developer message of the current turn only, and the tools, the      *)
(* choice and the system instruction most recently given in the chain,     *)
(* although each turn stores and inherits only from the one before.        *)
ContinuesConversation ==
  \A r \in Requests : hydrated[r] # NotHydrated => Continues(r)

(* The store behaves as a single map from ids to conversations that is     *)
(* written once per id and read at one instant per request.                *)
Spoken(input) ==
  LET users == WithRoles(input, {"user"})
  IN [i \in DOMAIN users |-> users[i].by]

Conversations ==
  INSTANCE ConversationStore WITH
    asked <- prev,
    saved <- [id \in Requests |-> Spoken(rows[id].input)],
    convo <- [r \in Requests |-> Spoken(hydrated[r].input)]

IsConversationStore == Conversations!Spec
=============================================================================
