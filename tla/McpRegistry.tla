----------------------------- MODULE McpRegistry -----------------------------
(***************************************************************************)
(* tools/mcp/managed_registry.py inside entrypoints/mcp_runtime.py: the     *)
(* helper process that owns the configured (hosted) MCP servers, discovers  *)
(* their tools at startup and runs tool calls for all gateway workers.      *)
(*                                                                         *)
(* The registry keeps two maps per server: what it tells gateways about a   *)
(* tool (allowed_tools) and the handle it calls the tool with              *)
(* (allowed_mcp_tools_by_name). A tool is a version: the MCP server may     *)
(* withdraw or redefine it at any time, and then answers a call with an     *)
(* older handle by KeyError. The registry refreshes such a tool and calls   *)
(* once more. Each place of pc is an await; between two awaits the other    *)
(* calls of the process run.                                               *)
(***************************************************************************)
EXTENDS Naturals, Sequences

CONSTANTS
  Hosted,      \* labels of the configured servers
  Remote,      \* labels of servers that a request declares with a server_url
  Order,       \* the order of the configuration file
  Tools,       \* tool names
  Calls,       \* tool calls of model runs
  MaxVersion,  \* bound: definitions a tool may have
  MaxChanges   \* bound: how often servers change their tools

LabelsAssumption ==
  /\ Hosted \cap Remote = {}
  /\ Order \in Seq(Hosted)
  /\ {Order[i] : i \in DOMAIN Order} = Hosted
  /\ \A i, j \in DOMAIN Order : Order[i] = Order[j] => i = j
VersionsAssumption == MaxVersion \in Nat \ {0} /\ MaxChanges \in Nat
ASSUME LabelsAssumption
ASSUME VersionsAssumption

Labels == Hosted \cup Remote
Inventory == [Tools -> 0 .. MaxVersion]   \* 0: no such tool
Nothing == [t \in Tools |-> 0]
Has(inventory) == \E t \in Tools : inventory[t] # 0

VARIABLES
  offered,       \* what each MCP server offers now
  changes,       \* how often that changed
  withdrawn,     \* the tools each server has failed to offer at some time
  helper,        \* the helper process
  booted,        \* how many servers startup() is done with
  server,        \* _ServerState.server: "open" or "none"
  startup_error, \* _ServerState.startup_error is set
  allowed_tools, allowed_mcp_tools_by_name,
  label, tool,   \* what each call is for
  pc,            \* where each call waits
  handle,        \* the handle it calls with
  snap,          \* the get_tools answer that is on its way to it
  executed,      \* how often the MCP server ran the tool for it
  told           \* what the model run is told, "none" until then

mcpServers == <<offered, changes, withdrawn>>
registry == <<booted, server, startup_error, allowed_tools, allowed_mcp_tools_by_name>>
callVars == <<pc, handle, snap, executed, told>>
targets == <<label, tool>>

InFlight(c) == pc[c] \in {"finding", "found", "calling", "refreshing", "listed", "recalling"}
IsHosted(c) == label[c] \in Hosted

RegistryInit ==
  /\ offered = [s \in Labels |-> [t \in Tools |-> 1]]
  /\ changes = 0
  /\ withdrawn = [s \in Labels |-> {}]
  /\ helper = "starting" /\ booted = 0
  /\ server = [s \in Hosted |-> "none"]
  /\ startup_error = [s \in Hosted |-> FALSE]
  /\ allowed_tools = [s \in Hosted |-> Nothing]
  /\ allowed_mcp_tools_by_name = [s \in Hosted |-> Nothing]
  /\ tool \in [Calls -> Tools]
  /\ pc = [c \in Calls |-> "idle"] /\ handle = [c \in Calls |-> 0]
  /\ snap = [c \in Calls |-> Nothing]
  /\ executed = [c \in Calls |-> 0] /\ told = [c \in Calls |-> "none"]

-----------------------------------------------------------------------------
(* The MCP server of label s withdraws, redefines or adds a tool. *)
ChangeTool(s) ==
  /\ changes < MaxChanges /\ changes' = changes + 1
  /\ \E t \in Tools, v \in 0 .. MaxVersion :
       /\ v # offered[s][t]
       /\ offered' = [offered EXCEPT ![s][t] = v]
       /\ withdrawn' = IF v = 0 THEN [withdrawn EXCEPT ![s] = @ \cup {t}] ELSE withdrawn
  /\ UNCHANGED <<helper, registry, callVars, targets>>

-----------------------------------------------------------------------------
(* startup(): one server after the other; a failure is kept as its          *)
(* startup_error and does not keep the next one from starting.             *)
Booting(s) == helper = "starting" /\ booted < Len(Order) /\ s = Order[booted + 1]

EnterServer(s) ==
  /\ Booting(s) /\ server[s] = "none"
  /\ server' = [server EXCEPT ![s] = "open"]
  /\ UNCHANGED <<mcpServers, helper, booted, startup_error, allowed_tools,
                 allowed_mcp_tools_by_name, callVars, targets>>

DiscoverTools(s) ==
  /\ Booting(s) /\ server[s] = "open" /\ Has(offered[s])
  /\ allowed_tools' = [allowed_tools EXCEPT ![s] = offered[s]]
  /\ allowed_mcp_tools_by_name' = [allowed_mcp_tools_by_name EXCEPT ![s] = offered[s]]
  /\ startup_error' = [startup_error EXCEPT ![s] = FALSE]
  /\ booted' = booted + 1
  /\ UNCHANGED <<mcpServers, helper, server, callVars, targets>>

(* Entering or listing raises, listing takes too long, or nothing is left. *)
FailServerStartup(s) ==
  /\ Booting(s)
  /\ server' = [server EXCEPT ![s] = "none"]
  /\ startup_error' = [startup_error EXCEPT ![s] = TRUE]
  /\ allowed_tools' = [allowed_tools EXCEPT ![s] = Nothing]
  /\ allowed_mcp_tools_by_name' = [allowed_mcp_tools_by_name EXCEPT ![s] = Nothing]
  /\ booted' = booted + 1
  /\ UNCHANGED <<mcpServers, helper, callVars, targets>>

(* lifespan() yields: from here on the helper answers HTTP requests. *)
Serve ==
  /\ helper = "starting" /\ booted = Len(Order)
  /\ helper' = "serving"
  /\ UNCHANGED <<mcpServers, registry, callVars, targets>>

is_server_available(s) == server[s] = "open" /\ ~startup_error[s]

-----------------------------------------------------------------------------
(* A call ends; whoever gave up waiting for it is not told again. *)
Finish(c, how) ==
  /\ pc' = [pc EXCEPT ![c] = "done"]
  /\ handle' = [handle EXCEPT ![c] = 0]
  /\ snap' = [snap EXCEPT ![c] = Nothing]
  /\ told' = IF told[c] = "none" THEN [told EXCEPT ![c] = how] ELSE told

(* What the MCP server does with a call that has arrived there. *)
Accepts(c) == offered[label[c]][tool[c]] = handle[c]

Runs(c) ==
  /\ Accepts(c)
  /\ executed' = [executed EXCEPT ![c] = @ + 1] /\ Finish(c, "ok")

(* Any error but the KeyError: the tool may have run. *)
Fails(c) ==
  /\ \/ UNCHANGED executed
     \/ Accepts(c) /\ executed' = [executed EXCEPT ![c] = @ + 1]
  /\ Finish(c, "failed")

(* get_tools has been answered by the server, not yet received. *)
ListsTools(c) ==
  /\ snap' = [snap EXCEPT ![c] = offered[label[c]]]
  /\ pc' = [pc EXCEPT ![c] = IF pc[c] = "finding" THEN "found" ELSE "listed"]
  /\ UNCHANGED <<handle, executed, told>>

CallsAgain(c, where) ==
  /\ handle' = [handle EXCEPT ![c] = snap[c][tool[c]]]
  /\ snap' = [snap EXCEPT ![c] = Nothing]
  /\ pc' = [pc EXCEPT ![c] = where]
  /\ UNCHANGED <<executed, told>>

-----------------------------------------------------------------------------
(* POST .../tools/{tool_name}/call: call_tool_with_refresh up to its first  *)
(* await.                                                                  *)
HandleCall(c) ==
  LET s == label[c]
      known == allowed_mcp_tools_by_name[s][tool[c]]
  IN /\ IF helper = "serving" /\ is_server_available(s) /\ known # 0
          THEN /\ pc' = [pc EXCEPT ![c] = "calling"]
               /\ handle' = [handle EXCEPT ![c] = known]
               /\ UNCHANGED <<snap, told>>
          ELSE Finish(c, IF helper # "serving" THEN "lost"
                         ELSE IF is_server_available(s) THEN "missing" ELSE "unavailable")
     /\ UNCHANGED <<mcpServers, helper, registry, executed, targets>>

HostedReturns(c) ==
  /\ IsHosted(c) /\ pc[c] \in {"calling", "recalling"} /\ Runs(c)
  /\ UNCHANGED <<mcpServers, helper, registry, targets>>

(* Faulty variant: any error is taken for a stale handle. *)
HostedFailsRetrying(c) ==
  /\ IsHosted(c) /\ pc[c] = "calling"
  /\ \/ UNCHANGED executed
     \/ Accepts(c) /\ executed' = [executed EXCEPT ![c] = @ + 1]
  /\ pc' = [pc EXCEPT ![c] = "refreshing"]
  /\ UNCHANGED <<mcpServers, helper, registry, handle, snap, told, targets>>

(* Faulty variant: a tool that cannot be refreshed is dropped. *)
HostedFailsDropping(c) ==
  /\ IsHosted(c) /\ pc[c] = "refreshing"
  /\ allowed_tools' = [allowed_tools EXCEPT ![label[c]][tool[c]] = 0]
  /\ allowed_mcp_tools_by_name' = [allowed_mcp_tools_by_name EXCEPT ![label[c]][tool[c]] = 0]
  /\ Finish(c, "failed")
  /\ UNCHANGED <<mcpServers, helper, booted, server, startup_error, executed, targets>>

HostedFails(c) ==
  /\ IsHosted(c) /\ pc[c] \in {"calling", "refreshing", "recalling"}
  /\ IF pc[c] = "refreshing" THEN Finish(c, "failed") /\ UNCHANGED executed
                             ELSE Fails(c)
  /\ UNCHANGED <<mcpServers, helper, registry, targets>>

(* KeyError for the tool: _call_tool_once raises ManagedMcpStaleToolError. *)
HostedIsStale(c) ==
  /\ IsHosted(c) /\ pc[c] = "calling" /\ ~Accepts(c)
  /\ pc' = [pc EXCEPT ![c] = "refreshing"]
  /\ UNCHANGED <<mcpServers, helper, registry, handle, snap, executed, told, targets>>

HostedLists(c) ==
  /\ IsHosted(c) /\ pc[c] = "refreshing" /\ ListsTools(c)
  /\ UNCHANGED <<mcpServers, helper, registry, targets>>

(* Faulty variant: what is listed is not brought up to date. *)
HostedRefreshesHandle(c) ==
  /\ IsHosted(c) /\ pc[c] = "listed" /\ snap[c][tool[c]] # 0
  /\ allowed_mcp_tools_by_name' =
       [allowed_mcp_tools_by_name EXCEPT ![label[c]][tool[c]] = snap[c][tool[c]]]
  /\ CallsAgain(c, "recalling")
  /\ UNCHANGED <<mcpServers, helper, booted, server, startup_error, allowed_tools, targets>>

(* The answer to get_tools arrives: the tool is dropped or refreshed. *)
HostedRefreshes(c) ==
  LET s == label[c]
      found == snap[c][tool[c]]
  IN /\ IsHosted(c) /\ pc[c] = "listed"
     /\ allowed_tools' = [allowed_tools EXCEPT ![s][tool[c]] = found]
     /\ allowed_mcp_tools_by_name' = [allowed_mcp_tools_by_name EXCEPT ![s][tool[c]] = found]
     /\ \/ found = 0 /\ Finish(c, "missing") /\ UNCHANGED executed
        \/ found # 0 /\ CallsAgain(c, "recalling")
     /\ UNCHANGED <<mcpServers, helper, booted, server, startup_error, targets>>

-----------------------------------------------------------------------------
(* The lifespan ends after the last request: shutdown(). *)
Shutdown ==
  /\ helper = "serving" /\ \A c \in Calls : ~(IsHosted(c) /\ InFlight(c))
  /\ helper' = "stopped"
  /\ server' = [s \in Hosted |-> "none"]
  /\ UNCHANGED <<mcpServers, booted, startup_error, allowed_tools,
                 allowed_mcp_tools_by_name, callVars, targets>>

(* The helper dies or is killed: its calls end as transport errors. *)
Die ==
  /\ helper # "stopped" /\ helper' = "stopped"
  /\ server' = [s \in Hosted |-> "none"]
  /\ LET cut == {c \in Calls : IsHosted(c) /\ InFlight(c)}
     IN /\ pc' = [c \in Calls |-> IF c \in cut THEN "done" ELSE pc[c]]
        /\ told' = [c \in Calls |-> IF c \in cut /\ told[c] = "none" THEN "lost" ELSE told[c]]
        /\ handle' = [c \in Calls |-> IF c \in cut THEN 0 ELSE handle[c]]
        /\ snap' = [c \in Calls |-> IF c \in cut THEN Nothing ELSE snap[c]]
  /\ UNCHANGED <<mcpServers, booted, startup_error, allowed_tools,
                 allowed_mcp_tools_by_name, executed, targets>>

RegistryNext ==
  \/ \E s \in Labels : ChangeTool(s)
  \/ \E s \in Hosted : EnterServer(s) \/ DiscoverTools(s) \/ FailServerStartup(s)
  \/ Serve \/ Shutdown \/ Die
  \/ \E c \in Calls :
       \/ HostedReturns(c) \/ HostedFails(c) \/ HostedIsStale(c)
       \/ HostedLists(c) \/ HostedRefreshes(c)
=============================================================================
