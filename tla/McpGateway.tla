------------------------------ MODULE McpGateway ------------------------------
(***************************************************************************)
(* MCP tools as a model run sees them: tools/mcp/resolver.py looks up the   *)
(* tools of the declared servers before the run, gateway_toolset.py checks  *)
(* arguments and turns every error into a result of the call, and           *)
(* backend.py with runtime_client.py runs the call, either through the      *)
(* helper process of McpRegistry (hosted) or on a connection of the         *)
(* request's own (request_remote).                                         *)
(*                                                                         *)
(* A request declares one server and may have several calls running at the  *)
(* same time; they share the tool map of the request's remote backend.     *)
(***************************************************************************)
EXTENDS McpRegistry

CONSTANTS
  Requests,
  RequestOf    \* the request each call belongs to

RequestsAssumption == RequestOf \in [Calls -> Requests]
ASSUME RequestsAssumption

VARIABLES
  request,     \* "new", "resolved" or "rejected"
  inventory,   \* the tools each request's model run knows
  backendTools \* RequestRemoteMcpBackend._mcp_tools_by_name of each request

gateway == <<request, inventory, backendTools>>
vars == <<mcpServers, helper, registry, targets, callVars, gateway>>

Init ==
  /\ RegistryInit
  /\ \E declared \in [Requests -> Labels] : label = [c \in Calls |-> declared[RequestOf[c]]]
  /\ request = [r \in Requests |-> "new"]
  /\ inventory = [r \in Requests |-> Nothing]
  /\ backendTools = [r \in Requests |-> Nothing]

CallsOf(r) == {c \in Calls : RequestOf[c] = r}
Declares(r, s) == \E c \in CallsOf(r) : label[c] = s

-----------------------------------------------------------------------------
(* _select_allowed_tool_infos: allowed_tools of the declaration. *)
Select(tools, allowed) == [t \in Tools |-> IF t \in allowed THEN tools[t] ELSE 0]

Resolved(r, tools) ==
  \E allowed \in SUBSET Tools :
    IF Has(Select(tools, allowed))
      THEN /\ request' = [request EXCEPT ![r] = "resolved"]
           /\ inventory' = [inventory EXCEPT ![r] = Select(tools, allowed)]
      ELSE /\ request' = [request EXCEPT ![r] = "rejected"] /\ UNCHANGED inventory

(* GET .../tools of the helper: 409 and transport errors reject the request. *)
ResolveHosted(r) ==
  \E s \in Hosted :
    /\ request[r] = "new" /\ Declares(r, s)
    /\ \/ /\ helper = "serving" /\ is_server_available(s)
          /\ Resolved(r, allowed_tools[s])
       \/ /\ ~(helper = "serving" /\ is_server_available(s))
          /\ request' = [request EXCEPT ![r] = "rejected"] /\ UNCHANGED inventory
    /\ UNCHANGED <<mcpServers, helper, registry, callVars, targets, backendTools>>

ResolveRemote(r) ==
  \E s \in Remote :
    /\ request[r] = "new" /\ Declares(r, s)
    /\ Resolved(r, offered[s])
    /\ backendTools' = [backendTools EXCEPT ![r] = offered[s]]
    /\ UNCHANGED <<mcpServers, helper, registry, callVars, targets>>

(* Listing raises: the request is rejected, whatever the server offers. *)
ResolveFails(r) ==
  /\ request[r] = "new"
  /\ request' = [request EXCEPT ![r] = "rejected"]
  /\ UNCHANGED <<mcpServers, helper, registry, callVars, targets, inventory, backendTools>>

-----------------------------------------------------------------------------
(* McpGatewayToolset.call_tool: the model calls a tool it was given. *)
Calling(c) ==
  /\ request[RequestOf[c]] = "resolved" /\ pc[c] = "idle"
  /\ inventory[RequestOf[c]][tool[c]] # 0

RejectArguments(c) ==
  /\ Calling(c) /\ Finish(c, "invalid")
  /\ UNCHANGED <<mcpServers, helper, registry, executed, targets, gateway>>

CallHosted(c) ==
  /\ Calling(c) /\ IsHosted(c) /\ HandleCall(c)
  /\ UNCHANGED gateway

(* Faulty variant: only the calls of tools have a timeout. *)
TimeoutOfCalls(c) ==
  /\ IsHosted(c) /\ pc[c] \in {"calling", "recalling"} /\ told[c] = "none"
  /\ told' = [told EXCEPT ![c] = "lost"]
  /\ UNCHANGED <<mcpServers, helper, registry, pc, handle, snap, executed, targets, gateway>>

(* BuiltinMcpRuntimeClient gives up after 60 s; the helper goes on. *)
Timeout(c) ==
  /\ IsHosted(c) /\ InFlight(c) /\ told[c] = "none"
  /\ told' = [told EXCEPT ![c] = "lost"]
  /\ UNCHANGED <<mcpServers, helper, registry, pc, handle, snap, executed, targets, gateway>>

-----------------------------------------------------------------------------
(* RequestRemoteMcpBackend.call_tool. *)
CallRemote(c) ==
  LET known == backendTools[RequestOf[c]][tool[c]]
  IN /\ Calling(c) /\ ~IsHosted(c)
     /\ pc' = [pc EXCEPT ![c] = IF known = 0 THEN "finding" ELSE "calling"]
     /\ handle' = [handle EXCEPT ![c] = known]
     /\ UNCHANGED <<mcpServers, helper, registry, snap, executed, told, targets, gateway>>

RemoteReturns(c) ==
  /\ ~IsHosted(c) /\ pc[c] \in {"calling", "recalling"} /\ Runs(c)
  /\ UNCHANGED <<mcpServers, helper, registry, targets, gateway>>

RemoteFails(c) ==
  /\ ~IsHosted(c) /\ pc[c] \in {"finding", "calling", "refreshing", "recalling"}
  /\ IF pc[c] \in {"finding", "refreshing"}
       THEN Finish(c, "failed") /\ UNCHANGED executed
       ELSE Fails(c)
  /\ UNCHANGED <<mcpServers, helper, registry, targets, gateway>>

RemoteIsStale(c) ==
  /\ ~IsHosted(c) /\ pc[c] = "calling" /\ ~Accepts(c)
  /\ pc' = [pc EXCEPT ![c] = "refreshing"]
  /\ UNCHANGED <<mcpServers, helper, registry, handle, snap, executed, told, targets, gateway>>

RemoteLists(c) ==
  /\ ~IsHosted(c) /\ pc[c] \in {"finding", "refreshing"} /\ ListsTools(c)
  /\ UNCHANGED <<mcpServers, helper, registry, targets, gateway>>

(* _refresh_tool: the whole map is replaced. *)
RemoteRefreshes(c) ==
  /\ ~IsHosted(c) /\ pc[c] \in {"found", "listed"}
  /\ backendTools' = [backendTools EXCEPT ![RequestOf[c]] = snap[c]]
  /\ \/ snap[c][tool[c]] = 0 /\ Finish(c, "missing") /\ UNCHANGED executed
     \/ /\ snap[c][tool[c]] # 0
        /\ CallsAgain(c, IF pc[c] = "found" THEN "calling" ELSE "recalling")
  /\ UNCHANGED <<mcpServers, helper, registry, targets, request, inventory>>

-----------------------------------------------------------------------------
Next ==
  \/ RegistryNext /\ UNCHANGED gateway
  \/ \E r \in Requests : ResolveHosted(r) \/ ResolveRemote(r) \/ ResolveFails(r)
  \/ \E c \in Calls :
       \/ RejectArguments(c) \/ CallHosted(c) \/ Timeout(c)
       \/ CallRemote(c) \/ RemoteReturns(c) \/ RemoteFails(c)
       \/ RemoteIsStale(c) \/ RemoteLists(c) \/ RemoteRefreshes(c)

Spec == Init /\ [][Next]_vars

(* Startup timeouts bound each server's startup; the client's timeout fires. *)
Fairness ==
  /\ \A s \in Hosted : WF_vars(FailServerStartup(s) /\ UNCHANGED gateway)
  /\ WF_vars(Serve /\ UNCHANGED gateway)
  /\ \A c \in Calls : WF_vars(Timeout(c))
FairSpec == Spec /\ Fairness

-----------------------------------------------------------------------------
Places == {"idle", "finding", "found", "calling", "refreshing", "listed", "recalling", "done"}
Reports == {"none", "ok", "failed", "lost", "missing", "unavailable", "invalid"}

(* The type of every variable; no tool runs twice for one call.            *)
TypeOK ==
  /\ offered \in [Labels -> Inventory] /\ changes \in 0 .. MaxChanges
  /\ withdrawn \in [Labels -> SUBSET Tools]
  /\ helper \in {"starting", "serving", "stopped"} /\ booted \in 0 .. Len(Order)
  /\ server \in [Hosted -> {"none", "open"}] /\ startup_error \in [Hosted -> BOOLEAN]
  /\ allowed_tools \in [Hosted -> Inventory]
  /\ allowed_mcp_tools_by_name \in [Hosted -> Inventory]
  /\ label \in [Calls -> Labels] /\ tool \in [Calls -> Tools]
  /\ pc \in [Calls -> Places] /\ handle \in [Calls -> 0 .. MaxVersion]
  /\ snap \in [Calls -> Inventory] /\ executed \in [Calls -> {0, 1}]
  /\ told \in [Calls -> Reports]
  /\ request \in [Requests -> {"new", "resolved", "rejected"}]
  /\ inventory \in [Requests -> Inventory] /\ backendTools \in [Requests -> Inventory]

(* What the helper lists for a server is what it can call: overlapping      *)
(* refreshes never leave a tool described by one version and called with    *)
(* another, nor listed without a handle (managed_registry.py:193-208).     *)
HandlesMatchInfos == allowed_tools = allowed_mcp_tools_by_name

(* When the helper answers requests, every server is either connected or    *)
(* has failed, closed and without tools, and a failure of one has not kept  *)
(* another from being tried (managed_registry.py:79-120).                  *)
SettledAtStartup ==
  helper = "serving" =>
    \A s \in Hosted : \/ server[s] = "open" /\ ~startup_error[s]
                      \/ server[s] = "none" /\ startup_error[s] /\ ~Has(allowed_tools[s])

(* A model is told that a tool does not exist only if its server has at     *)
(* some time not offered it: neither a failing refresh nor a redefinition   *)
(* makes a tool disappear for later calls.                                 *)
MissingIsJustified == \A c \in Calls : told[c] = "missing" => tool[c] \in withdrawn[label[c]]

(* A tool runs at most once for a call through stale handles, refreshes,    *)
(* timeouts and crashes, and reports that say it was not called are true.   *)
Contract == INSTANCE ToolCallContract
KeepsToolCallContract == Contract!Spec

(* A hosted call is answered, whatever the helper and the MCP server do. *)
HostedCallsAnswered ==
  \A c \in Calls : (IsHosted(c) /\ pc[c] # "idle") ~> (told[c] # "none")

=============================================================================
