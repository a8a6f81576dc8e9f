-------------------------- MODULE McpGatewayProofs --------------------------
(***************************************************************************)
(* Proofs about McpGateway, for every configuration of servers, every set  *)
(* of requests and calls, and any number of changes of the tools.          *)
(*                                                                         *)
(* McpInv says what a call that is under way may rely on: its tool has not  *)
(* run yet, its server was connected when the helper began to serve, and a  *)
(* tool that is missing in a list on its way was missing at the server.    *)
(***************************************************************************)
EXTENDS McpGateway, TLAPS

groups == <<mcpServers, registry, callVars, targets, gateway>>

(* startup() is done with server s. *)
Booted(s) == \E i \in 1 .. booted : Order[i] = s

BootInv ==
  /\ helper = "serving" => booted = Len(Order)
  /\ helper # "stopped" =>
       \A s \in Hosted :
         Booted(s) => \/ server[s] = "open" /\ ~startup_error[s]
                      \/ server[s] = "none" /\ startup_error[s] /\ allowed_tools[s] = Nothing

FlightInv ==
  \A c \in Calls :
    IsHosted(c) /\ InFlight(c) => helper = "serving" /\ server[label[c]] = "open"

(* Whatever is not offered, not known or not listed was withdrawn. *)
WithdrawnInv ==
  /\ \A s \in Labels, t \in Tools : offered[s][t] = 0 => t \in withdrawn[s]
  /\ \A s \in Hosted, t \in Tools :
       Booted(s) /\ server[s] = "open" /\ allowed_tools[s][t] = 0 => t \in withdrawn[s]
  /\ \A c \in Calls, t \in Tools :
       pc[c] \in {"found", "listed"} /\ snap[c][t] = 0 => t \in withdrawn[label[c]]

CallInv ==
  \A c \in Calls :
    /\ pc[c] # "done" => executed[c] = 0 /\ told[c] \in {"none", "lost"}
    /\ pc[c] = "idle" => told[c] = "none"
    /\ told[c] \in {"invalid", "missing", "unavailable"} => executed[c] = 0

McpInv ==
  /\ TypeOK
  /\ HandlesMatchInfos
  /\ BootInv
  /\ FlightInv
  /\ WithdrawnInv
  /\ MissingIsJustified
  /\ CallInv

-----------------------------------------------------------------------------
LEMMA NothingIsAnInventory == Nothing \in Inventory
BY VersionsAssumption DEF VersionsAssumption, Nothing, Inventory

LEMMA InitHolds == Init => McpInv
<1> SUFFICES ASSUME Init PROVE McpInv
  OBVIOUS
<1> USE DEF Init, RegistryInit
<1> DEFINE One == [t \in Tools |-> 1]
<1>0. One \in Inventory /\ \A t \in Tools : One[t] = 1
  BY VersionsAssumption DEF VersionsAssumption, Inventory
<1>1. offered = [s \in Labels |-> One]
  OBVIOUS
<1>2. label \in [Calls -> Labels]
  BY RequestsAssumption DEF RequestsAssumption
<1>3. TypeOK
  <2> HIDE DEF One
  <2>1. booted \in 0 .. Len(Order)
    BY LabelsAssumption DEF LabelsAssumption
  <2>2. changes \in 0 .. MaxChanges
    BY VersionsAssumption DEF VersionsAssumption
  <2>3. 0 \in 0 .. MaxVersion
    BY VersionsAssumption DEF VersionsAssumption
  <2> QED
    BY <1>0, <1>1, <1>2, <2>1, <2>2, <2>3, NothingIsAnInventory DEF TypeOK, Places, Reports
<1>4. HandlesMatchInfos
  BY DEF HandlesMatchInfos
<1>5. BootInv
  BY DEF BootInv, Booted
<1>6. FlightInv
  BY DEF FlightInv, InFlight
<1>7. WithdrawnInv
  <2> HIDE DEF One
  <2> QED
    BY <1>0, <1>1, <1>2 DEF WithdrawnInv, Booted
<1>8. MissingIsJustified /\ CallInv
  BY DEF MissingIsJustified, CallInv
<1> QED
  BY <1>3, <1>4, <1>5, <1>6, <1>7, <1>8 DEF McpInv

-----------------------------------------------------------------------------
LEMMA FinishTyped ==
  ASSUME TypeOK, NEW c \in Calls, NEW how \in Reports, Finish(c, how)
  PROVE  /\ pc' \in [Calls -> Places] /\ told' \in [Calls -> Reports]
         /\ handle' \in [Calls -> 0 .. MaxVersion] /\ snap' \in [Calls -> Inventory]
<1>1. 0 \in 0 .. MaxVersion
  BY VersionsAssumption DEF VersionsAssumption
<1> QED
  BY <1>1, NothingIsAnInventory DEF TypeOK, Finish, Places

LEMMA RunsTyped ==
  ASSUME TypeOK, CallInv, NEW c \in Calls, pc[c] # "done", Runs(c) \/ Fails(c)
  PROVE  /\ pc' \in [Calls -> Places] /\ told' \in [Calls -> Reports]
         /\ handle' \in [Calls -> 0 .. MaxVersion] /\ snap' \in [Calls -> Inventory]
         /\ executed' \in [Calls -> {0, 1}]
<1>1. executed[c] = 0
  BY DEF CallInv
<1>2. executed' \in [Calls -> {0, 1}]
  <2>1. executed' = executed \/ executed' = [executed EXCEPT ![c] = 1]
    BY <1>1 DEF Runs, Fails
  <2> QED
    BY <2>1 DEF TypeOK
<1>3. Finish(c, "ok") \/ Finish(c, "failed")
  BY DEF Runs, Fails
<1> QED
  BY <1>2, <1>3, FinishTyped DEF Reports

LEMMA ListsTyped ==
  ASSUME TypeOK, NEW c \in Calls, ListsTools(c)
  PROVE  pc' \in [Calls -> Places] /\ snap' \in [Calls -> Inventory]
BY DEF TypeOK, ListsTools, Places

LEMMA CallsAgainTyped ==
  ASSUME TypeOK, NEW c \in Calls, NEW where \in Places, CallsAgain(c, where)
  PROVE  /\ pc' \in [Calls -> Places] /\ snap' \in [Calls -> Inventory]
         /\ handle' \in [Calls -> 0 .. MaxVersion]
<1>1. snap[c][tool[c]] \in 0 .. MaxVersion
  BY DEF TypeOK, Inventory
<1> QED
  BY <1>1, NothingIsAnInventory DEF TypeOK, CallsAgain

LEMMA SelectTyped ==
  ASSUME NEW tools \in Inventory, NEW allowed \in SUBSET Tools
  PROVE  Select(tools, allowed) \in Inventory
BY VersionsAssumption DEF VersionsAssumption, Select, Inventory

LEMMA ResolvedTyped ==
  ASSUME TypeOK, NEW r \in Requests, NEW tools \in Inventory, Resolved(r, tools)
  PROVE  /\ request' \in [Requests -> {"new", "resolved", "rejected"}]
         /\ inventory' \in [Requests -> Inventory]
<1>1. PICK allowed \in SUBSET Tools :
        IF Has(Select(tools, allowed))
          THEN /\ request' = [request EXCEPT ![r] = "resolved"]
               /\ inventory' = [inventory EXCEPT ![r] = Select(tools, allowed)]
          ELSE /\ request' = [request EXCEPT ![r] = "rejected"] /\ UNCHANGED inventory
  BY DEF Resolved
<1>2. Select(tools, allowed) \in Inventory
  BY SelectTyped
<1> QED
  BY <1>1, <1>2 DEF TypeOK

LEMMA TypeStep ==
  ASSUME TypeOK, CallInv, [Next]_vars
  PROVE  TypeOK'
<1> USE DEF TypeOK, mcpServers, registry, targets, callVars, gateway
<1>1. CASE UNCHANGED vars
  BY <1>1 DEF vars
<1>2. ASSUME NEW s \in Labels, ChangeTool(s), UNCHANGED gateway PROVE TypeOK'
  <2>1. PICK t \in Tools, v \in 0 .. MaxVersion :
          /\ offered' = [offered EXCEPT ![s][t] = v]
          /\ withdrawn' = IF v = 0 THEN [withdrawn EXCEPT ![s] = @ \cup {t}] ELSE withdrawn
    BY <1>2 DEF ChangeTool
  <2>2. offered' \in [Labels -> Inventory] /\ withdrawn' \in [Labels -> SUBSET Tools]
    BY <2>1 DEF Inventory
  <2>3. changes' \in 0 .. MaxChanges
    BY <1>2, VersionsAssumption DEF ChangeTool, VersionsAssumption
  <2> QED
    BY <1>2, <2>2, <2>3 DEF ChangeTool
<1>3. ASSUME NEW s \in Hosted, UNCHANGED gateway,
             EnterServer(s) \/ DiscoverTools(s) \/ FailServerStartup(s)
      PROVE  TypeOK'
  <2>1. Booting(s) /\ booted' \in {booted, booted + 1} /\ Len(Order) \in Nat
    BY <1>3, LabelsAssumption DEF EnterServer, DiscoverTools, FailServerStartup, LabelsAssumption
  <2>2. booted' \in 0 .. Len(Order)
    BY <2>1 DEF Booting
  <2>3. offered[s] \in Inventory
    BY DEF Labels
  <2>4. CASE EnterServer(s)
    BY <1>3, <2>2, <2>4 DEF EnterServer
  <2>5. CASE DiscoverTools(s)
    BY <1>3, <2>2, <2>3, <2>5 DEF DiscoverTools
  <2>6. CASE FailServerStartup(s)
    BY <1>3, <2>2, <2>6, NothingIsAnInventory DEF FailServerStartup
  <2> QED
    BY <1>3, <2>4, <2>5, <2>6
<1>4. ASSUME Serve \/ Shutdown, UNCHANGED gateway PROVE TypeOK'
  BY <1>4 DEF Serve, Shutdown
<1>5. ASSUME Die, UNCHANGED gateway PROVE TypeOK'
  <2>1. 0 \in 0 .. MaxVersion
    BY VersionsAssumption DEF VersionsAssumption
  <2> QED
    BY <1>5, <2>1, NothingIsAnInventory DEF Die, Places, Reports
<1>6. ASSUME NEW c \in Calls, UNCHANGED gateway,
             \/ HostedReturns(c) \/ HostedFails(c) \/ HostedIsStale(c)
             \/ HostedLists(c) \/ HostedRefreshes(c)
      PROVE  TypeOK'
  <2>1. CASE HostedReturns(c)
    BY <1>6, <2>1, RunsTyped DEF HostedReturns
  <2>2. CASE HostedFails(c)
    <3>1. pc[c] # "done" /\ ((Finish(c, "failed") /\ UNCHANGED executed) \/ Fails(c))
      BY <2>2 DEF HostedFails
    <3> QED
      BY <1>6, <2>2, <3>1, RunsTyped, FinishTyped DEF HostedFails, Reports
  <2>3. CASE HostedIsStale(c)
    BY <1>6, <2>3 DEF HostedIsStale, Places
  <2>4. CASE HostedLists(c)
    BY <1>6, <2>4, ListsTyped DEF HostedLists, ListsTools
  <2>5. CASE HostedRefreshes(c)
    <3>1. snap[c][tool[c]] \in 0 .. MaxVersion
      BY DEF Inventory
    <3>2. /\ allowed_tools' \in [Hosted -> Inventory]
          /\ allowed_mcp_tools_by_name' \in [Hosted -> Inventory]
      BY <2>5, <3>1 DEF HostedRefreshes, Inventory
    <3>3. \/ Finish(c, "missing") /\ UNCHANGED executed
          \/ CallsAgain(c, "recalling")
      BY <2>5 DEF HostedRefreshes
    <3>4. CASE Finish(c, "missing") /\ UNCHANGED executed
      BY <1>6, <2>5, <3>2, <3>4, FinishTyped DEF HostedRefreshes, Reports
    <3>5. CASE CallsAgain(c, "recalling")
      BY <1>6, <2>5, <3>2, <3>5, CallsAgainTyped DEF HostedRefreshes, CallsAgain, Places
    <3> QED
      BY <3>3, <3>4, <3>5
  <2> QED
    BY <1>6, <2>1, <2>2, <2>3, <2>4, <2>5
<1>7. ASSUME NEW r \in Requests, ResolveHosted(r) \/ ResolveRemote(r) \/ ResolveFails(r)
      PROVE  TypeOK'
  <2>1. ASSUME NEW s \in Labels PROVE offered[s] \in Inventory
    OBVIOUS
  <2>2. CASE ResolveHosted(r)
    <3>1. \/ \E tools \in Inventory : Resolved(r, tools)
          \/ request' = [request EXCEPT ![r] = "rejected"] /\ UNCHANGED inventory
      BY <2>2 DEF ResolveHosted
    <3> QED
      BY <2>2, <3>1, ResolvedTyped DEF ResolveHosted
  <2>3. CASE ResolveRemote(r)
    <3>1. PICK s \in Labels :
            Resolved(r, offered[s]) /\ backendTools' = [backendTools EXCEPT ![r] = offered[s]]
      BY <2>3 DEF ResolveRemote, Labels
    <3> QED
      BY <2>1, <2>3, <3>1, ResolvedTyped DEF ResolveRemote
  <2>4. CASE ResolveFails(r)
    BY <2>4 DEF ResolveFails
  <2> QED
    BY <1>7, <2>2, <2>3, <2>4
<1>8. ASSUME NEW c \in Calls,
             \/ RejectArguments(c) \/ CallHosted(c) \/ Timeout(c)
             \/ CallRemote(c) \/ RemoteReturns(c) \/ RemoteFails(c)
             \/ RemoteIsStale(c) \/ RemoteLists(c) \/ RemoteRefreshes(c)
      PROVE  TypeOK'
  <2>1. CASE RejectArguments(c)
    BY <2>1, FinishTyped DEF RejectArguments, Reports
  <2>2. CASE CallHosted(c)
    <3>1. allowed_mcp_tools_by_name[label[c]][tool[c]] \in 0 .. MaxVersion
      BY <2>2 DEF CallHosted, IsHosted, Inventory
    <3>2. \/ /\ pc' = [pc EXCEPT ![c] = "calling"] /\ UNCHANGED <<snap, told>>
             /\ handle' = [handle EXCEPT ![c] = allowed_mcp_tools_by_name[label[c]][tool[c]]]
          \/ Finish(c, "lost") \/ Finish(c, "missing") \/ Finish(c, "unavailable")
      BY <2>2 DEF CallHosted, HandleCall
    <3>3. UNCHANGED <<mcpServers, helper, registry, executed, targets, gateway>>
      BY <2>2 DEF CallHosted, HandleCall
    <3> QED
      BY <3>1, <3>2, <3>3, FinishTyped DEF Places, Reports
  <2>3. CASE Timeout(c)
    BY <2>3 DEF Timeout, Reports
  <2>4. CASE CallRemote(c)
    <3>1. backendTools[RequestOf[c]][tool[c]] \in 0 .. MaxVersion
      BY RequestsAssumption DEF RequestsAssumption, Inventory
    <3> QED
      BY <2>4, <3>1 DEF CallRemote, Places
  <2>5. CASE RemoteReturns(c)
    BY <2>5, RunsTyped DEF RemoteReturns
  <2>6. CASE RemoteFails(c)
    <3>1. pc[c] # "done" /\ ((Finish(c, "failed") /\ UNCHANGED executed) \/ Fails(c))
      BY <2>6 DEF RemoteFails
    <3> QED
      BY <2>6, <3>1, RunsTyped, FinishTyped DEF RemoteFails, Reports
  <2>7. CASE RemoteIsStale(c)
    BY <2>7 DEF RemoteIsStale, Places
  <2>8. CASE RemoteLists(c)
    BY <2>8, ListsTyped DEF RemoteLists, ListsTools
  <2>9. CASE RemoteRefreshes(c)
    <3>1. backendTools' \in [Requests -> Inventory]
      BY <2>9, RequestsAssumption DEF RemoteRefreshes, RequestsAssumption
    <3>2. \/ Finish(c, "missing") /\ UNCHANGED executed
          \/ CallsAgain(c, "calling") \/ CallsAgain(c, "recalling")
      BY <2>9 DEF RemoteRefreshes
    <3>3. CASE Finish(c, "missing") /\ UNCHANGED executed
      BY <2>9, <3>1, <3>3, FinishTyped DEF RemoteRefreshes, Reports
    <3>4. CASE CallsAgain(c, "calling") \/ CallsAgain(c, "recalling")
      BY <2>9, <3>1, <3>4, CallsAgainTyped DEF RemoteRefreshes, CallsAgain, Places
    <3> QED
      BY <3>2, <3>3, <3>4
  <2> QED
    BY <1>8, <2>1, <2>2, <2>3, <2>4, <2>5, <2>6, <2>7, <2>8, <2>9
<1> QED
  BY <1>1, <1>2, <1>3, <1>4, <1>5, <1>6, <1>7, <1>8 DEF Next, RegistryNext

-----------------------------------------------------------------------------
(* Which steps concern the registry at all. *)
LEMMA RegistryFrame ==
  ASSUME [Next]_vars
  PROVE  \/ UNCHANGED <<helper, registry>>
         \/ \E s \in Hosted : EnterServer(s) \/ DiscoverTools(s) \/ FailServerStartup(s)
         \/ Serve \/ Shutdown \/ Die
         \/ \E c \in Calls : HostedRefreshes(c)
BY DEF Next, RegistryNext, vars, ChangeTool, HostedReturns, HostedFails, HostedIsStale,
       HostedLists, ResolveHosted, ResolveRemote, ResolveFails, RejectArguments, CallHosted,
       HandleCall, Timeout, CallRemote, RemoteReturns, RemoteFails, RemoteIsStale,
       RemoteLists, RemoteRefreshes

LEMMA HandlesStep ==
  ASSUME HandlesMatchInfos, [Next]_vars
  PROVE  HandlesMatchInfos'
<1> USE DEF HandlesMatchInfos, registry
<1>1. CASE UNCHANGED <<helper, registry>>
  BY <1>1
<1>2. CASE \E s \in Hosted : EnterServer(s) \/ DiscoverTools(s) \/ FailServerStartup(s)
  BY <1>2 DEF EnterServer, DiscoverTools, FailServerStartup
<1>3. CASE Serve \/ Shutdown \/ Die
  BY <1>3 DEF Serve, Shutdown, Die
<1>4. CASE \E c \in Calls : HostedRefreshes(c)
  BY <1>4 DEF HostedRefreshes
<1> QED
  BY <1>1, <1>2, <1>3, <1>4, RegistryFrame

(* The order names a server once, so each is booted once. *)
LEMMA BootingIsNew ==
  ASSUME TypeOK, NEW s \in Hosted, Booting(s), booted' = booted + 1
  PROVE  /\ ~Booted(s)
         /\ \A other \in Hosted : Booted(other)' <=> Booted(other) \/ other = s
<1>1. Len(Order) \in Nat /\ DOMAIN Order = 1 .. Len(Order) /\ booted \in 0 .. Len(Order)
  BY LabelsAssumption DEF LabelsAssumption, TypeOK
<1>2. booted + 1 \in DOMAIN Order /\ s = Order[booted + 1]
  BY <1>1 DEF Booting
<1>3. \A i \in 1 .. booted : i \in DOMAIN Order /\ i # booted + 1
  BY <1>1
<1>4. ~Booted(s)
  BY <1>2, <1>3, LabelsAssumption DEF Booted, LabelsAssumption
<1>5. \A i : i \in 1 .. booted + 1 <=> i \in 1 .. booted \/ i = booted + 1
  BY <1>1
<1> QED
  BY <1>2, <1>4, <1>5 DEF Booted

LEMMA BootStep ==
  ASSUME TypeOK, BootInv, FlightInv, [Next]_vars
  PROVE  BootInv'
<1>1. CASE UNCHANGED <<helper, registry>>
  BY <1>1 DEF registry, BootInv, Booted
<1>2. ASSUME NEW s \in Hosted, EnterServer(s) \/ DiscoverTools(s) \/ FailServerStartup(s)
      PROVE  BootInv'
  <2>1. CASE EnterServer(s)
    <3>1. ~Booted(s)
      <4>1. Len(Order) \in Nat /\ DOMAIN Order = 1 .. Len(Order) /\ booted \in 0 .. Len(Order)
        BY LabelsAssumption DEF LabelsAssumption, TypeOK
      <4>2. booted + 1 \in DOMAIN Order /\ s = Order[booted + 1]
        BY <2>1, <4>1 DEF EnterServer, Booting
      <4>3. \A i \in 1 .. booted : i \in DOMAIN Order /\ i # booted + 1
        BY <4>1
      <4> QED
        BY <4>2, <4>3, LabelsAssumption DEF Booted, LabelsAssumption
    <3> QED
      BY <2>1, <3>1 DEF EnterServer, Booting, BootInv, Booted, TypeOK
  <2>2. CASE DiscoverTools(s)
    BY <2>2, BootingIsNew DEF DiscoverTools, Booting, BootInv, TypeOK
  <2>3. CASE FailServerStartup(s)
    BY <2>3, BootingIsNew DEF FailServerStartup, Booting, BootInv, TypeOK
  <2> QED
    BY <1>2, <2>1, <2>2, <2>3
<1>3. CASE Serve \/ Shutdown \/ Die
  BY <1>3 DEF Serve, Shutdown, Die, registry, BootInv, Booted
<1>4. ASSUME NEW c \in Calls, HostedRefreshes(c) PROVE BootInv'
  <2>1. helper = "serving" /\ server[label[c]] = "open"
    BY <1>4 DEF FlightInv, HostedRefreshes, InFlight
  <2>2. \A s \in Hosted : server[s] = "none" => allowed_tools'[s] = allowed_tools[s]
    BY <1>4, <2>1 DEF HostedRefreshes, TypeOK
  <2> QED
    BY <1>4, <2>1, <2>2 DEF HostedRefreshes, BootInv, Booted
<1> QED
  BY <1>1, <1>2, <1>3, <1>4, RegistryFrame

-----------------------------------------------------------------------------
(* How one step can change a call's place. *)
LEMMA FlightStep ==
  ASSUME TypeOK, FlightInv, [Next]_vars
  PROVE  FlightInv'
<1> USE DEF FlightInv, IsHosted, registry, callVars, targets, gateway, mcpServers
<1>1. CASE UNCHANGED vars
  BY <1>1 DEF vars, InFlight
<1>2. ASSUME NEW s \in Labels, ChangeTool(s) PROVE FlightInv'
  BY <1>2 DEF ChangeTool, InFlight
<1>3. ASSUME NEW s \in Hosted, EnterServer(s) \/ DiscoverTools(s) \/ FailServerStartup(s)
      PROVE  FlightInv'
  BY <1>3 DEF EnterServer, DiscoverTools, FailServerStartup, Booting, InFlight
<1>4. CASE Serve \/ Shutdown
  BY <1>4 DEF Serve, Shutdown, InFlight
<1>5. CASE Die
  BY <1>5 DEF Die, InFlight
<1>6. ASSUME NEW c \in Calls,
             \/ HostedReturns(c) \/ HostedFails(c) \/ HostedIsStale(c)
             \/ HostedLists(c) \/ HostedRefreshes(c)
             \/ RemoteReturns(c) \/ RemoteFails(c) \/ RemoteIsStale(c)
             \/ RemoteLists(c) \/ RemoteRefreshes(c)
      PROVE  FlightInv'
  <2>1. UNCHANGED <<helper, server, label>>
    BY <1>6 DEF HostedReturns, HostedFails, HostedIsStale, HostedLists, HostedRefreshes,
                RemoteReturns, RemoteFails, RemoteIsStale, RemoteLists, RemoteRefreshes
  <2>2. InFlight(c)
    BY <1>6 DEF HostedReturns, HostedFails, HostedIsStale, HostedLists, HostedRefreshes,
                RemoteReturns, RemoteFails, RemoteIsStale, RemoteLists, RemoteRefreshes, InFlight
  <2>3. \A other \in Calls : other # c => pc'[other] = pc[other]
    BY <1>6 DEF HostedReturns, HostedFails, HostedIsStale, HostedLists, HostedRefreshes,
                RemoteReturns, RemoteFails, RemoteIsStale, RemoteLists, RemoteRefreshes,
                Runs, Fails, Finish, ListsTools, CallsAgain, TypeOK
  <2> QED
    BY <2>1, <2>2, <2>3 DEF InFlight
<1>7. ASSUME NEW r \in Requests, ResolveHosted(r) \/ ResolveRemote(r) \/ ResolveFails(r)
      PROVE  FlightInv'
  BY <1>7 DEF ResolveHosted, ResolveRemote, ResolveFails, InFlight
<1>8. ASSUME NEW c \in Calls, RejectArguments(c) \/ CallHosted(c) \/ Timeout(c) \/ CallRemote(c)
      PROVE  FlightInv'
  <2>1. CASE RejectArguments(c)
    BY <2>1 DEF RejectArguments, Finish, InFlight, TypeOK
  <2>2. CASE CallHosted(c)
    BY <2>2 DEF CallHosted, HandleCall, is_server_available, Finish, InFlight, TypeOK
  <2>3. CASE Timeout(c)
    BY <2>3 DEF Timeout, InFlight
  <2>4. CASE CallRemote(c)
    BY <2>4 DEF CallRemote, InFlight, TypeOK
  <2> QED
    BY <1>8, <2>1, <2>2, <2>3, <2>4
<1> QED
  BY <1>1, <1>2, <1>3, <1>4, <1>5, <1>6, <1>7, <1>8 DEF Next, RegistryNext

-----------------------------------------------------------------------------
Stepping(c) ==
  \/ HostedReturns(c) \/ HostedFails(c) \/ HostedIsStale(c) \/ HostedLists(c) \/ HostedRefreshes(c)
  \/ RejectArguments(c) \/ CallHosted(c) \/ Timeout(c)
  \/ CallRemote(c) \/ RemoteReturns(c) \/ RemoteFails(c)
  \/ RemoteIsStale(c) \/ RemoteLists(c) \/ RemoteRefreshes(c)

(* What the step of one call can do to that call, and that it touches no   *)
(* other.                                                                  *)
Ends(c, reports) ==
  /\ \E how \in reports : Finish(c, how)
  /\ UNCHANGED executed

Moves(c) ==
  /\ pc[c] # "done" /\ pc' \in {[pc EXCEPT ![c] = p] : p \in Places \ {"idle", "found", "listed", "done"}}
  /\ UNCHANGED <<executed, told>>

Receives(c) ==
  /\ pc[c] \in {"finding", "refreshing"} /\ ListsTools(c)

GivesUp(c) ==
  /\ InFlight(c) /\ told[c] = "none" /\ told' = [told EXCEPT ![c] = "lost"]
  /\ UNCHANGED <<pc, snap, executed>>

LEMMA CallFrame ==
  ASSUME TypeOK, NEW c \in Calls, Stepping(c)
  PROVE  /\ UNCHANGED <<mcpServers, booted, server, startup_error, targets>>
         /\ pc[c] # "done"
         /\ \/ Ends(c, {"invalid", "missing", "unavailable", "lost", "failed"})
            \/ InFlight(c) /\ (Runs(c) \/ Fails(c))
            \/ Moves(c) \/ Receives(c) \/ GivesUp(c)
<1> USE DEF registry, gateway
<1>1. CASE HostedReturns(c) \/ RemoteReturns(c)
  BY <1>1 DEF HostedReturns, RemoteReturns, InFlight
<1>2. CASE HostedFails(c) \/ RemoteFails(c)
  BY <1>2 DEF HostedFails, RemoteFails, Ends, InFlight
<1>3. CASE HostedIsStale(c) \/ RemoteIsStale(c)
  BY <1>3 DEF HostedIsStale, RemoteIsStale, Moves, Places
<1>4. CASE HostedLists(c) \/ RemoteLists(c)
  BY <1>4 DEF HostedLists, RemoteLists, Receives
<1>5. CASE HostedRefreshes(c)
  BY <1>5 DEF HostedRefreshes, CallsAgain, Ends, Moves, Places
<1>6. CASE RemoteRefreshes(c)
  <2>1. pc[c] # "done" /\ UNCHANGED <<mcpServers, booted, server, startup_error, targets>>
    BY <1>6 DEF RemoteRefreshes
  <2>2. \/ Finish(c, "missing") /\ UNCHANGED executed
        \/ CallsAgain(c, "calling") \/ CallsAgain(c, "recalling")
    BY <1>6 DEF RemoteRefreshes
  <2> QED
    BY <2>1, <2>2 DEF CallsAgain, Ends, Moves, Places
<1>7. CASE RejectArguments(c)
  BY <1>7 DEF RejectArguments, Calling, Ends
<1>8. CASE CallHosted(c)
  <2>1. pc[c] # "done" /\ UNCHANGED <<mcpServers, booted, server, startup_error, targets, executed>>
    BY <1>8 DEF CallHosted, Calling, HandleCall
  <2>2. \/ pc' = [pc EXCEPT ![c] = "calling"] /\ UNCHANGED told
        \/ Finish(c, "lost") \/ Finish(c, "missing") \/ Finish(c, "unavailable")
    BY <1>8 DEF CallHosted, HandleCall
  <2> QED
    BY <2>1, <2>2 DEF Ends, Moves, Places
<1>9. CASE Timeout(c)
  BY <1>9 DEF Timeout, GivesUp, InFlight
<1>10. CASE CallRemote(c)
  <2>1. pc' = [pc EXCEPT ![c] = "finding"] \/ pc' = [pc EXCEPT ![c] = "calling"]
    BY <1>10 DEF CallRemote
  <2> QED
    BY <1>10, <2>1 DEF CallRemote, Calling, Moves, Places
<1> QED
  BY <1>1, <1>2, <1>3, <1>4, <1>5, <1>6, <1>7, <1>8, <1>9, <1>10 DEF Stepping

(* All other steps leave the calls alone, but for those Die cuts off. *)
LEMMA OtherFrame ==
  ASSUME [Next]_vars
  PROVE  UNCHANGED <<callVars, targets>> \/ Die \/ \E c \in Calls : Stepping(c)
BY DEF Next, RegistryNext, Stepping, vars, ChangeTool, EnterServer, DiscoverTools,
       FailServerStartup, Serve, Shutdown, ResolveHosted, ResolveRemote, ResolveFails

LEMMA CallStep ==
  ASSUME TypeOK, CallInv, [Next]_vars
  PROVE  CallInv'
<1>1. CASE UNCHANGED <<callVars, targets>>
  BY <1>1 DEF CallInv, callVars
<1>2. CASE Die
  <2>1. \A c \in Calls : /\ executed'[c] = executed[c]
                        /\ \/ pc'[c] = pc[c] /\ told'[c] = told[c]
                           \/ InFlight(c) /\ pc'[c] = "done" /\ told'[c] \in {told[c], "lost"}
    BY <1>2 DEF Die
  <2> QED
    BY <2>1 DEF CallInv, InFlight
<1>3. ASSUME NEW c \in Calls, Stepping(c) PROVE CallInv'
  <2>1. \A other \in Calls : other # c =>
          pc'[other] = pc[other] /\ executed'[other] = executed[other] /\ told'[other] = told[other]
    BY <1>3, CallFrame DEF TypeOK, Ends, Moves, Receives, GivesUp, Runs, Fails, Finish, ListsTools
  <2>2. /\ pc[c] # "done" /\ executed[c] = 0 /\ told[c] \in {"none", "lost"}
        /\ pc[c] = "idle" => told[c] = "none"
    BY <1>3, CallFrame DEF CallInv
  <2>3. CASE Ends(c, {"invalid", "missing", "unavailable", "lost", "failed"})
    BY <2>1, <2>2, <2>3 DEF CallInv, Ends, Finish, TypeOK
  <2>4. CASE InFlight(c) /\ (Runs(c) \/ Fails(c))
    <3>1. Finish(c, "ok") \/ Finish(c, "failed")
      BY <2>4 DEF Runs, Fails
    <3>2. pc'[c] = "done" /\ told'[c] \notin {"invalid", "missing", "unavailable"}
      BY <2>2, <3>1 DEF Finish, TypeOK
    <3> QED
      BY <2>1, <3>2 DEF CallInv
  <2>5. CASE Moves(c)
    <3>1. pc'[c] # "idle" /\ executed'[c] = 0 /\ told'[c] = told[c]
      BY <2>2, <2>5 DEF Moves, TypeOK
    <3> QED
      BY <2>1, <2>2, <3>1 DEF CallInv
  <2>6. CASE Receives(c)
    <3>1. pc'[c] # "idle" /\ executed'[c] = 0 /\ told'[c] = told[c]
      BY <2>2, <2>6 DEF Receives, ListsTools, TypeOK
    <3> QED
      BY <2>1, <2>2, <3>1 DEF CallInv
  <2>7. CASE GivesUp(c)
    BY <2>1, <2>2, <2>7 DEF CallInv, GivesUp, InFlight, TypeOK
  <2> QED
    BY <1>3, CallFrame, <2>3, <2>4, <2>5, <2>6, <2>7
<1> QED
  BY <1>1, <1>2, <1>3, OtherFrame

-----------------------------------------------------------------------------
LEMMA ServersFrame ==
  ASSUME [Next]_vars
  PROVE  UNCHANGED mcpServers \/ \E s \in Labels : ChangeTool(s) /\ UNCHANGED gateway
BY DEF Next, RegistryNext, vars, EnterServer, DiscoverTools, FailServerStartup, Serve, Shutdown,
       Die, HostedReturns, HostedFails, HostedIsStale, HostedLists, HostedRefreshes,
       ResolveHosted, ResolveRemote, ResolveFails, RejectArguments, CallHosted, HandleCall,
       Timeout, CallRemote, RemoteReturns, RemoteFails, RemoteIsStale, RemoteLists,
       RemoteRefreshes

LEMMA ChangeKeeps ==
  ASSUME TypeOK, NEW s \in Labels, ChangeTool(s)
  PROVE  /\ \A other \in Labels : withdrawn[other] \subseteq withdrawn'[other]
         /\ \A other \in Labels, t \in Tools :
              offered'[other][t] = 0 => offered[other][t] = 0 \/ t \in withdrawn'[other]
<1>1. PICK t \in Tools, v \in 0 .. MaxVersion :
        /\ offered' = [offered EXCEPT ![s][t] = v]
        /\ withdrawn' = IF v = 0 THEN [withdrawn EXCEPT ![s] = @ \cup {t}] ELSE withdrawn
  BY DEF ChangeTool
<1>2. \A other \in Labels : withdrawn[other] \subseteq withdrawn'[other]
  BY <1>1 DEF TypeOK
<1>3. \A other \in Labels, u \in Tools :
        offered'[other][u] = IF other = s /\ u = t THEN v ELSE offered[other][u]
  BY <1>1 DEF TypeOK, Inventory
<1> QED
  BY <1>1, <1>2, <1>3 DEF TypeOK

(* The parts of WithdrawnInv that a change at a server concerns. *)
LEMMA WithdrawnByChange ==
  ASSUME TypeOK, WithdrawnInv, MissingIsJustified, NEW s \in Labels, ChangeTool(s)
  PROVE  WithdrawnInv' /\ MissingIsJustified'
<1>1. UNCHANGED <<registry, callVars, targets>>
  BY DEF ChangeTool
<1>2. Hosted \subseteq Labels /\ \A c \in Calls : label[c] \in Labels
  BY DEF Labels, TypeOK
<1>3. \A t \in Tools, other \in Labels : offered'[other][t] = 0 => t \in withdrawn'[other]
  BY ChangeKeeps DEF WithdrawnInv
<1>4. MissingIsJustified'
  BY <1>1, <1>2, ChangeKeeps DEF MissingIsJustified, callVars, targets
<1>5. \A h \in Hosted : Booted(h)' <=> Booted(h)
  BY <1>1 DEF registry, Booted
<1>6. WithdrawnInv'
  BY <1>1, <1>2, <1>3, <1>5, ChangeKeeps DEF WithdrawnInv, registry, callVars, targets
<1> QED
  BY <1>4, <1>6

LEMMA KnownStep ==
  ASSUME TypeOK, BootInv, WithdrawnInv, [Next]_vars, UNCHANGED mcpServers
  PROVE  \A s \in Hosted, t \in Tools :
           (Booted(s) /\ server[s] = "open" /\ allowed_tools[s][t] = 0)' => t \in withdrawn'[s]
<1> DEFINE Known == \A s \in Hosted, t \in Tools :
             Booted(s) /\ server[s] = "open" /\ allowed_tools[s][t] = 0 => t \in withdrawn[s]
<1>0. Known /\ UNCHANGED withdrawn /\ \A s \in Hosted : s \in Labels
  BY DEF WithdrawnInv, mcpServers, Labels
<1> SUFFICES Known'
  OBVIOUS
<1>1. CASE UNCHANGED <<helper, registry>>
  BY <1>0, <1>1 DEF registry, Booted
<1>2. ASSUME NEW s \in Hosted, EnterServer(s) \/ DiscoverTools(s) \/ FailServerStartup(s)
      PROVE  Known'
  <2>1. CASE EnterServer(s)
    <3>1. Len(Order) \in Nat /\ DOMAIN Order = 1 .. Len(Order) /\ booted \in 0 .. Len(Order)
      BY LabelsAssumption DEF LabelsAssumption, TypeOK
    <3>2. booted + 1 \in DOMAIN Order /\ s = Order[booted + 1]
      BY <2>1, <3>1 DEF EnterServer, Booting
    <3>3. \A i \in 1 .. booted : i \in DOMAIN Order /\ i # booted + 1
      BY <3>1
    <3>4. ~Booted(s)
      BY <3>2, <3>3, LabelsAssumption DEF Booted, LabelsAssumption
    <3> QED
      BY <1>0, <2>1, <3>4 DEF EnterServer, Booted, TypeOK
  <2>2. CASE DiscoverTools(s)
    <3>1. \A t \in Tools : offered[s][t] = 0 => t \in withdrawn[s]
      BY <1>0 DEF WithdrawnInv
    <3>2. /\ booted' = booted + 1 /\ Booting(s) /\ UNCHANGED server
          /\ allowed_tools' = [allowed_tools EXCEPT ![s] = offered[s]]
      BY <2>2 DEF DiscoverTools
    <3> QED
      BY <1>0, <3>1, <3>2, BootingIsNew DEF TypeOK
  <2>3. CASE FailServerStartup(s)
    <3>1. /\ booted' = booted + 1 /\ Booting(s)
          /\ server' = [server EXCEPT ![s] = "none"]
          /\ allowed_tools' = [allowed_tools EXCEPT ![s] = Nothing]
      BY <2>3 DEF FailServerStartup
    <3> QED
      BY <1>0, <3>1, BootingIsNew DEF TypeOK
  <2> QED
    BY <1>2, <2>1, <2>2, <2>3
<1>3. CASE Serve \/ Shutdown \/ Die
  BY <1>0, <1>3 DEF Serve, Shutdown, Die, registry, Booted
<1>4. ASSUME NEW c \in Calls, HostedRefreshes(c) PROVE Known'
  <2>1. snap[c][tool[c]] = 0 => tool[c] \in withdrawn[label[c]]
    BY <1>4 DEF WithdrawnInv, HostedRefreshes, TypeOK
  <2>2. \A s \in Hosted, t \in Tools :
          allowed_tools'[s][t] = IF s = label[c] /\ t = tool[c] THEN snap[c][tool[c]]
                                                              ELSE allowed_tools[s][t]
    BY <1>4 DEF HostedRefreshes, IsHosted, TypeOK, Inventory
  <2> QED
    BY <1>0, <1>4, <2>1, <2>2 DEF HostedRefreshes, Booted
<1> QED
  BY <1>1, <1>2, <1>3, <1>4, RegistryFrame

LEMMA ListedStep ==
  ASSUME TypeOK, WithdrawnInv, [Next]_vars, UNCHANGED mcpServers
  PROVE  \A c \in Calls, t \in Tools :
           pc'[c] \in {"found", "listed"} /\ snap'[c][t] = 0 => t \in withdrawn'[label'[c]]
<1>1. CASE UNCHANGED <<callVars, targets>>
  BY <1>1 DEF WithdrawnInv, callVars, targets, mcpServers
<1>2. CASE Die
  BY <1>2 DEF Die, WithdrawnInv, targets, mcpServers
<1>3. ASSUME NEW c \in Calls, Stepping(c)
      PROVE  \A d \in Calls, t \in Tools :
               pc'[d] \in {"found", "listed"} /\ snap'[d][t] = 0 => t \in withdrawn'[label'[d]]
  <2>1. UNCHANGED <<withdrawn, offered, label>>
    BY <1>3, CallFrame DEF mcpServers, targets
  <2>2. \A other \in Calls : other # c => pc'[other] = pc[other] /\ snap'[other] = snap[other]
    BY <1>3 DEF Stepping, TypeOK, HostedReturns, HostedFails, HostedIsStale, HostedLists,
       HostedRefreshes, RejectArguments, CallHosted, HandleCall, Timeout, CallRemote,
       RemoteReturns, RemoteFails, RemoteIsStale, RemoteLists, RemoteRefreshes,
       Runs, Fails, Finish, ListsTools, CallsAgain
  <2>3. \/ pc'[c] \notin {"found", "listed"}
        \/ snap'[c] = offered[label[c]]
        \/ pc'[c] = pc[c] /\ snap'[c] = snap[c]
    <3>1. \/ Ends(c, {"invalid", "missing", "unavailable", "lost", "failed"})
          \/ Runs(c) \/ Fails(c)
          \/ Moves(c) \/ Receives(c) \/ GivesUp(c)
      BY <1>3, CallFrame
    <3>2. CASE \/ Ends(c, {"invalid", "missing", "unavailable", "lost", "failed"})
               \/ Runs(c) \/ Fails(c)
      BY <3>2 DEF TypeOK, Ends, Runs, Fails, Finish
    <3>3. CASE Moves(c)
      BY <3>3 DEF TypeOK, Moves
    <3>4. CASE Receives(c)
      BY <3>4 DEF TypeOK, Receives, ListsTools
    <3>5. CASE GivesUp(c)
      BY <3>5 DEF GivesUp
    <3> QED
      BY <3>1, <3>2, <3>3, <3>4, <3>5
  <2>4. \A d \in Calls : label[d] \in Labels
    BY DEF TypeOK
  <2> QED
    BY <2>1, <2>2, <2>3, <2>4 DEF WithdrawnInv
<1> QED
  BY <1>1, <1>2, <1>3, OtherFrame

LEMMA MissingStep ==
  ASSUME TypeOK, HandlesMatchInfos, BootInv, WithdrawnInv, MissingIsJustified,
         [Next]_vars, UNCHANGED mcpServers
  PROVE  MissingIsJustified'
<1>1. CASE UNCHANGED <<callVars, targets>>
  BY <1>1 DEF MissingIsJustified, callVars, targets, mcpServers
<1>2. CASE Die
  BY <1>2 DEF Die, MissingIsJustified, targets, mcpServers
<1>3. ASSUME NEW c \in Calls, Stepping(c) PROVE MissingIsJustified'
  <2>1. UNCHANGED <<withdrawn, targets>>
    BY <1>3, CallFrame DEF mcpServers
  <2>2. \A other \in Calls : other # c => told'[other] = told[other]
    <3>1. \/ \E how \in Reports : Finish(c, how)
          \/ Moves(c) \/ Receives(c) \/ GivesUp(c)
      BY <1>3, CallFrame DEF Ends, Runs, Fails, Reports
    <3> QED
      BY <3>1 DEF TypeOK, Moves, Receives, GivesUp, Finish, ListsTools
  <2> SUFFICES ASSUME told'[c] = "missing", told[c] # "missing"
               PROVE  tool[c] \in withdrawn[label[c]]
    BY <2>1, <2>2 DEF MissingIsJustified, targets
  <2>3. HostedRefreshes(c) \/ RemoteRefreshes(c) \/ CallHosted(c)
    BY <1>3 DEF Stepping, TypeOK, HostedReturns, HostedFails, HostedIsStale, HostedLists,
       RejectArguments, Timeout, CallRemote, RemoteReturns, RemoteFails, RemoteIsStale,
       RemoteLists, Runs, Fails, Finish, ListsTools
  <2>4. CASE HostedRefreshes(c) \/ RemoteRefreshes(c)
    <3>1. pc[c] \in {"found", "listed"} /\ snap[c][tool[c]] = 0
      BY <2>4 DEF HostedRefreshes, RemoteRefreshes, CallsAgain
    <3> QED
      BY <3>1 DEF WithdrawnInv, TypeOK
  <2>5. CASE CallHosted(c)
    <3>1. /\ helper = "serving" /\ is_server_available(label[c]) /\ label[c] \in Hosted
          /\ allowed_mcp_tools_by_name[label[c]][tool[c]] = 0
      BY <2>5 DEF CallHosted, IsHosted, HandleCall, Finish, TypeOK
    <3>2. PICK i \in DOMAIN Order : Order[i] = label[c]
      BY <3>1, LabelsAssumption DEF LabelsAssumption
    <3>3. Booted(label[c])
      BY <3>1, <3>2, LabelsAssumption DEF LabelsAssumption, BootInv, Booted
    <3> QED
      BY <3>1, <3>3 DEF is_server_available, HandlesMatchInfos, WithdrawnInv, TypeOK
  <2> QED
    BY <2>3, <2>4, <2>5
<1> QED
  BY <1>1, <1>2, <1>3, OtherFrame

LEMMA WithdrawnStep ==
  ASSUME TypeOK, HandlesMatchInfos, BootInv, WithdrawnInv, MissingIsJustified, [Next]_vars
  PROVE  WithdrawnInv' /\ MissingIsJustified'
<1>1. CASE \E s \in Labels : ChangeTool(s)
  BY <1>1, WithdrawnByChange
<1>2. CASE UNCHANGED mcpServers
  <2>1. \A s \in Labels, t \in Tools : offered'[s][t] = 0 => t \in withdrawn'[s]
    BY <1>2 DEF WithdrawnInv, mcpServers
  <2> QED
    BY <1>2, <2>1, KnownStep, ListedStep, MissingStep DEF WithdrawnInv
<1> QED
  BY <1>1, <1>2, ServersFrame

-----------------------------------------------------------------------------
LEMMA McpInvInductive == Spec => []McpInv
<1>1. Init => McpInv
  BY InitHolds
<1>2. McpInv /\ [Next]_vars => McpInv'
  BY TypeStep, HandlesStep, BootStep, FlightStep, WithdrawnStep, CallStep DEF McpInv
<1> QED
  BY <1>1, <1>2, PTL DEF Spec

(* The type of every variable; in particular no tool runs twice for a call. *)
THEOREM TypeCorrect == Spec => []TypeOK
<1>1. McpInv => TypeOK
  BY DEF McpInv
<1> QED
  BY <1>1, McpInvInductive, PTL

(* Overlapping refreshes keep what the helper lists and what it calls the   *)
(* same (managed_registry.py:193-208).                                     *)
THEOREM HandlesAgree == Spec => []HandlesMatchInfos
<1>1. McpInv => HandlesMatchInfos
  BY DEF McpInv
<1> QED
  BY <1>1, McpInvInductive, PTL

(* However many servers are configured and whichever of them fail, when    *)
(* the helper serves each has been tried (managed_registry.py:79-120).     *)
THEOREM StartupIsolated == Spec => []SettledAtStartup
<1>1. McpInv => SettledAtStartup
  <2> SUFFICES ASSUME McpInv, helper = "serving", NEW s \in Hosted
               PROVE  \/ server[s] = "open" /\ ~startup_error[s]
                      \/ server[s] = "none" /\ startup_error[s] /\ ~Has(allowed_tools[s])
    BY DEF SettledAtStartup
  <2>1. PICK i \in DOMAIN Order : Order[i] = s
    BY LabelsAssumption DEF LabelsAssumption
  <2>2. Booted(s)
    BY <2>1, LabelsAssumption DEF LabelsAssumption, McpInv, BootInv, Booted
  <2>3. ~Has(Nothing)
    BY DEF Has, Nothing
  <2> QED
    BY <2>2, <2>3 DEF McpInv, BootInv
<1> QED
  BY <1>1, McpInvInductive, PTL

(* A model that is told that a tool does not exist is told the truth about  *)
(* some moment, for any interleaving of calls and changes                  *)
(* (managed_registry.py:193-199, backend.py:113-137).                      *)
THEOREM MissingJustified == Spec => []MissingIsJustified
<1>1. McpInv => MissingIsJustified
  BY DEF McpInv
<1> QED
  BY <1>1, McpInvInductive, PTL

LEMMA ContractStep ==
  ASSUME McpInv, [Next]_vars
  PROVE  [Contract!Next]_Contract!vars
<1> USE DEF Contract!vars, Contract!Next
<1>1. CASE UNCHANGED <<callVars, targets>>
  BY <1>1 DEF callVars
<1>2. CASE Die
  <2> DEFINE cut == {c \in Calls : IsHosted(c) /\ InFlight(c) /\ told[c] = "none"}
  <2>1. UNCHANGED executed
    BY <1>2 DEF Die
  <2>2. told' = [c \in Calls |-> IF c \in cut THEN "lost" ELSE told[c]]
    BY <1>2 DEF Die
  <2>3. Contract!Report(cut)
    <3> HIDE DEF cut
    <3>1. \A c \in cut : told[c] = "none"
      BY DEF cut
    <3> QED
      BY <2>1, <2>2, <3>1 DEF Contract!Report
  <2>4. cut \in SUBSET Calls
    OBVIOUS
  <2> QED
    BY <2>3, <2>4
<1>3. ASSUME NEW c \in Calls, Stepping(c) PROVE [Contract!Next]_Contract!vars
  <2>1. /\ TypeOK /\ executed[c] = 0 /\ told[c] \in {"none", "lost"}
    BY <1>3, CallFrame DEF McpInv, CallInv
  <2>2. ASSUME told[c] = "none", UNCHANGED executed,
               \E how \in {"invalid", "missing", "unavailable", "lost", "failed"} :
                 told' = [told EXCEPT ![c] = how]
        PROVE  Contract!Report({c})
    BY <2>1, <2>2 DEF Contract!Report, Contract!Unsure, Contract!NotCalled
  <2>3. CASE Ends(c, {"invalid", "missing", "unavailable", "lost", "failed"})
    <3>1. UNCHANGED executed
      BY <2>3 DEF Ends
    <3>2. CASE told[c] = "lost"
      BY <2>3, <3>1, <3>2 DEF Ends, Finish
    <3>3. CASE told[c] = "none"
      <4>1. \E how \in {"invalid", "missing", "unavailable", "lost", "failed"} :
              told' = [told EXCEPT ![c] = how]
        BY <2>3, <3>3 DEF Ends, Finish
      <4> QED
        BY <2>2, <3>1, <3>3, <4>1
    <3> QED
      BY <2>1, <3>2, <3>3
  <2>4. CASE Runs(c) \/ Fails(c)
    <3>1. \/ executed' = executed \/ executed' = [executed EXCEPT ![c] = 1]
      BY <2>1, <2>4 DEF Runs, Fails
    <3>2. told' = told \/ (told[c] = "none" /\ \E how \in {"ok", "failed"} : told' = [told EXCEPT ![c] = how])
      BY <2>1, <2>4 DEF Runs, Fails, Finish
    <3>3. CASE executed' = executed
      <4>1. TypeOK /\ executed[c] = 0
        BY <2>1
      <4>2. ~Runs(c)
        BY <3>3, <4>1 DEF Runs, TypeOK
      <4>3. told' = told \/ (told[c] = "none" /\ told' = [told EXCEPT ![c] = "failed"])
        BY <2>1, <2>4, <4>2 DEF Fails, Finish
      <4> QED
        BY <2>2, <3>3, <4>3
    <3>4. CASE executed' = [executed EXCEPT ![c] = 1]
      BY <2>1, <3>2, <3>4 DEF Contract!Run, Contract!RunAndReport, Contract!Unsure,
                              Contract!NotCalled
    <3> QED
      BY <3>1, <3>3, <3>4
  <2>5. CASE Moves(c) \/ Receives(c)
    BY <2>5 DEF Moves, Receives, ListsTools
  <2>6. CASE GivesUp(c)
    BY <2>2, <2>6 DEF GivesUp
  <2> QED
    BY <1>3, <2>1, <2>3, <2>4, <2>5, <2>6, CallFrame
<1> QED
  BY <1>1, <1>2, <1>3, OtherFrame

(* McpGateway implements ToolCallContract: a tool runs at most once for a   *)
(* call, through stale handles, refreshes, timeouts and a helper that dies, *)
(* and a report that it was not called is true and stays true.             *)
THEOREM CallsKeepContract == Spec => KeepsToolCallContract
<1>1. Init => Contract!Init
  BY DEF Init, RegistryInit, Contract!Init
<1>2. McpInv /\ [Next]_vars => [Contract!Next]_Contract!vars
  BY ContractStep
<1> QED
  BY <1>1, <1>2, McpInvInductive, PTL DEF Spec, KeepsToolCallContract, Contract!Spec
=============================================================================
