--------------------------- MODULE ServeSupervisor ---------------------------
(***************************************************************************)
(* `vllm-responses serve` (entrypoints/_serve/_runtime.py, run_serve_spec):*)
(* one step after the other it prepares the metrics directory and the      *)
(* schema, checks the ports, awaits the upstream, starts and awaits the    *)
(* helpers and then the gateway, and waits for the gateway to end.  A      *)
(* signal raises SystemExit between any two of these steps.                *)
(***************************************************************************)
EXTENDS HelperRuntime, SchemaInit

VARIABLE dirs  \* the supervisors whose metrics directory exists

serveVars == <<helperVars, schemaVars, dirs>>

Serves(s) == spec[s].kind = "serve"

(* Where a signal begins the clean-up, which knows the metrics directory   *)
(* once it has a name.                                                     *)
InTry(s) == at[s] \notin {"idle", "metrics", "cleanup", "exited"}

(* Leaving the try block, for whatever reason: the clean-up begins with    *)
(* the children registered so far.                                         *)
Leave(s, c) ==
  /\ To(s, "cleanup")
  /\ code' = [code EXCEPT ![s] = c]
  /\ CleanupHelperProcesses(s)
  /\ UNCHANGED <<spec, child, port, procs, signals, cut>>

Proceed(s, place) ==
  /\ To(s, place)
  /\ UNCHANGED <<spec, code, signals, cut>>

Pass(s, place) == Proceed(s, place) /\ UNCHANGED childVars

Alive(s) == at[s] \notin {"idle", "exited"}

(* Directories of processes that are gone are removed, and a fresh one is  *)
(* made for this process.                                                  *)
CleanupStalePrometheusDirs == {s \in dirs : Alive(s)}

InstallAndPrepare(s) ==
  /\ Serves(s) /\ At(s, "idle")
  /\ IF spec[s].metrics
       THEN dirs' = CleanupStalePrometheusDirs \cup {s} /\ Pass(s, "metrics")
       ELSE dirs' = dirs /\ Pass(s, "schema")
  /\ UNCHANGED schemaVars

(* The new directory is assigned to prometheus_multiproc_dir.              *)
NameMetricsDir(s) ==
  /\ Serves(s) /\ At(s, "metrics")
  /\ Pass(s, "schema")
  /\ UNCHANGED <<schemaVars, dirs>>

BeginSchema(s) ==
  /\ At(s, "schema")
  /\ EnsureSchema(s, spec[s].workers, spec[s].marked)
  /\ UNCHANGED <<helperVars, dirs>>

SchemaStep(s) ==
  /\ At(s, "schema")
  /\ SetupStep(s)
  /\ UNCHANGED <<helperVars, dirs>>

SchemaDone(s) ==
  /\ Serves(s) /\ At(s, "schema")
  /\ \/ setup[s] = "ready" /\ Pass(s, "ports")
     \/ setup[s] = "error" /\ Leave(s, "2")
  /\ UNCHANGED <<schemaVars, dirs>>

PortsNeeded(s) ==
  {"gw"} \cup (IF spec[s].ci = "spawn" THEN {"ci"} ELSE {})
         \cup (IF spec[s].mcp THEN {"mcp"} ELSE {})

CheckPorts(s) ==
  /\ Serves(s) /\ At(s, "ports")
  /\ IF \A r \in PortsNeeded(s) : IsPortAvailable(r)
       THEN Pass(s, "upstream")
       ELSE Leave(s, "2")
  /\ UNCHANGED <<schemaVars, dirs>>

(* The upstream answers, refuses the key (401, 403) or never answers.      *)
WaitUpstream(s) ==
  /\ Serves(s) /\ At(s, "upstream")
  /\ \/ Pass(s, IF spec[s].ci = "spawn" THEN "spawn ci"
                ELSE IF spec[s].ci = "external" THEN "wait ci"
                ELSE IF spec[s].mcp THEN "spawn mcp" ELSE "spawn gw")
     \/ Leave(s, "1")
  /\ UNCHANGED <<schemaVars, dirs>>

SpawnThen(s, r, before, after) ==
  /\ Serves(s) /\ At(s, before)
  /\ SpawnLoggedProcess(s, r)
  /\ Proceed(s, after)
  /\ UNCHANGED <<schemaVars, dirs>>

RegisterThen(s, r, before, after) ==
  /\ Serves(s) /\ At(s, before)
  /\ Register(s, r)
  /\ Proceed(s, after)
  /\ UNCHANGED <<schemaVars, dirs>>

(* The child answers (or somebody else on its port); it has ended or the   *)
(* time is up.                                                             *)
WaitThen(s, r, own, before, after) ==
  /\ Serves(s) /\ At(s, before)
  /\ \/ WaitHttpReady(r, own) /\ Pass(s, after)
     \/ Leave(s, ReadinessFailure(own))
  /\ UNCHANGED <<schemaVars, dirs>>

SpawnCodeInterpreter(s) == SpawnThen(s, "ci", "spawn ci", "append ci")

AppendCodeInterpreter(s) == RegisterThen(s, "ci", "append ci", "wait ci")

WaitForCodeInterpreterReady(s) ==
  WaitThen(s, "ci", child[s]["ci"], "wait ci", IF spec[s].mcp THEN "spawn mcp" ELSE "spawn gw")

SpawnMcpRuntime(s) == SpawnThen(s, "mcp", "spawn mcp", "append mcp")

AppendMcpRuntime(s) == RegisterThen(s, "mcp", "append mcp", "wait mcp")

WaitForMcpRuntimeReady(s) == WaitThen(s, "mcp", child[s]["mcp"], "wait mcp", "spawn gw")

SpawnGateway(s) == SpawnThen(s, "gw", "spawn gw", "append gw")

AppendGateway(s) == RegisterThen(s, "gw", "append gw", "wait gw")

WaitForGatewayReady(s) == WaitThen(s, "gw", child[s]["gw"], "wait gw", "serving")

(* Ready is announced; from here on only the gateway is watched.           *)
GatewayEnds(s) ==
  /\ Serves(s) /\ At(s, "serving")
  /\ child[s]["gw"] \in Ended
  /\ Leave(s, ChildCode(child[s]["gw"]))
  /\ UNCHANGED <<schemaVars, dirs>>

CleanupStep(s) ==
  /\ Serves(s) /\ At(s, "cleanup")
  /\ TerminateProcess(s, "main")
  /\ UNCHANGED <<mainVars, schemaVars, dirs>>

CleanupDone(s) ==
  /\ Serves(s) /\ At(s, "cleanup")
  /\ stopping[s]["main"] = <<>>
  /\ dirs' = dirs \ {s}
  /\ Pass(s, "exited")
  /\ UNCHANGED schemaVars

(* SIGTERM, SIGHUP or SIGINT, between any two steps.  In the try block it  *)
(* begins the clean-up, from which a child that was not registered yet is  *)
(* missing; in the clean-up it ends it, for good.  Before the metrics      *)
(* directory has its name there is nothing that the clean-up could do.     *)
Signal(s) ==
  /\ Serves(s) /\ Alive(s)
  /\ signals[s] < MaxSignals
  /\ signals' = [signals EXCEPT ![s] = @ + 1]
  /\ code' = [code EXCEPT ![s] = "signal"]
  /\ IF InTry(s)
       THEN /\ To(s, "cleanup")
            /\ CleanupHelperProcesses(s)
            /\ cut' = IF \E r \in Role : Running(s, r) /\ r \notin ToSet(procs[s])
                        THEN cut \cup {s} ELSE cut
       ELSE /\ To(s, "exited")
            /\ cut' = cut \cup {s}
            /\ UNCHANGED stopping
  /\ SetupCut(s)
  /\ UNCHANGED <<spec, child, port, procs, dirs>>

(* SIGKILL, or the machine's out-of-memory killer.                         *)
Killed(s) ==
  /\ Alive(s)
  /\ signals[s] < MaxSignals
  /\ signals' = [signals EXCEPT ![s] = @ + 1]
  /\ code' = [code EXCEPT ![s] = "killed"]
  /\ To(s, "exited")
  /\ cut' = cut \cup {s}
  /\ SetupCut(s)
  /\ UNCHANGED <<spec, childVars, dirs>>

ServeStep(s) ==
  \/ InstallAndPrepare(s) \/ NameMetricsDir(s)
  \/ SchemaDone(s)
  \/ CheckPorts(s)
  \/ WaitUpstream(s)
  \/ SpawnCodeInterpreter(s) \/ AppendCodeInterpreter(s) \/ WaitForCodeInterpreterReady(s)
  \/ SpawnMcpRuntime(s) \/ AppendMcpRuntime(s) \/ WaitForMcpRuntimeReady(s)
  \/ SpawnGateway(s) \/ AppendGateway(s) \/ WaitForGatewayReady(s)
  \/ GatewayEnds(s)
  \/ CleanupStep(s) \/ CleanupDone(s)

=============================================================================
