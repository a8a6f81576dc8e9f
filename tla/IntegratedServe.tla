--------------------------- MODULE IntegratedServe ---------------------------
(***************************************************************************)
(* `vllm serve --responses` (entrypoints/vllm/_runtime.py,                 *)
(* run_integrated_serve): the main thread starts the helpers and then runs *)
(* vLLM's own server in this process, while a watchdog thread polls the    *)
(* helpers and takes the process down when one has ended.                  *)
(***************************************************************************)
EXTENDS ServeSupervisor

VARIABLES
  watchdog,  \* [Proc -> where the watchdog thread is]
  saw,       \* [Proc -> the helper it found ended]
  stopEvent  \* the supervisors whose stop event is set

watchVars == <<watchdog, saw, stopEvent>>

vars == <<serveVars, watchVars>>

Integrates(s) == spec[s].kind = "integrated"

WatchInit ==
  /\ watchdog = [s \in Proc |-> "off"]
  /\ saw = [s \in Proc |-> "none"]
  /\ stopEvent = {}

(* Into the finally block; the stop event is the first thing it sets.      *)
Finally(s, c) ==
  /\ To(s, "stop")
  /\ code' = [code EXCEPT ![s] = c]
  /\ UNCHANGED <<spec, childVars, signals, cut>>

MainFrame == UNCHANGED <<schemaVars, dirs, watchVars>>

StartIntegrated(s) ==
  /\ Integrates(s) /\ At(s, "idle")
  /\ Pass(s, "schema")
  /\ MainFrame

AfterCi(s) == IF spec[s].mcp THEN "port mcp" ELSE "watch"

FirstHelper(s) == CASE spec[s].ci = "spawn" -> "port ci"
                    [] spec[s].ci = "external" -> "wait ci"
                    [] OTHER -> AfterCi(s)

IntegratedSchemaDone(s) ==
  /\ Integrates(s) /\ At(s, "schema")
  /\ \/ setup[s] = "ready" /\ Pass(s, FirstHelper(s))
     \/ setup[s] = "error" /\ Finally(s, "1")
  /\ MainFrame

(* _start_integrated_helpers.  Unlike in `serve`, the port of a helper is  *)
(* checked right before that helper is started.                            *)
EnsurePortAvailable(s, r, before, after) ==
  /\ Integrates(s) /\ At(s, before)
  /\ IF IsPortAvailable(r) THEN Pass(s, after) ELSE Finally(s, "2")
  /\ MainFrame

SpawnHelper(s, r, before, after) ==
  /\ Integrates(s) /\ At(s, before)
  /\ SpawnLoggedProcess(s, r)
  /\ Proceed(s, after)
  /\ MainFrame

AppendHelper(s, r, before, after) ==
  /\ Integrates(s) /\ At(s, before)
  /\ Register(s, r)
  /\ Proceed(s, after)
  /\ MainFrame

WaitForHelperReady(s, r, before, after) ==
  /\ Integrates(s) /\ At(s, before)
  /\ \/ WaitHttpReady(r, child[s][r]) /\ Pass(s, after)
     \/ Finally(s, ReadinessFailure(child[s][r]))
  /\ MainFrame

StartIntegratedCodeInterpreter(s) ==
  \/ EnsurePortAvailable(s, "ci", "port ci", "spawn ci")
  \/ SpawnHelper(s, "ci", "spawn ci", "append ci")
  \/ AppendHelper(s, "ci", "append ci", "wait ci")
  \/ WaitForHelperReady(s, "ci", "wait ci", AfterCi(s))

StartIntegratedMcpRuntime(s) ==
  \/ EnsurePortAvailable(s, "mcp", "port mcp", "spawn mcp")
  \/ SpawnHelper(s, "mcp", "spawn mcp", "append mcp")
  \/ AppendHelper(s, "mcp", "append mcp", "wait mcp")
  \/ WaitForHelperReady(s, "mcp", "wait mcp", "watch")

(* With helpers to watch, the watchdog starts; then vLLM takes over.       *)
StartHelperWatchdog(s) ==
  /\ Integrates(s) /\ At(s, "watch")
  /\ watchdog' = [watchdog EXCEPT ![s] = IF procs[s] # <<>> THEN "polling" ELSE "off"]
  /\ Pass(s, "serving")
  /\ UNCHANGED <<schemaVars, dirs, saw, stopEvent>>

(* vLLM's command returns, fails, or was stopped by a signal it handles.   *)
UpstreamCliEnds(s) ==
  /\ Integrates(s) /\ At(s, "serving")
  /\ \E c \in {"0", "1", "signal"} : Finally(s, c)
  /\ MainFrame

SetStopEvent(s) ==
  /\ Integrates(s) /\ At(s, "stop")
  /\ stopEvent' = stopEvent \cup {s}
  /\ Pass(s, "join")
  /\ UNCHANGED <<schemaVars, dirs, watchdog, saw>>

(* The watchdog has ended, or the second that join allows it is over.      *)
JoinWatchdog(s) ==
  /\ Integrates(s) /\ At(s, "join")
  /\ CleanupHelperProcesses(s)
  /\ Proceed(s, "cleanup")
  /\ UNCHANGED <<child, port, procs>>
  /\ MainFrame

IntegratedCleanupStep(s) ==
  /\ Integrates(s) /\ At(s, "cleanup")
  /\ TerminateProcess(s, "main")
  /\ UNCHANGED mainVars
  /\ MainFrame

IntegratedCleanupDone(s) ==
  /\ Integrates(s) /\ At(s, "cleanup")
  /\ stopping[s]["main"] = <<>>
  /\ Pass(s, "exited")
  /\ MainFrame

(* SIGINT.  It begins the clean-up, or ends it for good.  (SIGTERM has no  *)
(* handler before vLLM runs: it is a kill.)                                *)
Interrupt(s) ==
  /\ Integrates(s) /\ Alive(s) /\ ~At(s, "serving")
  /\ signals[s] < MaxSignals
  /\ signals' = [signals EXCEPT ![s] = @ + 1]
  /\ code' = [code EXCEPT ![s] = "signal"]
  /\ IF at[s] \notin {"stop", "join", "cleanup"}
       THEN /\ To(s, "stop")
            /\ cut' = IF \E r \in Role : Running(s, r) /\ r \notin ToSet(procs[s])
                        THEN cut \cup {s} ELSE cut
       ELSE /\ To(s, "exited")
            /\ cut' = cut \cup {s}
  /\ SetupCut(s)
  /\ UNCHANGED <<spec, childVars, dirs, watchVars>>

-----------------------------------------------------------------------------
(* The watchdog thread; it ends with its process.                          *)

WatchFrame == UNCHANGED <<schemaVars, dirs>>

(* One pass over the helpers, every 0.25 s.  The stop event is looked at    *)
(* before the pass, and again once a helper was found ended.               *)
BeginPass(s) ==
  /\ Alive(s) /\ watchdog[s] = "polling"
  /\ s \notin stopEvent
  /\ watchdog' = [watchdog EXCEPT ![s] = "scanning"]
  /\ UNCHANGED <<helperVars, saw, stopEvent>>
  /\ WatchFrame

EndPass(s) ==
  /\ Alive(s) /\ watchdog[s] = "scanning"
  /\ \A r \in ToSet(procs[s]) : child[s][r] \notin Ended
  /\ watchdog' = [watchdog EXCEPT ![s] = "polling"]
  /\ UNCHANGED <<helperVars, saw, stopEvent>>
  /\ WatchFrame

SeeHelperFailed(s) ==
  /\ Alive(s) /\ watchdog[s] = "scanning"
  /\ \E r \in ToSet(procs[s]) :
        /\ child[s][r] = "exit1"
        /\ saw' = [saw EXCEPT ![s] = r]
  /\ watchdog' = [watchdog EXCEPT ![s] = "seen"]
  /\ UNCHANGED <<helperVars, stopEvent>>
  /\ WatchFrame

SeeHelperEnded(s) ==
  /\ Alive(s) /\ watchdog[s] = "scanning"
  /\ \E r \in ToSet(procs[s]) :
        /\ child[s][r] \in Ended
        /\ saw' = [saw EXCEPT ![s] = r]
  /\ watchdog' = [watchdog EXCEPT ![s] = "seen"]
  /\ UNCHANGED <<helperVars, stopEvent>>
  /\ WatchFrame

(* A clean-up that has begun in the meantime is no reason to raise alarm.  *)
WatchdogStops(s) ==
  /\ Alive(s) /\ watchdog[s] \in {"polling", "seen"}
  /\ s \in stopEvent
  /\ watchdog' = [watchdog EXCEPT ![s] = "off"]
  /\ UNCHANGED <<helperVars, saw, stopEvent>>
  /\ WatchFrame

NoOthers(s) == <<>>

OthersInReverse(s) ==
  Reverse(RemoveAt(procs[s], CHOOSE i \in DOMAIN procs[s] : procs[s][i] = saw[s]))

RaiseAlarmUnchecked(s) ==
  /\ Alive(s) /\ watchdog[s] = "seen"
  /\ stopEvent' = stopEvent \cup {s}
  /\ watchdog' = [watchdog EXCEPT ![s] = "terminating"]
  /\ stopping' = [stopping EXCEPT ![s]["watchdog"] = OthersInReverse(s)]
  /\ UNCHANGED <<child, port, procs, mainVars, saw>>
  /\ WatchFrame

RaiseAlarm(s) ==
  /\ Alive(s) /\ watchdog[s] = "seen"
  /\ s \notin stopEvent
  /\ stopEvent' = stopEvent \cup {s}
  /\ watchdog' = [watchdog EXCEPT ![s] = "terminating"]
  /\ stopping' = [stopping EXCEPT ![s]["watchdog"] = OthersInReverse(s)]
  /\ UNCHANGED <<child, port, procs, mainVars, saw>>
  /\ WatchFrame

WatchdogTerminates(s) ==
  /\ Alive(s) /\ watchdog[s] = "terminating"
  /\ TerminateProcess(s, "watchdog")
  /\ UNCHANGED <<mainVars, watchVars>>
  /\ WatchFrame

(* os._exit(code or 1), with whatever the main thread is doing.            *)
WatchdogExits(s) ==
  /\ Alive(s) /\ watchdog[s] = "terminating"
  /\ stopping[s]["watchdog"] = <<>>
  /\ To(s, "exited")
  /\ code' = [code EXCEPT ![s] = OrOne(ChildCode(child[s][saw[s]]))]
  /\ UNCHANGED <<spec, childVars, signals, cut, watchVars>>
  /\ WatchFrame

-----------------------------------------------------------------------------
IntegratedStep(s) ==
  \/ StartIntegrated(s)
  \/ IntegratedSchemaDone(s)
  \/ StartIntegratedCodeInterpreter(s)
  \/ StartIntegratedMcpRuntime(s)
  \/ StartHelperWatchdog(s)
  \/ SetStopEvent(s)
  \/ JoinWatchdog(s)
  \/ IntegratedCleanupStep(s) \/ IntegratedCleanupDone(s)

WatchdogStep(s) ==
  \/ BeginPass(s) \/ EndPass(s)
  \/ SeeHelperEnded(s)
  \/ WatchdogStops(s)
  \/ RaiseAlarm(s)
  \/ WatchdogTerminates(s)
  \/ WatchdogExits(s)

=============================================================================
