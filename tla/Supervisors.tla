----------------------------- MODULE Supervisors -----------------------------
(***************************************************************************)
(* Supervisors of either kind on one host: they share the database, the    *)
(* ports of their children and the directory of metrics directories.  A    *)
(* supervisor that starts after another was killed is the restart of it.   *)
(***************************************************************************)
EXTENDS IntegratedServe

CONSTANT Specs  \* the configurations of the supervisors to consider

ASSUME SpecsAssumption == Specs \subseteq [Proc -> ServeSpec]

Init ==
  /\ spec \in Specs
  /\ HelperInit
  /\ SchemaInit
  /\ dirs = {}
  /\ WatchInit

(* The main thread of s, left to itself.                                   *)
MainStep(s) ==
  \/ (ServeStep(s) \/ BeginSchema(s) \/ SchemaStep(s)) /\ UNCHANGED watchVars
  \/ IntegratedStep(s)

(* What comes from outside: signals, and the end of vLLM's command.        *)
Outside(s) ==
  \/ (Signal(s) \/ Killed(s)) /\ UNCHANGED watchVars
  \/ Interrupt(s)
  \/ UpstreamCliEnds(s)

Children == UNCHANGED <<schemaVars, dirs, watchVars>>

Next ==
  \/ \E s \in Proc : MainStep(s) \/ Outside(s) \/ WatchdogStep(s)
  \/ ChildStep /\ Children

(* Every thread goes on and every child that boots binds its port or ends. *)
(* Waits end by their timeouts; nobody is obliged to send a signal, to end *)
(* a child or to stop vLLM.                                                *)
Fairness ==
  \A s \in Proc :
    /\ WF_vars(MainStep(s))
    /\ WF_vars(WatchdogStep(s))
    /\ WF_vars((\E r \in Role : Bind(s, r)) /\ Children)

Spec == Init /\ [][Next]_vars /\ Fairness

-----------------------------------------------------------------------------
(***************************************************************************)
(* A supervisor cleans up after itself and after nobody else.  One that    *)
(* ends, and was not cut short where it could not clean up, leaves neither *)
(* a child nor a metrics directory behind: whatever it was starting,       *)
(* whatever failed, and whichever of its threads took the process down.    *)
(* The metrics directory of one that runs is left alone by those that      *)
(* start, which remove the directories of the dead; and a helper is only   *)
(* stopped once the gateway that uses it is gone.                          *)
(***************************************************************************)
CleansUpAfterItself ==
  \A s \in Proc :
    /\ At(s, "exited") /\ s \notin cut => s \notin dirs /\ \A r \in Role : ~Running(s, r)
    /\ Alive(s) /\ Serves(s) /\ spec[s].metrics => s \in dirs
    /\ s \notin cut /\ Running(s, "gw") =>
         child[s]["ci"] # "quitting" /\ child[s]["mcp"] # "quitting"

(***************************************************************************)
(* Who takes the tables for given finds them: a process whose _schema_ready*)
(* flag is set, and the gateway that its supervisor tells so with          *)
(* VR_DB_SCHEMA_READY; whoever created them, whatever raced or was cut, and*)
(* however a commit failed ("DDL must be committed", store.py:355).  Not so*)
(* a supervisor that was told the same by its own environment, nor one     *)
(* whose CREATE TABLE failed and whose postgres_advisory_lock swallowed it.*)
(***************************************************************************)
SchemaReadyMeansTables ==
  \A s \in Proc :
    setup[s] = "ready" \/ Running(s, "gw") => committed \/ spec[s].marked \/ s \in unheard

(***************************************************************************)
(* The watchdog raises the alarm only over a helper that ended of its own  *)
(* accord, never over one that the main thread's clean-up has stopped.     *)
(***************************************************************************)
NoFalseAlarm ==
  \A s \in Proc : watchdog[s] = "terminating" => child[s][saw[s]] \in OwnEnd

Watched(s) == IF Serves(s) THEN {"gw"} ELSE ToSet(procs[s])

(***************************************************************************)
(* No wait of a supervisor goes on for ever.  A start settles, in service  *)
(* or with an exit, whatever lock, port or child it waits for, and so does *)
(* a clean-up.  When the gateway of `serve`, or a helper of the integrated *)
(* server, has ended while it was serving, the supervisor ends too.        *)
(***************************************************************************)
SupervisorsSettle ==
  \A s \in Proc :
    /\ Alive(s) /\ ~At(s, "serving") ~> At(s, "serving") \/ At(s, "exited")
    /\ At(s, "serving") /\ (\E r \in Watched(s) : child[s][r] \in Ended) ~> At(s, "exited")

=============================================================================
