---------------------------- MODULE HelperRuntime ----------------------------
(***************************************************************************)
(* The child processes of the two supervisors, `vllm-responses serve` and  *)
(* `vllm serve --responses`, and what both use to start, await and stop    *)
(* them (entrypoints/_helper_runtime.py, entrypoints/_serve_utils.py).     *)
(* Several supervisors run on one host with the same configuration, so     *)
(* their children compete for the same ports.                              *)
(***************************************************************************)
EXTENDS Host, Naturals, FiniteSets, SequencesExt

CONSTANTS
  MaxDeaths,  \* bound: children that end of their own accord
  MaxSignals  \* bound: signals sent to one supervisor

ASSUME HelperAssumption == MaxDeaths \in Nat /\ MaxSignals \in Nat

VARIABLES
  spec,      \* [Proc -> what it is configured to run], never changes
  child,     \* [Proc -> [Role -> state of that child]]
  port,      \* [Role -> the supervisor whose child holds the port of the role]
  procs,     \* [Proc -> the registered children, in order of registration]
  stopping,  \* [Proc -> [Thread -> the children the thread has still to stop]]
  at,        \* [Proc -> where the main thread is]
  code,      \* [Proc -> the exit code it has settled on]
  signals,   \* [Proc -> how many signals it has been sent]
  cut        \* supervisors stopped where they cannot clean up any more

childVars == <<child, port, procs, stopping>>
mainVars == <<spec, at, code, signals, cut>>
helperVars == <<childVars, mainVars>>

Role == {"ci", "mcp", "gw"}

Thread == {"main", "watchdog"}

(* A child is "none", "booting" until it binds its port, "ready",          *)
(* "quitting" once it is asked to stop, and ended: of its own accord with  *)
(* the code it says, or "stopped" because it was asked to, or killed.      *)
OwnEnd == {"exit0", "exit1"}

Ended == OwnEnd \cup {"stopped"}

Running(s, r) == child[s][r] \notin Ended \cup {"none"}

(* The part of ServeSpec and IntegratedServeSpec that decides what runs,   *)
(* and whether VR_DB_SCHEMA_READY is set in the supervisor's environment.  *)
ServeSpec == [kind : {"serve", "integrated"}, ci : {"disabled", "external", "spawn"},
              mcp : BOOLEAN, metrics : BOOLEAN, workers : Nat \ {0}, marked : BOOLEAN]

HelperInit ==
  /\ child = [s \in Proc |-> [r \in Role |-> "none"]]
  /\ port = [r \in Role |-> NoProc]
  /\ procs = [s \in Proc |-> <<>>]
  /\ stopping = [s \in Proc |-> [t \in Thread |-> <<>>]]
  /\ at = [s \in Proc |-> "idle"]
  /\ code = [s \in Proc |-> "none"]
  /\ signals = [s \in Proc |-> 0]
  /\ cut = {}

Becomes(s, r, state) == child' = [child EXCEPT ![s][r] = state]

ReleasePort(s, r) == port' = IF port[r] = s THEN [port EXCEPT ![r] = NoProc] ELSE port

At(s, place) == at[s] = place

To(s, place) == at' = [at EXCEPT ![s] = place]

-----------------------------------------------------------------------------
(* The children themselves.                                                *)

(* A child that has booted binds its port and answers; it ends when        *)
(* another process holds the port.                                         *)
Bind(s, r) ==
  /\ child[s][r] = "booting"
  /\ IF port[r] = NoProc
       THEN Becomes(s, r, "ready") /\ port' = [port EXCEPT ![r] = s]
       ELSE Becomes(s, r, "exit1") /\ UNCHANGED port
  /\ UNCHANGED <<procs, stopping, mainVars>>

OwnEnds == {x \in Proc \X Role : child[x[1]][x[2]] \in OwnEnd}

Die(s, r) ==
  /\ child[s][r] \in {"booting", "ready"}
  /\ Cardinality(OwnEnds) < MaxDeaths
  /\ \E state \in OwnEnd : Becomes(s, r, state)
  /\ ReleasePort(s, r)
  /\ UNCHANGED <<procs, stopping, mainVars>>

(* A child that was asked to stop does so, or hangs until it is killed.    *)
Obey(s, r) ==
  /\ child[s][r] = "quitting"
  /\ Becomes(s, r, "stopped")
  /\ ReleasePort(s, r)
  /\ UNCHANGED <<procs, stopping, mainVars>>

-----------------------------------------------------------------------------
(* What the supervisors do with them.                                      *)

(* is_port_available: a preflight check, nothing is reserved.              *)
IsPortAvailable(r) == port[r] = NoProc

(* spawn_logged_process: the child runs in a session of its own; it is     *)
(* registered in a later step.                                             *)
SpawnLoggedProcess(s, r) ==
  /\ child[s][r] = "none"
  /\ Becomes(s, r, "booting")
  /\ UNCHANGED <<port, procs, stopping>>

Register(s, r) ==
  /\ procs' = [procs EXCEPT ![s] = Append(@, r)]
  /\ UNCHANGED <<child, port, stopping>>

(* wait_http_ready asks whether its own child has ended, and then whether  *)
(* whoever holds the port answers.                                         *)
WaitHttpReady(r, own) ==
  /\ own \notin Ended
  /\ port[r] # NoProc
  /\ child[port[r]][r] = "ready"

(* `code or 1` *)
OrOne(c) == IF c = "0" THEN "1" ELSE c

ChildCode(state) == IF state = "exit0" THEN "0" ELSE "1"

(* wait_for_helper_ready fails: with the code of the child if it has       *)
(* ended, which is never 0, and with 1 if the time is up.                  *)
ReadinessFailure(own) == IF own \in Ended THEN OrOne(ChildCode(own)) ELSE "1"

(* terminate_process on the next child of a thread's list: nothing for one *)
(* that has ended, SIGTERM, and SIGKILL for one that has not ended in 10 s.*)
TerminateProcess(s, t) ==
  /\ stopping[s][t] # <<>>
  /\ LET r == Head(stopping[s][t]) IN
       \/ /\ child[s][r] \in Ended
          /\ stopping' = [stopping EXCEPT ![s][t] = Tail(@)]
          /\ UNCHANGED <<child, port>>
       \/ /\ child[s][r] \in {"booting", "ready"}
          /\ Becomes(s, r, "quitting")
          /\ UNCHANGED <<port, stopping>>
       \/ /\ child[s][r] = "quitting"
          /\ Becomes(s, r, "stopped")
          /\ ReleasePort(s, r)
          /\ UNCHANGED stopping
  /\ UNCHANGED procs

(* cleanup_helper_processes: the registered children, the last one first.  *)
CleanupHelperProcesses(s) ==
  stopping' = [stopping EXCEPT ![s]["main"] = Reverse(procs[s])]

ChildStep == \E s \in Proc, r \in Role : Bind(s, r) \/ Die(s, r) \/ Obey(s, r)

=============================================================================
