-------------------------- MODULE SingleThreadServer --------------------------
(***************************************************************************)
(* The code interpreter server without workers (tools/code_interpreter/     *)
(* src/server.ts with one PyodideManager of pyodide-manager.ts).           *)
(*                                                                         *)
(* All executions share one runtime and take turns under its lock. User     *)
(* code that ends the runtime poisons it; the server then drops it and      *)
(* loads another one, while executions that wait for the old one, or run    *)
(* on it, still hold on to it. A callback of the event loop is one step.   *)
(***************************************************************************)
EXTENDS Naturals

CONSTANTS
  Requests,     \* POST /python requests
  MaxManagers,  \* bound: runtimes loaded in a behaviour
  MaxEscapes    \* bound: errors of background tasks that reach the process

BoundsAssumption == MaxManagers \in Nat \ {0} /\ MaxEscapes \in Nat
ASSUME BoundsAssumption

NoManager == 0
Managers == 1 .. MaxManagers

VARIABLES
  process,              \* "starting", "up" or "exited"
  pyodideManager,       \* the manager new executions get
  singleThreadRecovery, \* the manager that is being loaded
  created,              \* managers created so far
  executionLock, poisoned,  \* of each manager
  pc,                   \* where each request is
  on,                   \* the manager it executes on
  answer,               \* what its client got
  escapes

vars == <<process, pyodideManager, singleThreadRecovery, created, executionLock, poisoned,
          pc, on, answer, escapes>>

Init ==
  /\ process = "starting" /\ pyodideManager = NoManager
  /\ singleThreadRecovery = NoManager /\ created = 1
  /\ executionLock = [g \in Managers |-> FALSE] /\ poisoned = [g \in Managers |-> FALSE]
  /\ pc = [r \in Requests |-> "idle"] /\ on = [r \in Requests |-> NoManager]
  /\ answer = [r \in Requests |-> "none"]
  /\ escapes = 0

(* GET /health. *)
status == IF singleThreadRecovery = NoManager /\ pyodideManager # NoManager
            THEN "healthy" ELSE "unhealthy"

-----------------------------------------------------------------------------
(* startServer: the first manager is loaded before the port is opened. *)
Start ==
  /\ process = "starting"
  /\ \/ process' = "up" /\ pyodideManager' = created
     \/ process' = "exited" /\ UNCHANGED pyodideManager
  /\ UNCHANGED <<singleThreadRecovery, created, executionLock, poisoned, pc, on, answer, escapes>>

startSingleThreadRecovery ==
  IF singleThreadRecovery # NoManager
    THEN UNCHANGED <<pyodideManager, singleThreadRecovery, created>>
    ELSE /\ created < MaxManagers /\ created' = created + 1
         /\ pyodideManager' = NoManager /\ singleThreadRecovery' = created + 1

(* The new manager is loaded, or loading it fails. *)
Recover ==
  /\ process = "up" /\ singleThreadRecovery # NoManager
  /\ pyodideManager' \in {singleThreadRecovery, NoManager}
  /\ singleThreadRecovery' = NoManager
  /\ UNCHANGED <<process, created, executionLock, poisoned, pc, on, answer, escapes>>

-----------------------------------------------------------------------------
Answer(r, what) ==
  /\ pc' = [pc EXCEPT ![r] = "answered"] /\ on' = [on EXCEPT ![r] = NoManager]
  /\ answer' = [answer EXCEPT ![r] = what]

(* handleExecute catches a termination error. *)
Terminated(r) ==
  /\ startSingleThreadRecovery
  /\ Answer(r, "terminated")

Run(r, g) ==
  /\ executionLock' = [executionLock EXCEPT ![g] = TRUE]
  /\ pc' = [pc EXCEPT ![r] = "running"] /\ on' = [on EXCEPT ![r] = g]
  /\ UNCHANGED <<pyodideManager, singleThreadRecovery, created, answer>>

(* Faulty variant: whether the runtime was poisoned is not asked again. *)
EnterAnyway(r, g) == Run(r, g)

(* PyodideManager.execute with the lock free: taken, and released at once   *)
(* if the runtime was poisoned meanwhile.                                  *)
Enter(r, g) ==
  \/ ~poisoned[g] /\ Run(r, g)
  \/ poisoned[g] /\ Terminated(r) /\ UNCHANGED executionLock

(* POST /python arrives. *)
Request(r) ==
  /\ process = "up" /\ pc[r] = "idle"
  /\ \/ /\ status = "unhealthy"
        /\ Terminated(r) /\ UNCHANGED executionLock
     \/ /\ status = "healthy" /\ ~executionLock[pyodideManager]
        /\ Enter(r, pyodideManager)
     \/ /\ status = "healthy" /\ executionLock[pyodideManager]
        /\ pc' = [pc EXCEPT ![r] = "polling"] /\ on' = [on EXCEPT ![r] = pyodideManager]
        /\ UNCHANGED <<pyodideManager, singleThreadRecovery, created, answer, executionLock>>
  /\ UNCHANGED <<process, poisoned, escapes>>

(* The timer of a waiting execution fires and finds the lock free. *)
Poll(r) ==
  /\ process = "up" /\ pc[r] = "polling" /\ ~executionLock[on[r]]
  /\ Enter(r, on[r])
  /\ UNCHANGED <<process, poisoned, escapes>>

(* The code ends with a value or an exception other than SystemExit. *)
Complete(r) ==
  /\ process = "up" /\ pc[r] = "running"
  /\ executionLock' = [executionLock EXCEPT ![on[r]] = FALSE]
  /\ Answer(r, "result")
  /\ UNCHANGED <<process, pyodideManager, singleThreadRecovery, created, poisoned, escapes>>

(* Faulty variant: the lock is kept when the runtime ends. *)
ExitLocked(r) ==
  /\ process = "up" /\ pc[r] = "running"
  /\ poisoned' = [poisoned EXCEPT ![on[r]] = TRUE]
  /\ Terminated(r)
  /\ UNCHANGED <<process, executionLock, escapes>>

(* The code raises SystemExit. *)
Exit(r) ==
  /\ process = "up" /\ pc[r] = "running"
  /\ poisoned' = [poisoned EXCEPT ![on[r]] = TRUE]
  /\ executionLock' = [executionLock EXCEPT ![on[r]] = FALSE]
  /\ Terminated(r)
  /\ UNCHANGED <<process, escapes>>

(* SystemExit of a background task reaches the process: handleEscape. *)
Escape ==
  /\ process = "up" /\ escapes < MaxEscapes /\ escapes' = escapes + 1
  /\ startSingleThreadRecovery
  /\ UNCHANGED <<process, executionLock, poisoned, pc, on, answer>>

(* Any other uncaught error, or a signal: the process ends. *)
ProcessExit ==
  /\ process = "up" /\ process' = "exited"
  /\ answer' = [r \in Requests |-> IF pc[r] \in {"polling", "running"} THEN "lost" ELSE answer[r]]
  /\ pc' = [r \in Requests |-> IF pc[r] \in {"polling", "running"} THEN "answered" ELSE pc[r]]
  /\ UNCHANGED <<pyodideManager, singleThreadRecovery, created, executionLock, poisoned, on, escapes>>

Next ==
  \/ Start \/ Recover \/ Escape \/ ProcessExit
  \/ \E r \in Requests : Request(r) \/ Poll(r) \/ Complete(r) \/ Exit(r)

(* Loading ends one way or the other, timers fire. *)
Fairness ==
  /\ WF_vars(Recover)
  /\ \A r \in Requests : WF_vars(Poll(r))
Spec == Init /\ [][Next]_vars
FairSpec == Spec /\ Fairness

-----------------------------------------------------------------------------
(* The type of every variable; the server keeps one runtime at most. *)
TypeOK ==
  /\ process \in {"starting", "up", "exited"}
  /\ pyodideManager \in Managers \cup {NoManager}
  /\ singleThreadRecovery \in Managers \cup {NoManager}
  /\ NoManager \in {pyodideManager, singleThreadRecovery}
  /\ created \in Managers /\ escapes \in 0 .. MaxEscapes
  /\ executionLock \in [Managers -> BOOLEAN] /\ poisoned \in [Managers -> BOOLEAN]
  /\ pc \in [Requests -> {"idle", "polling", "running", "answered"}]
  /\ on \in [Requests -> Managers \cup {NoManager}]
  /\ answer \in [Requests -> {"none", "result", "terminated", "lost"}]

Runs(r, g) == pc[r] = "running" /\ on[r] = g

(* Executions of one runtime take turns, and whoever waits for the lock     *)
(* waits for one of them: no way out of execute() keeps it                 *)
(* (pyodide-manager.ts:279-282, 353-360).                                  *)
LockIsHeldByOne ==
  process = "up" =>
    \A g \in Managers :
      /\ executionLock[g] <=> \E r \in Requests : Runs(r, g)
      /\ \A r, q \in Requests : Runs(r, g) /\ Runs(q, g) => r = q

PoisonedRunsNothing ==
  process = "up" => \A g \in Managers : poisoned[g] => \A r \in Requests : ~Runs(r, g)
HealthyServes == status = "healthy" /\ process = "up" => ~poisoned[pyodideManager]

(* A runtime that user code has ended is used no more: nothing runs in it,  *)
(* however long it waited for it (pyodide-manager.ts:295-297), and a server *)
(* that reports healthy does not give it to new executions                 *)
(* (server.ts:233-234).                                                    *)
TerminatedIsUnused == PoisonedRunsNothing /\ HealthyServes

(* Whoever is told that the runtime was terminated leaves a server that is  *)
(* recovering, so that a later try can succeed (server.ts:114-119).        *)
RefusalRecovers ==
  [][\A r \in Requests :
       answer'[r] = "terminated" /\ answer[r] # "terminated" => singleThreadRecovery' # NoManager]_vars

(* Whoever waits for a runtime that user code has ended is told so: the lock *)
(* comes free and nobody takes it for good (pyodide-manager.ts:279-282).    *)
WaitersAreTold ==
  \A r \in Requests : (pc[r] = "polling" /\ poisoned[on[r]]) ~> pc[r] = "answered"
=============================================================================
