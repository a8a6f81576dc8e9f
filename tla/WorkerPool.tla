------------------------------ MODULE WorkerPool ------------------------------
(***************************************************************************)
(* The worker pool of the code interpreter server (src/worker-pool.ts and  *)
(* src/worker.ts): a main thread that hands executions to Pyodide workers, *)
(* gives each 30 seconds, and replaces a worker whose runtime terminated,  *)
(* crashed or did not answer in time.                                      *)
(*                                                                         *)
(* Each slot of the pool is filled by one worker thread after another, its *)
(* generations.  A thread and the main thread run concurrently: what the   *)
(* thread posts waits in its mailbox until the main thread takes it, and   *)
(* by then the main thread may have given up on that generation.  The main *)
(* thread never awaits between replacing a worker and registering its      *)
(* successor, so a slot is never seen without one.                         *)
(***************************************************************************)
EXTENDS Naturals, Sequences, FiniteSets

CONSTANTS
  Slots,          \* the configured worker ids
  Requests,       \* bound: the executions asked for in one behaviour
  MaxCrashes      \* bound: how many threads die of an uncaught error

None == "none"
ThreadStates == {"none", "loading", "unusable", "idle", "dead"}

ASSUME PoolAssumption ==
  /\ Slots # {} /\ IsFiniteSet(Requests) /\ MaxCrashes \in Nat
  /\ None \notin Requests /\ Requests \cap ThreadStates = {}

(* Every replacement is due to a request of its own or to a crash.         *)
Generations == 1 .. (1 + Cardinality(Requests) + MaxCrashes)

VARIABLES
  server,     \* where startServer is
  slots,      \* WorkerPool.workers: current generation, and whether it said ready
  created,    \* the promise of createWorker, per generation
  thread,     \* what each worker thread does: a request, or one of ThreadStates
  posted,     \* requests posted to each thread and not begun
  mailbox,    \* what each thread posted and the main thread has not taken
  pending,    \* pendingRequests: the thread a request waits for
  outcome,    \* what the caller of execute() got
  crashes

vars == <<server, slots, created, thread, posted, mailbox, pending, outcome, crashes>>

Threads == Slots \X Generations
NoThread == <<None, 0>>
Alive == {"loading", "unusable", "idle"} \cup Requests

(* "init error" carries neither request nor worker id (worker.ts:61).      *)
MessageTypes == {"ready", "init error", "result", "error", "fatal", "uncaught"}
Message == [type : MessageTypes, request : Requests \cup {None}]
Post(type, r) == [type |-> type, request |-> r]

Outcomes == {"new", "waiting", "result", "error", "timeout", "worker failed",
             "no workers", "terminated"}

Init ==
  /\ server = "initializing"
  /\ slots = [w \in Slots |-> [generation |-> 1, ready |-> FALSE]]
  /\ created = [t \in Threads |-> IF t[2] = 1 THEN "pending" ELSE "none"]
  /\ thread = [t \in Threads |-> IF t[2] = 1 THEN "loading" ELSE "none"]
  /\ posted = [t \in Threads |-> {}]
  /\ mailbox = [t \in Threads |-> <<>>]
  /\ pending = [r \in Requests |-> NoThread]
  /\ outcome = [r \in Requests |-> "new"]
  /\ crashes = 0

Up == server \in {"initializing", "serving"}

-----------------------------------------------------------------------------
(* The worker thread.                                                      *)

Becomes(t, state) == thread' = [thread EXCEPT ![t] = state]
Posts(t, message) == mailbox' = [mailbox EXCEPT ![t] = Append(@, message)]

(* PyodideManager.initialize() succeeds, or raises.                        *)
Load(t) ==
  /\ Up /\ thread[t] = "loading"
  /\ \/ Becomes(t, "idle") /\ Posts(t, Post("ready", None))
     \/ Becomes(t, "unusable") /\ Posts(t, Post("init error", None))
  /\ UNCHANGED <<server, slots, created, posted, pending, outcome, crashes>>

(* The execution lock of the manager is free: any waiting request is next. *)
Begin(t, r) ==
  /\ Up /\ thread[t] = "idle" /\ r \in posted[t]
  /\ Becomes(t, r)
  /\ posted' = [posted EXCEPT ![t] = @ \ {r}]
  /\ UNCHANGED <<server, slots, created, mailbox, pending, outcome, crashes>>

Complete(t) ==
  /\ Up /\ thread[t] \in Requests
  /\ Becomes(t, "idle")
  /\ \E type \in {"result", "error"} : Posts(t, Post(type, thread[t]))
  /\ UNCHANGED <<server, slots, created, posted, pending, outcome, crashes>>

(* The code raises SystemExit: the runtime is poisoned and the thread      *)
(* closes itself after saying so.                                          *)
TerminateRuntime(t) ==
  /\ Up /\ thread[t] \in Requests
  /\ Becomes(t, "dead")
  /\ Posts(t, Post("fatal", thread[t]))
  /\ UNCHANGED <<server, slots, created, posted, pending, outcome, crashes>>

(* An uncaught error ends the thread and raises an "error" event.          *)
Crash(t) ==
  /\ Up /\ thread[t] \in Alive /\ crashes < MaxCrashes
  /\ Becomes(t, "dead")
  /\ Posts(t, Post("uncaught", None))
  /\ crashes' = crashes + 1
  /\ UNCHANGED <<server, slots, created, posted, pending, outcome>>

-----------------------------------------------------------------------------
(* The main thread.                                                        *)

isCurrentGeneration(t) == slots[t[1]].generation = t[2]

(* createWorker, called when generation t is registered as the worker of   *)
(* its slot.                                                               *)
createWorker(t) ==
  /\ slots' = [slots EXCEPT ![t[1]] = [generation |-> t[2], ready |-> FALSE]]
  /\ created' = [created EXCEPT ![t] = "pending"]

Settle(p, r) == [p EXCEPT ![r] = NoThread]

(* resolve() and reject() of the callers in rs; a promise that is settled  *)
(* already stays as it is.                                                 *)
Answer(o, rs, as) == [r \in Requests |-> IF r \in rs /\ o[r] = "waiting" THEN as ELSE o[r]]

Waiting(p, t) == {r \in Requests : p[r] = t}

(* Faulty variant: the slot is left empty.                                 *)
handleWorkerFailureForGood(t, p, o) ==
  IF isCurrentGeneration(t) THEN
    /\ thread' = [thread EXCEPT ![t] = "dead"]
    /\ pending' = [r \in Requests |-> IF p[r] = t THEN NoThread ELSE p[r]]
    /\ outcome' = Answer(o, Waiting(p, t), "worker failed")
    /\ slots' = [slots EXCEPT ![t[1]].ready = FALSE]
    /\ UNCHANGED created
  ELSE
    /\ pending' = p /\ outcome' = o
    /\ UNCHANGED <<thread, slots, created>>

(* Faulty variant: only the request that failed learns of it; the others   *)
(* of the worker are left to their timers.                                 *)
handleWorkerFailureUnheard(t, p, o) ==
  /\ pending' = p /\ outcome' = o
  /\ IF isCurrentGeneration(t)
     THEN /\ thread' = [thread EXCEPT ![t] = "dead", ![<<t[1], t[2] + 1>>] = "loading"]
          /\ createWorker(<<t[1], t[2] + 1>>)
     ELSE UNCHANGED <<thread, slots, created>>

(* Reject every request of that generation, terminate its thread and       *)
(* create the next one; an older generation was dealt with before.  p and  *)
(* o are pendingRequests and the outcomes the callback has come to.        *)
handleWorkerFailure(t, p, o) ==
  IF isCurrentGeneration(t) THEN
    /\ thread' = [thread EXCEPT ![t] = "dead", ![<<t[1], t[2] + 1>>] = "loading"]
    /\ pending' = [r \in Requests |-> IF p[r] = t THEN NoThread ELSE p[r]]
    /\ outcome' = Answer(o, Waiting(p, t), "worker failed")
    /\ createWorker(<<t[1], t[2] + 1>>)
  ELSE
    /\ pending' = p /\ outcome' = o
    /\ UNCHANGED <<thread, slots, created>>

Takes(t, type) ==
  /\ Up /\ mailbox[t] # <<>> /\ Head(mailbox[t]).type = type
  /\ mailbox' = [mailbox EXCEPT ![t] = Tail(@)]
  /\ UNCHANGED <<posted, crashes>>

(* initialize() is over when the first worker of every slot is ready.      *)
OnReady(t) ==
  /\ Takes(t, "ready")
  /\ IF isCurrentGeneration(t) THEN
       /\ slots' = [slots EXCEPT ![t[1]].ready = TRUE]
       /\ created' = [created EXCEPT ![t] = "resolved"]
       /\ server' = IF server = "initializing" /\ \A w \in Slots : created'[<<w, 1>>] = "resolved"
                    THEN "serving" ELSE server
     ELSE UNCHANGED <<server, slots, created>>
  /\ UNCHANGED <<thread, pending, outcome>>

(* Neither listener recognises it: the one that would reject the promise   *)
(* asks for the worker id first (worker-pool.ts:90).                       *)
OnInitError(t) ==
  /\ Takes(t, "init error")
  /\ UNCHANGED <<server, slots, created, thread, pending, outcome>>

OnAnswer(t, type) ==
  LET r == Head(mailbox[t]).request IN
  /\ Takes(t, type)
  /\ IF isCurrentGeneration(t) /\ pending[r] # NoThread
     THEN pending' = Settle(pending, r) /\ outcome' = Answer(outcome, {r}, type)
     ELSE UNCHANGED <<pending, outcome>>
  /\ UNCHANGED <<server, slots, created, thread>>

OnFatal(t) ==
  LET r == Head(mailbox[t]).request IN
  /\ Takes(t, "fatal")
  /\ IF ~isCurrentGeneration(t) THEN UNCHANGED <<slots, created, thread, pending, outcome>>
     ELSE IF pending[r] = NoThread THEN handleWorkerFailure(t, pending, outcome)
     ELSE handleWorkerFailure(t, Settle(pending, r), Answer(outcome, {r}, "error"))
  /\ UNCHANGED server

(* failInitOrRespawn: before the worker is ready its promise is rejected,  *)
(* which ends the process when the server is starting and is only logged   *)
(* when the worker was a replacement.                                      *)
OnUncaught(t) ==
  /\ Takes(t, "uncaught")
  /\ IF created[t] = "pending"
     THEN /\ created' = [created EXCEPT ![t] = "rejected"]
          /\ server' = IF server = "initializing" THEN "failed" ELSE server
          /\ UNCHANGED <<slots, thread, pending, outcome>>
     ELSE handleWorkerFailure(t, pending, outcome) /\ UNCHANGED server

Ready(w) == slots[w].ready
Current(w) == <<w, slots[w].generation>>

(* POST /python: any ready worker, or none is there.                       *)
Execute(r) ==
  /\ server = "serving" /\ outcome[r] = "new"
  /\ \/ \E w \in {w \in Slots : Ready(w)} :
          /\ pending' = [pending EXCEPT ![r] = Current(w)]
          /\ outcome' = [outcome EXCEPT ![r] = "waiting"]
          /\ posted' = [posted EXCEPT ![Current(w)] = @ \cup {r}]
     \/ /\ \A w \in Slots : ~Ready(w)
        /\ outcome' = [outcome EXCEPT ![r] = "no workers"]
        /\ UNCHANGED <<pending, posted>>
  /\ UNCHANGED <<server, slots, created, thread, mailbox, crashes>>

(* Faulty variant: only a request that has begun is timed.                 *)
TimeoutBegun(r) ==
  /\ server = "serving" /\ pending[r] # NoThread
  /\ thread[pending[r]] = r
  /\ handleWorkerFailure(pending[r], Settle(pending, r), Answer(outcome, {r}, "timeout"))
  /\ UNCHANGED <<server, posted, mailbox, crashes>>

(* Faulty variant: the worker goes on.                                     *)
TimeoutOnly(r) ==
  /\ server = "serving" /\ pending[r] # NoThread
  /\ pending' = Settle(pending, r) /\ outcome' = Answer(outcome, {r}, "timeout")
  /\ UNCHANGED <<server, slots, created, thread, posted, mailbox, crashes>>

(* The timer runs from execute(), whether or not the code has begun; it    *)
(* takes the worker down with whatever else that worker was asked.         *)
Timeout(r) ==
  /\ server = "serving" /\ pending[r] # NoThread
  /\ handleWorkerFailure(pending[r], Settle(pending, r), Answer(outcome, {r}, "timeout"))
  /\ UNCHANGED <<server, posted, mailbox, crashes>>

(* SIGTERM or SIGINT: terminate() and the end of the process.              *)
Terminate ==
  /\ server = "serving"
  /\ server' = "terminated"
  /\ thread' = [t \in Threads |-> IF thread[t] \in Alive THEN "dead" ELSE thread[t]]
  /\ pending' = [r \in Requests |-> NoThread]
  /\ outcome' = Answer(outcome, {r \in Requests : pending[r] # NoThread}, "terminated")
  /\ UNCHANGED <<slots, created, posted, mailbox, crashes>>

Deliver(t) ==
  OnReady(t) \/ OnInitError(t) \/ OnAnswer(t, "result") \/ OnAnswer(t, "error")
    \/ OnFatal(t) \/ OnUncaught(t)

Next ==
  \/ \E t \in Threads :
       \/ Load(t) \/ Complete(t) \/ TerminateRuntime(t) \/ Crash(t) \/ Deliver(t)
       \/ \E r \in Requests : Begin(t, r)
  \/ \E r \in Requests : Execute(r) \/ Timeout(r)
  \/ Terminate

Spec == Init /\ [][Next]_vars

(* Threads load to an end, the event loop takes every message, and timers  *)
(* fire.  Nothing says that an execution ends.                             *)
FairSpec ==
  /\ Spec
  /\ \A t \in Threads : WF_vars(Load(t)) /\ WF_vars(Deliver(t))
  /\ \A r \in Requests : WF_vars(Timeout(r))

-----------------------------------------------------------------------------
(* Properties *)

(* The type of every variable.                                             *)
TypeOK ==
  /\ server \in {"initializing", "serving", "failed", "terminated"}
  /\ slots \in [Slots -> [generation : Nat, ready : BOOLEAN]]
  /\ created \in [Threads -> {"none", "pending", "resolved", "rejected"}]
  /\ thread \in [Threads -> ThreadStates \cup Requests]
  /\ posted \in [Threads -> SUBSET Requests]
  /\ mailbox \in [Threads -> Seq(Message)]
  /\ pending \in [Requests -> Threads \cup {NoThread}]
  /\ outcome \in [Requests -> Outcomes]
  /\ crashes \in 0 .. MaxCrashes

(* No thread outlives its use, however failures, timeouts and late         *)
(* messages overlap: a slot never holds two Python runtimes (each about    *)
(* 500 MB), and no code runs for a caller who was already answered, as a   *)
(* timeout takes the run down with it, also one that had not begun.        *)
RunsAreAwaited ==
  \A t \in Threads :
    /\ thread[t] \in Alive => isCurrentGeneration(t)
    /\ thread[t] \in Requests => pending[thread[t]] = t

(* Nobody waits in vain: whoever waits has his request at a living thread, *)
(* or an answer or the news of the thread's death on its way to him, so    *)
(* that the timer is never the only thing left to tell him; whatever else  *)
(* was handed to that thread, timed out there or killed it.                *)
Pays(message, r) == message.request = r \/ message.type \in {"fatal", "uncaught"}

WaitsAreOwed ==
  \A r \in Requests : outcome[r] = "waiting" =>
    \E t \in Threads :
      /\ pending[r] = t
      /\ \/ thread[t] \in Alive /\ (r \in posted[t] \/ thread[t] = r)
         \/ \E i \in DOMAIN mailbox[t] : Pays(mailbox[t][i], r)

(* Every request is answered, even when the code never ends, the worker    *)
(* dies unheard or nothing else ever happens.                              *)
EveryRequestSettles ==
  \A r \in Requests : outcome[r] = "waiting" ~> outcome[r] # "waiting"

(* The worker of the slot could not be loaded; nothing will replace it.    *)
Lost(w) == thread[Current(w)] = "unusable" \/ created[Current(w)] = "rejected"

(* A worker that failed in service is replaced by a ready one, unless the  *)
(* replacement fails to load.                                              *)
CapacityReturns ==
  \A w \in Slots : server = "serving" /\ ~Ready(w) ~> Ready(w) \/ Lost(w) \/ ~Up

=============================================================================
