----------------------- MODULE SingleThreadServerProofs -----------------------
(***************************************************************************)
(* The invariants of SingleThreadServer for any number of requests, loaded  *)
(* runtimes and background errors.                                         *)
(***************************************************************************)
EXTENDS SingleThreadServer, TLAPS

(* A runtime that is being loaded is new: nobody executes or waits on it    *)
(* and nobody has ended it.                                                *)
FreshInv ==
  /\ pyodideManager <= created /\ singleThreadRecovery <= created
  /\ \A r \in Requests : on[r] <= created
  /\ \A g \in Managers : poisoned[g] => g <= created
  /\ \A r \in Requests : on[r] # NoManager => on[r] # singleThreadRecovery
  /\ \A g \in Managers : poisoned[g] => g # singleThreadRecovery

(* Requests that hold on to a runtime are those that wait or execute.       *)
HoldInv == \A r \in Requests : pc[r] \in {"polling", "running"} => on[r] # NoManager

(* Before the port is opened nothing has happened. *)
StartInv ==
  process = "starting" =>
    /\ created = 1 /\ singleThreadRecovery = NoManager
    /\ \A r \in Requests : pc[r] = "idle"
    /\ \A g \in Managers : ~poisoned[g] /\ ~executionLock[g]

ServerInv ==
  /\ TypeOK /\ FreshInv /\ HoldInv /\ StartInv
  /\ LockIsHeldByOne /\ PoisonedRunsNothing /\ HealthyServes

LEMMA InitServer == Init => ServerInv
<1> SUFFICES ASSUME Init PROVE ServerInv
  OBVIOUS
<1>1. TypeOK
  BY BoundsAssumption DEF Init, TypeOK, BoundsAssumption, Managers, NoManager
<1>2. FreshInv
  BY DEF Init, FreshInv, NoManager
<1> QED
  BY <1>1, <1>2 DEF Init, ServerInv, HoldInv, StartInv, LockIsHeldByOne, PoisonedRunsNothing,
                    HealthyServes, Runs, status, NoManager

(* What a recovery, started or already under way, leaves behind. *)
LEMMA RecoveryStarts ==
  ASSUME TypeOK, FreshInv, startSingleThreadRecovery
  PROVE  /\ pyodideManager' \in Managers \cup {NoManager}
         /\ singleThreadRecovery' \in Managers
         /\ pyodideManager' = NoManager
         /\ created' \in Managers /\ created <= created'
         /\ singleThreadRecovery' <= created'
         /\ \/ singleThreadRecovery' = singleThreadRecovery
            \/ singleThreadRecovery' > created
  BY BoundsAssumption
  DEF TypeOK, FreshInv, startSingleThreadRecovery, BoundsAssumption, Managers, NoManager

LEMMA StepServer == ServerInv /\ [Next]_vars => ServerInv'
<1> SUFFICES ASSUME ServerInv, [Next]_vars PROVE ServerInv'
  OBVIOUS
<1> USE BoundsAssumption DEF ServerInv
<1>1. ASSUME Start PROVE ServerInv'
  BY <1>1 DEF Start, TypeOK, FreshInv, HoldInv, StartInv, LockIsHeldByOne, PoisonedRunsNothing,
              HealthyServes, Runs, status, BoundsAssumption, Managers, NoManager
<1>2. ASSUME Recover PROVE ServerInv'
  <2>1. TypeOK'
    BY <1>2 DEF Recover, TypeOK, Managers, NoManager
  <2>2. FreshInv' /\ HoldInv' /\ StartInv'
    BY <1>2 DEF Recover, TypeOK, FreshInv, HoldInv, StartInv, Managers, NoManager
  <2>3. LockIsHeldByOne' /\ PoisonedRunsNothing'
    BY <1>2 DEF Recover, LockIsHeldByOne, PoisonedRunsNothing, Runs
  <2>4. HealthyServes'
    BY <1>2 DEF Recover, FreshInv, TypeOK, HealthyServes, status, Managers, NoManager
  <2> QED
    BY <2>1, <2>2, <2>3, <2>4
<1>3. ASSUME Escape PROVE ServerInv'
  <2>1. startSingleThreadRecovery
    BY <1>3 DEF Escape
  <2>2. TypeOK'
    BY <1>3, <2>1, RecoveryStarts DEF Escape, TypeOK, BoundsAssumption, NoManager
  <2>3. FreshInv' /\ HoldInv' /\ StartInv'
    BY <1>3, <2>1, RecoveryStarts
    DEF Escape, TypeOK, FreshInv, HoldInv, StartInv, Managers, NoManager
  <2>4. LockIsHeldByOne' /\ PoisonedRunsNothing'
    BY <1>3 DEF Escape, LockIsHeldByOne, PoisonedRunsNothing, Runs
  <2>5. HealthyServes'
    BY <2>1, RecoveryStarts DEF HealthyServes, status, NoManager
  <2> QED
    BY <2>2, <2>3, <2>4, <2>5
<1>4. ASSUME ProcessExit PROVE ServerInv'
  BY <1>4 DEF ProcessExit, TypeOK, FreshInv, HoldInv, StartInv, LockIsHeldByOne,
              PoisonedRunsNothing, HealthyServes, Runs
<1>5. ASSUME NEW r \in Requests, Complete(r) PROVE ServerInv'
  BY <1>5 DEF Complete, Answer, TypeOK, FreshInv, HoldInv, StartInv, LockIsHeldByOne,
              PoisonedRunsNothing, HealthyServes, Runs, status, Managers, NoManager
<1>6. ASSUME NEW r \in Requests, Exit(r) PROVE ServerInv'
  <2>1. startSingleThreadRecovery /\ on[r] \in Managers
    BY <1>6 DEF Exit, Terminated, TypeOK, HoldInv
  <2>2. TypeOK'
    BY <1>6, <2>1, RecoveryStarts DEF Exit, Terminated, Answer, TypeOK, NoManager
  <2>3. FreshInv' /\ HoldInv' /\ StartInv'
    BY <1>6, <2>1, RecoveryStarts
    DEF Exit, Terminated, Answer, TypeOK, FreshInv, HoldInv, StartInv, Managers, NoManager
  <2>4. LockIsHeldByOne' /\ PoisonedRunsNothing'
    BY <1>6, <2>1
    DEF Exit, Terminated, Answer, TypeOK, LockIsHeldByOne, PoisonedRunsNothing, Runs, NoManager
  <2>5. HealthyServes'
    BY <2>1, RecoveryStarts DEF HealthyServes, status, NoManager
  <2> QED
    BY <2>2, <2>3, <2>4, <2>5
<1>7. ASSUME NEW r \in Requests, Request(r) \/ Poll(r) PROVE ServerInv'
  <2> DEFINE Begins(g) == /\ ~executionLock[g] /\ ~poisoned[g] /\ Run(r, g)
             Refused == Terminated(r) /\ UNCHANGED executionLock
             Waits == /\ pc' = [pc EXCEPT ![r] = "polling"]
                      /\ on' = [on EXCEPT ![r] = pyodideManager]
                      /\ UNCHANGED <<pyodideManager, singleThreadRecovery, created, answer,
                                     executionLock>>
  <2>1. process = "up" /\ pc[r] \in {"idle", "polling"} /\ UNCHANGED <<process, poisoned, escapes>>
    BY <1>7 DEF Request, Poll
  <2>2. \/ \E g \in Managers : /\ Begins(g)
                              /\ g # singleThreadRecovery /\ g <= created
        \/ Refused
        \/ status = "healthy" /\ Waits
    <3>1. CASE Poll(r)
      <4>1. /\ on[r] \in Managers /\ on[r] # singleThreadRecovery /\ on[r] <= created
            /\ ~executionLock[on[r]] /\ Enter(r, on[r])
        BY <3>1 DEF Poll, TypeOK, FreshInv, HoldInv
      <4> QED
        BY <4>1 DEF Enter
    <3>2. CASE Request(r)
      <4>1. status = "healthy" => /\ pyodideManager \in Managers /\ pyodideManager <= created
                                  /\ pyodideManager # singleThreadRecovery
        BY DEF status, TypeOK, FreshInv, NoManager
      <4>2. \/ Refused
            \/ status = "healthy" /\ ~executionLock[pyodideManager] /\ Enter(r, pyodideManager)
            \/ status = "healthy" /\ Waits
        BY <3>2 DEF Request
      <4> QED
        BY <4>1, <4>2 DEF Enter
    <3> QED
      BY <1>7, <3>1, <3>2
  <2>3. CASE \E g \in Managers : Begins(g) /\ g # singleThreadRecovery /\ g <= created
    <3>1. PICK g \in Managers : Begins(g) /\ g # singleThreadRecovery /\ g <= created
      BY <2>3
    <3>2. TypeOK'
      BY <2>1, <3>1 DEF Run, TypeOK
    <3>3. FreshInv' /\ HoldInv' /\ StartInv' /\ HealthyServes'
      BY <2>1, <3>1 DEF Run, TypeOK, FreshInv, HoldInv, StartInv, HealthyServes, status,
                        Managers, NoManager
    <3>4. LockIsHeldByOne' /\ PoisonedRunsNothing'
      BY <2>1, <3>1 DEF Run, TypeOK, LockIsHeldByOne, PoisonedRunsNothing, Runs
    <3> QED
      BY <3>2, <3>3, <3>4
  <2>4. CASE Refused
    <3>1. startSingleThreadRecovery /\ Answer(r, "terminated") /\ UNCHANGED executionLock
      BY <2>4 DEF Terminated
    <3>2. TypeOK'
      BY <2>1, <3>1, RecoveryStarts DEF Answer, TypeOK, NoManager
    <3>3. FreshInv' /\ HoldInv' /\ StartInv'
      BY <2>1, <3>1, RecoveryStarts
      DEF Answer, TypeOK, FreshInv, HoldInv, StartInv, Managers, NoManager
    <3>4. LockIsHeldByOne' /\ PoisonedRunsNothing'
      BY <2>1, <3>1 DEF Answer, TypeOK, LockIsHeldByOne, PoisonedRunsNothing, Runs
    <3>5. HealthyServes'
      BY <3>1, RecoveryStarts DEF HealthyServes, status, NoManager
    <3> QED
      BY <3>2, <3>3, <3>4, <3>5
  <2>5. CASE status = "healthy" /\ Waits
    <3>1. TypeOK'
      BY <2>1, <2>5 DEF TypeOK
    <3>2. FreshInv' /\ HoldInv' /\ StartInv' /\ HealthyServes'
      BY <2>1, <2>5 DEF TypeOK, FreshInv, HoldInv, StartInv, HealthyServes, status,
                        Managers, NoManager
    <3>3. LockIsHeldByOne' /\ PoisonedRunsNothing'
      BY <2>1, <2>5 DEF TypeOK, LockIsHeldByOne, PoisonedRunsNothing, Runs
    <3> QED
      BY <3>1, <3>2, <3>3
  <2> QED
    BY <2>2, <2>3, <2>4, <2>5
<1>8. CASE UNCHANGED vars
  BY <1>8 DEF vars, TypeOK, FreshInv, HoldInv, StartInv, LockIsHeldByOne,
              PoisonedRunsNothing, HealthyServes, Runs, status
<1> QED
  BY <1>1, <1>2, <1>3, <1>4, <1>5, <1>6, <1>7, <1>8 DEF Next

THEOREM ServerInvariant == Spec => []ServerInv
BY InitServer, StepServer, PTL DEF Spec

(* The variables keep their types, and the server keeps one runtime at most *)
(* (server.ts:208-231).                                                    *)
THEOREM TypeCorrect == Spec => []TypeOK
<1>1. ServerInv => TypeOK
  BY DEF ServerInv
<1> QED
  BY <1>1, ServerInvariant, PTL

(* The lock of a runtime is held by exactly one execution, or free          *)
(* (pyodide-manager.ts:279-282, 353-360).                                  *)
THEOREM ExecutionsTakeTurns == Spec => []LockIsHeldByOne
<1>1. ServerInv => LockIsHeldByOne
  BY DEF ServerInv
<1> QED
  BY <1>1, ServerInvariant, PTL

(* No code runs in a runtime that user code has ended, and a server that    *)
(* reports healthy does not give such a runtime away (server.ts:233-234).   *)
THEOREM TerminatedIsOut == Spec => []TerminatedIsUnused
<1>1. ServerInv => TerminatedIsUnused
  BY DEF ServerInv, TerminatedIsUnused
<1> QED
  BY <1>1, ServerInvariant, PTL

(* A client that is told of a termination leaves a server that recovers     *)
(* (server.ts:114-119).                                                    *)
THEOREM RefusedRecovers == Spec => RefusalRecovers
<1>1. ASSUME ServerInv, [Next]_vars, NEW r \in Requests,
             answer'[r] = "terminated", answer[r] # "terminated"
      PROVE  singleThreadRecovery' # NoManager
  <2>1. \E q \in Requests : Request(q) \/ Poll(q) \/ Exit(q) \/ Complete(q)
    BY <1>1 DEF ServerInv, TypeOK, Next, Start, Recover, Escape, ProcessExit, vars
  <2>2. PICK q \in Requests : Request(q) \/ Poll(q) \/ Exit(q) \/ Complete(q)
    BY <2>1
  <2>3. startSingleThreadRecovery
    BY <1>1, <2>2 DEF ServerInv, TypeOK, Request, Poll, Exit, Complete, Enter, Run, Terminated, Answer
  <2> QED
    BY <1>1, <2>3, RecoveryStarts DEF ServerInv, Managers, NoManager
<1>2. ServerInv /\ [Next]_vars =>
        [\A r \in Requests :
           answer'[r] = "terminated" /\ answer[r] # "terminated" => singleThreadRecovery' # NoManager]_vars
  BY <1>1
<1> QED
  BY <1>2, ServerInvariant, PTL DEF Spec, RefusalRecovers
=============================================================================
