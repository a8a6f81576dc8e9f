--------------------------- MODULE WorkerPoolProofs ---------------------------
(***************************************************************************)
(* For any number of workers, executions and crashes: no code runs for a   *)
(* caller who was answered, no thread outlives its generation, and nobody  *)
(* waits for a thread that has nothing to tell him.                        *)
(*                                                                         *)
(* PoolInv is the inductive invariant of the first two.  The third rests   *)
(* on it and on OwedInv: a thread posts the news of its death last, and    *)
(* the main thread hears of it before or while it deals with whoever waits *)
(* there.                                                                  *)
(***************************************************************************)
EXTENDS WorkerPool, TLAPS

(* The types that matter to the other invariants.                          *)
PoolType ==
  /\ slots \in [Slots -> [generation : Nat, ready : BOOLEAN]]
  /\ thread \in [Threads -> ThreadStates \cup Requests]
  /\ posted \in [Threads -> SUBSET Requests]
  /\ mailbox \in [Threads -> Seq(Message)]
  /\ pending \in [Requests -> Threads \cup {NoThread}]
  /\ outcome \in [Requests -> Outcomes]

(* The mailbox of t still holds an answer for r.                           *)
Answered(t, r) == \E i \in 1 .. Len(mailbox[t]) : mailbox[t][i].request = r

(* An answer names the request it is for.                                  *)
AnswerInv ==
  \A t \in Threads : \A i \in 1 .. Len(mailbox[t]) :
    mailbox[t][i].type \in {"result", "error", "fatal"} => mailbox[t][i].request \in Requests

(* A generation that was not created yet has neither thread nor work.      *)
UnbornInv ==
  \A t \in Threads :
    slots[t[1]].generation < t[2] => thread[t] = "none" /\ posted[t] = {}

ReadyInv == \A w \in Slots : slots[w].ready => slots[w].generation \in Generations

(* Who waits, waits for the current generation of a slot.                  *)
PendingInv ==
  \A r \in Requests :
    /\ pending[r] # NoThread <=> outcome[r] = "waiting"
    /\ pending[r] # NoThread => isCurrentGeneration(pending[r])

(* A request is at one thread only: posted, executed, or answered and the  *)
(* answer under way; only that thread can be the one it waits for.         *)
HomeInv ==
  \A t \in Threads, r \in Requests :
    /\ r \in posted[t] \/ thread[t] = r \/ Answered(t, r)
         => outcome[r] # "new" /\ pending[r] \in {t, NoThread}
    /\ Answered(t, r) => thread[t] # r /\ r \notin posted[t]
    /\ thread[t] = r => r \notin posted[t]

(* What a living thread was given is still waited for.                     *)
AwaitInv ==
  \A t \in Threads : thread[t] \in Alive => \A r \in posted[t] : pending[r] = t

PoolInv ==
  /\ PoolType /\ AnswerInv /\ UnbornInv /\ ReadyInv /\ PendingInv
  /\ HomeInv /\ AwaitInv /\ RunsAreAwaited

(* A thread is its slot and its generation, and "nobody" is none.          *)
LEMMA ThreadFacts ==
  /\ \A t \in Threads : t[1] \in Slots /\ t[2] \in Generations /\ t[2] \in Nat /\ t = <<t[1], t[2]>>
  /\ NoThread \notin Threads
  /\ \A t, u \in Threads : t[1] = u[1] /\ t[2] = u[2] => t = u
  /\ \A t, u \in Threads : u[1] = t[1] /\ u[2] = t[2] + 1 => u = <<t[1], t[2] + 1>>
<1>1. Generations \subseteq Nat /\ 0 \notin Generations
  BY DEF Generations
<1>2. \A t \in Threads : t[1] \in Slots /\ t[2] \in Generations /\ t = <<t[1], t[2]>>
  BY DEF Threads
<1>3. NoThread \notin Threads
  <2>1. NoThread[2] = 0
    BY DEF NoThread
  <2> QED
    BY <1>1, <1>2, <2>1
<1> QED
  BY <1>1, <1>2, <1>3

(* Settling the promise of one who waits.                                  *)
LEMMA OneAnswered ==
  ASSUME NEW o \in [Requests -> Outcomes], NEW r \in Requests, o[r] = "waiting", NEW as
  PROVE  Answer(o, {r}, as) = [o EXCEPT ![r] = as]
BY DEF Answer

LEMMA InitPool == Init => PoolInv
<1> SUFFICES ASSUME Init PROVE PoolInv
  OBVIOUS
<1> USE PoolAssumption, ThreadFacts
<1>1. PoolType
  BY DEF Init, PoolType, ThreadStates, Outcomes
<1>2. AnswerInv
  BY DEF Init, AnswerInv
<1>3. UnbornInv
  BY DEF Init, UnbornInv
<1>4. ReadyInv /\ PendingInv
  BY DEF Init, ReadyInv, PendingInv
<1>5. HomeInv
  BY DEF Init, HomeInv, Answered, PoolAssumption, ThreadStates
<1>6. AwaitInv /\ RunsAreAwaited
  BY DEF Init, AwaitInv, RunsAreAwaited, Alive, isCurrentGeneration, PoolAssumption, ThreadStates
<1> QED
  BY <1>1, <1>2, <1>3, <1>4, <1>5, <1>6 DEF PoolInv

(* Taking a message leaves no message that was not there before.           *)
LEMMA TakenMail ==
  ASSUME PoolInv, NEW t \in Threads, mailbox[t] # <<>>,
         mailbox' = [mailbox EXCEPT ![t] = Tail(@)]
  PROVE  /\ mailbox' \in [Threads -> Seq(Message)]
         /\ \A u \in Threads : \A i \in 1 .. Len(mailbox'[u]) :
              \E j \in 1 .. Len(mailbox[u]) : mailbox'[u][i] = mailbox[u][j]
<1> DEFINE m == mailbox[t]
<1>1. m \in Seq(Message) /\ m # <<>>
  BY DEF PoolInv, PoolType
<1>2. Tail(m) \in Seq(Message) /\ Len(Tail(m)) = Len(m) - 1
      /\ \A i \in 1 .. Len(Tail(m)) : i + 1 \in 1 .. Len(m) /\ Tail(m)[i] = m[i + 1]
  BY <1>1
<1>3. mailbox'[t] = Tail(m) /\ \A u \in Threads : u # t => mailbox'[u] = mailbox[u]
  BY DEF PoolInv, PoolType
<1>4. mailbox' \in [Threads -> Seq(Message)]
  BY <1>2 DEF PoolInv, PoolType
<1> QED
  BY <1>2, <1>3, <1>4

LEMMA KeptMail ==
  ASSUME \A u \in Threads : \A i \in 1 .. Len(mailbox'[u]) :
           \E j \in 1 .. Len(mailbox[u]) : mailbox'[u][i] = mailbox[u][j]
  PROVE  /\ AnswerInv => AnswerInv'
         /\ \A u \in Threads, r \in Requests : Answered(u, r)' => Answered(u, r)
<1>1. ASSUME AnswerInv, NEW u \in Threads, NEW i \in 1 .. Len(mailbox'[u]),
             mailbox'[u][i].type \in {"result", "error", "fatal"}
      PROVE  mailbox'[u][i].request \in Requests
  <2>1. PICK j \in 1 .. Len(mailbox[u]) : mailbox'[u][i] = mailbox[u][j]
    OBVIOUS
  <2> QED
    BY <1>1, <2>1 DEF AnswerInv
<1>2. ASSUME NEW u \in Threads, NEW r \in Requests, Answered(u, r)' PROVE Answered(u, r)
  <2>1. PICK i \in 1 .. Len(mailbox'[u]) : mailbox'[u][i].request = r
    BY <1>2 DEF Answered
  <2>2. PICK j \in 1 .. Len(mailbox[u]) : mailbox'[u][i] = mailbox[u][j]
    OBVIOUS
  <2> QED
    BY <2>1, <2>2 DEF Answered
<1> QED
  BY <1>1, <1>2 DEF AnswerInv

(* The end of a generation.  The requests that waited for it are settled,  *)
(* nobody else's; p and o differ from what was only for one of these.      *)
LEMMA FailureStep ==
  ASSUME PoolInv, NEW t \in Threads, NEW p, NEW o,
         p \in [Requests -> Threads \cup {NoThread}], o \in [Requests -> Outcomes],
         \A r \in Requests :
           \/ p[r] = pending[r] /\ o[r] = outcome[r]
           \/ /\ isCurrentGeneration(t) /\ pending[r] = t /\ p[r] = NoThread
              /\ o[r] \notin {"new", "waiting"},
         handleWorkerFailure(t, p, o), posted' = posted,
         mailbox' \in [Threads -> Seq(Message)],
         \A u \in Threads : \A i \in 1 .. Len(mailbox'[u]) :
           \E j \in 1 .. Len(mailbox[u]) : mailbox'[u][i] = mailbox[u][j]
  PROVE  PoolInv'
<1> USE PoolAssumption, ThreadFacts DEF PoolInv
<1>0. AnswerInv' /\ \A u \in Threads, r \in Requests : Answered(u, r)' => Answered(u, r)
  BY KeptMail
<1>1. CASE ~isCurrentGeneration(t)
  <2>1. slots' = slots /\ thread' = thread /\ pending' = p /\ outcome' = o
        /\ \A r \in Requests : pending'[r] = pending[r] /\ outcome'[r] = outcome[r]
    BY <1>1 DEF handleWorkerFailure
  <2>2. PoolType'
    BY <2>1 DEF PoolType
  <2>4. UnbornInv' /\ ReadyInv'
    BY <2>1 DEF UnbornInv, ReadyInv
  <2>5. PendingInv'
    <3>1. ASSUME NEW r \in Requests, pending'[r] # NoThread
          PROVE  slots'[pending'[r][1]].generation = pending'[r][2]
      BY <2>1, <3>1 DEF PendingInv, isCurrentGeneration
    <3>2. \A r \in Requests : pending'[r] # NoThread <=> outcome'[r] = "waiting"
      BY <2>1, ZenonT(60) DEF PendingInv
    <3> QED
      BY <3>1, <3>2 DEF PendingInv, isCurrentGeneration
  <2>6. HomeInv'
    BY <1>0, <2>1, ZenonT(60) DEF HomeInv
  <2>7. AwaitInv' /\ RunsAreAwaited'
    BY <2>1 DEF AwaitInv, RunsAreAwaited, isCurrentGeneration, PoolType, Alive
  <2> QED
    BY <1>0, <2>1, <2>2, <2>4, <2>5, <2>6, <2>7
<1>2. CASE isCurrentGeneration(t)
  <2> DEFINE next == <<t[1], t[2] + 1>>
  <2>1. /\ thread' = [thread EXCEPT ![t] = "dead", ![next] = "loading"]
        /\ pending' = [r \in Requests |-> IF p[r] = t THEN NoThread ELSE p[r]]
        /\ outcome' = Answer(o, Waiting(p, t), "worker failed")
        /\ slots' = [slots EXCEPT ![t[1]] = [generation |-> t[2] + 1, ready |-> FALSE]]
    BY <1>2 DEF handleWorkerFailure, createWorker
  <2>2. slots[t[1]].generation = t[2] /\ slots'[t[1]].generation = t[2] + 1 /\ ~slots'[t[1]].ready
        /\ \A w \in Slots : w # t[1] => slots'[w] = slots[w]
    BY <1>2, <2>1 DEF isCurrentGeneration, PoolType
  <2>3. \A u \in Threads : thread'[u] = IF u = next THEN "loading" ELSE IF u = t THEN "dead" ELSE thread[u]
    BY <2>1 DEF PoolType
  <2>4. \A r \in Requests :
          \/ pending[r] = t /\ pending'[r] = NoThread /\ outcome'[r] \notin {"new", "waiting"}
          \/ pending[r] # t /\ pending'[r] = pending[r] /\ outcome'[r] = outcome[r]
    <3>1. \A r \in Requests : outcome'[r] = IF p[r] = t /\ o[r] = "waiting" THEN "worker failed" ELSE o[r]
      BY <2>1 DEF Answer, Waiting
    <3>2. \A r \in Requests : pending[r] = t => outcome[r] = "waiting"
      BY DEF PendingInv
    <3> HIDE DEF PoolInv
    <3>3. \A r \in Requests : pending'[r] = IF p[r] = t THEN NoThread ELSE p[r]
      BY <2>1
    <3> QED
      BY <3>1, <3>2, <3>3
  <2>6. PoolType'
    <3>1. slots' \in [Slots -> [generation : Nat, ready : BOOLEAN]]
      <4>1. [generation |-> t[2] + 1, ready |-> FALSE] \in [generation : Nat, ready : BOOLEAN]
        OBVIOUS
      <4> HIDE DEF PoolInv
      <4>2. slots \in [Slots -> [generation : Nat, ready : BOOLEAN]]
        BY DEF PoolInv, PoolType
      <4> QED
        BY <2>1, <4>1, <4>2
    <3>2. thread' \in [Threads -> ThreadStates \cup Requests]
      BY <2>1 DEF PoolType, ThreadStates
    <3>3. pending' \in [Requests -> Threads \cup {NoThread}]
      BY <2>1
    <3>4. outcome' \in [Requests -> Outcomes]
      BY <2>1 DEF Outcomes, Answer
    <3> QED
      BY <3>1, <3>2, <3>3, <3>4 DEF PoolType
  <2>7. AnswerInv'
    BY <1>0
  <2>8. UnbornInv'
    <3>1. ASSUME NEW u \in Threads, slots'[u[1]].generation < u[2]
          PROVE  u # next /\ u # t /\ slots[u[1]].generation < u[2]
      <4> HIDE DEF PoolInv
      <4>1. CASE u[1] = t[1]
        <5>1. u[2] > t[2] + 1
          BY <2>2, <3>1, <4>1
        <5>2. next[2] = t[2] + 1
          OBVIOUS
        <5> QED
          BY <2>2, <4>1, <5>1, <5>2
      <4>2. CASE u[1] # t[1]
        <5>1. next[1] = t[1]
          OBVIOUS
        <5> QED
          BY <2>2, <3>1, <4>2, <5>1
      <4> QED
        BY <4>1, <4>2
    <3>2. \A u \in Threads : slots'[u[1]].generation < u[2] => thread'[u] = "none" /\ posted'[u] = {}
      BY <2>3, <3>1 DEF UnbornInv
    <3> QED
      BY <3>2 DEF UnbornInv
  <2>9. ReadyInv'
    BY <2>2 DEF ReadyInv
  <2>10. PendingInv'
    <3>1. ASSUME NEW r \in Requests, pending'[r] # NoThread
          PROVE  slots'[pending'[r][1]].generation = pending'[r][2]
      <4>1. pending'[r] = pending[r] /\ pending[r] # t /\ pending[r] \in Threads
            /\ slots[pending[r][1]].generation = pending[r][2]
        BY <2>4, <3>1 DEF PendingInv, isCurrentGeneration, PoolType
      <4>2. pending[r][1] # t[1]
        BY <2>2, <4>1
      <4> QED
        BY <2>2, <4>1, <4>2
    <3>2. \A r \in Requests : pending'[r] # NoThread <=> outcome'[r] = "waiting"
      BY <2>4 DEF PendingInv
    <3> QED
      BY <3>1, <3>2 DEF PendingInv, isCurrentGeneration
  <2>11. next \in Threads => thread[next] = "none" /\ posted[next] = {}
    <3>1. next[1] = t[1] /\ next[2] = t[2] + 1 /\ t[2] < t[2] + 1
      OBVIOUS
    <3> QED
      BY <2>2, <3>1 DEF UnbornInv
  <2>12. HomeInv'
    <3>1. ASSUME NEW u \in Threads, NEW r \in Requests
          PROVE  /\ Answered(u, r)' => Answered(u, r)
                 /\ thread'[u] = r => thread[u] = r
      BY <1>0, <2>3 DEF PoolAssumption, ThreadStates
    <3>2. \A r \in Requests : outcome[r] # "new" => outcome'[r] # "new"
      BY <2>4
    <3> QED
      BY <2>4, <3>1, <3>2 DEF HomeInv
  <2>13. ASSUME NEW u \in Threads, thread'[u] \in Alive, u # next
         PROVE  thread'[u] = thread[u] /\ thread[u] \in Alive /\ u[1] # t[1]
    <3>1. u # t /\ thread'[u] = thread[u]
      BY <2>3, <2>13 DEF Alive, PoolAssumption, ThreadStates
    <3>2. isCurrentGeneration(u)
      BY <2>13, <3>1 DEF RunsAreAwaited
    <3> QED
      BY <2>2, <2>13, <3>1, <3>2 DEF isCurrentGeneration
  <2>14. AwaitInv'
    <3>1. ASSUME NEW u \in Threads, thread'[u] \in Alive, NEW r \in posted'[u] PROVE pending'[r] = u
      <4>1. u # next
        BY <2>11, <3>1
      <4>2. r \in Requests /\ pending[r] = u /\ u # t
        BY <2>13, <3>1, <4>1 DEF AwaitInv, PoolType
      <4> QED
        BY <2>4, <4>2
    <3> QED
      BY <3>1 DEF AwaitInv
  <2>15. RunsAreAwaited'
    <3>1. ASSUME NEW u \in Threads, thread'[u] \in Alive PROVE isCurrentGeneration(u)'
      <4>1. CASE u = next
        BY <2>2, <4>1 DEF isCurrentGeneration
      <4>2. CASE u # next
        BY <2>2, <2>13, <3>1, <4>2, ZenonT(60) DEF RunsAreAwaited, isCurrentGeneration
      <4> QED
        BY <4>1, <4>2
    <3>2. ASSUME NEW u \in Threads, thread'[u] \in Requests PROVE pending'[thread'[u]] = u
      <4>1. u # next /\ thread'[u] \in Alive
        BY <2>3, <3>2 DEF Alive, PoolAssumption, ThreadStates
      <4>2. thread'[u] = thread[u] /\ thread[u] \in Alive /\ u[1] # t[1]
        BY <2>13, <4>1
      <4>3. pending[thread[u]] = u /\ u # t
        BY <3>2, <4>2 DEF RunsAreAwaited
      <4> QED
        BY <2>4, <3>2, <4>2, <4>3
    <3> QED
      BY <3>1, <3>2 DEF RunsAreAwaited
  <2> QED
    BY <2>6, <2>7, <2>8, <2>9, <2>10, <2>12, <2>14, <2>15
<1> QED
  BY <1>1, <1>2

(* A thread posts one message and goes on, or ends.                        *)
LEMMA PostedMail ==
  ASSUME mailbox \in [Threads -> Seq(Message)], NEW t \in Threads, NEW m \in Message,
         Posts(t, m)
  PROVE  /\ mailbox' \in [Threads -> Seq(Message)]
         /\ AnswerInv /\ (m.type \in {"result", "error", "fatal"} => m.request \in Requests)
              => AnswerInv'
         /\ \A u \in Threads, r \in Requests :
              Answered(u, r)' => Answered(u, r) \/ (u = t /\ m.request = r)
<1> DEFINE n == Len(mailbox[t])
<1>1. mailbox[t] \in Seq(Message) /\ n \in Nat
  OBVIOUS
<1>2. Append(mailbox[t], m) \in Seq(Message) /\ Len(Append(mailbox[t], m)) = n + 1
      /\ \A i \in 1 .. (n + 1) : Append(mailbox[t], m)[i] = IF i = n + 1 THEN m ELSE mailbox[t][i]
  BY <1>1
<1>3. mailbox'[t] = Append(mailbox[t], m) /\ \A u \in Threads : u # t => mailbox'[u] = mailbox[u]
  BY DEF Posts
<1>4. mailbox' \in [Threads -> Seq(Message)]
  BY <1>2 DEF Posts
<1>5. \A u \in Threads : \A i \in 1 .. Len(mailbox'[u]) :
        (\E j \in 1 .. Len(mailbox[u]) : mailbox'[u][i] = mailbox[u][j]) \/ (u = t /\ mailbox'[u][i] = m)
  <2>1. ASSUME NEW u \in Threads, NEW i \in 1 .. Len(mailbox'[u]), u # t
        PROVE  \E j \in 1 .. Len(mailbox[u]) : mailbox'[u][i] = mailbox[u][j]
    BY <1>3, <2>1
  <2>2. ASSUME NEW i \in 1 .. Len(mailbox'[t])
        PROVE  (\E j \in 1 .. Len(mailbox[t]) : mailbox'[t][i] = mailbox[t][j]) \/ mailbox'[t][i] = m
    <3>1. i \in 1 .. (n + 1) /\ (i = n + 1 \/ i \in 1 .. n)
      BY <1>1, <1>2, <1>3
    <3> QED
      BY <1>2, <1>3, <3>1
  <2>3. ASSUME NEW u \in Threads, NEW i \in 1 .. Len(mailbox'[u])
        PROVE  (\E j \in 1 .. Len(mailbox[u]) : mailbox'[u][i] = mailbox[u][j])
               \/ (u = t /\ mailbox'[u][i] = m)
    BY <2>1, <2>2, u = t \/ u # t
  <2> QED
    BY <2>3
<1>6. ASSUME AnswerInv, m.type \in {"result", "error", "fatal"} => m.request \in Requests,
             NEW u \in Threads, NEW i \in 1 .. Len(mailbox'[u]),
             mailbox'[u][i].type \in {"result", "error", "fatal"}
      PROVE  mailbox'[u][i].request \in Requests
  <2>1. CASE \E j \in 1 .. Len(mailbox[u]) : mailbox'[u][i] = mailbox[u][j]
    BY <1>6, <2>1 DEF AnswerInv
  <2>2. CASE mailbox'[u][i] = m
    BY <1>6, <2>2
  <2> QED
    BY <1>5, <2>1, <2>2
<1>7. ASSUME NEW u \in Threads, NEW r \in Requests, Answered(u, r)'
      PROVE  Answered(u, r) \/ (u = t /\ m.request = r)
  <2>1. PICK i \in 1 .. Len(mailbox'[u]) : mailbox'[u][i].request = r
    BY <1>7 DEF Answered
  <2> QED
    BY <1>5, <2>1 DEF Answered
<1> QED
  BY <1>4, <1>6, <1>7 DEF AnswerInv

LEMMA PostStep ==
  ASSUME PoolInv, NEW t \in Threads, NEW m \in Message, NEW state \in {"idle", "unusable", "dead"},
         thread[t] \in Alive, Becomes(t, state), Posts(t, m),
         \/ m.request = None /\ m.type \notin {"result", "error", "fatal"}
         \/ m.request = thread[t] /\ thread[t] \in Requests,
         UNCHANGED <<slots, posted, pending, outcome>>
  PROVE  PoolInv'
<1> USE PoolAssumption, ThreadFacts DEF PoolInv
<1>1. /\ mailbox' \in [Threads -> Seq(Message)] /\ AnswerInv'
      /\ \A u \in Threads, r \in Requests :
           Answered(u, r)' => Answered(u, r) \/ (u = t /\ m.request = r)
  BY PostedMail DEF PoolType
<1>2. \A u \in Threads : thread'[u] = IF u = t THEN state ELSE thread[u]
  BY DEF Becomes, PoolType
<1>3. thread' \in [Threads -> ThreadStates \cup Requests]
  BY DEF Becomes, PoolType, ThreadStates
<1>4. state \notin Requests /\ None \notin Requests
  BY DEF PoolAssumption, ThreadStates
<1>5. \A u \in Threads : thread'[u] \in Alive => thread[u] \in Alive
  BY <1>2
<1>6. \A u \in Threads : thread'[u] \in Requests => u # t /\ thread'[u] = thread[u]
  BY <1>2, <1>4
<1>7. PoolType' /\ ReadyInv' /\ PendingInv'
  BY <1>1, <1>3 DEF PoolType, ReadyInv, PendingInv, isCurrentGeneration
<1>8. UnbornInv'
  BY <1>2 DEF UnbornInv, RunsAreAwaited, isCurrentGeneration, PoolType
<1>9. HomeInv'
  <2>1. ASSUME NEW u \in Threads, NEW r \in Requests
        PROVE  /\ r \in posted'[u] \/ thread'[u] = r \/ Answered(u, r)'
                    => outcome'[r] # "new" /\ pending'[r] \in {u, NoThread}
               /\ Answered(u, r)' => thread'[u] # r /\ r \notin posted'[u]
               /\ thread'[u] = r => r \notin posted'[u]
    <3>1. Answered(u, r)' => Answered(u, r) \/ (u = t /\ thread[u] = r)
      BY <1>1, <1>4
    <3>2. thread'[u] = r => thread[u] = r /\ u # t
      BY <1>6
    <3> QED
      BY <3>1, <3>2 DEF HomeInv
  <2> QED
    BY <2>1 DEF HomeInv
<1>10. AwaitInv' /\ RunsAreAwaited'
  BY <1>5, <1>6 DEF AwaitInv, RunsAreAwaited, isCurrentGeneration
<1> QED
  BY <1>1, <1>7, <1>8, <1>9, <1>10

LEMMA BeginStep ==
  ASSUME PoolInv, NEW t \in Threads, NEW r \in Requests, Begin(t, r)
  PROVE  PoolInv'
<1> USE PoolAssumption, ThreadFacts DEF PoolInv
<1>1. \A u \in Threads : thread'[u] = (IF u = t THEN r ELSE thread[u])
                         /\ posted'[u] = (IF u = t THEN posted[t] \ {r} ELSE posted[u])
  BY DEF Begin, Becomes, PoolType
<1>2. thread[t] = "idle" /\ thread[t] \in Alive /\ r \in posted[t] /\ pending[r] = t
  BY DEF Begin, AwaitInv, Alive
<1>3. UNCHANGED <<slots, mailbox, pending, outcome>>
  BY DEF Begin
<1>4. PoolType'
  BY DEF Begin, Becomes, PoolType
<1>5. AnswerInv' /\ ReadyInv' /\ PendingInv'
  BY <1>3 DEF AnswerInv, ReadyInv, PendingInv, isCurrentGeneration
<1>6. UnbornInv'
  BY <1>1, <1>2, <1>3 DEF UnbornInv
<1>7. HomeInv'
  BY <1>1, <1>2, <1>3 DEF HomeInv, Answered
<1>8. AwaitInv' /\ RunsAreAwaited'
  BY <1>1, <1>2, <1>3 DEF AwaitInv, RunsAreAwaited, isCurrentGeneration
<1> QED
  BY <1>3, <1>4, <1>5, <1>6, <1>7, <1>8

(* What every delivery leaves of the mailboxes; the head named the thread's *)
(* own request.                                                            *)
LEMMA Taken ==
  ASSUME PoolInv, NEW t \in Threads, NEW type, Takes(t, type)
  PROVE  /\ mailbox' \in [Threads -> Seq(Message)] /\ AnswerInv' /\ UNCHANGED <<posted, crashes>>
         /\ \A u \in Threads : \A i \in 1 .. Len(mailbox'[u]) :
              \E j \in 1 .. Len(mailbox[u]) : mailbox'[u][i] = mailbox[u][j]
         /\ \A u \in Threads, r \in Requests : Answered(u, r)' => Answered(u, r)
         /\ type \in {"result", "error", "fatal"} =>
              Head(mailbox[t]).request \in Requests /\ Answered(t, Head(mailbox[t]).request)
<1>1. mailbox[t] # <<>> /\ mailbox' = [mailbox EXCEPT ![t] = Tail(@)] /\ Head(mailbox[t]).type = type
  BY DEF Takes
<1>2. /\ mailbox' \in [Threads -> Seq(Message)]
      /\ \A u \in Threads : \A i \in 1 .. Len(mailbox'[u]) :
           \E j \in 1 .. Len(mailbox[u]) : mailbox'[u][i] = mailbox[u][j]
  BY <1>1, TakenMail
<1>3. AnswerInv' /\ \A u \in Threads, r \in Requests : Answered(u, r)' => Answered(u, r)
  BY <1>2, KeptMail DEF PoolInv
<1>4. mailbox[t] \in Seq(Message)
  BY DEF PoolInv, PoolType
<1>5. 1 \in 1 .. Len(mailbox[t]) /\ Head(mailbox[t]) = mailbox[t][1]
  BY <1>1, <1>4
<1>6. type \in {"result", "error", "fatal"} =>
        Head(mailbox[t]).request \in Requests /\ Answered(t, Head(mailbox[t]).request)
  BY <1>1, <1>5 DEF PoolInv, AnswerInv, Answered
<1> QED
  BY <1>2, <1>3, <1>6 DEF Takes

(* A delivery that settles nothing.                                        *)
LEMMA QuietStep ==
  ASSUME PoolInv, NEW t \in Threads, NEW type, Takes(t, type),
         UNCHANGED <<thread, pending, outcome>>,
         slots' \in [Slots -> [generation : Nat, ready : BOOLEAN]],
         \A w \in Slots : /\ slots'[w].generation = slots[w].generation
                          /\ slots'[w].ready => slots[w].ready \/ (w = t[1] /\ isCurrentGeneration(t))
  PROVE  PoolInv'
<1> USE PoolAssumption, ThreadFacts DEF PoolInv
<1>1. /\ mailbox' \in [Threads -> Seq(Message)] /\ AnswerInv' /\ posted' = posted
      /\ \A u \in Threads, r \in Requests : Answered(u, r)' => Answered(u, r)
  BY Taken
<1>2. PoolType'
  BY <1>1 DEF PoolType
<1>3. UnbornInv'
  BY <1>1 DEF UnbornInv
<1>4. ReadyInv'
  BY DEF ReadyInv, isCurrentGeneration
<1>5. PendingInv'
  BY DEF PendingInv, isCurrentGeneration, PoolType
<1>6. HomeInv'
  BY <1>1 DEF HomeInv
<1>7. AwaitInv' /\ RunsAreAwaited'
  BY <1>1 DEF AwaitInv, RunsAreAwaited, isCurrentGeneration
<1> QED
  BY <1>1, <1>2, <1>3, <1>4, <1>5, <1>6, <1>7

LEMMA IgnoredStep ==
  ASSUME PoolInv, NEW t \in Threads, NEW type, Takes(t, type),
         UNCHANGED <<slots, thread, pending, outcome>>
  PROVE  PoolInv'
<1>1. slots' \in [Slots -> [generation : Nat, ready : BOOLEAN]]
  BY DEF PoolInv, PoolType
<1>2. \A w \in Slots : slots'[w].generation = slots[w].generation /\ slots'[w].ready = slots[w].ready
  OBVIOUS
<1> QED
  BY <1>1, <1>2, QuietStep

LEMMA AnswerStep ==
  ASSUME PoolInv, NEW t \in Threads, NEW type \in {"result", "error"}, OnAnswer(t, type)
  PROVE  PoolInv'
<1> DEFINE r == Head(mailbox[t]).request
<1> USE PoolAssumption, ThreadFacts DEF PoolInv
<1>1. /\ mailbox' \in [Threads -> Seq(Message)] /\ AnswerInv' /\ posted' = posted
      /\ \A u \in Threads, q \in Requests : Answered(u, q)' => Answered(u, q)
      /\ r \in Requests /\ Answered(t, r) /\ Takes(t, type)
  BY Taken DEF OnAnswer
<1>2. CASE ~(isCurrentGeneration(t) /\ pending[r] # NoThread)
  <2>1. UNCHANGED <<slots, thread, pending, outcome>>
    BY <1>2 DEF OnAnswer
  <2> HIDE DEF PoolInv
  <2> QED
    BY <1>1, <2>1, IgnoredStep
<1>3. CASE isCurrentGeneration(t) /\ pending[r] # NoThread
  <2>2. pending[r] = t /\ outcome[r] = "waiting" /\ thread[t] # r /\ r \notin posted[t]
    BY <1>1, <1>3 DEF HomeInv, PendingInv
  <2>1. /\ pending' = [pending EXCEPT ![r] = NoThread] /\ outcome' = [outcome EXCEPT ![r] = type]
        /\ UNCHANGED <<slots, thread>>
    BY <1>1, <1>3, <2>2, OneAnswered DEF OnAnswer, Settle, PoolType
  <2>3. \A q \in Requests : /\ pending'[q] = IF q = r THEN NoThread ELSE pending[q]
                            /\ outcome'[q] = IF q = r THEN type ELSE outcome[q]
    BY <2>1 DEF PoolType
  <2>4. PoolType'
    BY <1>1, <2>1 DEF PoolType, Outcomes
  <2>5. UnbornInv' /\ ReadyInv'
    BY <1>1, <2>1 DEF UnbornInv, ReadyInv
  <2>6. PendingInv'
    BY <2>1, <2>3 DEF PendingInv, isCurrentGeneration
  <2>7. HomeInv'
    BY <1>1, <2>1, <2>3 DEF HomeInv
  <2>8. AwaitInv' /\ RunsAreAwaited'
    BY <1>1, <2>1, <2>2, <2>3 DEF AwaitInv, RunsAreAwaited, isCurrentGeneration
  <2> QED
    BY <1>1, <2>4, <2>5, <2>6, <2>7, <2>8
<1> QED
  BY <1>2, <1>3

LEMMA FatalStep ==
  ASSUME PoolInv, NEW t \in Threads, OnFatal(t)
  PROVE  PoolInv'
<1> DEFINE r == Head(mailbox[t]).request
<1>1. /\ mailbox' \in [Threads -> Seq(Message)] /\ posted' = posted
      /\ \A u \in Threads : \A i \in 1 .. Len(mailbox'[u]) :
           \E j \in 1 .. Len(mailbox[u]) : mailbox'[u][i] = mailbox[u][j]
      /\ r \in Requests /\ Answered(t, r) /\ Takes(t, "fatal")
  BY Taken DEF OnFatal
<1>2. pending \in [Requests -> Threads \cup {NoThread}] /\ outcome \in [Requests -> Outcomes]
  BY DEF PoolInv, PoolType
<1>3. CASE ~isCurrentGeneration(t)
  <2>1. UNCHANGED <<slots, thread, pending, outcome>>
    BY <1>3 DEF OnFatal
  <2> QED
    BY <1>1, <2>1, IgnoredStep
<1>4. CASE isCurrentGeneration(t) /\ pending[r] = NoThread
  <2>1. handleWorkerFailure(t, pending, outcome)
    BY <1>4 DEF OnFatal
  <2> QED
    BY <1>1, <1>2, <2>1, FailureStep
<1>5. CASE isCurrentGeneration(t) /\ pending[r] # NoThread
  <2> DEFINE p == Settle(pending, r)
             o == Answer(outcome, {r}, "error")
  <2>1. handleWorkerFailure(t, p, o)
    BY <1>5 DEF OnFatal
  <2>2. pending[r] = t /\ outcome[r] = "waiting"
    BY <1>1, <1>5 DEF PoolInv, HomeInv, PendingInv
  <2>3. p = [pending EXCEPT ![r] = NoThread] /\ o = [outcome EXCEPT ![r] = "error"]
    BY <1>1, <1>2, <2>2, OneAnswered DEF Settle
  <2>4. p \in [Requests -> Threads \cup {NoThread}] /\ o \in [Requests -> Outcomes]
    BY <1>1, <1>2, <2>3 DEF Outcomes
  <2>5. \A q \in Requests :
          \/ p[q] = pending[q] /\ o[q] = outcome[q]
          \/ /\ isCurrentGeneration(t) /\ pending[q] = t /\ p[q] = NoThread
             /\ o[q] \notin {"new", "waiting"}
    BY <1>1, <1>2, <1>5, <2>2, <2>3
  <2> HIDE DEF p, o
  <2> QED
    BY <1>1, <2>1, <2>4, <2>5, FailureStep
<1> QED
  BY <1>3, <1>4, <1>5

LEMMA UncaughtStep ==
  ASSUME PoolInv, NEW t \in Threads, OnUncaught(t)
  PROVE  PoolInv'
<1>1. Takes(t, "uncaught")
  BY DEF OnUncaught
<1>2. CASE created[t] = "pending"
  <2>1. UNCHANGED <<slots, thread, pending, outcome>>
    BY <1>2 DEF OnUncaught
  <2> QED
    BY <1>1, <2>1, IgnoredStep
<1>3. CASE created[t] # "pending"
  <2>1. handleWorkerFailure(t, pending, outcome)
    BY <1>3 DEF OnUncaught
  <2>2. pending \in [Requests -> Threads \cup {NoThread}] /\ outcome \in [Requests -> Outcomes]
    BY DEF PoolInv, PoolType
  <2>3. /\ mailbox' \in [Threads -> Seq(Message)] /\ posted' = posted
        /\ \A u \in Threads : \A i \in 1 .. Len(mailbox'[u]) :
             \E j \in 1 .. Len(mailbox[u]) : mailbox'[u][i] = mailbox[u][j]
    BY <1>1, Taken
  <2> QED
    BY <2>1, <2>2, <2>3, FailureStep
<1> QED
  BY <1>2, <1>3

LEMMA ReadyStep ==
  ASSUME PoolInv, NEW t \in Threads, OnReady(t)
  PROVE  PoolInv'
<1>1. Takes(t, "ready") /\ UNCHANGED <<thread, pending, outcome>> /\ t[1] \in Slots
  BY ThreadFacts DEF OnReady
<1>2. slots \in [Slots -> [generation : Nat, ready : BOOLEAN]]
  BY DEF PoolInv, PoolType
<1>3. CASE isCurrentGeneration(t)
  <2>1. slots' = [slots EXCEPT ![t[1]].ready = TRUE]
    BY <1>3 DEF OnReady
  <2> QED
    BY <1>1, <1>2, <1>3, <2>1, QuietStep
<1>4. CASE ~isCurrentGeneration(t)
  <2>1. UNCHANGED <<slots, thread, pending, outcome>>
    BY <1>1, <1>4 DEF OnReady
  <2> QED
    BY <1>1, <2>1, IgnoredStep
<1> QED
  BY <1>3, <1>4

LEMMA ExecuteStep ==
  ASSUME PoolInv, NEW r \in Requests, Execute(r)
  PROVE  PoolInv'
<1> USE PoolAssumption, ThreadFacts DEF PoolInv
<1>1. /\ UNCHANGED <<slots, thread, mailbox>> /\ outcome[r] = "new" /\ pending[r] = NoThread
      /\ AnswerInv' /\ ReadyInv' /\ \A u \in Threads, q \in Requests : Answered(u, q)' <=> Answered(u, q)
  BY DEF Execute, PendingInv, AnswerInv, ReadyInv, Answered
<1>2. \A u \in Threads : r \notin posted[u] /\ thread[u] # r /\ ~Answered(u, r)
  BY <1>1 DEF HomeInv
<1>3. CASE outcome' = [outcome EXCEPT ![r] = "no workers"] /\ UNCHANGED <<pending, posted>>
  <2>1. PoolType' /\ UnbornInv'
    BY <1>1, <1>3 DEF PoolType, UnbornInv, Outcomes
  <2>2. \A q \in Requests : outcome'[q] = IF q = r THEN "no workers" ELSE outcome[q]
    BY <1>3 DEF PoolType
  <2>3. PendingInv'
    <3>1. ASSUME NEW q \in Requests PROVE pending'[q] # NoThread <=> outcome'[q] = "waiting"
      <4>1. CASE q = r
        <5>1. pending'[q] = NoThread
          BY <1>1, <1>3, <4>1
        <5>2. outcome'[q] = "no workers"
          BY <2>2, <4>1
        <5> QED
          BY <5>1, <5>2
      <4>2. CASE q # r
        BY <1>3, <2>2, <4>2 DEF PendingInv
      <4> QED
        BY <4>1, <4>2
    <3>2. \A q \in Requests :
            pending'[q] # NoThread => slots'[pending'[q][1]].generation = pending'[q][2]
      BY <1>1, <1>3 DEF PendingInv, isCurrentGeneration
    <3> QED
      BY <3>1, <3>2 DEF PendingInv, isCurrentGeneration
  <2>4. HomeInv'
    BY <1>1, <1>2, <1>3, <2>2, ZenonT(60) DEF HomeInv
  <2>5. AwaitInv' /\ RunsAreAwaited'
    BY <1>1, <1>3 DEF AwaitInv, RunsAreAwaited, isCurrentGeneration
  <2> QED
    BY <1>1, <2>1, <2>2, <2>3, <2>4, <2>5
<1>4. ASSUME NEW w \in Slots, Ready(w), pending' = [pending EXCEPT ![r] = Current(w)],
             outcome' = [outcome EXCEPT ![r] = "waiting"],
             posted' = [posted EXCEPT ![Current(w)] = @ \cup {r}]
      PROVE  PoolInv'
  <2> DEFINE t == Current(w)
  <2>1. t \in Threads /\ t[1] = w /\ t[2] = slots[w].generation
    BY <1>4 DEF Current, Threads, Ready, ReadyInv
  <2>2. \A q \in Requests : /\ outcome'[q] = IF q = r THEN "waiting" ELSE outcome[q]
                            /\ pending'[q] = IF q = r THEN t ELSE pending[q]
    BY <1>4 DEF PoolType
  <2>3. \A u \in Threads : posted'[u] = IF u = t THEN posted[t] \cup {r} ELSE posted[u]
    BY <1>4 DEF PoolType
  <2>4. PoolType'
    BY <1>1, <1>4, <2>1 DEF PoolType, Outcomes
  <2> HIDE DEF t
  <2>5. UnbornInv'
    <3>1. ASSUME NEW u \in Threads, slots[u[1]].generation < u[2] PROVE u # t
      BY <2>1, <3>1 DEF PoolType
    <3> QED
      BY <1>1, <2>3, <3>1 DEF UnbornInv
  <2>6. PendingInv'
    BY <1>1, <2>1, <2>2 DEF PendingInv, isCurrentGeneration
  <2>7. HomeInv'
    <3>1. ASSUME NEW u \in Threads, NEW q \in Requests
          PROVE  /\ q \in posted'[u] \/ thread'[u] = q \/ Answered(u, q)'
                      => outcome'[q] # "new" /\ pending'[q] \in {u, NoThread}
                 /\ Answered(u, q)' => thread'[u] # q /\ q \notin posted'[u]
                 /\ thread'[u] = q => q \notin posted'[u]
      <4>1. CASE q = r
        BY <1>1, <1>2, <2>2, <2>3, <4>1
      <4>2. CASE q # r
        BY <1>1, <2>2, <2>3, <4>2 DEF HomeInv
      <4> QED
        BY <4>1, <4>2
    <3> QED
      BY <3>1 DEF HomeInv
  <2>8. AwaitInv'
    <3>1. ASSUME NEW u \in Threads, thread'[u] \in Alive, NEW q \in posted'[u] PROVE pending'[q] = u
      <4>1. thread[u] \in Alive /\ (q \in posted[u] \/ (q = r /\ u = t))
        BY <1>1, <2>3, <3>1
      <4>2. CASE q = r
        BY <1>2, <2>2, <4>1, <4>2
      <4>3. CASE q # r
        BY <2>2, <4>1, <4>3 DEF AwaitInv, PoolType
      <4> QED
        BY <4>2, <4>3
    <3> QED
      BY <3>1 DEF AwaitInv
  <2>9. RunsAreAwaited'
    BY <1>1, <1>2, <2>2 DEF RunsAreAwaited, isCurrentGeneration
  <2> QED
    BY <1>1, <2>2, <2>4, <2>5, <2>6, <2>7, <2>8, <2>9
<1> QED
  BY <1>3, <1>4 DEF Execute

LEMMA TimeoutStep ==
  ASSUME PoolInv, NEW r \in Requests, Timeout(r)
  PROVE  PoolInv'
<1> DEFINE t == pending[r]
           p == Settle(pending, r)
           o == Answer(outcome, {r}, "timeout")
<1>1. /\ pending \in [Requests -> Threads \cup {NoThread}] /\ outcome \in [Requests -> Outcomes]
      /\ mailbox \in [Threads -> Seq(Message)]
  BY DEF PoolInv, PoolType
<1>2. t \in Threads /\ isCurrentGeneration(t) /\ outcome[r] = "waiting"
  BY <1>1 DEF Timeout, PoolInv, PendingInv
<1>3. handleWorkerFailure(t, p, o) /\ UNCHANGED <<posted, mailbox>>
  BY DEF Timeout
<1>4. p = [pending EXCEPT ![r] = NoThread] /\ o = [outcome EXCEPT ![r] = "timeout"]
  BY <1>1, <1>2, OneAnswered DEF Settle
<1>5. p \in [Requests -> Threads \cup {NoThread}] /\ o \in [Requests -> Outcomes]
  BY <1>1, <1>4 DEF Outcomes
<1>6. \A q \in Requests :
        \/ p[q] = pending[q] /\ o[q] = outcome[q]
        \/ /\ isCurrentGeneration(t) /\ pending[q] = t /\ p[q] = NoThread
           /\ o[q] \notin {"new", "waiting"}
  BY <1>1, <1>2, <1>4
<1> HIDE DEF t, p, o
<1>7. /\ mailbox' \in [Threads -> Seq(Message)]
      /\ \A u \in Threads : \A i \in 1 .. Len(mailbox'[u]) :
           \E j \in 1 .. Len(mailbox[u]) : mailbox'[u][i] = mailbox[u][j]
  BY <1>1, <1>3
<1> QED
  BY <1>2, <1>3, <1>5, <1>6, <1>7, FailureStep

LEMMA TerminateStep ==
  ASSUME PoolInv, Terminate
  PROVE  PoolInv'
<1> USE PoolAssumption, ThreadFacts DEF PoolInv
<1>1. /\ \A u \in Threads : thread'[u] = IF thread[u] \in Alive THEN "dead" ELSE thread[u]
      /\ \A r \in Requests : /\ pending'[r] = NoThread
                             /\ outcome'[r] = IF pending[r] # NoThread THEN "terminated" ELSE outcome[r]
      /\ UNCHANGED <<slots, posted, mailbox>>
  BY DEF Terminate, Answer, PendingInv
<1>2. PoolType'
  BY DEF Terminate, PoolType, ThreadStates, Outcomes, Answer
<1>3. \A u \in Threads : thread'[u] \notin Alive
  BY <1>1 DEF Alive, PoolAssumption, ThreadStates
<1>4. AnswerInv' /\ ReadyInv' /\ UnbornInv'
  BY <1>1 DEF AnswerInv, ReadyInv, UnbornInv, Alive, PoolAssumption, ThreadStates
<1>5. PendingInv'
  BY <1>1 DEF PendingInv, isCurrentGeneration
<1>6. HomeInv'
  BY <1>1, <1>3 DEF HomeInv, Answered, Alive
<1>7. AwaitInv' /\ RunsAreAwaited'
  BY <1>3 DEF AwaitInv, RunsAreAwaited, Alive
<1> QED
  BY <1>2, <1>4, <1>5, <1>6, <1>7

(* The steps of a thread are posts, except Begin.                          *)
LEMMA ThreadStep ==
  ASSUME PoolInv, NEW t \in Threads, Load(t) \/ Complete(t) \/ TerminateRuntime(t) \/ Crash(t)
  PROVE  PoolInv'
<1> USE PoolAssumption DEF Post
<1>1. \A type \in MessageTypes, r \in Requests \cup {None} :
        /\ Post(type, r) \in Message
        /\ Post(type, r).type = type /\ Post(type, r).request = r
  BY DEF Message
<1> HIDE DEF Post
<1>2. CASE Load(t)
  <2>1. /\ thread[t] \in Alive /\ UNCHANGED <<slots, posted, pending, outcome>>
        /\ \/ Becomes(t, "idle") /\ Posts(t, Post("ready", None))
           \/ Becomes(t, "unusable") /\ Posts(t, Post("init error", None))
    BY <1>2 DEF Load, Alive
  <2>2. CASE Becomes(t, "idle") /\ Posts(t, Post("ready", None))
    BY <1>1, <2>1, <2>2, PostStep, ZenonT(60) DEF MessageTypes
  <2>3. CASE Becomes(t, "unusable") /\ Posts(t, Post("init error", None))
    BY <1>1, <2>1, <2>3, PostStep, ZenonT(60) DEF MessageTypes
  <2> QED
    BY <2>1, <2>2, <2>3
<1>3. CASE Complete(t)
  <2>1. /\ thread[t] \in Requests /\ thread[t] \in Alive /\ UNCHANGED <<slots, posted, pending, outcome>>
        /\ Becomes(t, "idle")
    BY <1>3 DEF Complete, Alive
  <2>2. PICK type \in {"result", "error"} : Posts(t, Post(type, thread[t]))
    BY <1>3 DEF Complete
  <2>3. type \in MessageTypes
    BY DEF MessageTypes
  <2>4. Post(type, thread[t]) \in Message /\ Post(type, thread[t]).request = thread[t]
    BY <1>1, <2>1, <2>3
  <2> QED
    BY <2>1, <2>2, <2>4, PostStep
<1>4. CASE TerminateRuntime(t)
  <2> DEFINE m == Post("fatal", thread[t])
  <2>1. /\ thread[t] \in Requests /\ thread[t] \in Alive /\ UNCHANGED <<slots, posted, pending, outcome>>
        /\ Becomes(t, "dead") /\ Posts(t, m)
    BY <1>4 DEF TerminateRuntime, Alive
  <2>2. m \in Message /\ m.request = thread[t]
    BY <1>1, <2>1 DEF MessageTypes
  <2> HIDE DEF m
  <2> QED
    BY <2>1, <2>2, PostStep
<1>5. CASE Crash(t)
  <2>1. /\ thread[t] \in Alive /\ UNCHANGED <<slots, posted, pending, outcome>>
        /\ Becomes(t, "dead") /\ Posts(t, Post("uncaught", None))
    BY <1>5 DEF Crash
  <2> QED
    BY <1>1, <2>1, PostStep, ZenonT(60) DEF MessageTypes
<1> QED
  BY <1>2, <1>3, <1>4, <1>5

LEMMA StepPool == PoolInv /\ [Next]_vars => PoolInv'
<1> SUFFICES ASSUME PoolInv, [Next]_vars PROVE PoolInv'
  OBVIOUS
<1>1. ASSUME NEW t \in Threads, Load(t) \/ Complete(t) \/ TerminateRuntime(t) \/ Crash(t)
      PROVE  PoolInv'
  BY <1>1, ThreadStep
<1>2. ASSUME NEW t \in Threads, Deliver(t) PROVE PoolInv'
  <2>1. CASE OnInitError(t)
    BY <2>1, IgnoredStep DEF OnInitError
  <2> QED
    BY <1>2, <2>1, ReadyStep, AnswerStep, FatalStep, UncaughtStep DEF Deliver
<1>3. ASSUME NEW t \in Threads, NEW r \in Requests, Begin(t, r) PROVE PoolInv'
  BY <1>3, BeginStep
<1>4. ASSUME NEW r \in Requests, Execute(r) \/ Timeout(r) PROVE PoolInv'
  BY <1>4, ExecuteStep, TimeoutStep
<1>5. CASE UNCHANGED vars
  BY <1>5 DEF vars, PoolInv, PoolType, AnswerInv, UnbornInv, ReadyInv, PendingInv, HomeInv, Answered,
              AwaitInv, RunsAreAwaited, isCurrentGeneration
<1> QED
  BY <1>1, <1>2, <1>3, <1>4, <1>5, TerminateStep DEF Next

LEMMA PoolInvariant == Spec => []PoolInv
<1>1. PoolInv /\ [Next]_vars => PoolInv'
  BY StepPool
<1> QED
  BY <1>1, InitPool, PTL DEF Spec

(* The types that do not.                                                  *)
RestType ==
  /\ server \in {"initializing", "serving", "failed", "terminated"}
  /\ created \in [Threads -> {"none", "pending", "resolved", "rejected"}]
  /\ crashes \in 0 .. MaxCrashes

LEMMA InitRest == Init => RestType
  BY PoolAssumption DEF Init, RestType, PoolAssumption

LEMMA StepRest == RestType /\ [Next]_vars => RestType'
<1> SUFFICES ASSUME RestType, [Next]_vars PROVE RestType'
  OBVIOUS
<1> USE PoolAssumption DEF RestType
<1>1. ASSUME NEW t \in Threads, Load(t) \/ Complete(t) \/ TerminateRuntime(t) PROVE RestType'
  BY <1>1 DEF Load, Complete, TerminateRuntime
<1>2. ASSUME NEW t \in Threads, Crash(t) PROVE RestType'
  BY <1>2 DEF Crash, PoolAssumption
<1>3. ASSUME NEW t \in Threads, Deliver(t) PROVE RestType'
  BY <1>3 DEF Deliver, OnReady, OnInitError, OnAnswer, OnFatal, OnUncaught, Takes,
              handleWorkerFailure, createWorker
<1>4. ASSUME NEW t \in Threads, NEW r \in Requests, Begin(t, r) PROVE RestType'
  BY <1>4 DEF Begin
<1>5. ASSUME NEW r \in Requests, Execute(r) \/ Timeout(r) PROVE RestType'
  BY <1>5 DEF Execute, Timeout, handleWorkerFailure, createWorker
<1>6. CASE Terminate \/ UNCHANGED vars
  BY <1>6 DEF Terminate, vars
<1> QED
  BY <1>1, <1>2, <1>3, <1>4, <1>5, <1>6 DEF Next

(* Every state of the pool is well formed.                                 *)
THEOREM TypeCorrect == Spec => []TypeOK
<1>1. Spec => []RestType
  BY InitRest, StepRest, PTL DEF Spec
<1>2. PoolInv /\ RestType => TypeOK
  BY DEF PoolInv, PoolType, RestType, TypeOK
<1> QED
  BY <1>1, <1>2, PoolInvariant, PTL

(* worker-pool.ts: whatever fails, times out or comes late, a thread that  *)
(* lives is the current one of its slot, and what it executes is waited for. *)
THEOREM RunsAwaited == Spec => []RunsAreAwaited
<1>1. PoolInv => RunsAreAwaited
  BY DEF PoolInv
<1> QED
  BY <1>1, PoolInvariant, PTL

-----------------------------------------------------------------------------
(* Nobody waits in vain.                                                   *)

Deaths == {"fatal", "uncaught"}
Answers == {"result", "error", "fatal"}

Dying(t) == \E i \in 1 .. Len(mailbox[t]) : mailbox[t][i].type \in Deaths

(* A thread posts the news of its death last, and only answers name a      *)
(* request.                                                                *)
MailOrder(u) ==
  \A i \in 1 .. Len(mailbox[u]) :
    /\ mailbox[u][i].type \in Deaths => i = Len(mailbox[u])
    /\ mailbox[u][i].request \in Requests => mailbox[u][i].type \in Answers

MailInv ==
  \A u \in Threads :
    /\ MailOrder(u)
    /\ thread[u] \in Alive => ~Dying(u)
    /\ slots[u[1]].generation < u[2] => mailbox[u] = <<>>

(* Whoever is given work has said that he is ready.                        *)
CreatedInv ==
  \A u \in Threads :
    /\ created[u] = "rejected" => thread[u] \notin Alive /\ mailbox[u] = <<>>
    /\ isCurrentGeneration(u) /\ slots[u[1]].ready => created[u] = "resolved"
    /\ \A r \in Requests : pending[r] = u => created[u] = "resolved"

(* The current thread of a slot lives, or the news of its death is under   *)
(* way, or it died before it was ready.                                    *)
HeardInv ==
  Up => \A u \in Threads :
          isCurrentGeneration(u) => thread[u] \in Alive \/ Dying(u) \/ created[u] = "rejected"

Owed(u, r) ==
  \/ thread[u] \in Alive /\ (r \in posted[u] \/ thread[u] = r)
  \/ Answered(u, r)
  \/ Dying(u)

OweInv == \A u \in Threads, r \in Requests : pending[r] = u => Owed(u, r)

OwedInv == MailInv /\ CreatedInv /\ HeardInv /\ OweInv

LEMMA InitOwed == Init => OwedInv
<1> SUFFICES ASSUME Init PROVE OwedInv
  OBVIOUS
<1> USE PoolAssumption, ThreadFacts
<1>1. \A u \in Threads : mailbox[u] = <<>> /\ Len(mailbox[u]) = 0
  BY DEF Init
<1>2. MailInv
  BY <1>1 DEF MailInv, MailOrder, Dying
<1>3. CreatedInv
  BY DEF Init, CreatedInv
<1>4. HeardInv
  BY DEF Init, HeardInv, isCurrentGeneration, Alive
<1>5. OweInv
  BY DEF Init, OweInv
<1> QED
  BY <1>2, <1>3, <1>4, <1>5 DEF OwedInv

(* What taking the head of a mailbox leaves.                               *)
LEMMA TakenOrder ==
  ASSUME PoolInv, MailInv, NEW t \in Threads, NEW type, Takes(t, type)
  PROVE  /\ \A u \in Threads : u # t => mailbox'[u] = mailbox[u]
         /\ \A u \in Threads : MailOrder(u)' /\ (Dying(u)' => Dying(u))
         /\ type \in Deaths => mailbox'[t] = <<>> /\ Dying(t)
         /\ type \notin Deaths /\ Dying(t) => Dying(t)'
         /\ \A r \in Requests : Answered(t, r) => Answered(t, r)' \/ Head(mailbox[t]).request = r
         /\ type \notin Answers => \A r \in Requests : Answered(t, r) => Answered(t, r)'
         /\ mailbox[t] # <<>>
<1> DEFINE m == mailbox[t]
<1>1. m \in Seq(Message) /\ m # <<>> /\ Head(m).type = type
  BY DEF Takes, PoolInv, PoolType
<1>2. mailbox'[t] = Tail(m) /\ \A u \in Threads : u # t => mailbox'[u] = mailbox[u]
  BY DEF Takes, PoolInv, PoolType
<1>3. /\ Len(m) \in Nat /\ Len(m) >= 1 /\ Head(m) = m[1] /\ 1 \in 1 .. Len(m)
      /\ Len(Tail(m)) = Len(m) - 1 /\ Tail(m) \in Seq(Message)
      /\ \A i \in 1 .. Len(m) : i = 1 \/ (i - 1 \in 1 .. Len(Tail(m)) /\ Tail(m)[i - 1] = m[i])
      /\ \A i \in 1 .. Len(Tail(m)) : \E j \in 1 .. Len(m) :
           Tail(m)[i] = m[j] /\ (j = Len(m) => i = Len(Tail(m)))
  BY <1>1
<1>4. PICK n : n = Tail(m)
  OBVIOUS
<1>5. MailOrder(t)
  BY DEF MailInv
<1> HIDE DEF m
<1>6. \A i \in 1 .. Len(m) :
        /\ m[i].type \in Deaths => i = Len(m)
        /\ m[i].request \in Requests => m[i].type \in Answers
  BY <1>5 DEF MailOrder, m
<1>7. MailOrder(t)' /\ (Dying(t)' => Dying(t))
  <2>1. \A i \in 1 .. Len(n) :
          /\ n[i].type \in Deaths => i = Len(n)
          /\ n[i].request \in Requests => n[i].type \in Answers
    <3>1. ASSUME NEW i \in 1 .. Len(n)
          PROVE  /\ n[i].type \in Deaths => i = Len(n)
                 /\ n[i].request \in Requests => n[i].type \in Answers
      <4>1. PICK j \in 1 .. Len(m) : n[i] = m[j] /\ (j = Len(m) => i = Len(n))
        BY <1>3, <1>4
      <4>2. /\ m[j].type \in Deaths => j = Len(m)
            /\ m[j].request \in Requests => m[j].type \in Answers
        BY <1>6
      <4> QED
        BY <4>1, <4>2
    <3> QED
      BY <3>1
  <2>2. mailbox'[t] = n
    BY <1>2, <1>4
  <2>3. MailOrder(t)'
    BY <2>1, <2>2 DEF MailOrder
  <2>4. Dying(t)' => Dying(t)
    <3>1. ASSUME NEW i \in 1 .. Len(n), n[i].type \in Deaths
          PROVE  \E j \in 1 .. Len(m) : m[j].type \in Deaths
      BY <1>3, <1>4, <3>1
    <3> QED
      BY <2>2, <3>1 DEF Dying, m
  <2> QED
    BY <2>3, <2>4
<1>8. \A u \in Threads : MailOrder(u)' /\ (Dying(u)' => Dying(u))
  <2>1. ASSUME NEW u \in Threads, u # t PROVE MailOrder(u)' /\ (Dying(u)' => Dying(u))
    BY <1>2, <2>1 DEF MailInv, MailOrder, Dying
  <2> QED
    BY <1>7, <2>1
<1>9. type \in Deaths => mailbox'[t] = <<>> /\ Dying(t)
  <2> SUFFICES ASSUME type \in Deaths PROVE mailbox'[t] = <<>> /\ Dying(t)
    OBVIOUS
  <2>1. 1 \in 1 .. Len(m) /\ m[1].type \in Deaths
    BY <1>1, <1>3
  <2>2. Len(m) = 1
    BY <1>6, <2>1
  <2>3. n = <<>>
    BY <1>3, <1>4, <2>2
  <2> QED
    BY <1>2, <1>4, <2>1, <2>3 DEF Dying, m
<1>10. type \notin Deaths /\ Dying(t) => Dying(t)'
  <2> SUFFICES ASSUME type \notin Deaths, Dying(t) PROVE Dying(t)'
    OBVIOUS
  <2>1. PICK i \in 1 .. Len(m) : m[i].type \in Deaths
    BY DEF Dying, m
  <2>2. i # 1
    BY <1>1, <1>3, <2>1
  <2>3. i - 1 \in 1 .. Len(n) /\ n[i - 1].type \in Deaths
    BY <1>3, <1>4, <2>1, <2>2
  <2> QED
    BY <1>2, <1>4, <2>3 DEF Dying
<1>11. \A r \in Requests : Answered(t, r) => Answered(t, r)' \/ Head(m).request = r
  <2> SUFFICES ASSUME NEW r \in Requests, Answered(t, r), Head(m).request # r PROVE Answered(t, r)'
    OBVIOUS
  <2>1. PICK i \in 1 .. Len(m) : m[i].request = r
    BY DEF Answered, m
  <2>2. i # 1
    BY <1>3, <2>1
  <2>3. i - 1 \in 1 .. Len(n) /\ n[i - 1].request = r
    BY <1>3, <1>4, <2>1, <2>2
  <2> QED
    BY <1>2, <1>4, <2>3 DEF Answered
<1>12. type \notin Answers => Head(m).request \notin Requests
  <2>1. 1 \in 1 .. Len(m) /\ Head(m) = m[1]
    BY <1>3
  <2>2. m[1].request \in Requests => m[1].type \in Answers
    BY <1>6, <2>1
  <2> QED
    BY <1>1, <2>1, <2>2
<1> QED
  BY <1>1, <1>2, <1>8, <1>9, <1>10, <1>11, <1>12 DEF m

(* A thread that posts a message lives on, unless it is its last.          *)
LEMMA PostOwed ==
  ASSUME PoolInv, OwedInv, NEW t \in Threads, NEW m \in Message, NEW state,
         thread[t] \in Alive, Becomes(t, state), Posts(t, m),
         \/ m.type \in Deaths
         \/ state \in {"idle", "unusable"} /\ (thread[t] \in Requests => m.request = thread[t]),
         m.type \in Deaths => state = "dead",
         m.request \in Requests => m.type \in Answers,
         UNCHANGED <<server, slots, created, posted, pending>>
  PROVE  OwedInv'
<1> USE PoolAssumption, ThreadFacts
<1>1. /\ mailbox'[t] = Append(mailbox[t], m) /\ thread'[t] = state
      /\ \A u \in Threads : u # t => mailbox'[u] = mailbox[u] /\ thread'[u] = thread[u]
      /\ mailbox[t] \in Seq(Message)
  BY DEF Posts, Becomes, PoolInv, PoolType
<1>2. PICK n : n = Append(mailbox[t], m)
  OBVIOUS
<1>3. PICK k : k = Len(mailbox[t])
  OBVIOUS
<1>4. /\ k \in Nat /\ Len(n) = k + 1 /\ n[k + 1] = m /\ k + 1 \in 1 .. Len(n)
      /\ \A i \in 1 .. Len(n) : i = k + 1 \/ (i \in 1 .. k /\ n[i] = mailbox[t][i])
      /\ \A i \in 1 .. k : i \in 1 .. Len(n) /\ n[i] = mailbox[t][i]
  BY <1>1, <1>2, <1>3
<1>5. ~Dying(t) /\ MailOrder(t)
  BY DEF OwedInv, MailInv
<1>6. /\ Dying(t)' <=> m.type \in Deaths
      /\ MailOrder(t)'
      /\ \A r \in Requests : Answered(t, r) \/ m.request = r => Answered(t, r)'
  <2>1. \A i \in 1 .. k : mailbox[t][i].type \notin Deaths
    BY <1>3, <1>5 DEF Dying
  <2>2. \A i \in 1 .. k : mailbox[t][i].request \in Requests => mailbox[t][i].type \in Answers
    BY <1>3, <1>5 DEF MailOrder
  <2>3. \A i \in 1 .. Len(n) : /\ n[i].type \in Deaths => i = Len(n) /\ m.type \in Deaths
                               /\ n[i].request \in Requests => n[i].type \in Answers
    BY <1>4, <2>1, <2>2
  <2>4. mailbox'[t] = n
    BY <1>1, <1>2
  <2>5. \A r \in Requests : Answered(t, r) \/ m.request = r => \E i \in 1 .. Len(n) : n[i].request = r
    <3>1. ASSUME NEW r \in Requests, Answered(t, r) PROVE \E i \in 1 .. Len(n) : n[i].request = r
      BY <1>3, <1>4, <3>1 DEF Answered
    <3> QED
      BY <1>4, <3>1
  <2>6. m.type \in Deaths => \E i \in 1 .. Len(n) : n[i].type \in Deaths
    BY <1>4
  <2> QED
    BY <2>3, <2>4, <2>5, <2>6 DEF Dying, MailOrder, Answered
<1>7. \A u \in Threads : u # t => /\ Dying(u)' <=> Dying(u)
                                  /\ MailOrder(u)' <=> MailOrder(u)
                                  /\ \A r \in Requests : Answered(u, r)' <=> Answered(u, r)
  BY <1>1 DEF Dying, MailOrder, Answered
<1>8. isCurrentGeneration(t) /\ created[t] # "rejected"
  BY DEF OwedInv, CreatedInv, PoolInv, RunsAreAwaited
<1>9. "dead" \notin Alive /\ "idle" \in Alive /\ "unusable" \in Alive
  BY DEF Alive, PoolAssumption, ThreadStates
<1>10. MailInv'
  <2>1. ~(slots[t[1]].generation < t[2])
    BY <1>8 DEF isCurrentGeneration, PoolInv, PoolType
  <2> QED
    BY <1>1, <1>6, <1>7, <1>9, <2>1 DEF OwedInv, MailInv
<1>11. CreatedInv'
  BY <1>1, <1>8 DEF OwedInv, CreatedInv, isCurrentGeneration
<1>12. HeardInv'
  BY <1>1, <1>6, <1>7, <1>9 DEF OwedInv, HeardInv, isCurrentGeneration, Up
<1>13. OweInv'
  <2> SUFFICES ASSUME NEW u \in Threads, NEW r \in Requests, pending[r] = u PROVE Owed(u, r)'
    BY DEF OweInv
  <2>1. Owed(u, r)
    BY DEF OwedInv, OweInv
  <2>2. CASE u # t
    BY <1>1, <1>7, <2>1, <2>2 DEF Owed
  <2>3. CASE u = t
    BY <1>1, <1>5, <1>6, <1>9, <2>1, <2>3 DEF Owed
  <2> QED
    BY <2>2, <2>3
<1> QED
  BY <1>10, <1>11, <1>12, <1>13 DEF OwedInv

(* A delivery after which all goes on as before, but for promises.         *)
LEMMA QuietOwed ==
  ASSUME PoolInv, OwedInv, NEW t \in Threads, NEW type, Takes(t, type), type \notin Deaths,
         UNCHANGED <<server, slots, thread>>,
         \/ created' = created
         \/ isCurrentGeneration(t) /\ created' = [created EXCEPT ![t] = "resolved"],
         created \in [Threads -> {"none", "pending", "resolved", "rejected"}],
         \A r \in Requests : \/ pending'[r] = pending[r]
                             \/ pending'[r] = NoThread,
         type \in Answers =>
           \A r \in Requests : pending'[r] = t => Head(mailbox[t]).request # r
  PROVE  OwedInv'
<1> USE PoolAssumption, ThreadFacts
<1>1. /\ \A u \in Threads : u # t => mailbox'[u] = mailbox[u]
      /\ \A u \in Threads : MailOrder(u)' /\ (Dying(u)' => Dying(u))
      /\ Dying(t) => Dying(t)'
      /\ \A r \in Requests : Answered(t, r) => Answered(t, r)' \/ Head(mailbox[t]).request = r
      /\ type \notin Answers => \A r \in Requests : Answered(t, r) => Answered(t, r)'
      /\ mailbox[t] # <<>>
  BY TakenOrder DEF OwedInv
<1>2. \A u \in Threads : Dying(u) => Dying(u)'
  BY <1>1 DEF Dying
<1>3. \A u \in Threads, r \in Requests : u # t /\ Answered(u, r) => Answered(u, r)'
  BY <1>1 DEF Answered
<1>4. posted' = posted
  BY DEF Takes
<1>5. created[t] # "rejected" /\ \A u \in Threads : u # t => created'[u] = created[u]
  BY <1>1 DEF OwedInv, CreatedInv
<1>6. \A u \in Threads : created[u] = "resolved" => created'[u] = "resolved"
  OBVIOUS
<1>7. MailInv'
  <2>1. \A u \in Threads : slots[u[1]].generation < u[2] => u # t
    BY <1>1 DEF OwedInv, MailInv
  <2> QED
    BY <1>1, <2>1 DEF OwedInv, MailInv
<1>8. CreatedInv'
  <2>1. ASSUME NEW u \in Threads, created'[u] = "rejected"
        PROVE  thread[u] \notin Alive /\ mailbox'[u] = <<>>
    <3>1. u # t
      BY <1>5, <2>1
    <3> QED
      BY <1>1, <1>5, <2>1, <3>1 DEF OwedInv, CreatedInv
  <2>2. \A u \in Threads : isCurrentGeneration(u) /\ slots[u[1]].ready => created'[u] = "resolved"
    BY <1>6 DEF OwedInv, CreatedInv
  <2>3. \A u \in Threads, r \in Requests : pending'[r] = u => created'[u] = "resolved"
    BY <1>6 DEF OwedInv, CreatedInv
  <2> QED
    BY <2>1, <2>2, <2>3 DEF CreatedInv, isCurrentGeneration
<1>9. HeardInv'
  <2>1. \A u \in Threads : created[u] = "rejected" => created'[u] = "rejected"
    BY <1>5
  <2> QED
    BY <1>2, <2>1 DEF OwedInv, HeardInv, isCurrentGeneration, Up
<1>10. OweInv'
  <2> SUFFICES ASSUME NEW u \in Threads, NEW r \in Requests, pending'[r] = u PROVE Owed(u, r)'
    BY DEF OweInv
  <2>1. Owed(u, r)
    BY DEF OwedInv, OweInv
  <2>2. Answered(u, r) => Answered(u, r)'
    BY <1>1, <1>3
  <2> QED
    BY <1>2, <1>4, <2>1, <2>2 DEF Owed
<1> QED
  BY <1>7, <1>8, <1>9, <1>10 DEF OwedInv

(* A stale delivery, of a generation nobody waits for.                     *)
LEMMA StaleOwed ==
  ASSUME PoolInv, OwedInv, NEW t \in Threads, NEW type, Takes(t, type),
         ~isCurrentGeneration(t), UNCHANGED <<server, slots, thread, created, pending>>
  PROVE  OwedInv'
<1>1. /\ \A u \in Threads : u # t => mailbox'[u] = mailbox[u]
      /\ \A u \in Threads : MailOrder(u)' /\ (Dying(u)' => Dying(u))
      /\ mailbox[t] # <<>>
  BY TakenOrder DEF OwedInv
<1>2. \A u \in Threads : u # t => /\ Dying(u)' <=> Dying(u)
                                  /\ \A r \in Requests : Answered(u, r)' <=> Answered(u, r)
  BY <1>1 DEF Dying, Answered
<1>3. \A r \in Requests : pending[r] # t
  BY ThreadFacts DEF PoolInv, PendingInv
<1>4. posted' = posted
  BY DEF Takes
<1>5. MailInv'
  <2>1. \A u \in Threads : slots[u[1]].generation < u[2] => u # t
    BY <1>1 DEF OwedInv, MailInv
  <2> QED
    BY <1>1, <2>1 DEF OwedInv, MailInv
<1>6. CreatedInv'
  BY <1>1 DEF OwedInv, CreatedInv, isCurrentGeneration
<1>7. HeardInv'
  <2>1. \A u \in Threads : isCurrentGeneration(u) => u # t
    OBVIOUS
  <2> QED
    BY <1>2, <2>1 DEF OwedInv, HeardInv, isCurrentGeneration, Up
<1>8. OweInv'
  BY <1>2, <1>3, <1>4 DEF OwedInv, OweInv, Owed
<1> QED
  BY <1>5, <1>6, <1>7, <1>8 DEF OwedInv

(* The main thread hears of the death of a thread before it was ready.     *)
LEMMA RejectedOwed ==
  ASSUME PoolInv, OwedInv, NEW t \in Threads, Takes(t, "uncaught"), created[t] = "pending",
         created' = [created EXCEPT ![t] = "rejected"],
         created \in [Threads -> {"none", "pending", "resolved", "rejected"}],
         UNCHANGED <<slots, thread, pending>>, Up' => Up
  PROVE  OwedInv'
<1>1. /\ \A u \in Threads : u # t => mailbox'[u] = mailbox[u]
      /\ \A u \in Threads : MailOrder(u)' /\ (Dying(u)' => Dying(u))
      /\ mailbox'[t] = <<>> /\ Dying(t)
  <2>1. "uncaught" \in Deaths
    BY DEF Deaths
  <2> QED
    BY <2>1, TakenOrder DEF OwedInv
<1>2. \A u \in Threads : u # t => /\ Dying(u)' <=> Dying(u)
                                  /\ \A r \in Requests : Answered(u, r)' <=> Answered(u, r)
  BY <1>1 DEF Dying, Answered
<1>3. thread[t] \notin Alive /\ \A r \in Requests : pending[r] # t
  BY <1>1 DEF OwedInv, MailInv, CreatedInv
<1>4. ~(isCurrentGeneration(t) /\ slots[t[1]].ready)
  BY DEF OwedInv, CreatedInv
<1>5. created'[t] = "rejected" /\ (\A u \in Threads : u # t => created'[u] = created[u])
      /\ posted' = posted
  BY DEF Takes
<1>6. MailInv'
  BY <1>1 DEF OwedInv, MailInv
<1>7. CreatedInv'
  BY <1>1, <1>3, <1>4, <1>5 DEF OwedInv, CreatedInv, isCurrentGeneration
<1>8. HeardInv'
  BY <1>2, <1>5 DEF OwedInv, HeardInv, isCurrentGeneration
<1>9. OweInv'
  BY <1>2, <1>3, <1>5 DEF OwedInv, OweInv, Owed
<1> QED
  BY <1>6, <1>7, <1>8, <1>9 DEF OwedInv

(* A generation ends and everybody who waited for it is told.              *)
LEMMA FailureOwed ==
  ASSUME PoolInv, OwedInv, NEW t \in Threads, NEW p, NEW o, isCurrentGeneration(t),
         \A r \in Requests : p[r] = pending[r] \/ p[r] = NoThread,
         created \in [Threads -> {"none", "pending", "resolved", "rejected"}],
         handleWorkerFailure(t, p, o), UNCHANGED <<server, posted>>,
         \A u \in Threads : u # t => mailbox'[u] = mailbox[u],
         \A u \in Threads : MailOrder(u)',
         mailbox[t] = <<>> => mailbox'[t] = <<>>
  PROVE  OwedInv'
<1> DEFINE next == <<t[1], t[2] + 1>>
<1> USE PoolAssumption, ThreadFacts
<1>0. /\ thread' = [thread EXCEPT ![t] = "dead", ![next] = "loading"]
      /\ pending' = [r \in Requests |-> IF p[r] = t THEN NoThread ELSE p[r]]
      /\ slots' = [slots EXCEPT ![t[1]] = [generation |-> t[2] + 1, ready |-> FALSE]]
      /\ created' = [created EXCEPT ![next] = "pending"]
  BY DEF handleWorkerFailure, createWorker
<1>1. /\ thread' = [thread EXCEPT ![t] = "dead", ![next] = "loading"]
      /\ \A r \in Requests : pending'[r] = IF p[r] = t THEN NoThread ELSE p[r]
      /\ slots' = [slots EXCEPT ![t[1]] = [generation |-> t[2] + 1, ready |-> FALSE]]
      /\ created' = [created EXCEPT ![next] = "pending"]
  BY <1>0
<1>2. next[1] = t[1] /\ next[2] = t[2] + 1 /\ next # t
  <2>1. next[1] = t[1] /\ next[2] = t[2] + 1
    OBVIOUS
  <2> QED
    BY <2>1
<1>3. slots[t[1]].generation = t[2] /\ slots'[t[1]].generation = t[2] + 1 /\ ~slots'[t[1]].ready
      /\ \A w \in Slots : w # t[1] => slots'[w] = slots[w]
  BY <1>1 DEF isCurrentGeneration, PoolInv, PoolType
<1>4. \A u \in Threads : /\ thread'[u] = IF u = next THEN "loading" ELSE IF u = t THEN "dead" ELSE thread[u]
                         /\ created'[u] = IF u = next THEN "pending" ELSE created[u]
  BY <1>1 DEF PoolInv, PoolType
<1>5. \A u \in Threads : u[1] = t[1] /\ u[2] = t[2] + 1 => u = next
  OBVIOUS
<1> HIDE DEF next
<1>6. next \in Threads => mailbox[next] = <<>> /\ mailbox'[next] = <<>>
  <2>1. next \in Threads => slots[next[1]].generation < next[2]
    BY <1>2, <1>3
  <2> QED
    BY <1>2, <2>1 DEF OwedInv, MailInv
<1>7. \A u \in Threads : u # t => /\ Dying(u)' <=> Dying(u)
                                  /\ \A r \in Requests : Answered(u, r)' <=> Answered(u, r)
  BY DEF Dying, Answered
<1>8. "dead" \notin Alive /\ "loading" \in Alive
  BY DEF Alive, PoolAssumption, ThreadStates
<1>9. MailInv'
  <2>1. \A u \in Threads : thread'[u] \in Alive => ~Dying(u)'
    <3>1. ASSUME NEW u \in Threads, thread'[u] \in Alive, Dying(u)' PROVE FALSE
      <4>1. u # t
        BY <1>2, <1>4, <1>8, <3>1
      <4>2. Dying(u) /\ mailbox'[u] = mailbox[u]
        BY <1>7, <3>1, <4>1
      <4>3. CASE u = next
        <5>1. Len(mailbox[u]) = 0
          BY <1>6, <4>3
        <5> QED
          BY <4>2, <5>1 DEF Dying
      <4>4. CASE u # next
        BY <1>4, <3>1, <4>1, <4>2, <4>4 DEF OwedInv, MailInv
      <4> QED
        BY <4>3, <4>4
    <3> QED
      BY <3>1
  <2>2. ASSUME NEW u \in Threads, slots'[u[1]].generation < u[2] PROVE mailbox'[u] = <<>>
    <3>1. slots[u[1]].generation < u[2]
      <4>1. CASE u[1] = t[1]
        BY <1>3, <2>2, <4>1
      <4>2. CASE u[1] # t[1]
        BY <1>3, <2>2, <4>2
      <4> QED
        BY <4>1, <4>2
    <3>2. mailbox[u] = <<>>
      BY <3>1 DEF OwedInv, MailInv
    <3> QED
      BY <3>2
  <2> QED
    BY <2>1, <2>2 DEF MailInv
<1>10. \A r \in Requests, u \in Threads :
         pending'[r] = u => /\ pending[r] = u /\ u # t /\ u[1] # t[1]
                            /\ u # next
  <2> SUFFICES ASSUME NEW r \in Requests, NEW u \in Threads, pending'[r] = u
               PROVE  pending[r] = u /\ u # t /\ u[1] # t[1] /\ u # next
    OBVIOUS
  <2>1. pending[r] = u /\ u # t
    BY <1>1
  <2>2. isCurrentGeneration(u)
    BY <2>1 DEF PoolInv, PendingInv
  <2>3. u[1] # t[1]
    BY <1>3, <2>1, <2>2 DEF isCurrentGeneration
  <2> QED
    BY <1>2, <2>1, <2>3
<1>11. CreatedInv'
  <2>1. ASSUME NEW u \in Threads, created'[u] = "rejected"
        PROVE  thread'[u] \notin Alive /\ mailbox'[u] = <<>>
    <3>1. created[u] = "rejected" /\ u # next
      BY <1>4, <2>1
    <3>2. thread[u] \notin Alive /\ mailbox[u] = <<>>
      BY <3>1 DEF OwedInv, CreatedInv
    <3> QED
      BY <1>4, <1>8, <3>1, <3>2
  <2>2. ASSUME NEW u \in Threads, slots'[u[1]].generation = u[2], slots'[u[1]].ready
        PROVE  created'[u] = "resolved"
    <3>1. u[1] # t[1] /\ slots'[u[1]] = slots[u[1]] /\ u # next
      BY <1>2, <1>3, <2>2
    <3>2. created[u] = "resolved"
      BY <2>2, <3>1 DEF OwedInv, CreatedInv, isCurrentGeneration
    <3> QED
      BY <1>4, <3>1, <3>2
  <2>3. \A u \in Threads, r \in Requests : pending'[r] = u => created'[u] = "resolved"
    BY <1>4, <1>10 DEF OwedInv, CreatedInv
  <2> QED
    BY <2>1, <2>2, <2>3 DEF CreatedInv, isCurrentGeneration
<1>12. HeardInv'
  <2>1. ASSUME Up', NEW u \in Threads, slots'[u[1]].generation = u[2]
        PROVE  thread'[u] \in Alive \/ Dying(u)' \/ created'[u] = "rejected"
    <3>1. CASE u[1] = t[1]
      <4>1. u = next
        BY <1>3, <1>5, <2>1, <3>1
      <4> QED
        BY <1>4, <1>8, <4>1
    <3>2. CASE u[1] # t[1]
      <4>1. u # t /\ u # next /\ slots'[u[1]] = slots[u[1]]
        BY <1>2, <1>3, <3>2
      <4>2. Up /\ isCurrentGeneration(u)
        BY <2>1, <4>1 DEF Up, isCurrentGeneration
      <4>3. thread[u] \in Alive \/ Dying(u) \/ created[u] = "rejected"
        BY <4>2 DEF OwedInv, HeardInv
      <4> QED
        BY <1>4, <1>7, <4>1, <4>3
    <3> QED
      BY <3>1, <3>2
  <2> QED
    BY <2>1 DEF HeardInv, isCurrentGeneration
<1>13. OweInv'
  <2> SUFFICES ASSUME NEW u \in Threads, NEW r \in Requests, pending'[r] = u PROVE Owed(u, r)'
    BY DEF OweInv
  <2>1. pending[r] = u /\ u # t /\ u # next
    BY <1>10
  <2>2. Owed(u, r)
    BY <2>1 DEF OwedInv, OweInv
  <2> QED
    BY <1>4, <1>7, <2>1, <2>2 DEF Owed
<1> QED
  BY <1>9, <1>11, <1>12, <1>13 DEF OwedInv

LEMMA ExecuteOwed ==
  ASSUME PoolInv, OwedInv, NEW r \in Requests, Execute(r)
  PROVE  OwedInv'
<1> USE PoolAssumption, ThreadFacts
<1>1. UNCHANGED <<server, slots, created, thread, mailbox>> /\ server = "serving"
  BY DEF Execute
<1>2. MailInv' /\ HeardInv'
  BY <1>1 DEF OwedInv, MailInv, MailOrder, HeardInv, Dying, Up, isCurrentGeneration
<1>3. \A u \in Threads : /\ Dying(u)' <=> Dying(u)
                         /\ \A q \in Requests : Answered(u, q)' <=> Answered(u, q)
  BY <1>1 DEF Dying, Answered
<1>4. CASE UNCHANGED <<pending, posted>>
  <2>1. CreatedInv'
    BY <1>1, <1>4 DEF OwedInv, CreatedInv, isCurrentGeneration
  <2>2. OweInv'
    BY <1>1, <1>3, <1>4 DEF OwedInv, OweInv, Owed
  <2> QED
    BY <1>2, <2>1, <2>2 DEF OwedInv
<1>5. ASSUME NEW w \in Slots, Ready(w), pending' = [pending EXCEPT ![r] = Current(w)],
             posted' = [posted EXCEPT ![Current(w)] = @ \cup {r}]
      PROVE  OwedInv'
  <2> DEFINE t == Current(w)
  <2>1. t \in Threads /\ t[1] = w /\ isCurrentGeneration(t)
    BY <1>5 DEF Current, Threads, Ready, PoolInv, ReadyInv, isCurrentGeneration
  <2>2. \A q \in Requests : pending'[q] = IF q = r THEN t ELSE pending[q]
    BY <1>5 DEF PoolInv, PoolType
  <2>3. \A u \in Threads : posted'[u] = IF u = t THEN posted[t] \cup {r} ELSE posted[u]
    BY <1>5 DEF PoolInv, PoolType
  <2> HIDE DEF t
  <2>4. created[t] = "resolved"
    BY <1>5, <2>1 DEF OwedInv, CreatedInv, Ready
  <2>5. thread[t] \in Alive \/ Dying(t)
    BY <1>1, <2>1, <2>4 DEF OwedInv, HeardInv, Up
  <2>6. CreatedInv'
    BY <1>1, <2>2, <2>4 DEF OwedInv, CreatedInv, isCurrentGeneration
  <2>7. OweInv'
    <3> SUFFICES ASSUME NEW u \in Threads, NEW q \in Requests, pending'[q] = u PROVE Owed(u, q)'
      BY DEF OweInv
    <3>1. CASE q = r
      BY <1>1, <1>3, <2>2, <2>3, <2>5, <3>1 DEF Owed
    <3>2. CASE q # r
      <4>1. Owed(u, q)
        BY <2>2, <3>2 DEF OwedInv, OweInv
      <4> QED
        BY <1>1, <1>3, <2>3, <4>1 DEF Owed
    <3> QED
      BY <3>1, <3>2
  <2> QED
    BY <1>2, <2>6, <2>7 DEF OwedInv
<1> QED
  BY <1>4, <1>5 DEF Execute

LEMMA BeginOwed ==
  ASSUME PoolInv, OwedInv, NEW t \in Threads, NEW r \in Requests, Begin(t, r)
  PROVE  OwedInv'
<1> USE PoolAssumption, ThreadFacts
<1>1. \A u \in Threads : thread'[u] = (IF u = t THEN r ELSE thread[u])
                         /\ posted'[u] = (IF u = t THEN posted[t] \ {r} ELSE posted[u])
  BY DEF Begin, Becomes, PoolInv, PoolType
<1>2. thread[t] = "idle" /\ thread[t] \in Alive /\ r \in posted[t] /\ r \in Alive
  BY DEF Begin, Alive
<1>3. UNCHANGED <<server, slots, created, mailbox, pending>>
  BY DEF Begin
<1>4. \A u \in Threads : /\ Dying(u)' <=> Dying(u)
                         /\ \A q \in Requests : Answered(u, q)' <=> Answered(u, q)
                         /\ thread'[u] \in Alive <=> thread[u] \in Alive
  BY <1>1, <1>2, <1>3 DEF Dying, Answered
<1>5. MailInv'
  BY <1>3, <1>4 DEF OwedInv, MailInv, MailOrder
<1>6. CreatedInv' /\ HeardInv'
  BY <1>3, <1>4 DEF OwedInv, CreatedInv, HeardInv, isCurrentGeneration, Up
<1>7. OweInv'
  <2> SUFFICES ASSUME NEW u \in Threads, NEW q \in Requests, pending[q] = u PROVE Owed(u, q)'
    BY <1>3 DEF OweInv
  <2>1. Owed(u, q)
    BY DEF OwedInv, OweInv
  <2>2. thread[u] # q \/ u # t
    BY <1>2 DEF PoolAssumption, ThreadStates
  <2> QED
    BY <1>1, <1>3, <1>4, <2>1, <2>2 DEF Owed
<1> QED
  BY <1>5, <1>6, <1>7 DEF OwedInv

LEMMA TerminateOwed ==
  ASSUME PoolInv, OwedInv, Terminate
  PROVE  OwedInv'
<1> USE PoolAssumption, ThreadFacts
<1>1. /\ \A u \in Threads : thread'[u] = IF thread[u] \in Alive THEN "dead" ELSE thread[u]
      /\ \A r \in Requests : pending'[r] = NoThread
      /\ UNCHANGED <<slots, created, posted, mailbox>> /\ server' = "terminated"
  BY DEF Terminate
<1>2. \A u \in Threads : thread'[u] \notin Alive
  BY <1>1 DEF Alive, PoolAssumption, ThreadStates
<1>3. MailInv'
  BY <1>1, <1>2 DEF OwedInv, MailInv, MailOrder, Dying
<1>4. CreatedInv'
  BY <1>1, <1>2 DEF OwedInv, CreatedInv, isCurrentGeneration
<1>5. HeardInv' /\ OweInv'
  BY <1>1 DEF HeardInv, Up, OweInv
<1> QED
  BY <1>3, <1>4, <1>5 DEF OwedInv

LEMMA ReadyOwed ==
  ASSUME PoolInv, OwedInv, NEW t \in Threads, isCurrentGeneration(t), Takes(t, "ready"),
         created \in [Threads -> {"none", "pending", "resolved", "rejected"}],
         slots' = [slots EXCEPT ![t[1]].ready = TRUE],
         created' = [created EXCEPT ![t] = "resolved"],
         UNCHANGED <<thread, pending>>
  PROVE  OwedInv'
<1> USE PoolAssumption, ThreadFacts
<1>1. /\ \A u \in Threads : u # t => mailbox'[u] = mailbox[u]
      /\ \A u \in Threads : MailOrder(u)' /\ (Dying(u)' => Dying(u))
      /\ Dying(t) => Dying(t)'
      /\ \A r \in Requests : Answered(t, r) => Answered(t, r)'
      /\ mailbox[t] # <<>>
  <2>1. "ready" \notin Deaths /\ "ready" \notin Answers
    BY DEF Deaths, Answers
  <2> QED
    BY <2>1, TakenOrder DEF OwedInv
<1>2. \A u \in Threads : Dying(u) => Dying(u)'
  BY <1>1 DEF Dying
<1>3. \A u \in Threads, r \in Requests : Answered(u, r) => Answered(u, r)'
  <2>1. \A u \in Threads, r \in Requests : u # t /\ Answered(u, r) => Answered(u, r)'
    BY <1>1 DEF Answered
  <2> QED
    BY <1>1, <2>1
<1>4. posted' = posted /\ Up
  BY DEF Takes
<1>5. created[t] # "rejected" /\ created'[t] = "resolved"
      /\ \A u \in Threads : u # t => created'[u] = created[u]
  BY <1>1 DEF OwedInv, CreatedInv
<1>6. \A w \in Slots : /\ slots'[w].generation = slots[w].generation
                       /\ w # t[1] => slots'[w].ready = slots[w].ready
  <2>1. slots \in [Slots -> [generation : Nat, ready : BOOLEAN]]
    BY DEF PoolInv, PoolType
  <2>2. ASSUME NEW w \in Slots
        PROVE  slots'[w] = IF w = t[1] THEN [slots[w] EXCEPT !.ready = TRUE] ELSE slots[w]
    BY <2>1
  <2>3. ASSUME NEW w \in Slots PROVE [slots[w] EXCEPT !.ready = TRUE].generation = slots[w].generation
    BY <2>1
  <2> QED
    BY <2>2, <2>3
<1>7. \A u \in Threads : u[1] = t[1] /\ isCurrentGeneration(u) => u = t
  BY DEF isCurrentGeneration
<1>8. MailInv'
  <2>1. \A u \in Threads : slots[u[1]].generation < u[2] => u # t
    BY <1>1 DEF OwedInv, MailInv
  <2> QED
    BY <1>1, <1>6, <2>1 DEF OwedInv, MailInv
<1>9. \A u \in Threads : isCurrentGeneration(u)' <=> isCurrentGeneration(u)
  BY <1>6 DEF isCurrentGeneration
<1>10. CreatedInv'
  <2>1. ASSUME NEW u \in Threads, created'[u] = "rejected"
        PROVE  thread[u] \notin Alive /\ mailbox'[u] = <<>>
    <3>1. u # t
      BY <1>5, <2>1
    <3> QED
      BY <1>1, <1>5, <2>1, <3>1 DEF OwedInv, CreatedInv
  <2>2. ASSUME NEW u \in Threads, isCurrentGeneration(u), slots'[u[1]].ready
        PROVE  created'[u] = "resolved"
    <3>1. CASE u = t
      BY <1>5, <3>1
    <3>2. CASE u # t
      <4>1. slots[u[1]].ready
        BY <1>6, <1>7, <2>2, <3>2
      <4> QED
        BY <1>5, <2>2, <3>2, <4>1 DEF OwedInv, CreatedInv
    <3> QED
      BY <3>1, <3>2
  <2>3. \A u \in Threads, r \in Requests : pending[r] = u => created'[u] = "resolved"
    BY <1>5 DEF OwedInv, CreatedInv
  <2> QED
    BY <1>9, <2>1, <2>2, <2>3 DEF CreatedInv
<1>11. HeardInv'
  <2>1. \A u \in Threads : created[u] = "rejected" => created'[u] = "rejected"
    BY <1>5
  <2> QED
    BY <1>2, <1>4, <1>9, <2>1 DEF OwedInv, HeardInv
<1>12. OweInv'
  BY <1>2, <1>3, <1>4 DEF OwedInv, OweInv, Owed
<1> QED
  BY <1>8, <1>10, <1>11, <1>12 DEF OwedInv

(* The news of the death of a thread is taken.                             *)
LEMMA FailureTaken ==
  ASSUME PoolInv, OwedInv, NEW t \in Threads, NEW type, Takes(t, type), isCurrentGeneration(t),
         created \in [Threads -> {"none", "pending", "resolved", "rejected"}],
         NEW p, NEW o, \A r \in Requests : p[r] = pending[r] \/ p[r] = NoThread,
         handleWorkerFailure(t, p, o), server' = server
  PROVE  OwedInv'
<1>1. /\ \A u \in Threads : u # t => mailbox'[u] = mailbox[u]
      /\ \A u \in Threads : MailOrder(u)'
      /\ mailbox[t] # <<>> /\ posted' = posted
  BY TakenOrder DEF OwedInv, Takes
<1> QED
  BY <1>1, FailureOwed

LEMMA DeliveredOwed ==
  ASSUME PoolInv, RestType, OwedInv, NEW t \in Threads, Deliver(t)
  PROVE  OwedInv'
<1> USE PoolAssumption, ThreadFacts
<1>0. created \in [Threads -> {"none", "pending", "resolved", "rejected"}]
  BY DEF RestType
<1>1. CASE OnReady(t)
  <2>1. Takes(t, "ready") /\ UNCHANGED <<thread, pending>> /\ Up
    BY <1>1 DEF OnReady, Takes
  <2>2. CASE ~isCurrentGeneration(t)
    BY <1>1, <2>1, <2>2, StaleOwed DEF OnReady
  <2>3. CASE isCurrentGeneration(t)
    BY <1>0, <1>1, <2>1, <2>3, ReadyOwed DEF OnReady
  <2> QED
    BY <2>2, <2>3
<1>2. CASE OnInitError(t)
  <2>1. /\ Takes(t, "init error") /\ UNCHANGED <<server, slots, created, thread, pending>>
        /\ "init error" \notin Deaths /\ "init error" \notin Answers
    BY <1>2 DEF OnInitError, Deaths, Answers
  <2> QED
    BY <1>0, <2>1, QuietOwed
<1>3. ASSUME NEW type \in {"result", "error"}, OnAnswer(t, type) PROVE OwedInv'
  <2> DEFINE r == Head(mailbox[t]).request
  <2>1. Takes(t, type) /\ UNCHANGED <<server, slots, created, thread>> /\ type \notin Deaths
    BY <1>3 DEF OnAnswer, Deaths
  <2>2. r \in Requests /\ Answered(t, r)
    BY <2>1, Taken
  <2>3. CASE ~isCurrentGeneration(t)
    <3>1. pending' = pending
      BY <1>3, <2>3 DEF OnAnswer
    <3> QED
      BY <2>1, <2>3, <3>1, StaleOwed
  <2>4. CASE isCurrentGeneration(t)
    <3>1. pending' = IF pending[r] # NoThread THEN [pending EXCEPT ![r] = NoThread] ELSE pending
      BY <1>3, <2>4 DEF OnAnswer, Settle
    <3>2. pending \in [Requests -> Threads \cup {NoThread}]
      BY DEF PoolInv, PoolType
    <3>3. \A q \in Requests : /\ pending'[q] = pending[q] \/ pending'[q] = NoThread
                              /\ pending'[q] = t => r # q
      BY <2>2, <3>1, <3>2
    <3> QED
      BY <1>0, <2>1, <3>3, QuietOwed
  <2> QED
    BY <2>3, <2>4
<1>4. CASE OnFatal(t)
  <2> DEFINE r == Head(mailbox[t]).request
  <2>1. Takes(t, "fatal") /\ server' = server
    BY <1>4 DEF OnFatal
  <2>2. CASE ~isCurrentGeneration(t)
    BY <1>4, <2>1, <2>2, StaleOwed DEF OnFatal
  <2>3. CASE isCurrentGeneration(t)
    <3>1. \/ handleWorkerFailure(t, pending, outcome)
          \/ handleWorkerFailure(t, Settle(pending, r), Answer(outcome, {r}, "error"))
      BY <1>4, <2>3 DEF OnFatal
    <3>2. CASE handleWorkerFailure(t, pending, outcome)
      BY <1>0, <2>1, <2>3, <3>2, FailureTaken
    <3>3. CASE handleWorkerFailure(t, Settle(pending, r), Answer(outcome, {r}, "error"))
      <4>1. PICK p : p = Settle(pending, r)
        OBVIOUS
      <4>2. \A q \in Requests : p[q] = pending[q] \/ p[q] = NoThread
        BY <4>1 DEF Settle, PoolInv, PoolType
      <4> QED
        BY <1>0, <2>1, <2>3, <3>3, <4>1, <4>2, FailureTaken
    <3> QED
      BY <3>1, <3>2, <3>3
  <2> QED
    BY <2>2, <2>3
<1>5. CASE OnUncaught(t)
  <2>1. Takes(t, "uncaught")
    BY <1>5 DEF OnUncaught
  <2>2. CASE created[t] = "pending"
    <3>1. created' = [created EXCEPT ![t] = "rejected"] /\ UNCHANGED <<slots, thread, pending>>
          /\ (server' = "failed" \/ server' = server)
      BY <1>5, <2>2 DEF OnUncaught
    <3>2. Up' => Up
      BY <3>1 DEF Up
    <3> QED
      BY <1>0, <2>1, <2>2, <3>1, <3>2, RejectedOwed
  <2>3. CASE created[t] # "pending"
    <3>1. handleWorkerFailure(t, pending, outcome) /\ server' = server
      BY <1>5, <2>3 DEF OnUncaught
    <3>2. CASE isCurrentGeneration(t)
      BY <1>0, <2>1, <3>1, <3>2, FailureTaken
    <3>3. CASE ~isCurrentGeneration(t)
      BY <2>1, <3>1, <3>3, StaleOwed DEF handleWorkerFailure
    <3> QED
      BY <3>2, <3>3
  <2> QED
    BY <2>2, <2>3
<1> QED
  BY <1>1, <1>2, <1>3, <1>4, <1>5 DEF Deliver

LEMMA TimeoutOwed ==
  ASSUME PoolInv, RestType, OwedInv, NEW r \in Requests, Timeout(r)
  PROVE  OwedInv'
<1>1. PICK t \in Threads : t = pending[r] /\ isCurrentGeneration(t)
  BY DEF Timeout, PoolInv, PoolType, PendingInv
<1>2. PICK p : p = Settle(pending, r)
  OBVIOUS
<1>3. \A q \in Requests : p[q] = pending[q] \/ p[q] = NoThread
  BY <1>2 DEF Settle, PoolInv, PoolType
<1>4. handleWorkerFailure(t, p, Answer(outcome, {r}, "timeout")) /\ UNCHANGED <<server, posted, mailbox>>
  BY <1>1, <1>2 DEF Timeout
<1>5. \A u \in Threads : MailOrder(u)'
  BY <1>4 DEF OwedInv, MailInv, MailOrder
<1>6. created \in [Threads -> {"none", "pending", "resolved", "rejected"}]
  BY DEF RestType
<1> QED
  BY <1>1, <1>3, <1>4, <1>5, <1>6, FailureOwed

(* The steps of a thread are posts, except Begin.                          *)
LEMMA ThreadOwed ==
  ASSUME PoolInv, OwedInv, NEW t \in Threads, Load(t) \/ Complete(t) \/ TerminateRuntime(t) \/ Crash(t)
  PROVE  OwedInv'
<1> USE PoolAssumption
<1>1. \A type \in MessageTypes, r \in Requests \cup {None} :
        /\ Post(type, r) \in Message
        /\ Post(type, r).type = type /\ Post(type, r).request = r
  BY DEF Message, Post
<1>2. None \notin Requests /\ "loading" \notin Requests
  BY DEF PoolAssumption, ThreadStates
<1>3. CASE Load(t)
  <2>1. /\ thread[t] = "loading" /\ thread[t] \in Alive
        /\ UNCHANGED <<server, slots, created, posted, pending>>
    BY <1>3 DEF Load, Alive
  <2>2. PICK state \in {"idle", "unusable"} : \E type \in {"ready", "init error"} :
          Becomes(t, state) /\ Posts(t, Post(type, None))
    BY <1>3 DEF Load
  <2>3. PICK type \in {"ready", "init error"} : Becomes(t, state) /\ Posts(t, Post(type, None))
    BY <2>2
  <2>4. type \in MessageTypes /\ type \notin Deaths
    BY DEF MessageTypes, Deaths
  <2>5. PICK m : m = Post(type, None)
    OBVIOUS
  <2>6. m \in Message /\ m.request = None /\ m.type \notin Deaths
    BY <1>1, <2>4, <2>5
  <2> QED
    BY <1>2, <2>1, <2>3, <2>5, <2>6, PostOwed
<1>4. CASE Complete(t)
  <2>1. /\ thread[t] \in Requests /\ thread[t] \in Alive /\ Becomes(t, "idle")
        /\ UNCHANGED <<server, slots, created, posted, pending>>
    BY <1>4 DEF Complete, Alive
  <2>2. PICK type \in {"result", "error"} : Posts(t, Post(type, thread[t]))
    BY <1>4 DEF Complete
  <2>3. type \in MessageTypes /\ type \notin Deaths /\ type \in Answers
    BY DEF MessageTypes, Deaths, Answers
  <2>4. PICK m : m = Post(type, thread[t])
    OBVIOUS
  <2>5. m \in Message /\ m.request = thread[t] /\ m.type \notin Deaths /\ m.type \in Answers
    BY <1>1, <2>1, <2>3, <2>4
  <2> QED
    BY <2>1, <2>2, <2>4, <2>5, PostOwed
<1>5. CASE TerminateRuntime(t)
  <2>1. /\ thread[t] \in Requests /\ thread[t] \in Alive /\ Becomes(t, "dead")
        /\ UNCHANGED <<server, slots, created, posted, pending>>
    BY <1>5 DEF TerminateRuntime, Alive
  <2>2. PICK m : m = Post("fatal", thread[t]) /\ Posts(t, m)
    BY <1>5 DEF TerminateRuntime
  <2>3. m \in Message /\ m.type \in Deaths /\ m.type \in Answers
    BY <1>1, <2>1, <2>2 DEF MessageTypes, Deaths, Answers
  <2> QED
    BY <2>1, <2>2, <2>3, PostOwed
<1>6. CASE Crash(t)
  <2>1. /\ thread[t] \in Alive /\ Becomes(t, "dead")
        /\ UNCHANGED <<server, slots, created, posted, pending>>
    BY <1>6 DEF Crash
  <2>2. PICK m : m = Post("uncaught", None) /\ Posts(t, m)
    BY <1>6 DEF Crash
  <2>3. m \in Message /\ m.type \in Deaths /\ m.request = None
    BY <1>1, <2>2 DEF MessageTypes, Deaths
  <2> QED
    BY <1>2, <2>1, <2>2, <2>3, PostOwed
<1> QED
  BY <1>3, <1>4, <1>5, <1>6

LEMMA StepOwed == PoolInv /\ RestType /\ OwedInv /\ [Next]_vars => OwedInv'
<1> SUFFICES ASSUME PoolInv, RestType, OwedInv, [Next]_vars PROVE OwedInv'
  OBVIOUS
<1>1. CASE UNCHANGED vars
  BY <1>1 DEF vars, OwedInv, MailInv, MailOrder, CreatedInv, HeardInv, OweInv, Owed, Dying, Answered,
              isCurrentGeneration, Up
<1>2. ASSUME NEW t \in Threads,
             \/ Load(t) \/ Complete(t) \/ TerminateRuntime(t) \/ Crash(t) \/ Deliver(t)
             \/ \E r \in Requests : Begin(t, r)
      PROVE  OwedInv'
  BY <1>2, ThreadOwed, DeliveredOwed, BeginOwed
<1>3. ASSUME NEW r \in Requests, Execute(r) \/ Timeout(r) PROVE OwedInv'
  BY <1>3, ExecuteOwed, TimeoutOwed
<1> QED
  BY <1>1, <1>2, <1>3, TerminateOwed DEF Next

(* worker-pool.ts: whoever waits has his request at a living thread, or an *)
(* answer or the news of its death under way to him; the timer of execute  *)
(* is never all that is left.                                              *)
THEOREM NobodyWaitsInVain == Spec => []WaitsAreOwed
<1>1. Init => PoolInv /\ RestType /\ OwedInv
  BY InitPool, InitRest, InitOwed
<1>2. PoolInv /\ RestType /\ OwedInv /\ [Next]_vars => (PoolInv /\ RestType /\ OwedInv)'
  BY StepPool, StepRest, StepOwed
<1>3. PoolInv /\ OwedInv => WaitsAreOwed
  <2> SUFFICES ASSUME PoolInv, OwedInv, NEW r \in Requests, outcome[r] = "waiting"
               PROVE  \E t \in Threads :
                        /\ pending[r] = t
                        /\ \/ thread[t] \in Alive /\ (r \in posted[t] \/ thread[t] = r)
                           \/ \E i \in DOMAIN mailbox[t] : Pays(mailbox[t][i], r)
    BY DEF WaitsAreOwed
  <2>1. PICK t \in Threads : pending[r] = t
    BY DEF PoolInv, PoolType, PendingInv
  <2>2. Owed(t, r) /\ mailbox[t] \in Seq(Message)
    BY <2>1 DEF OwedInv, OweInv, PoolInv, PoolType
  <2>3. DOMAIN mailbox[t] = 1 .. Len(mailbox[t])
    BY <2>2
  <2> QED
    BY <2>1, <2>2, <2>3 DEF Owed, Dying, Answered, Pays, Deaths
<1> QED
  BY <1>1, <1>2, <1>3, PTL DEF Spec

=============================================================================
