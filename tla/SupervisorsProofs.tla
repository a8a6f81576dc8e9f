-------------------------- MODULE SupervisorsProofs --------------------------
(***************************************************************************)
(* For any number of supervisors of either kind, whatever their children   *)
(* do and whenever they are signalled: who ends and was not cut short has  *)
(* cleaned up after itself, the watchdog raises no false alarm, and a      *)
(* schema that is ready has its tables.                                    *)
(*                                                                         *)
(* And for any command line, environment and configuration file: the       *)
(* gateway a supervisor starts runs as the command line says, and the      *)
(* helpers it calls are there.                                             *)
(***************************************************************************)
EXTENDS Supervisors, Configuration, TLAPS

ServePlaces ==
  {"idle", "metrics", "schema", "ports", "upstream", "spawn ci", "append ci", "wait ci", "spawn mcp",
   "append mcp", "wait mcp", "spawn gw", "append gw", "wait gw", "serving", "cleanup", "exited"}
IntegratedPlaces ==
  {"idle", "schema", "port ci", "spawn ci", "append ci", "wait ci", "port mcp", "spawn mcp",
   "append mcp", "wait mcp", "watch", "serving", "stop", "join", "cleanup", "exited"}
ChildState == {"none", "booting", "ready", "quitting"} \cup Ended

BeforeGateway ==
  {"append ci", "append mcp", "spawn ci", "spawn mcp", "spawn gw", "wait ci",
   "wait mcp", "idle", "metrics", "schema", "ports", "upstream"}
Watchable == {"serving", "stop", "join", "cleanup", "exited"}
Appending == {"append ci", "append mcp", "append gw"}

(* The types that matter to the other invariants.                          *)
SupervisorType ==
  /\ spec \in [Proc -> ServeSpec]
  /\ child \in [Proc -> [Role -> ChildState]]
  /\ procs \in [Proc -> Seq(Role)]
  /\ stopping \in [Proc -> [Thread -> Seq(Role)]]
  /\ at \in [Proc -> ServePlaces \cup IntegratedPlaces]
  /\ cut \subseteq Proc
  /\ dirs \subseteq Proc
  /\ watchdog \in [Proc -> {"off", "polling", "scanning", "seen", "terminating"}]
  /\ saw \in [Proc -> Role \cup {"none"}]
  /\ stopEvent \subseteq Proc

Registered(s) == ToSet(procs[s])

(* A supervisor is where one of its kind can be.                           *)
PlaceInv(s) ==
  /\ Serves(s) => at[s] \in ServePlaces /\ watchdog[s] = "off"
  /\ Integrates(s) => /\ at[s] \in IntegratedPlaces
                       /\ child[s]["gw"] = "none" /\ "gw" \notin Registered(s)

(* A child that runs is registered, but for the one being started and one  *)
(* a signal came too early for; the gateway is started and registered last.*)
RegistryInv(s) ==
  /\ \A r \in Role : Running(s, r) =>
       \/ r \in Registered(s) \/ s \in cut
       \/ r = "ci" /\ at[s] = "append ci"
       \/ r = "mcp" /\ at[s] = "append mcp"
       \/ r = "gw" /\ at[s] = "append gw"
  /\ at[s] \in BeforeGateway => child[s]["gw"] = "none" /\ "gw" \notin Registered(s)
  /\ "gw" \in Registered(s) => procs[s][Len(procs[s])] = "gw"

(* No child is stopped before the clean-up, which the stop event announces *)
(* where there is a watchdog.                                              *)
StopInv(s) ==
  /\ (IF Serves(s) THEN at[s] \notin {"cleanup", "exited"} ELSE s \notin stopEvent)
       => \A r \in Role : child[s][r] \notin {"quitting", "stopped"}
  /\ Integrates(s) /\ at[s] \in {"join", "cleanup"} => s \in stopEvent

(* What a thread that cleans up has not stopped yet is on its list.        *)
CleanupInv(s) ==
  /\ at[s] = "cleanup" =>
       \A r \in Registered(s) : Running(s, r) => r \in ToSet(stopping[s]["main"])
  /\ watchdog[s] = "terminating" =>
       \A r \in Registered(s) : Running(s, r) => r \in ToSet(stopping[s]["watchdog"])
  /\ Serves(s) /\ at[s] = "cleanup" /\ s \notin cut /\ Running(s, "gw") =>
       /\ Head(stopping[s]["main"]) = "gw"
       /\ child[s]["ci"] # "quitting" /\ child[s]["mcp"] # "quitting"
  /\ at[s] = "exited" /\ s \notin cut => \A r \in Role : ~Running(s, r)

WatchInv(s) ==
  /\ watchdog[s] # "off" => at[s] \in {"serving", "stop", "join", "cleanup", "exited"}
  /\ watchdog[s] \in {"seen", "terminating"} =>
       saw[s] \in Registered(s) /\ child[s][saw[s]] \in Ended
  /\ watchdog[s] = "terminating" => s \in stopEvent /\ child[s][saw[s]] \in OwnEnd

DirsInv(s) ==
  /\ s \in dirs => Serves(s)
  /\ at[s] = "exited" /\ s \notin cut => s \notin dirs
  /\ Alive(s) /\ Serves(s) /\ spec[s].metrics => s \in dirs

ProcInv(s) ==
  /\ PlaceInv(s) /\ RegistryInv(s) /\ StopInv(s)
  /\ CleanupInv(s) /\ WatchInv(s) /\ DirsInv(s)

SupervisorInv == SupervisorType /\ \A s \in Proc : ProcInv(s)

(* What the set-up of a process has done to the tables.                    *)
SetupPlaces ==
  {"idle", "polling", "checking", "creating", "created", "aborted", "unlocked", "ready", "error"}
SetupType ==
  /\ setup \in [Proc -> SetupPlaces]
  /\ dialect \in Dialect
  /\ locker \in Proc \cup {NoProc}
  /\ creator \in Proc \cup {NoProc}
  /\ committed \in BOOLEAN
TablesInv(p) ==
  /\ setup[p] \in {"created", "unlocked"} => committed \/ creator = p \/ p \in unheard
  /\ setup[p] = "ready" => committed \/ spec[p].marked \/ p \in unheard
SetupInv == SetupType /\ \A p \in Proc : TablesInv(p)

(* Past the schema a supervisor of `serve` is ready, and so is one whose   *)
(* gateway runs.                                                           *)
PastSchema == ServePlaces \ {"idle", "metrics", "schema", "cleanup", "exited"}
Early(s) == ~Running(s, "gw") /\ ~(Serves(s) /\ at[s] \in PastSchema)
ReadyInv(s) == Early(s) \/ setup[s] = "ready"

SchemaInv == SupervisorInv /\ SetupInv /\ \A s \in Proc : ReadyInv(s)

------------------------------------------------------------------------------
(* What the lists of children keep.                                        *)
LEMMA ListedRoles ==
  ASSUME NEW q \in Seq(Role)
  PROVE  ToSet(q) \subseteq Role
  BY DEF ToSet

(* A list turned round has the same members; its last comes first.         *)
LEMMA ReverseFacts ==
  ASSUME NEW q \in Seq(Role)
  PROVE  /\ Reverse(q) \in Seq(Role)
         /\ ToSet(Reverse(q)) = ToSet(q)
         /\ Len(q) # 0 => Head(Reverse(q)) = q[Len(q)]
<1>1. Reverse(q) \in Seq(Role) /\ Len(Reverse(q)) = Len(q)
  BY DEF Reverse
<1>2. \A i \in 1 .. Len(q) : Reverse(q)[i] = q[Len(q) - i + 1]
  BY DEF Reverse
<1>3. \A i \in 1 .. Len(q) : Len(q) - i + 1 \in 1 .. Len(q)
                            /\ Len(q) - (Len(q) - i + 1) + 1 = i
  OBVIOUS
<1>4. ASSUME NEW r \in ToSet(Reverse(q)) PROVE r \in ToSet(q)
  <2>1. PICK i \in 1 .. Len(q) : r = Reverse(q)[i]
    BY <1>1 DEF ToSet
  <2>2. r = q[Len(q) - i + 1] /\ Len(q) - i + 1 \in 1 .. Len(q)
    BY <1>2, <1>3, <2>1
  <2>3. QED
    BY <2>2 DEF ToSet
<1>5. ToSet(q) \subseteq ToSet(Reverse(q))
  BY <1>1, <1>2, <1>3 DEF ToSet
<1>6. Len(q) # 0 => Head(Reverse(q)) = q[Len(q)]
  BY <1>1, <1>2
<1>7. QED
  BY <1>1, <1>4, <1>5, <1>6

(* What a role appended to a list adds to it.                              *)
LEMMA AppendFacts ==
  ASSUME NEW q \in Seq(Role), NEW r \in Role
  PROVE  /\ Append(q, r) \in Seq(Role)
         /\ ToSet(Append(q, r)) = ToSet(q) \cup {r}
         /\ Append(q, r)[Len(Append(q, r))] = r
  BY DEF ToSet

(* Every member of a list but its head is in its tail.                     *)
LEMMA TailFacts ==
  ASSUME NEW q \in Seq(Role), q # <<>>
  PROVE  /\ Head(q) \in ToSet(q) /\ Head(q) \in Role
         /\ Tail(q) \in Seq(Role)
         /\ \A r \in ToSet(q) : r # Head(q) => r \in ToSet(Tail(q))
<1>1. Head(q) = q[1] /\ 1 \in 1 .. Len(q)
  OBVIOUS
<1>2. Tail(q) \in Seq(Role) /\ Len(Tail(q)) = Len(q) - 1
       /\ \A i \in 1 .. Len(q) - 1 : Tail(q)[i] = q[i + 1]
  OBVIOUS
<1>3. ASSUME NEW i \in 1 .. Len(q), q[i] # Head(q)
      PROVE  q[i] \in ToSet(Tail(q))
  <2>1. i - 1 \in 1 .. Len(Tail(q)) /\ Tail(q)[i - 1] = q[i]
    BY <1>1, <1>2, <1>3
  <2>2. DOMAIN Tail(q) = 1 .. Len(Tail(q))
    BY <1>2
  <2>3. QED
    BY <2>1, <2>2 DEF ToSet
<1>4. QED
  BY <1>1, <1>2, <1>3 DEF ToSet

(* A list from which one place is taken keeps every other role.            *)
LEMMA RemoveFacts ==
  ASSUME NEW q \in Seq(Role), NEW i \in 1 .. Len(q)
  PROVE  /\ RemoveAt(q, i) \in Seq(Role)
         /\ \A r \in ToSet(q) : r # q[i] => r \in ToSet(RemoveAt(q, i))
<1> DEFINE before == SubSeq(q, 1, i - 1)
           after == SubSeq(q, i + 1, Len(q))
<1>1. /\ before \in Seq(Role) /\ Len(before) = i - 1
      /\ \A j \in 1 .. i - 1 : before[j] = q[j]
  OBVIOUS
<1>2. /\ after \in Seq(Role) /\ Len(after) = Len(q) - i
      /\ \A j \in 1 .. Len(q) - i : after[j] = q[i + j]
  OBVIOUS
<1>3. RemoveAt(q, i) = before \o after
  BY DEF RemoveAt
<1> HIDE DEF before, after
<1>4. /\ before \o after \in Seq(Role) /\ Len(before \o after) = Len(q) - 1
      /\ DOMAIN (before \o after) = 1 .. Len(before \o after)
  BY <1>1, <1>2
<1>5. ASSUME NEW j \in 1 .. Len(q), q[j] # q[i]
      PROVE  q[j] \in ToSet(before \o after)
  <2>1. CASE j < i
    <3>1. j \in 1 .. Len(before \o after) /\ (before \o after)[j] = q[j]
      BY <1>1, <1>2, <1>4, <2>1
    <3>2. QED
      BY <1>4, <3>1 DEF ToSet
  <2>2. CASE j > i
    <3>1. j - 1 \in 1 .. Len(before \o after) /\ (before \o after)[j - 1] = after[j - i]
      BY <1>1, <1>2, <1>4, <2>2
    <3>2. after[j - i] = q[j]
      BY <1>2, <2>2
    <3>3. QED
      BY <1>4, <3>1, <3>2 DEF ToSet
  <2>3. QED
    BY <1>5, <2>1, <2>2
<1>6. \A r \in ToSet(q) : \E j \in 1 .. Len(q) : r = q[j]
  BY DEF ToSet
<1>7. QED
  BY <1>3, <1>4, <1>5, <1>6

(* The watchdog stops every registered child but the one it saw end.       *)
LEMMA OthersFacts ==
  ASSUME NEW s \in Proc, procs[s] \in Seq(Role), saw[s] \in ToSet(procs[s])
  PROVE  /\ OthersInReverse(s) \in Seq(Role)
         /\ \A r \in ToSet(procs[s]) : r # saw[s] => r \in ToSet(OthersInReverse(s))
<1> DEFINE i == CHOOSE i \in DOMAIN procs[s] : procs[s][i] = saw[s]
<1>1. i \in 1 .. Len(procs[s]) /\ procs[s][i] = saw[s]
  BY DEF ToSet
<1>2. OthersInReverse(s) = Reverse(RemoveAt(procs[s], i))
  BY DEF OthersInReverse
<1> HIDE DEF i
<1>3. QED
  BY <1>1, <1>2, RemoveFacts, ReverseFacts

------------------------------------------------------------------------------
(* A step of one supervisor is no matter of another.                       *)
LEMMA OthersUnchanged ==
  ASSUME NEW q \in Proc, ProcInv(q), spec' = spec,
         at'[q] = at[q], child'[q] = child[q], procs'[q] = procs[q], stopping'[q] = stopping[q],
         q \in cut' <=> q \in cut, q \in stopEvent' <=> q \in stopEvent,
         watchdog'[q] = watchdog[q], saw'[q] = saw[q],
         q \in dirs' => q \in dirs, Alive(q) => (q \in dirs' <=> q \in dirs)
  PROVE  ProcInv(q)'
<1> USE DEF Serves, Integrates, Registered, Running, Alive
<1>1. PlaceInv(q)' /\ RegistryInv(q)' /\ StopInv(q)'
  BY DEF ProcInv, PlaceInv, RegistryInv, StopInv
<1>2. CleanupInv(q)'
  BY DEF ProcInv, CleanupInv
<1>3. WatchInv(q)' /\ DirsInv(q)'
  BY DEF ProcInv, WatchInv, DirsInv
<1>4. QED
  BY <1>1, <1>2, <1>3 DEF ProcInv

(* The steps of the main thread by their kinds.  It goes on to b, with     *)
(* nothing started, registered or stopped.                                 *)
LEMMA GoesOn ==
  ASSUME SupervisorInv, NEW s \in Proc, NEW b,
         Serves(s) => b \in ServePlaces, Integrates(s) => b \in IntegratedPlaces,
         at[s] \notin Appending \cup {"cleanup", "exited"}, at[s] = "idle" => Integrates(s),
         b \notin {"append ci", "append mcp", "append gw", "join", "cleanup", "exited"},
         b \in BeforeGateway => at[s] \in BeforeGateway \/ Integrates(s),
         at[s] \in Watchable => b \in Watchable,
         at' = [at EXCEPT ![s] = b],
         UNCHANGED <<spec, child, procs, stopping, cut, dirs, watchVars>>
  PROVE  SupervisorInv'
<1> USE DEF Serves, Integrates, Registered, Running, Alive, watchVars
<1>1. SupervisorType'
  <2>1. b \in ServePlaces \cup IntegratedPlaces
    BY DEF SupervisorInv, SupervisorType, ServeSpec
  <2>2. QED
    BY <2>1 DEF SupervisorInv, SupervisorType
<1>2. ASSUME NEW q \in Proc, q # s PROVE ProcInv(q)'
  BY <1>2, OthersUnchanged DEF SupervisorInv, SupervisorType
<1>3. ProcInv(s)'
  <2>1. at'[s] = b
    BY DEF SupervisorInv, SupervisorType
  <2> USE <2>1 DEF SupervisorInv, ProcInv
  <2>2. PlaceInv(s)'
    BY DEF PlaceInv
  <2>3. RegistryInv(s)'
    BY DEF RegistryInv, PlaceInv, BeforeGateway, Appending
  <2>4. StopInv(s)'
    BY DEF StopInv
  <2>5. CleanupInv(s)'
    BY DEF CleanupInv
  <2>6. WatchInv(s)'
    BY DEF WatchInv, Watchable
  <2>7. DirsInv(s)'
    BY DEF DirsInv
  <2>8. QED
    BY <2>2, <2>3, <2>4, <2>5, <2>6, <2>7
<1>4. QED
  BY <1>1, <1>2, <1>3 DEF SupervisorInv

(* The clean-up begins with the registered children; one that runs and is  *)
(* not registered has the process cut short.                               *)
LEMMA CleanupBegins ==
  ASSUME SupervisorInv, NEW s \in Proc,
         at[s] \notin {"idle", "cleanup", "exited"},
         Integrates(s) => s \in stopEvent,
         at' = [at EXCEPT ![s] = "cleanup"],
         stopping' = [stopping EXCEPT ![s]["main"] = Reverse(procs[s])],
         cut \subseteq cut', cut' \subseteq cut \cup {s},
         \A r \in Role : Running(s, r) => r \in Registered(s) \/ s \in cut',
         UNCHANGED <<spec, child, procs, dirs, watchVars>>
  PROVE  SupervisorInv'
<1> USE DEF Serves, Integrates, Registered, Running, Alive, watchVars
<1>0. procs[s] \in Seq(Role)
  BY DEF SupervisorInv, SupervisorType
<1>1. SupervisorType'
  <2>1. stopping' \in [Proc -> [Thread -> Seq(Role)]]
    BY <1>0, ReverseFacts DEF SupervisorInv, SupervisorType
  <2>2. at' \in [Proc -> ServePlaces \cup IntegratedPlaces]
    BY DEF SupervisorInv, SupervisorType, ServePlaces
  <2>3. QED
    BY <2>1, <2>2 DEF SupervisorInv, SupervisorType
<1>2. ASSUME NEW q \in Proc, q # s PROVE ProcInv(q)'
  BY <1>2, OthersUnchanged DEF SupervisorInv, SupervisorType
<1>3. ProcInv(s)'
  <2>1. /\ at'[s] = "cleanup"
        /\ stopping'[s]["main"] = Reverse(procs[s])
        /\ stopping'[s]["watchdog"] = stopping[s]["watchdog"]
    BY DEF SupervisorInv, SupervisorType, Thread
  <2> USE <2>1 DEF SupervisorInv, ProcInv
  <2>2. PlaceInv(s)'
    BY DEF PlaceInv, ServePlaces, IntegratedPlaces
  <2>3. RegistryInv(s)'
    BY DEF RegistryInv, BeforeGateway
  <2>4. StopInv(s)'
    BY DEF StopInv
  <2>5. CleanupInv(s)'
    <3>1. ASSUME Serves(s), s \notin cut', Running(s, "gw")
          PROVE  /\ Head(Reverse(procs[s])) = "gw"
                 /\ child[s]["ci"] # "quitting" /\ child[s]["mcp"] # "quitting"
      <4>1. "gw" \in Registered(s) /\ procs[s][Len(procs[s])] = "gw"
        BY <3>1 DEF RegistryInv, Role
      <4>2. Len(procs[s]) # 0
        BY <1>0, <4>1 DEF ToSet
      <4>3. QED
        BY <1>0, <3>1, <4>1, <4>2, ReverseFacts DEF StopInv, Role
    <3>2. QED
      BY <1>0, <3>1, ReverseFacts DEF CleanupInv
  <2>6. WatchInv(s)'
    BY DEF WatchInv
  <2>7. DirsInv(s)'
    BY DEF DirsInv
  <2>8. QED
    BY <2>2, <2>3, <2>4, <2>5, <2>6, <2>7
<1>4. QED
  BY <1>1, <1>2, <1>3 DEF SupervisorInv

(* The process ends: it was cut short, or has nothing left to clean up.    *)
LEMMA Ends ==
  ASSUME SupervisorInv, NEW s \in Proc, Alive(s),
         at' = [at EXCEPT ![s] = "exited"],
         cut \subseteq cut', cut' \subseteq cut \cup {s},
         dirs' \subseteq dirs, dirs \subseteq dirs' \cup {s},
         s \in cut' \/ (s \notin dirs' /\ \A r \in Role : ~Running(s, r)),
         UNCHANGED <<spec, child, procs, stopping, watchVars>>
  PROVE  SupervisorInv'
<1> USE DEF Serves, Integrates, Registered, Running, Alive, watchVars
<1>0. procs[s] \in Seq(Role) /\ Registered(s) \subseteq Role
  BY ListedRoles DEF SupervisorInv, SupervisorType
<1>1. SupervisorType'
  BY DEF SupervisorInv, SupervisorType, ServePlaces
<1>2. ASSUME NEW q \in Proc, q # s PROVE ProcInv(q)'
  BY <1>2, OthersUnchanged DEF SupervisorInv, SupervisorType
<1>3. ProcInv(s)'
  <2>1. at'[s] = "exited"
    BY DEF SupervisorInv, SupervisorType
  <2>2. PlaceInv(s) /\ RegistryInv(s) /\ StopInv(s) /\ CleanupInv(s) /\ WatchInv(s) /\ DirsInv(s)
    BY DEF SupervisorInv, ProcInv
  <2> USE <2>1, <2>2
  <2>3. PlaceInv(s)'
    BY DEF PlaceInv, ServePlaces, IntegratedPlaces
  <2>4. RegistryInv(s)'
    BY DEF RegistryInv, BeforeGateway
  <2>5. StopInv(s)'
    BY DEF StopInv
  <2>6. CleanupInv(s)'
    BY DEF CleanupInv
  <2>7. WatchInv(s)'
    BY DEF WatchInv
  <2>8. DirsInv(s)'
    BY DEF DirsInv
  <2>9. QED
    BY <2>3, <2>4, <2>5, <2>6, <2>7, <2>8 DEF ProcInv
<1>4. QED
  BY <1>1, <1>2, <1>3 DEF SupervisorInv

(* A child is started, and registered in the next step.                    *)
LEMMA ChildStarts ==
  ASSUME SupervisorInv, NEW s \in Proc, NEW r \in Role, NEW b,
         r = "ci" => at[s] = "spawn ci" /\ b = "append ci",
         r = "mcp" => at[s] = "spawn mcp" /\ b = "append mcp",
         r = "gw" => at[s] = "spawn gw" /\ b = "append gw" /\ Serves(s),
         child[s][r] = "none",
         child' = [child EXCEPT ![s][r] = "booting"], at' = [at EXCEPT ![s] = b],
         UNCHANGED <<spec, procs, stopping, cut, dirs, watchVars>>
  PROVE  SupervisorInv'
<1> USE DEF Serves, Integrates, Registered, Running, Alive, watchVars
<1>0. procs[s] \in Seq(Role) /\ s \in Proc
  BY DEF SupervisorInv, SupervisorType
<1>1. SupervisorType'
  <2>1. child' \in [Proc -> [Role -> ChildState]]
    BY DEF SupervisorInv, SupervisorType, ChildState
  <2>2. at' \in [Proc -> ServePlaces \cup IntegratedPlaces]
    BY DEF SupervisorInv, SupervisorType, ServePlaces, IntegratedPlaces, Role
  <2>3. QED
    BY <2>1, <2>2 DEF SupervisorInv, SupervisorType
<1>2. ASSUME NEW q \in Proc, q # s PROVE ProcInv(q)'
  BY <1>2, OthersUnchanged DEF SupervisorInv, SupervisorType
<1>3. ProcInv(s)'
  <2>1. /\ at'[s] = b /\ b \in Appending /\ at[s] \in {"spawn ci", "spawn mcp", "spawn gw"}
        /\ \A u \in Role : child'[s][u] = IF u = r THEN "booting" ELSE child[s][u]
    BY DEF SupervisorInv, SupervisorType, Role, Appending
  <2>2. PlaceInv(s) /\ RegistryInv(s) /\ StopInv(s) /\ CleanupInv(s) /\ WatchInv(s) /\ DirsInv(s)
    BY DEF SupervisorInv, ProcInv
  <2> USE <2>1, <2>2
  <2>3. PlaceInv(s)'
    BY DEF PlaceInv, ServePlaces, IntegratedPlaces, Role
  <2>4. RegistryInv(s)'
    <3>3. \A u \in Role : u # r /\ Running(s, u) => u \in Registered(s) \/ s \in cut
      BY DEF RegistryInv, BeforeGateway
    <3>4. \A u \in Role : Running(s, u)' =>
            \/ u \in Registered(s) \/ s \in cut
            \/ u = "ci" /\ b = "append ci"
            \/ u = "mcp" /\ b = "append mcp"
            \/ u = "gw" /\ b = "append gw"
      BY <3>3 DEF Role
    <3>5. b # "append gw" => child'[s]["gw"] = "none" /\ "gw" \notin Registered(s)
      BY DEF RegistryInv, BeforeGateway, Role
    <3>6. QED
      BY <3>4, <3>5 DEF RegistryInv, BeforeGateway, Appending
  <2>5. StopInv(s)'
    <3>1. at'[s] \notin {"cleanup", "exited", "join"} /\ at[s] \notin {"cleanup", "exited", "join"}
      BY DEF Appending
    <3>2. ASSUME NEW u \in Role, child'[s][u] \in {"quitting", "stopped"}
          PROVE  child[s][u] \in {"quitting", "stopped"}
      <4>1. child'[s][u] = IF u = r THEN "booting" ELSE child[s][u]
        BY <2>1
      <4>2. child'[s][u] # "booting"
        BY <3>2
      <4>3. QED
        BY <4>1, <4>2, <3>2
    <3>3. QED
      BY <3>1, <3>2 DEF StopInv
  <2>6. CleanupInv(s)'
    BY DEF CleanupInv, WatchInv, Appending
  <2>7. WatchInv(s)'
    BY DEF WatchInv, Appending
  <2>8. DirsInv(s)'
    BY DEF DirsInv, Appending
  <2>9. QED
    BY <2>3, <2>4, <2>5, <2>6, <2>7, <2>8 DEF ProcInv
<1>4. QED
  BY <1>1, <1>2, <1>3 DEF SupervisorInv

(* The child that was just started enters the list of its supervisor.      *)
LEMMA ChildIsRegistered ==
  ASSUME SupervisorInv, NEW s \in Proc, NEW r \in Role, NEW b,
         r = "ci" => at[s] = "append ci" /\ b = "wait ci",
         r = "mcp" => at[s] = "append mcp" /\ b = "wait mcp",
         r = "gw" => at[s] = "append gw" /\ b = "wait gw" /\ Serves(s),
         procs' = [procs EXCEPT ![s] = Append(@, r)], at' = [at EXCEPT ![s] = b],
         UNCHANGED <<spec, child, stopping, cut, dirs, watchVars>>
  PROVE  SupervisorInv'
<1> USE DEF Serves, Integrates, Registered, Running, Alive, watchVars
<1>0. procs[s] \in Seq(Role) /\ Registered(s) \subseteq Role
  BY ListedRoles DEF SupervisorInv, SupervisorType
<1>1. SupervisorType'
  <2>1. procs' \in [Proc -> Seq(Role)]
    BY AppendFacts DEF SupervisorInv, SupervisorType
  <2>2. at' \in [Proc -> ServePlaces \cup IntegratedPlaces]
    BY DEF SupervisorInv, SupervisorType, ServePlaces, IntegratedPlaces, Role
  <2>3. QED
    BY <2>1, <2>2 DEF SupervisorInv, SupervisorType
<1>2. ASSUME NEW q \in Proc, q # s PROVE ProcInv(q)'
  BY <1>2, OthersUnchanged DEF SupervisorInv, SupervisorType
<1>3. ProcInv(s)'
  <2>1. /\ at'[s] = b /\ b \in {"wait ci", "wait mcp", "wait gw"} /\ at[s] \in Appending
        /\ procs'[s] = Append(procs[s], r)
        /\ Registered(s)' = Registered(s) \cup {r}
        /\ procs'[s][Len(procs'[s])] = r
    <3>1. procs'[s] = Append(procs[s], r)
      BY DEF SupervisorInv, SupervisorType
    <3>2. at'[s] = b
      BY DEF SupervisorInv, SupervisorType
    <3>3. b \in {"wait ci", "wait mcp", "wait gw"} /\ at[s] \in Appending
      BY DEF Role, Appending
    <3>4. QED
      BY <1>0, <3>1, <3>2, <3>3, AppendFacts
  <2>2. PlaceInv(s) /\ RegistryInv(s) /\ StopInv(s) /\ CleanupInv(s) /\ WatchInv(s) /\ DirsInv(s)
    BY DEF SupervisorInv, ProcInv
  <2> USE <2>1, <2>2
  <2>3. PlaceInv(s)'
    BY DEF PlaceInv, ServePlaces, IntegratedPlaces, Role
  <2>4. RegistryInv(s)'
    <3>1. \A u \in Role : Running(s, u)' => u \in Registered(s)' \/ s \in cut'
      BY DEF RegistryInv, Role
    <3>2. "gw" \in Registered(s)' => r = "gw"
      BY DEF RegistryInv, BeforeGateway, Appending, Role
    <3>3. at'[s] \in BeforeGateway => child'[s]["gw"] = "none" /\ "gw" \notin Registered(s)'
      BY DEF RegistryInv, BeforeGateway, Appending, Role
    <3>4. QED
      BY <3>1, <3>2, <3>3 DEF RegistryInv, BeforeGateway
  <2>5. StopInv(s)'
    BY DEF StopInv, Appending
  <2>6. CleanupInv(s)'
    BY DEF CleanupInv, WatchInv, Appending
  <2>7. WatchInv(s)'
    BY DEF WatchInv, Appending
  <2>8. DirsInv(s)'
    BY DEF DirsInv, Appending
  <2>9. QED
    BY <2>3, <2>4, <2>5, <2>6, <2>7, <2>8 DEF ProcInv
<1>4. QED
  BY <1>1, <1>2, <1>3 DEF SupervisorInv

(* A child goes on by itself, or ends; it was asked to if it is stopped.   *)
LEMMA ChildGoesOn ==
  ASSUME SupervisorInv, NEW s \in Proc, NEW r \in Role, NEW c \in ChildState,
         child[s][r] \in {"booting", "ready", "quitting"},
         c \in {"ready", "stopped"} \cup OwnEnd,
         child[s][r] = "quitting" => c = "stopped",
         c = "stopped" => child[s][r] = "quitting",
         child' = [child EXCEPT ![s][r] = c],
         UNCHANGED <<spec, at, procs, stopping, cut, dirs, watchVars>>
  PROVE  SupervisorInv'
<1> USE DEF Serves, Integrates, Registered, Running, Alive, watchVars
<1>0. procs[s] \in Seq(Role) /\ Registered(s) \subseteq Role
  BY ListedRoles DEF SupervisorInv, SupervisorType
<1>1. SupervisorType'
  <2>1. child' \in [Proc -> [Role -> ChildState]]
    BY DEF SupervisorInv, SupervisorType
  <2>2. QED
    BY <2>1 DEF SupervisorInv, SupervisorType
<1>2. ASSUME NEW q \in Proc, q # s PROVE ProcInv(q)'
  BY <1>2, OthersUnchanged DEF SupervisorInv, SupervisorType
<1>3. ProcInv(s)'
  <2>1. child'[s][r] = c /\ \A u \in Role : u # r => child'[s][u] = child[s][u]
    BY DEF SupervisorInv, SupervisorType
  <2>0. child[s][r] \notin Ended \cup {"none"} /\ c # "none" /\ c # "quitting"
    BY DEF Ended, OwnEnd
  <2>2. PlaceInv(s) /\ RegistryInv(s) /\ StopInv(s) /\ CleanupInv(s) /\ WatchInv(s) /\ DirsInv(s)
    BY DEF SupervisorInv, ProcInv
  <2> USE <2>1, <2>2
  <2>3. PlaceInv(s)'
    BY DEF PlaceInv, Role
  <2>4. RegistryInv(s)'
    <3>2. \A u \in Role : Running(s, u)' => Running(s, u)
      BY <2>0
    <3>3. child[s]["gw"] = "none" => child'[s]["gw"] = "none"
      BY DEF Role
    <3>4. QED
      BY <3>2, <3>3 DEF RegistryInv
  <2>5. StopInv(s)'
    <3>1. \A u \in Role :
            child'[s][u] \in {"quitting", "stopped"} => child[s][u] \in {"quitting", "stopped"}
      BY DEF OwnEnd
    <3>2. QED
      BY <3>1 DEF StopInv
  <2>6. CleanupInv(s)'
    <3>1. \A u \in Role : Running(s, u)' => Running(s, u)
      BY <2>0
    <3>2. \A u \in Role : child'[s][u] = "quitting" => child[s][u] = "quitting"
      BY <2>0
    <3>3. QED
      BY <1>0, <3>1, <3>2 DEF CleanupInv, Role
  <2>7. WatchInv(s)'
    <3>1. watchdog[s] \in {"seen", "terminating"} => child'[s][saw[s]] = child[s][saw[s]]
      BY <1>0, <2>0 DEF WatchInv
    <3>2. QED
      BY <3>1 DEF WatchInv
  <2>8. DirsInv(s)'
    BY DEF DirsInv
  <2>9. QED
    BY <2>3, <2>4, <2>5, <2>6, <2>7, <2>8 DEF ProcInv
<1>4. QED
  BY <1>1, <1>2, <1>3 DEF SupervisorInv

(* A thread asks the first child on its list to stop.                      *)
LEMMA ChildIsAsked ==
  ASSUME SupervisorInv, NEW s \in Proc, NEW r \in Role, NEW c \in {"quitting"},
         child[s][r] \in {"booting", "ready"},
         Serves(s) => at[s] = "cleanup" /\ r = Head(stopping[s]["main"]),
         ~Serves(s) => s \in stopEvent,
         child' = [child EXCEPT ![s][r] = c],
         UNCHANGED <<spec, at, procs, stopping, cut, dirs, watchVars>>
  PROVE  SupervisorInv'
<1> USE DEF Serves, Integrates, Registered, Running, Alive, watchVars
<1>0. procs[s] \in Seq(Role) /\ Registered(s) \subseteq Role
  BY ListedRoles DEF SupervisorInv, SupervisorType
<1>1. SupervisorType'
  <2>1. child' \in [Proc -> [Role -> ChildState]]
    BY DEF SupervisorInv, SupervisorType, ChildState
  <2>2. QED
    BY <2>1 DEF SupervisorInv, SupervisorType
<1>2. ASSUME NEW q \in Proc, q # s PROVE ProcInv(q)'
  BY <1>2, OthersUnchanged DEF SupervisorInv, SupervisorType
<1>3. ProcInv(s)'
  <2>1. child'[s][r] = c /\ \A u \in Role : u # r => child'[s][u] = child[s][u]
    BY DEF SupervisorInv, SupervisorType
  <2>0. child[s][r] \notin Ended \cup {"none"} /\ c # "none"
    BY DEF Ended, OwnEnd
  <2>2. PlaceInv(s) /\ RegistryInv(s) /\ StopInv(s) /\ CleanupInv(s) /\ WatchInv(s) /\ DirsInv(s)
    BY DEF SupervisorInv, ProcInv
  <2> USE <2>1, <2>2
  <2>3. PlaceInv(s)'
    BY DEF PlaceInv, Role
  <2>4. RegistryInv(s)'
    <3>2. \A u \in Role : Running(s, u)' => Running(s, u)
      BY <2>0
    <3>3. child[s]["gw"] = "none" => child'[s]["gw"] = "none"
      BY DEF Role
    <3>4. QED
      BY <3>2, <3>3 DEF RegistryInv
  <2>5. StopInv(s)'
    BY DEF StopInv
  <2>6. CleanupInv(s)'
    <3>1. \A u \in Role : Running(s, u)' => Running(s, u)
      BY <2>0
    <3>2. Serves(s) /\ at[s] = "cleanup" /\ s \notin cut /\ Running(s, "gw")' =>
            child'[s]["ci"] # "quitting" /\ child'[s]["mcp"] # "quitting"
      BY <3>1 DEF CleanupInv, Role
    <3>3. QED
      BY <1>0, <3>1, <3>2 DEF CleanupInv, Role
  <2>7. WatchInv(s)'
    <3>1. watchdog[s] \in {"seen", "terminating"} => child'[s][saw[s]] = child[s][saw[s]]
      BY <1>0, <2>0 DEF WatchInv
    <3>2. QED
      BY <3>1 DEF WatchInv
  <2>8. DirsInv(s)'
    BY DEF DirsInv
  <2>9. QED
    BY <2>3, <2>4, <2>5, <2>6, <2>7, <2>8 DEF ProcInv
<1>4. QED
  BY <1>1, <1>2, <1>3 DEF SupervisorInv

(* A thread strikes a child that has ended from its list.                  *)
LEMMA ChildIsStruck ==
  ASSUME SupervisorInv, NEW s \in Proc, NEW t \in Thread,
         stopping[s][t] # <<>>, child[s][Head(stopping[s][t])] \in Ended,
         stopping' = [stopping EXCEPT ![s][t] = Tail(@)],
         UNCHANGED <<spec, at, procs, child, cut, dirs, watchVars>>
  PROVE  SupervisorInv'
<1> USE DEF Serves, Integrates, Registered, Running, Alive, watchVars
<1>0. procs[s] \in Seq(Role) /\ Registered(s) \subseteq Role
  BY ListedRoles DEF SupervisorInv, SupervisorType
<1>1. SupervisorType'
  <2>1. stopping' \in [Proc -> [Thread -> Seq(Role)]]
    BY TailFacts DEF SupervisorInv, SupervisorType
  <2>2. QED
    BY <2>1 DEF SupervisorInv, SupervisorType
<1>2. ASSUME NEW q \in Proc, q # s PROVE ProcInv(q)'
  BY <1>2, OthersUnchanged DEF SupervisorInv, SupervisorType
<1>3. ProcInv(s)'
  <2>1. /\ stopping'[s][t] = Tail(stopping[s][t])
        /\ \A u \in Thread : u # t => stopping'[s][u] = stopping[s][u]
        /\ stopping[s][t] \in Seq(Role)
    BY DEF SupervisorInv, SupervisorType
  <2>0. \A u \in Thread, r \in Role : Running(s, r) /\ r \in ToSet(stopping[s][u])
          => r \in ToSet(stopping'[s][u])
    BY <2>1, TailFacts
  <2>2. PlaceInv(s) /\ RegistryInv(s) /\ StopInv(s) /\ CleanupInv(s) /\ WatchInv(s) /\ DirsInv(s)
    BY DEF SupervisorInv, ProcInv
  <2> USE <2>1, <2>2
  <2>3. PlaceInv(s)'
    BY DEF PlaceInv
  <2>4. RegistryInv(s)'
    BY DEF RegistryInv, BeforeGateway
  <2>5. StopInv(s)'
    BY DEF StopInv
  <2>6. CleanupInv(s)'
    <3>1. \A r \in Role : Running(s, r) /\ r \in ToSet(stopping[s]["main"])
            => r \in ToSet(stopping'[s]["main"])
      BY <2>0 DEF Thread
    <3>2. \A r \in Role : Running(s, r) /\ r \in ToSet(stopping[s]["watchdog"])
            => r \in ToSet(stopping'[s]["watchdog"])
      BY <2>0 DEF Thread
    <3>3. Serves(s) /\ at[s] = "cleanup" /\ s \notin cut /\ Running(s, "gw") =>
            stopping'[s]["main"] = stopping[s]["main"]
      BY DEF CleanupInv, Thread
    <3>4. QED
      BY <1>0, <3>1, <3>2, <3>3 DEF CleanupInv
  <2>7. WatchInv(s)'
    BY DEF WatchInv
  <2>8. DirsInv(s)'
    BY DEF DirsInv
  <2>9. QED
    BY <2>3, <2>4, <2>5, <2>6, <2>7, <2>8 DEF ProcInv
<1>4. QED
  BY <1>1, <1>2, <1>3 DEF SupervisorInv

(* SIGINT takes the integrated server to its clean-up.                     *)
LEMMA Interrupted ==
  ASSUME SupervisorInv, NEW s \in Proc, Integrates(s),
         at[s] \notin {"serving", "stop", "join", "cleanup", "exited"},
         at' = [at EXCEPT ![s] = "stop"],
         cut \subseteq cut', cut' \subseteq cut \cup {s},
         \A r \in Role : Running(s, r) => r \in Registered(s) \/ s \in cut',
         UNCHANGED <<spec, child, procs, stopping, dirs, watchVars>>
  PROVE  SupervisorInv'
<1> USE DEF Serves, Integrates, Registered, Running, Alive, watchVars
<1>0. procs[s] \in Seq(Role) /\ Registered(s) \subseteq Role
  BY ListedRoles DEF SupervisorInv, SupervisorType
<1>1. SupervisorType'
  BY DEF SupervisorInv, SupervisorType, IntegratedPlaces
<1>2. ASSUME NEW q \in Proc, q # s PROVE ProcInv(q)'
  BY <1>2, OthersUnchanged DEF SupervisorInv, SupervisorType
<1>3. ProcInv(s)'
  <2>1. at'[s] = "stop" /\ ~Serves(s)
    BY DEF SupervisorInv, SupervisorType
  <2>2. PlaceInv(s) /\ RegistryInv(s) /\ StopInv(s) /\ CleanupInv(s) /\ WatchInv(s) /\ DirsInv(s)
    BY DEF SupervisorInv, ProcInv
  <2> USE <2>1, <2>2
  <2>3. PlaceInv(s)'
    BY DEF PlaceInv, IntegratedPlaces
  <2>4. RegistryInv(s)'
    BY DEF RegistryInv, BeforeGateway
  <2>5. StopInv(s)'
    BY DEF StopInv
  <2>6. CleanupInv(s)'
    BY DEF CleanupInv
  <2>7. WatchInv(s)'
    BY DEF WatchInv
  <2>8. DirsInv(s)'
    BY DEF DirsInv
  <2>9. QED
    BY <2>3, <2>4, <2>5, <2>6, <2>7, <2>8 DEF ProcInv
<1>4. QED
  BY <1>1, <1>2, <1>3 DEF SupervisorInv

(* The stop event is set by the main thread, ...                           *)
LEMMA StopEventIsSet ==
  ASSUME SupervisorInv, NEW s \in Proc, SetStopEvent(s)
  PROVE  SupervisorInv'
<1> USE DEF Serves, Integrates, Registered, Running, Alive, watchVars
<1>0. procs[s] \in Seq(Role) /\ Registered(s) \subseteq Role
  BY ListedRoles DEF SupervisorInv, SupervisorType
<1>1. SupervisorType'
  BY DEF SupervisorInv, SupervisorType, SetStopEvent, Pass, Proceed, To, childVars, IntegratedPlaces
<1>2. ASSUME NEW q \in Proc, q # s PROVE ProcInv(q)'
  BY <1>2, OthersUnchanged
     DEF SupervisorInv, SupervisorType, SetStopEvent, Pass, Proceed, To, childVars
<1>3. ProcInv(s)'
  <2>1. /\ Integrates(s) /\ at[s] = "stop" /\ at'[s] = "join" /\ s \in stopEvent'
        /\ ~Serves(s) /\ UNCHANGED <<spec, child, procs, stopping, cut, dirs, watchdog, saw>>
    BY DEF SupervisorInv, SupervisorType, SetStopEvent, At, Pass, Proceed, To, childVars
  <2>2. PlaceInv(s) /\ RegistryInv(s) /\ StopInv(s) /\ CleanupInv(s) /\ WatchInv(s) /\ DirsInv(s)
    BY DEF SupervisorInv, ProcInv
  <2> USE <2>1, <2>2
  <2>3. PlaceInv(s)'
    BY DEF PlaceInv, IntegratedPlaces
  <2>4. RegistryInv(s)'
    BY DEF RegistryInv, BeforeGateway
  <2>5. StopInv(s)'
    BY DEF StopInv
  <2>6. CleanupInv(s)'
    BY DEF CleanupInv
  <2>7. WatchInv(s)'
    BY DEF WatchInv
  <2>8. DirsInv(s)'
    BY DEF DirsInv
  <2>9. QED
    BY <2>3, <2>4, <2>5, <2>6, <2>7, <2>8 DEF ProcInv
<1>4. QED
  BY <1>1, <1>2, <1>3 DEF SupervisorInv

(* ... or by the watchdog, which then stops the helpers that are left.     *)
LEMMA AlarmIsRaised ==
  ASSUME SupervisorInv, NEW s \in Proc, RaiseAlarm(s)
  PROVE  SupervisorInv'
<1> USE DEF Serves, Integrates, Registered, Running, Alive, watchVars
<1>0. procs[s] \in Seq(Role) /\ Registered(s) \subseteq Role
  BY ListedRoles DEF SupervisorInv, SupervisorType
<1>5. watchdog[s] = "seen" /\ saw[s] \in Registered(s)
  BY DEF RaiseAlarm, SupervisorInv, ProcInv, WatchInv
<1>1. SupervisorType'
  <2>1. OthersInReverse(s) \in Seq(Role)
    BY <1>0, <1>5, OthersFacts
  <2>2. QED
    BY <2>1 DEF SupervisorInv, SupervisorType, RaiseAlarm, WatchFrame, mainVars
<1>2. ASSUME NEW q \in Proc, q # s PROVE ProcInv(q)'
  BY <1>2, OthersUnchanged DEF SupervisorInv, SupervisorType, RaiseAlarm, WatchFrame, mainVars
<1>3. ProcInv(s)'
  <2>1. /\ watchdog[s] = "seen" /\ watchdog'[s] = "terminating"
        /\ s \notin stopEvent /\ s \in stopEvent'
        /\ stopping'[s]["main"] = stopping[s]["main"]
        /\ stopping'[s]["watchdog"] = OthersInReverse(s)
        /\ UNCHANGED <<spec, at, child, procs, cut, dirs, saw>>
    BY DEF SupervisorInv, SupervisorType, RaiseAlarm, WatchFrame, mainVars, Thread
  <2>2. PlaceInv(s) /\ RegistryInv(s) /\ StopInv(s) /\ CleanupInv(s) /\ WatchInv(s) /\ DirsInv(s)
    BY DEF SupervisorInv, ProcInv
  <2> USE <2>1, <2>2
  <2>3. PlaceInv(s)'
    BY DEF PlaceInv
  <2>4. RegistryInv(s)'
    BY DEF RegistryInv, BeforeGateway
  <2>5. StopInv(s)'
    BY DEF StopInv, PlaceInv, SupervisorInv, SupervisorType, ServeSpec
  <2>6. CleanupInv(s)'
    <3>1. \A r \in Registered(s) : Running(s, r) => r \in ToSet(OthersInReverse(s))
      BY <1>0, <1>5, OthersFacts DEF WatchInv
    <3>2. QED
      BY <3>1 DEF CleanupInv
  <2>7. WatchInv(s)'
    <3>1. ~Serves(s)
      BY DEF PlaceInv
    <3>2. child[s][saw[s]] \in OwnEnd
      BY <1>0, <3>1 DEF StopInv, WatchInv, Ended
    <3>3. QED
      BY <3>2 DEF WatchInv
  <2>8. DirsInv(s)'
    BY DEF DirsInv
  <2>9. QED
    BY <2>3, <2>4, <2>5, <2>6, <2>7, <2>8 DEF ProcInv
<1>4. QED
  BY <1>1, <1>2, <1>3 DEF SupervisorInv

(* Its other steps touch nothing of the main thread's.                     *)
LEMMA WatchdogGoesOn ==
  ASSUME SupervisorInv, NEW s \in Proc, NEW w \in {"off", "polling", "scanning", "seen"},
         watchdog[s] # "off", watchdog' = [watchdog EXCEPT ![s] = w],
         \A q \in Proc : q # s => saw'[q] = saw[q],
         saw' \in [Proc -> Role \cup {"none"}],
         w = "seen" => saw'[s] \in Registered(s) /\ child[s][saw'[s]] \in Ended,
         UNCHANGED <<spec, at, child, procs, stopping, cut, dirs, stopEvent>>
  PROVE  SupervisorInv'
<1> USE DEF Serves, Integrates, Registered, Running, Alive, watchVars
<1>0. procs[s] \in Seq(Role) /\ Registered(s) \subseteq Role
  BY ListedRoles DEF SupervisorInv, SupervisorType
<1>1. SupervisorType'
  BY DEF SupervisorInv, SupervisorType
<1>2. ASSUME NEW q \in Proc, q # s PROVE ProcInv(q)'
  BY <1>2, OthersUnchanged DEF SupervisorInv, SupervisorType
<1>3. ProcInv(s)'
  <2>1. watchdog'[s] = w
    BY DEF SupervisorInv, SupervisorType
  <2>2. PlaceInv(s) /\ RegistryInv(s) /\ StopInv(s) /\ CleanupInv(s) /\ WatchInv(s) /\ DirsInv(s)
    BY DEF SupervisorInv, ProcInv
  <2> USE <2>1, <2>2
  <2>3. PlaceInv(s)'
    BY DEF PlaceInv
  <2>4. RegistryInv(s)'
    BY DEF RegistryInv, BeforeGateway
  <2>5. StopInv(s)'
    BY DEF StopInv
  <2>6. CleanupInv(s)'
    BY DEF CleanupInv
  <2>7. WatchInv(s)'
    BY DEF WatchInv
  <2>8. DirsInv(s)'
    BY DEF DirsInv
  <2>9. QED
    BY <2>3, <2>4, <2>5, <2>6, <2>7, <2>8 DEF ProcInv
<1>4. QED
  BY <1>1, <1>2, <1>3 DEF SupervisorInv

(* The watchdog starts when every helper is registered and none stopped.   *)
LEMMA WatchdogStarts ==
  ASSUME SupervisorInv, NEW s \in Proc, StartHelperWatchdog(s)
  PROVE  SupervisorInv'
<1> USE DEF Serves, Integrates, Registered, Running, Alive, watchVars
<1>0. procs[s] \in Seq(Role) /\ Registered(s) \subseteq Role
  BY ListedRoles DEF SupervisorInv, SupervisorType
<1>1. SupervisorType'
  BY DEF SupervisorInv, SupervisorType, StartHelperWatchdog, Pass, Proceed, To, childVars,
         IntegratedPlaces
<1>2. ASSUME NEW q \in Proc, q # s PROVE ProcInv(q)'
  BY <1>2, OthersUnchanged
     DEF SupervisorInv, SupervisorType, StartHelperWatchdog, Pass, Proceed, To, childVars
<1>3. ProcInv(s)'
  <2>1. /\ Integrates(s) /\ ~Serves(s) /\ at[s] = "watch" /\ at'[s] = "serving"
        /\ watchdog'[s] \in {"polling", "off"}
        /\ UNCHANGED <<spec, child, procs, stopping, cut, dirs, saw, stopEvent>>
    BY DEF SupervisorInv, SupervisorType, StartHelperWatchdog, At, Pass, Proceed, To, childVars
  <2>2. PlaceInv(s) /\ RegistryInv(s) /\ StopInv(s) /\ CleanupInv(s) /\ WatchInv(s) /\ DirsInv(s)
    BY DEF SupervisorInv, ProcInv
  <2> USE <2>1, <2>2
  <2>3. PlaceInv(s)'
    BY DEF PlaceInv, IntegratedPlaces
  <2>4. RegistryInv(s)'
    BY DEF RegistryInv, BeforeGateway
  <2>5. StopInv(s)'
    BY DEF StopInv
  <2>6. CleanupInv(s)'
    BY DEF CleanupInv
  <2>7. WatchInv(s)'
    BY DEF WatchInv
  <2>8. DirsInv(s)'
    BY DEF DirsInv
  <2>9. QED
    BY <2>3, <2>4, <2>5, <2>6, <2>7, <2>8 DEF ProcInv
<1>4. QED
  BY <1>1, <1>2, <1>3 DEF SupervisorInv

------------------------------------------------------------------------------
(* The steps themselves.                                                   *)
LEMMA InstallStep ==
  ASSUME SupervisorInv, NEW s \in Proc, InstallAndPrepare(s), UNCHANGED watchVars
  PROVE  SupervisorInv'
<1> USE DEF Serves, Integrates, Registered, Running, Alive
<1>1. SupervisorType'
  BY DEF SupervisorInv, SupervisorType, InstallAndPrepare, Pass, Proceed, To,
         CleanupStalePrometheusDirs, childVars, watchVars, ServePlaces
<1>2. ASSUME NEW q \in Proc, q # s PROVE ProcInv(q)'
  BY <1>2, OthersUnchanged
     DEF SupervisorInv, SupervisorType, InstallAndPrepare, Pass, Proceed, To,
         CleanupStalePrometheusDirs, childVars, watchVars
<1>3. ProcInv(s)'
  <2>0. /\ at'[s] \in {"metrics", "schema"} /\ at[s] = "idle"
        /\ UNCHANGED <<spec, child, procs, stopping, cut, watchdog, saw, stopEvent>>
      /\ spec[s].kind = "serve" /\ (s \in dirs \/ spec[s].metrics => s \in dirs')
    BY DEF SupervisorInv, SupervisorType, InstallAndPrepare, Pass, Proceed, To, At,
           CleanupStalePrometheusDirs, childVars, watchVars
  <2> USE <2>0 DEF SupervisorInv, ProcInv
  <2>1. PlaceInv(s)' BY DEF PlaceInv, ServePlaces
  <2>2. RegistryInv(s)' BY DEF RegistryInv, BeforeGateway
  <2>3. StopInv(s)' BY DEF StopInv
  <2>4. CleanupInv(s)' BY DEF CleanupInv
  <2>5. WatchInv(s)' BY DEF WatchInv, PlaceInv
  <2>6. DirsInv(s)' BY DEF DirsInv
  <2>7. QED BY <2>1, <2>2, <2>3, <2>4, <2>5, <2>6
<1>4. QED
  BY <1>1, <1>2, <1>3 DEF SupervisorInv

(* A step that changes no variable of the invariant keeps it.              *)
LEMMA Unmoved ==
  ASSUME SupervisorInv,
         UNCHANGED <<spec, at, child, procs, stopping, cut, dirs, watchVars>>
  PROVE  SupervisorInv'
<1>1. SupervisorType'
  BY DEF SupervisorInv, SupervisorType, watchVars
<1>2. ASSUME NEW q \in Proc PROVE ProcInv(q)'
  BY <1>2, OthersUnchanged DEF SupervisorInv, watchVars
<1>3. QED
  BY <1>1, <1>2 DEF SupervisorInv

(* Going on and leaving as the two supervisors write it.                   *)
LEMMA PassIsGoingOn ==
  ASSUME SupervisorInv, NEW s \in Proc, NEW b,
         Serves(s) => b \in ServePlaces, Integrates(s) => b \in IntegratedPlaces,
         at[s] \notin Appending \cup {"cleanup", "exited"}, at[s] = "idle" => Integrates(s),
         b \notin {"append ci", "append mcp", "append gw", "join", "cleanup", "exited"},
         b \in BeforeGateway => at[s] \in BeforeGateway \/ Integrates(s),
         at[s] \in Watchable => b \in Watchable,
         Pass(s, b), UNCHANGED dirs, UNCHANGED watchVars
  PROVE  SupervisorInv'
  BY GoesOn DEF Pass, Proceed, To, childVars

(* The finally clause of the integrated server starts where the loop ends. *)
LEMMA FinallyIsGoingOn ==
  ASSUME SupervisorInv, NEW s \in Proc, NEW c, Integrates(s),
         at[s] \notin Appending \cup {"cleanup", "exited", "idle"},
         Finally(s, c), UNCHANGED dirs, UNCHANGED watchVars
  PROVE  SupervisorInv'
<1>1. at' = [at EXCEPT ![s] = "stop"] /\ UNCHANGED <<spec, child, procs, stopping, cut>>
  BY DEF Finally, To, childVars
<1>2. QED
  BY <1>1, GoesOn DEF Integrates, Serves, IntegratedPlaces, BeforeGateway, Watchable

(* A supervisor that leaves its try block has everything to stop that it   *)
(* registered.                                                             *)
LEMMA LeavingCleansUp ==
  ASSUME SupervisorInv, NEW s \in Proc, NEW c, Serves(s),
         at[s] \notin Appending \cup {"cleanup", "exited", "idle"},
         Leave(s, c), UNCHANGED dirs, UNCHANGED watchVars
  PROVE  SupervisorInv'
<1>1. /\ at' = [at EXCEPT ![s] = "cleanup"]
      /\ stopping' = [stopping EXCEPT ![s]["main"] = Reverse(procs[s])]
      /\ UNCHANGED <<spec, child, procs, cut>>
  BY DEF Leave, To, CleanupHelperProcesses
<1>2. \A r \in Role : Running(s, r) => r \in Registered(s) \/ s \in cut
  BY DEF SupervisorInv, ProcInv, RegistryInv, Appending
<1>3. QED
  BY <1>1, <1>2, CleanupBegins DEF Serves, Integrates

(* Asking the first child of a list to stop: no other thread's list loses  *)
(* a child that runs.                                                      *)
LEMMA ListStep ==
  ASSUME SupervisorInv, NEW s \in Proc, NEW t \in Thread, TerminateProcess(s, t),
         t = "main" => at[s] = "cleanup",
         t = "watchdog" => watchdog[s] = "terminating",
         UNCHANGED <<mainVars, dirs, watchVars>>
  PROVE  SupervisorInv'
<1> DEFINE r == Head(stopping[s][t])
<1>0. stopping[s][t] # <<>> /\ stopping[s][t] \in Seq(Role) /\ r \in Role
  BY TailFacts DEF SupervisorInv, SupervisorType, TerminateProcess
<1>1. CASE child[s][r] \in Ended /\ UNCHANGED child
           /\ stopping' = [stopping EXCEPT ![s][t] = Tail(@)]
  BY <1>0, <1>1, ChildIsStruck DEF TerminateProcess, mainVars
<1>2. CASE child[s][r] \in {"booting", "ready"} /\ Becomes(s, r, "quitting") /\ UNCHANGED stopping
  <2>1. /\ Serves(s) => at[s] = "cleanup" /\ t = "main"
        /\ ~Serves(s) => s \in stopEvent
    BY DEF SupervisorInv, SupervisorType, ServeSpec, ProcInv, PlaceInv, StopInv, WatchInv,
           Thread, Serves, Integrates
  <2> HIDE DEF r
  <2>2. child' = [child EXCEPT ![s][r] = "quitting"]
        /\ UNCHANGED <<spec, at, procs, stopping, cut, dirs, watchVars>>
    BY <1>2 DEF TerminateProcess, Becomes, mainVars
  <2>3. Serves(s) => r = Head(stopping[s]["main"])
    BY <2>1 DEF r
  <2>4. QED
    BY <1>0, <1>2, <2>1, <2>2, <2>3, ChildIsAsked
<1>3. CASE child[s][r] = "quitting" /\ Becomes(s, r, "stopped") /\ UNCHANGED stopping
  <2>1. "stopped" \in ChildState
    BY DEF ChildState, Ended
  <2> HIDE DEF r
  <2>2. QED
    BY <1>0, <1>3, <2>1, ChildGoesOn DEF TerminateProcess, Becomes, mainVars
<1>4. QED
  BY <1>1, <1>2, <1>3 DEF TerminateProcess

(* Every step of the main thread of serve.                                 *)
LEMMA ServeStepKeeps ==
  ASSUME SupervisorInv, NEW s \in Proc, ServeStep(s), UNCHANGED watchVars
  PROVE  SupervisorInv'
<1> USE DEF ServePlaces, Appending, BeforeGateway, Watchable, Serves, Integrates, At
<1>1. CASE InstallAndPrepare(s)
  BY <1>1, InstallStep
<1>2. CASE NameMetricsDir(s) \/ SchemaDone(s)
  BY <1>2, PassIsGoingOn, LeavingCleansUp DEF NameMetricsDir, SchemaDone
<1>3. CASE CheckPorts(s)
  BY <1>3, PassIsGoingOn, LeavingCleansUp DEF CheckPorts
<1>4. CASE WaitUpstream(s)
  BY <1>4, PassIsGoingOn, LeavingCleansUp DEF WaitUpstream
<1>5. CASE WaitForCodeInterpreterReady(s) \/ WaitForMcpRuntimeReady(s) \/ WaitForGatewayReady(s)
  BY <1>5, PassIsGoingOn, LeavingCleansUp
     DEF WaitThen, WaitForCodeInterpreterReady, WaitForMcpRuntimeReady, WaitForGatewayReady
<1>6. ASSUME NEW r \in Role, NEW a, NEW b, SpawnThen(s, r, a, b),
             <<r, a, b>> \in {<<"ci", "spawn ci", "append ci">>,
                              <<"mcp", "spawn mcp", "append mcp">>,
                              <<"gw", "spawn gw", "append gw">>}
      PROVE  SupervisorInv'
  BY <1>6, ChildStarts DEF SpawnThen, SpawnLoggedProcess, Becomes, Proceed, To
<1>7. ASSUME NEW r \in Role, NEW a, NEW b, RegisterThen(s, r, a, b),
             <<r, a, b>> \in {<<"ci", "append ci", "wait ci">>, <<"mcp", "append mcp", "wait mcp">>,
                              <<"gw", "append gw", "wait gw">>}
      PROVE  SupervisorInv'
  BY <1>7, ChildIsRegistered DEF RegisterThen, Register, Proceed, To
<1>8. CASE SpawnCodeInterpreter(s) \/ SpawnMcpRuntime(s) \/ SpawnGateway(s)
  BY <1>6, <1>8 DEF SpawnCodeInterpreter, SpawnMcpRuntime, SpawnGateway, Role
<1>9. CASE AppendCodeInterpreter(s) \/ AppendMcpRuntime(s) \/ AppendGateway(s)
  BY <1>7, <1>9 DEF AppendCodeInterpreter, AppendMcpRuntime, AppendGateway, Role
<1>10. CASE GatewayEnds(s)
  BY <1>10, LeavingCleansUp DEF GatewayEnds
<1>11. CASE CleanupStep(s)
  BY <1>11, ListStep DEF CleanupStep, Thread
<1>12. CASE CleanupDone(s)
  <2>1. s \in cut \/ \A r \in Role : ~Running(s, r)
    <3>1. at[s] = "cleanup" /\ ToSet(stopping[s]["main"]) = {}
      BY <1>12 DEF CleanupDone, ToSet
    <3>2. RegistryInv(s) /\ CleanupInv(s)
      BY DEF SupervisorInv, ProcInv
    <3>3. QED
      BY <3>1, <3>2 DEF RegistryInv, CleanupInv
  <2>2. QED
    BY <1>12, <2>1, Ends DEF CleanupDone, Pass, Proceed, To, childVars, Alive
<1>13. QED
  BY <1>1, <1>2, <1>3, <1>4, <1>5, <1>8, <1>9, <1>10, <1>11, <1>12 DEF ServeStep

(* Every step of the main thread of the integrated server.                 *)
LEMMA IntegratedStepKeeps ==
  ASSUME SupervisorInv, NEW s \in Proc, IntegratedStep(s)
  PROVE  SupervisorInv'
<1> USE DEF ServePlaces, IntegratedPlaces, Appending, BeforeGateway, Watchable,
            Serves, Integrates, At, MainFrame
<1>1. CASE StartIntegrated(s)
  BY <1>1, PassIsGoingOn DEF StartIntegrated
<1>2. CASE IntegratedSchemaDone(s)
  <2>1. FirstHelper(s) \in {"port ci", "wait ci", "port mcp", "watch"}
    BY DEF FirstHelper, AfterCi
  <2>2. QED
    BY <1>2, <2>1, PassIsGoingOn, FinallyIsGoingOn DEF IntegratedSchemaDone
<1>3. ASSUME NEW r, EnsurePortAvailable(s, r, "port ci", "spawn ci")
                    \/ EnsurePortAvailable(s, r, "port mcp", "spawn mcp")
      PROVE  SupervisorInv'
  BY <1>3, PassIsGoingOn, FinallyIsGoingOn DEF EnsurePortAvailable
<1>4. ASSUME NEW r \in Role, NEW a, NEW b, SpawnHelper(s, r, a, b),
             <<r, a, b>> \in {<<"ci", "spawn ci", "append ci">>,
                              <<"mcp", "spawn mcp", "append mcp">>}
      PROVE  SupervisorInv'
  BY <1>4, ChildStarts DEF SpawnHelper, SpawnLoggedProcess, Becomes, Proceed, To
<1>5. ASSUME NEW r \in Role, NEW a, NEW b, AppendHelper(s, r, a, b),
             <<r, a, b>> \in {<<"ci", "append ci", "wait ci">>, <<"mcp", "append mcp", "wait mcp">>}
      PROVE  SupervisorInv'
  BY <1>5, ChildIsRegistered DEF AppendHelper, Register, Proceed, To
<1>6. ASSUME NEW r, NEW b \in {"port mcp", "watch"},
             WaitForHelperReady(s, r, "wait ci", b) \/ WaitForHelperReady(s, r, "wait mcp", b)
      PROVE  SupervisorInv'
  BY <1>6, PassIsGoingOn, FinallyIsGoingOn DEF WaitForHelperReady
<1>7. CASE StartIntegratedCodeInterpreter(s)
  BY <1>3, <1>4, <1>5, <1>6, <1>7 DEF StartIntegratedCodeInterpreter, AfterCi, Role
<1>8. CASE StartIntegratedMcpRuntime(s)
  BY <1>3, <1>4, <1>5, <1>6, <1>8 DEF StartIntegratedMcpRuntime, Role
<1>9. CASE StartHelperWatchdog(s)
  BY <1>9, WatchdogStarts
<1>10. CASE SetStopEvent(s)
  BY <1>10, StopEventIsSet
<1>11. CASE JoinWatchdog(s)
  <2>1. s \in stopEvent /\ \A r \in Role : Running(s, r) => r \in Registered(s) \/ s \in cut
    BY <1>11 DEF JoinWatchdog, SupervisorInv, ProcInv, StopInv, RegistryInv
  <2>2. QED
    BY <1>11, <2>1, CleanupBegins DEF JoinWatchdog, CleanupHelperProcesses, Proceed, To
<1>12. CASE IntegratedCleanupStep(s)
  BY <1>12, ListStep DEF IntegratedCleanupStep, Thread
<1>13. CASE IntegratedCleanupDone(s)
  <2>1. s \in cut \/ \A r \in Role : ~Running(s, r)
    <3>1. at[s] = "cleanup" /\ ToSet(stopping[s]["main"]) = {}
      BY <1>13 DEF IntegratedCleanupDone, ToSet
    <3>2. RegistryInv(s) /\ CleanupInv(s)
      BY DEF SupervisorInv, ProcInv
    <3>3. QED
      BY <3>1, <3>2 DEF RegistryInv, CleanupInv
  <2>2. s \notin dirs
    BY <1>13 DEF IntegratedCleanupDone, SupervisorInv, ProcInv, DirsInv
  <2>3. QED
    BY <1>13, <2>1, <2>2, Ends DEF IntegratedCleanupDone, Pass, Proceed, To, childVars, Alive
<1>14. QED
  BY <1>1, <1>2, <1>7, <1>8, <1>9, <1>10, <1>11, <1>12, <1>13 DEF IntegratedStep

(* Signals and kills, at whatever step the supervisor is.                  *)
LEMMA OutsideKeeps ==
  ASSUME SupervisorInv, NEW s \in Proc, Outside(s)
  PROVE  SupervisorInv'
<1>0. RegistryInv(s) /\ PlaceInv(s)
  BY DEF SupervisorInv, ProcInv
<1>1. CASE Signal(s) /\ UNCHANGED watchVars
  <2>1. CASE InTry(s)
    <3>1. /\ at' = [at EXCEPT ![s] = "cleanup"]
          /\ stopping' = [stopping EXCEPT ![s]["main"] = Reverse(procs[s])]
          /\ cut \subseteq cut' /\ cut' \subseteq cut \cup {s}
          /\ UNCHANGED <<spec, child, procs, dirs, watchVars>>
          /\ at[s] \notin {"idle", "metrics", "cleanup", "exited"} /\ ~Integrates(s)
      BY <1>1, <2>1 DEF Signal, To, CleanupHelperProcesses, InTry, Serves, Integrates
    <3>2. \A r \in Role : Running(s, r) => r \in Registered(s) \/ s \in cut'
      BY <1>1, <2>1 DEF Signal, Registered
    <3>3. QED
      BY <3>1, <3>2, CleanupBegins
  <2>2. CASE ~InTry(s)
    BY <1>1, <2>2, Ends DEF Signal, To
  <2>3. QED
    BY <2>1, <2>2
<1>2. CASE Killed(s) /\ UNCHANGED watchVars
  BY <1>2, Ends DEF Killed, To, childVars
<1>3. CASE Interrupt(s)
  <2>1. CASE at[s] \notin {"stop", "join", "cleanup"}
    <3>1. /\ at' = [at EXCEPT ![s] = "stop"] /\ Integrates(s)
          /\ at[s] \notin {"serving", "stop", "join", "cleanup", "exited"}
          /\ cut \subseteq cut' /\ cut' \subseteq cut \cup {s}
          /\ UNCHANGED <<spec, child, procs, stopping, dirs, watchVars>>
      BY <1>3, <2>1 DEF Interrupt, To, Alive, At, childVars
    <3>2. \A r \in Role : Running(s, r) => r \in Registered(s) \/ s \in cut'
      BY <1>3, <2>1 DEF Interrupt, Registered
    <3>3. QED
      BY <3>1, <3>2, Interrupted
  <2>2. CASE at[s] \in {"stop", "join", "cleanup"}
    BY <1>3, <2>2, Ends DEF Interrupt, To, childVars
  <2>3. QED
    BY <2>1, <2>2
<1>4. CASE UpstreamCliEnds(s)
  BY <1>4, FinallyIsGoingOn DEF UpstreamCliEnds, At, MainFrame, Appending
<1>5. QED
  BY <1>1, <1>2, <1>3, <1>4 DEF Outside

(* Every step of the watchdog thread.                                      *)
LEMMA WatchdogStepKeeps ==
  ASSUME SupervisorInv, NEW s \in Proc, WatchdogStep(s)
  PROVE  SupervisorInv'
<1>0. /\ saw \in [Proc -> Role \cup {"none"}] /\ procs[s] \in Seq(Role)
      /\ WatchInv(s) /\ RegistryInv(s) /\ CleanupInv(s) /\ PlaceInv(s) /\ DirsInv(s)
  BY DEF SupervisorInv, SupervisorType, ProcInv
<1> USE DEF WatchFrame, helperVars, childVars, mainVars
<1>1. CASE BeginPass(s) \/ EndPass(s) \/ WatchdogStops(s)
  BY <1>0, <1>1, WatchdogGoesOn DEF BeginPass, EndPass, WatchdogStops
<1>2. CASE SeeHelperEnded(s)
  <2>1. PICK r \in ToSet(procs[s]) : child[s][r] \in Ended /\ saw' = [saw EXCEPT ![s] = r]
    BY <1>2 DEF SeeHelperEnded
  <2>2. r \in Role
    BY <1>0, ListedRoles
  <2>3. /\ saw' \in [Proc -> Role \cup {"none"}] /\ saw'[s] = r
        /\ \A q \in Proc : q # s => saw'[q] = saw[q]
    BY <1>0, <2>1, <2>2
  <2>4. QED
    BY <1>2, <2>1, <2>3, WatchdogGoesOn DEF SeeHelperEnded, Registered
<1>3. CASE RaiseAlarm(s)
  BY <1>3, AlarmIsRaised
<1>4. CASE WatchdogTerminates(s)
  BY <1>4, ListStep DEF WatchdogTerminates, Thread
<1>5. CASE WatchdogExits(s)
  <2>1. watchdog[s] = "terminating" /\ ToSet(stopping[s]["watchdog"]) = {} /\ Alive(s)
    BY <1>5 DEF WatchdogExits, ToSet
  <2>2. s \in cut \/ \A r \in Role : ~Running(s, r)
    BY <1>0, <2>1 DEF WatchInv, RegistryInv, CleanupInv
  <2>3. s \notin dirs
    BY <1>0, <2>1 DEF PlaceInv, DirsInv
  <2>4. /\ at' = [at EXCEPT ![s] = "exited"]
        /\ UNCHANGED <<spec, child, procs, stopping, cut, dirs, watchVars>>
    BY <1>5 DEF WatchdogExits, To
  <2>5. QED
    BY <2>1, <2>2, <2>3, <2>4, Ends
<1>6. QED
  BY <1>1, <1>2, <1>3, <1>4, <1>5 DEF WatchdogStep

(* Children bind their port, die and obey on their own.                    *)
LEMMA ChildStepKeeps ==
  ASSUME SupervisorInv, ChildStep, Children
  PROVE  SupervisorInv'
<1>1. PICK s \in Proc, r \in Role : Bind(s, r) \/ Die(s, r) \/ Obey(s, r)
  BY DEF ChildStep
<1>2. PICK c \in {"ready", "stopped"} \cup OwnEnd :
        /\ child' = [child EXCEPT ![s][r] = c]
        /\ child[s][r] \in {"booting", "ready", "quitting"}
        /\ child[s][r] = "quitting" <=> c = "stopped"
  BY <1>1 DEF Bind, Die, Obey, Becomes, OwnEnd
<1>3. UNCHANGED <<spec, at, procs, stopping, cut, dirs, watchVars>>
  BY <1>1 DEF Children, Bind, Die, Obey, mainVars
<1>4. c \in ChildState
  BY DEF ChildState, Ended, OwnEnd
<1>5. QED
  BY <1>2, <1>3, <1>4, ChildGoesOn

(* The invariant holds when no supervisor has been started.                *)
LEMMA InitEstablishes == Init => SupervisorInv
<1> SUFFICES ASSUME Init PROVE SupervisorInv
  OBVIOUS
<1> USE DEF Init, HelperInit, WatchInit
<1>1. SupervisorType
  BY SpecsAssumption DEF SupervisorType, ServePlaces, ChildState, Role, Thread
<1>2. ASSUME NEW s \in Proc PROVE ProcInv(s)
  <2>1. /\ at[s] = "idle" /\ watchdog[s] = "off" /\ s \notin stopEvent /\ s \notin dirs
        /\ Registered(s) = {} /\ \A r \in Role : child[s][r] = "none"
    BY DEF Registered, ToSet
  <2> HIDE DEF Init, HelperInit, WatchInit
  <2>2. PlaceInv(s) /\ RegistryInv(s)
    BY <2>1 DEF PlaceInv, RegistryInv, ServePlaces, IntegratedPlaces, Running, Role
  <2>3. StopInv(s) /\ CleanupInv(s)
    BY <2>1 DEF StopInv, CleanupInv
  <2>4. WatchInv(s) /\ DirsInv(s)
    BY <2>1 DEF WatchInv, DirsInv, Alive
  <2>5. QED
    BY <2>2, <2>3, <2>4 DEF ProcInv
<1>3. QED
  BY <1>1, <1>2 DEF SupervisorInv

(* Every step of the host keeps the invariant.                             *)
LEMMA NextKeeps == SupervisorInv /\ [Next]_vars => SupervisorInv'
<1> SUFFICES ASSUME SupervisorInv, [Next]_vars PROVE SupervisorInv'
  OBVIOUS
<1>1. ASSUME NEW s \in Proc, MainStep(s) PROVE SupervisorInv'
  <2>1. CASE ServeStep(s) /\ UNCHANGED watchVars
    BY <2>1, ServeStepKeeps
  <2>2. CASE (BeginSchema(s) \/ SchemaStep(s)) /\ UNCHANGED watchVars
    BY <2>2, Unmoved DEF BeginSchema, SchemaStep, helperVars, childVars, mainVars
  <2>3. QED
    BY <1>1, <2>1, <2>2, IntegratedStepKeeps DEF MainStep
<1>2. CASE UNCHANGED vars
  BY <1>2, Unmoved DEF vars, serveVars, helperVars, childVars, mainVars
<1>3. QED
  BY <1>1, <1>2, OutsideKeeps, WatchdogStepKeeps, ChildStepKeeps DEF Next

(* The invariant holds in every behaviour.                                 *)
LEMMA AlwaysInv == Spec => []SupervisorInv
<1>1. QED
  BY InitEstablishes, NextKeeps, PTL DEF Spec

------------------------------------------------------------------------------
(* Whatever kinds of supervisors run on a host and whatever their children *)
(* do, every supervisor is where one of its kind can be, with lists of the *)
(* children it has.                                                        *)
THEOREM TypeCorrect == Spec => []SupervisorType
<1>1. SupervisorInv => SupervisorType
  BY DEF SupervisorInv
<1>2. QED
  BY AlwaysInv, <1>1, PTL

(* A supervisor that ends, and was not cut short, leaves neither child nor *)
(* metrics directory behind, its own directory is left alone while it      *)
(* runs, and no helper is stopped under a gateway that still runs          *)
(* (the finally blocks of run_serve_spec and run_integrated_serve).        *)
THEOREM LeavesNothingBehind == Spec => []CleansUpAfterItself
<1>1. SupervisorInv => CleansUpAfterItself
  <2> SUFFICES ASSUME SupervisorInv, NEW s \in Proc
               PROVE  /\ At(s, "exited") /\ s \notin cut =>
                           s \notin dirs /\ \A r \in Role : ~Running(s, r)
                      /\ Alive(s) /\ Serves(s) /\ spec[s].metrics => s \in dirs
                      /\ s \notin cut /\ Running(s, "gw") =>
                           child[s]["ci"] # "quitting" /\ child[s]["mcp"] # "quitting"
    BY DEF CleansUpAfterItself
  <2>0. PlaceInv(s) /\ StopInv(s) /\ CleanupInv(s) /\ DirsInv(s) /\ spec[s] \in ServeSpec
    BY DEF SupervisorInv, SupervisorType, ProcInv
  <2>1. At(s, "exited") /\ s \notin cut => s \notin dirs /\ \A r \in Role : ~Running(s, r)
    BY <2>0 DEF At, CleanupInv, DirsInv
  <2>2. ASSUME s \notin cut, Running(s, "gw")
        PROVE  child[s]["ci"] # "quitting" /\ child[s]["mcp"] # "quitting"
    <3>1. Serves(s)
      BY <2>0, <2>2 DEF PlaceInv, Running, Serves, Integrates, ServeSpec
    <3>2. CASE at[s] \notin {"cleanup", "exited"}
      BY <2>0, <3>1, <3>2 DEF StopInv, Role
    <3>3. CASE at[s] \in {"cleanup", "exited"}
      BY <2>0, <2>2, <3>1, <3>3 DEF CleanupInv, Role
    <3>4. QED
      BY <3>2, <3>3
  <2>3. QED
    BY <2>0, <2>1, <2>2 DEF DirsInv
<1>2. QED
  BY AlwaysInv, <1>1, PTL

(* The watchdog of the integrated server takes the process down only over  *)
(* a helper that ended of its own accord (_start_helper_watchdog).         *)
THEOREM AlarmsAreTrue == Spec => []NoFalseAlarm
<1>1. SupervisorInv => NoFalseAlarm
  BY DEF SupervisorInv, ProcInv, WatchInv, NoFalseAlarm
<1>2. QED
  BY AlwaysInv, <1>1, PTL

------------------------------------------------------------------------------
(* The schema.  The steps of ensure_schema are those of SchemaStep and     *)
(* BeginSchema, and a signal or a kill cuts it; all others leave it alone. *)
LEMMA SetupGoes ==
  ASSUME SetupInv, NEW s \in Proc, NEW b \in SetupPlaces, Goto(s, b), UNCHANGED <<dialect, spec>>,
         locker' \in Proc \cup {NoProc}, creator' \in Proc \cup {NoProc}, committed' \in BOOLEAN,
         committed => committed', unheard \subseteq unheard',
         \A p \in Proc : p # s /\ creator = p => creator' = p,
         b \in {"created", "unlocked"} => committed' \/ creator' = s \/ s \in unheard',
         b = "ready" => committed' \/ spec[s].marked \/ s \in unheard'
  PROVE  SetupInv'
<1>1. SetupType'
  BY DEF SetupInv, SetupType, Goto
<1>2. setup'[s] = b /\ \A p \in Proc : p # s => setup'[p] = setup[p]
  BY DEF SetupInv, SetupType, Goto
<1>3. ASSUME NEW p \in Proc PROVE TablesInv(p)'
  BY <1>2 DEF SetupInv, TablesInv
<1>4. QED
  BY <1>1, <1>3 DEF SetupInv

(* Every step of the schema set-up keeps what it knows of the tables.      *)
LEMMA SetupStepKeeps ==
  ASSUME SetupInv, NEW s \in Proc, SetupStep(s), UNCHANGED spec
  PROVE  SetupInv'
<1>0. SetupType /\ TablesInv(s) /\ NoProc # s
  BY HostAssumption DEF SetupInv
<1> USE HostAssumption DEF SetupType, TablesInv, SetupPlaces, FreeIf, CloseSession
<1>1. CASE TryLock(s)
  BY <1>0, <1>1, SetupGoes DEF TryLock
<1>2. CASE LockTimeout(s)
  BY <1>0, <1>2, SetupGoes DEF LockTimeout
<1>3. CASE CheckTables(s)
  BY <1>0, <1>3, SetupGoes DEF CheckTables, AfterTables
<1>4. CASE CreateTables(s)
  BY <1>0, <1>4, SetupGoes DEF CreateTables, AfterTables
<1>5. CASE Unlock(s)
  BY <1>0, <1>5, SetupGoes DEF Unlock
<1>6. CASE Commit(s)
  <2>1. committed' \in BOOLEAN /\ (committed => committed')
    BY <1>0, <1>6 DEF Commit
  <2>2. /\ creator' \in Proc \cup {NoProc} /\ locker' \in Proc \cup {NoProc}
        /\ unheard' = unheard
        /\ \A p \in Proc : p # s /\ creator = p => creator' = p
    BY <1>0, <1>6 DEF Commit
  <2>3. CASE Goto(s, "ready") /\ committed' = (committed \/ creator = s)
    BY <1>0, <1>6, <2>1, <2>2, <2>3, SetupGoes DEF Commit
  <2>4. CASE Goto(s, "error")
    BY <1>0, <1>6, <2>1, <2>2, <2>4, SetupGoes DEF Commit
  <2>5. QED
    BY <1>6, <2>3, <2>4 DEF Commit
<1>7. QED
  BY <1>1, <1>2, <1>3, <1>4, <1>5, <1>6 DEF SetupStep

(* No other step of the host has a part in it.                             *)
LEMMA WhoMovesTheSchema ==
  ASSUME [Next]_vars
  PROVE  \/ UNCHANGED schemaVars
         \/ \E s \in Proc : BeginSchema(s) \/ SchemaStep(s) \/ SetupCut(s)
<1>1. ASSUME NEW s \in Proc, MainStep(s)
      PROVE  UNCHANGED schemaVars \/ BeginSchema(s) \/ SchemaStep(s)
  <2>1. CASE ServeStep(s)
    BY <2>1
       DEF ServeStep, InstallAndPrepare, NameMetricsDir, SchemaDone, CheckPorts, WaitUpstream,
           WaitThen, SpawnThen, RegisterThen, SpawnCodeInterpreter, AppendCodeInterpreter,
           WaitForCodeInterpreterReady, SpawnMcpRuntime, AppendMcpRuntime, WaitForMcpRuntimeReady,
           SpawnGateway, AppendGateway, WaitForGatewayReady, GatewayEnds, CleanupStep, CleanupDone
  <2>2. CASE IntegratedStep(s)
    BY <2>2
       DEF IntegratedStep, MainFrame, StartIntegrated, IntegratedSchemaDone, EnsurePortAvailable,
           SpawnHelper, AppendHelper, WaitForHelperReady, StartIntegratedCodeInterpreter,
           StartIntegratedMcpRuntime, StartHelperWatchdog, SetStopEvent, JoinWatchdog,
           IntegratedCleanupStep, IntegratedCleanupDone, schemaVars
  <2>3. QED
    BY <1>1, <2>1, <2>2 DEF MainStep
<1>2. ASSUME NEW s \in Proc, Outside(s) PROVE UNCHANGED schemaVars \/ SetupCut(s)
  BY <1>2 DEF Outside, Signal, Killed, Interrupt, UpstreamCliEnds, MainFrame
<1>3. ASSUME NEW s \in Proc, WatchdogStep(s) PROVE UNCHANGED schemaVars
  BY <1>3 DEF WatchdogStep, WatchFrame, BeginPass, EndPass, SeeHelperEnded, WatchdogStops,
              RaiseAlarm, WatchdogTerminates, WatchdogExits
<1>4. CASE UNCHANGED vars \/ Children
  BY <1>4 DEF vars, serveVars, Children
<1>5. QED
  BY <1>1, <1>2, <1>3, <1>4 DEF Next

(* No supervisor changes its configuration.                                *)
LEMMA SpecsStay ==
  ASSUME [Next]_vars
  PROVE  UNCHANGED spec
<1> USE DEF Pass, Proceed, Leave, Finally, mainVars, helperVars
<1>1. ASSUME NEW s \in Proc, MainStep(s) PROVE UNCHANGED spec
  <2>1. CASE ServeStep(s)
    BY <2>1
       DEF ServeStep, InstallAndPrepare, NameMetricsDir, SchemaDone, CheckPorts, WaitUpstream,
           WaitThen, SpawnThen, RegisterThen, SpawnCodeInterpreter, AppendCodeInterpreter,
           WaitForCodeInterpreterReady, SpawnMcpRuntime, AppendMcpRuntime, WaitForMcpRuntimeReady,
           SpawnGateway, AppendGateway, WaitForGatewayReady, GatewayEnds, CleanupStep, CleanupDone
  <2>2. CASE IntegratedStep(s)
    BY <2>2
       DEF IntegratedStep, StartIntegrated, IntegratedSchemaDone, EnsurePortAvailable,
           SpawnHelper, AppendHelper, WaitForHelperReady, StartIntegratedCodeInterpreter,
           StartIntegratedMcpRuntime, StartHelperWatchdog, SetStopEvent, JoinWatchdog,
           IntegratedCleanupStep, IntegratedCleanupDone
  <2>3. QED
    BY <1>1, <2>1, <2>2 DEF MainStep, BeginSchema, SchemaStep
<1>2. ASSUME NEW s \in Proc, Outside(s) PROVE UNCHANGED spec
  BY <1>2 DEF Outside, Signal, Killed, Interrupt, UpstreamCliEnds
<1>3. ASSUME NEW s \in Proc, WatchdogStep(s) PROVE UNCHANGED spec
  BY <1>3 DEF WatchdogStep, BeginPass, EndPass, SeeHelperEnded, WatchdogStops,
              RaiseAlarm, WatchdogTerminates, WatchdogExits
<1>4. CASE ChildStep
  BY <1>4 DEF ChildStep, Bind, Die, Obey
<1>5. QED
  BY <1>1, <1>2, <1>3, <1>4 DEF Next, vars, serveVars

(* So every step of the host keeps what is known of the tables, ...        *)
LEMMA SetupNext ==
  ASSUME SetupInv, [Next]_vars
  PROVE  SetupInv'
<1>0. UNCHANGED spec
  BY SpecsStay
<1>1. CASE UNCHANGED schemaVars
  BY <1>0, <1>1 DEF SetupInv, SetupType, TablesInv, schemaVars
<1>2. ASSUME NEW s \in Proc, BeginSchema(s) PROVE SetupInv'
  BY <1>0, <1>2, SetupGoes DEF BeginSchema, EnsureSchema, SetupInv, SetupType, SetupPlaces
<1>3. ASSUME NEW s \in Proc, SchemaStep(s) PROVE SetupInv'
  BY <1>0, <1>3, SetupStepKeeps DEF SchemaStep
<1>4. ASSUME NEW s \in Proc, SetupCut(s) PROVE SetupInv'
  <2>1. SetupType /\ TablesInv(s)
    BY DEF SetupInv
  <2>2. QED
    BY <1>0, <1>4, <2>1, SetupGoes, HostAssumption
       DEF SetupCut, CloseSession, FreeIf, SetupType, SetupPlaces, TablesInv
<1>5. QED
  BY <1>1, <1>2, <1>3, <1>4, WhoMovesTheSchema

(* ... and who is ready remains so.                                        *)
LEMMA ReadyStays ==
  ASSUME SetupType, [Next]_vars, NEW q \in Proc, setup[q] = "ready"
  PROVE  setup'[q] = "ready"
<1>1. ASSUME NEW s \in Proc, BeginSchema(s) \/ SchemaStep(s) \/ SetupCut(s)
      PROVE  setup'[q] = "ready"
  BY <1>1 DEF SetupType, BeginSchema, EnsureSchema, SchemaStep, SetupStep, SetupCut, Goto,
              TryLock, LockTimeout, CheckTables, CreateTables, Unlock, Commit
<1>2. QED
  BY <1>1, WhoMovesTheSchema DEF schemaVars

(* A supervisor that is not ready neither gets past the schema nor starts  *)
(* a gateway.                                                              *)
LEMMA StaysEarly ==
  ASSUME SupervisorType, [Next]_vars, NEW q \in Proc, setup[q] # "ready", Early(q)
  PROVE  Early(q)'
<1>0. /\ at \in [Proc -> ServePlaces \cup IntegratedPlaces] /\ UNCHANGED spec
      /\ child \in [Proc -> [Role -> ChildState]]
  BY SpecsStay DEF SupervisorType
<1> USE <1>0 DEF Early, PastSchema, Running, Serves, Role, Ended, OwnEnd, Becomes, At, To,
                 Pass, Proceed, Leave, Finally, childVars, mainVars, helperVars
<1>1. ASSUME NEW s \in Proc, ServeStep(s) PROVE Early(q)'
  <2>1. CASE InstallAndPrepare(s) \/ NameMetricsDir(s)
    BY <2>1 DEF InstallAndPrepare, NameMetricsDir
  <2>2. CASE SchemaDone(s)
    BY <2>2 DEF SchemaDone
  <2>3. CASE CheckPorts(s) \/ WaitUpstream(s) \/ GatewayEnds(s) \/ CleanupDone(s)
    BY <2>3 DEF CheckPorts, WaitUpstream, GatewayEnds, CleanupDone, ServePlaces
  <2>4. ASSUME NEW r \in Role, NEW a \in PastSchema, NEW b,
               SpawnThen(s, r, a, b) \/ RegisterThen(s, r, a, b) \/ WaitThen(s, r, child[s][r], a, b)
        PROVE  Early(q)'
    <3>1. s # q /\ at' = [at EXCEPT ![s] = at'[s]] /\ child' = [child EXCEPT ![s] = child'[s]]
      BY <2>4 DEF SpawnThen, RegisterThen, WaitThen, SpawnLoggedProcess, Register
    <3>2. QED
      BY <3>1
  <2>5. CASE \/ SpawnCodeInterpreter(s) \/ AppendCodeInterpreter(s) \/ WaitForCodeInterpreterReady(s)
             \/ SpawnMcpRuntime(s) \/ AppendMcpRuntime(s) \/ WaitForMcpRuntimeReady(s)
             \/ SpawnGateway(s) \/ AppendGateway(s) \/ WaitForGatewayReady(s)
    BY <2>4, <2>5
       DEF SpawnCodeInterpreter, AppendCodeInterpreter, WaitForCodeInterpreterReady,
           SpawnMcpRuntime, AppendMcpRuntime, WaitForMcpRuntimeReady,
           SpawnGateway, AppendGateway, WaitForGatewayReady, ServePlaces
  <2>6. CASE CleanupStep(s)
    BY <2>6 DEF CleanupStep, TerminateProcess
  <2>7. QED
    BY <1>1, <2>1, <2>2, <2>3, <2>5, <2>6 DEF ServeStep
<1>2. ASSUME NEW s \in Proc, IntegratedStep(s) PROVE Early(q)'
  <2>1. CASE StartIntegrated(s) \/ IntegratedSchemaDone(s) \/ StartHelperWatchdog(s)
             \/ SetStopEvent(s) \/ JoinWatchdog(s) \/ IntegratedCleanupDone(s)
    BY <2>1 DEF StartIntegrated, IntegratedSchemaDone, StartHelperWatchdog, SetStopEvent,
                JoinWatchdog, IntegratedCleanupDone, Integrates
  <2>2. CASE StartIntegratedCodeInterpreter(s) \/ StartIntegratedMcpRuntime(s)
    <3>1. ASSUME NEW r \in {"ci", "mcp"}, NEW a, NEW b,
                 \/ EnsurePortAvailable(s, r, a, b) \/ SpawnHelper(s, r, a, b)
                 \/ AppendHelper(s, r, a, b) \/ WaitForHelperReady(s, r, a, b)
          PROVE  Early(q)'
      <4>1. Integrates(s) /\ ~Serves(s) /\ at' = [at EXCEPT ![s] = at'[s]]
        BY <3>1 DEF EnsurePortAvailable, SpawnHelper, AppendHelper, WaitForHelperReady, Integrates
      <4>2. child' = child \/ child' = [child EXCEPT ![s][r] = "booting"]
        BY <3>1 DEF EnsurePortAvailable, SpawnHelper, AppendHelper, WaitForHelperReady,
                    SpawnLoggedProcess, Register
      <4>3. QED
        BY <4>1, <4>2
    <3>2. QED
      BY <2>2, <3>1 DEF StartIntegratedCodeInterpreter, StartIntegratedMcpRuntime
  <2>3. CASE IntegratedCleanupStep(s)
    BY <2>3 DEF IntegratedCleanupStep, TerminateProcess
  <2>4. QED
    BY <1>2, <2>1, <2>2, <2>3 DEF IntegratedStep
<1>3. ASSUME NEW s \in Proc, BeginSchema(s) \/ SchemaStep(s) PROVE Early(q)'
  BY <1>3 DEF BeginSchema, SchemaStep
<1>4. ASSUME NEW s \in Proc, Outside(s) PROVE Early(q)'
  <2>1. child' = child /\ at' = [at EXCEPT ![s] = at'[s]] /\ at'[s] \notin PastSchema
    BY <1>4 DEF Outside, Signal, Killed, Interrupt, UpstreamCliEnds, ServePlaces
  <2>2. QED
    BY <2>1
<1>5. ASSUME NEW s \in Proc, WatchdogStep(s) PROVE Early(q)'
  BY <1>5 DEF WatchdogStep, BeginPass, EndPass, SeeHelperEnded, WatchdogStops,
              RaiseAlarm, WatchdogTerminates, WatchdogExits, TerminateProcess
<1>6. CASE ChildStep
  BY <1>6 DEF ChildStep, Bind, Die, Obey
<1>7. QED
  BY <1>1, <1>2, <1>3, <1>4, <1>5, <1>6 DEF Next, MainStep, vars, serveVars

(* Whoever takes the tables for given -- a process whose ensure_schema is  *)
(* done, or the gateway that VR_DB_SCHEMA_READY tells so -- finds them     *)
(* committed, whichever processes race for them, wherever they are stopped *)
(* and however a commit fails, but for a supervisor that took its own      *)
(* environment's word and one whose failure to create them was swallowed.  *)
(* (The lock is no part of the argument: it is given back before the       *)
(* commit.)                                                                *)
THEOREM ReadyMeansTables == Spec => []SchemaReadyMeansTables
<1>1. Init => SchemaInv
  <2>1. ASSUME Init PROVE SetupInv
    BY <2>1 DEF Init, SchemaInit, SetupInv, SetupType, SetupPlaces, TablesInv
  <2>2. ASSUME Init, NEW s \in Proc PROVE ReadyInv(s)
    BY <2>2 DEF Init, HelperInit, ReadyInv, Early, PastSchema, Running, Role
  <2>3. QED
    BY <2>1, <2>2, InitEstablishes DEF SchemaInv
<1>2. SchemaInv /\ [Next]_vars => SchemaInv'
  <2>1. ASSUME SchemaInv, [Next]_vars, NEW q \in Proc PROVE ReadyInv(q)'
    <3>1. SupervisorType /\ SetupType /\ ReadyInv(q)
      BY <2>1 DEF SchemaInv, SupervisorInv, SetupInv
    <3>2. CASE setup[q] = "ready"
      BY <2>1, <3>1, <3>2, ReadyStays DEF ReadyInv
    <3>3. CASE setup[q] # "ready"
      BY <2>1, <3>1, <3>3, StaysEarly DEF ReadyInv
    <3>4. QED
      BY <3>2, <3>3
  <2>2. QED
    BY <2>1, SetupNext, NextKeeps DEF SchemaInv
<1>3. SchemaInv => SchemaReadyMeansTables
  BY DEF SchemaInv, SetupInv, TablesInv, ReadyInv, Early, SchemaReadyMeansTables
<1>4. QED
  BY <1>1, <1>2, <1>3, PTL DEF Spec

-----------------------------------------------------------------------------
(***************************************************************************)
(* What the supervisors hand on: flags and variables to configurations.    *)
(***************************************************************************)

Fields == {"kind", "format", "host", "port", "workers", "base", "web_search_profile", "mode", "ci_port", "ci_workers",
           "timeout", "egress", "mcp_config_path", "mcp_url", "codex_approval_model", "max_concurrency",
           "request_remote", "bun_fallback"}

(* A value that is not blank and not absent is read back as it was set.    *)
LEMMA ReadBack ==
  ASSUME NEW env, NEW key, NEW default, env[key] \notin {None, Blank}
  PROVE  get_typed(env, key, default) = env[key]
BY DEF get_typed

(* An optional value that is not blank is read back, None as None.         *)
LEMMA OptionalReadBack ==
  ASSUME NEW env, NEW key, env[key] # Blank
  PROVE  get_optional_str(env, key) = env[key]
BY DEF get_optional_str

LEMMA NormalizedIsNotBlank ==
  ASSUME NEW f, NEW v, f # "codex_approval_model"
  PROVE  Normalize(f, v) # Blank
<1>1. CASE v = Blank
  BY <1>1, Zenon DEF Normalize, None, Blank
<1>2. CASE v # Blank /\ f = "upstream_api_kind" /\ v = "chat-completions"
  BY <1>2, Zenon DEF Normalize, None, Blank
<1>3. CASE v # Blank /\ ~(f = "upstream_api_kind" /\ v = "chat-completions")
  BY <1>3, Zenon DEF Normalize
<1> QED BY <1>1, <1>2, <1>3

(* What is true of the flags once they are accepted.                       *)
AcceptedCli(cli) ==
  /\ cli.upstream_api_kind \in Kinds \cup {None}
  /\ cli.reasoning_event_format \in Formats \cup {None}
  /\ cli.code_interpreter_mode \in Modes \cup {None}
  /\ cli.code_interpreter_port \in Numbers \cup {None}
  /\ cli.code_interpreter_workers \in Numbers \cup {None}
  /\ cli.web_search_profile # Blank /\ cli.mcp_config_path # Blank
  /\ cli.code_interpreter_egress_policy_path # Blank
  /\ cli.mcp_port = None \/ cli.mcp_config_path # None \/ profiled_builtin_requires_mcp(cli.web_search_profile)

LEMMA CliIsAccepted ==
  ASSUME NEW raw, ~validate_responses_cli_args_fails(ResponsesCliArgs(raw))
  PROVE  AcceptedCli(ResponsesCliArgs(raw))
<1> DEFINE cli == ResponsesCliArgs(raw)
           S == RESPONSES_CLI_FLAG_SPECS.supervisor
<1>1. /\ "web_search_profile" \in S /\ "mcp_config_path" \in S
      /\ "code_interpreter_egress_policy_path" \in S
  BY DEF RESPONSES_CLI_FLAG_SPECS
<1>2. ASSUME NEW f \in S, f # "codex_approval_model"
      PROVE  cli[f] # Blank
  <2>1. cli[f] = IF f \in DOMAIN raw THEN Normalize(f, raw[f]) ELSE None
    BY DEF ResponsesCliArgs
  <2>2. Normalize(f, raw[f]) # Blank
    BY <1>2, NormalizedIsNotBlank
  <2> QED BY <2>1, <2>2 DEF None, Blank
<1>3. cli.web_search_profile # Blank /\ cli.mcp_config_path # Blank /\ cli.code_interpreter_egress_policy_path # Blank
  <2> HIDE DEF cli, S
  <2> QED BY <1>1, <1>2
<1>4. cli.code_interpreter_port \in Numbers \cup {None} /\ cli.code_interpreter_workers \in Numbers \cup {None}
  <2> HIDE DEF cli
  <2> QED BY DEF validate_responses_cli_args_fails, Numeric, cli
<1>5. /\ cli.upstream_api_kind \in Kinds \cup {None} /\ cli.reasoning_event_format \in Formats \cup {None}
      /\ cli.code_interpreter_mode \in Modes \cup {None} /\ _validate_mcp_port_requires_config(cli)
  BY DEF validate_responses_cli_args_fails
<1> HIDE DEF cli
<1> QED BY <1>3, <1>4, <1>5 DEF AcceptedCli, _validate_mcp_port_requires_config, cli

(* What build_common_runtime_config adds to the fields it is given.        *)
LEMMA BuiltFields ==
  ASSUME NEW env, NEW d, DOMAIN d = Fields, NEW c, c = build_common_runtime_config(env, d)
  PROVE  /\ c = [f \in Fields |-> c[f]]
         /\ \A f \in Fields \ {"mcp_url", "egress", "max_concurrency", "request_remote", "bun_fallback"} : c[f] = d[f]
         /\ c.mcp_url = IF needs_mcp(d) /\ d.mcp_url = NoUrl THEN DefaultMcpUrl ELSE d.mcp_url
         /\ c.egress = Or(d.egress, get_optional_str(env, "VR_CODE_INTERPRETER_EGRESS_POLICY_PATH"))
         /\ c.max_concurrency = get_typed(env, "VR_MAX_CONCURRENCY", Default.max_concurrency)
         /\ c.request_remote = get_typed(env, "VR_MCP_REQUEST_REMOTE_ENABLED", Default.mcp_request_remote_enabled)
         /\ c.bun_fallback = get_typed(env, "VR_CODE_INTERPRETER_DEV_BUN_FALLBACK", Default.dev_bun_fallback)
BY DEF build_common_runtime_config, Fields

LEMMA SameNeeds ==
  ASSUME NEW c, NEW d, c.mcp_config_path = d.mcp_config_path, c.web_search_profile = d.web_search_profile
  PROVE  needs_mcp(c) = needs_mcp(d)
BY Zenon DEF needs_mcp

(* The fields of the configuration a launcher builds.                      *)
LEMMA LaunchedFields ==
  ASSUME NEW env, NEW cli, NEW g, NEW c, c = Launched(env, cli, g)
  PROVE  /\ c = [f \in Fields |-> c[f]]
         /\ c.kind = Or(cli.upstream_api_kind, Default.upstream_api_kind)
         /\ c.format = Or(cli.reasoning_event_format, Default.reasoning_event_format)
         /\ c.host = g.host /\ c.port = g.port /\ c.workers = g.workers /\ c.base = g.base
         /\ c.web_search_profile = cli.web_search_profile
         /\ c.mode = Or(cli.code_interpreter_mode, Default.code_interpreter_mode)
         /\ c.ci_port = IfEnabled(c.mode, Or(cli.code_interpreter_port, Default.code_interpreter_port))
         /\ c.ci_workers = IfEnabled(c.mode, Or(cli.code_interpreter_workers, Default.code_interpreter_workers))
         /\ c.egress = Or(cli.code_interpreter_egress_policy_path,
                          get_optional_str(env, "VR_CODE_INTERPRETER_EGRESS_POLICY_PATH"))
         /\ c.mcp_config_path = cli.mcp_config_path
         /\ c.mcp_url = IF needs_mcp(c) /\ cli.mcp_port = None THEN DefaultMcpUrl
                        ELSE IF cli.mcp_port = None THEN NoUrl ELSE loopback_url_from_port(cli.mcp_port)
         /\ c.codex_approval_model = cli.codex_approval_model
         /\ c.max_concurrency = get_typed(env, "VR_MAX_CONCURRENCY", Default.max_concurrency)
         /\ c.request_remote = get_typed(env, "VR_MCP_REQUEST_REMOTE_ENABLED", Default.mcp_request_remote_enabled)
         /\ c.bun_fallback = get_typed(env, "VR_CODE_INTERPRETER_DEV_BUN_FALLBACK", Default.dev_bun_fallback)
<1> DEFINE mode == Or(cli.code_interpreter_mode, Default.code_interpreter_mode)
           url == IF cli.mcp_port = None THEN NoUrl ELSE loopback_url_from_port(cli.mcp_port)
           b == [kind |-> Or(cli.upstream_api_kind, Default.upstream_api_kind),
                 format |-> Or(cli.reasoning_event_format, Default.reasoning_event_format),
                 host |-> g.host, port |-> g.port, workers |-> g.workers,
                 base |-> g.base,
                 web_search_profile |-> cli.web_search_profile, mode |-> mode,
                 ci_port |-> IfEnabled(mode, Or(cli.code_interpreter_port, Default.code_interpreter_port)),
                 ci_workers |-> IfEnabled(mode, Or(cli.code_interpreter_workers, Default.code_interpreter_workers)),
                 timeout |-> Or(cli.code_interpreter_startup_timeout_s, Default.code_interpreter_startup_timeout_s),
                 egress |-> cli.code_interpreter_egress_policy_path, mcp_config_path |-> cli.mcp_config_path,
                 mcp_url |-> url,
                 codex_approval_model |-> cli.codex_approval_model,
                 max_concurrency |-> None, request_remote |-> None, bun_fallback |-> None]
<1>1. c = build_common_runtime_config(env, b)
  BY Zenon DEF Launched
<1>2. DOMAIN b = Fields
  BY DEF Fields
<1>4. /\ b.kind = Or(cli.upstream_api_kind, Default.upstream_api_kind)
      /\ b.format = Or(cli.reasoning_event_format, Default.reasoning_event_format)
      /\ b.host = g.host /\ b.port = g.port /\ b.workers = g.workers /\ b.base = g.base
      /\ b.web_search_profile = cli.web_search_profile /\ b.mode = mode
      /\ b.ci_port = IfEnabled(mode, Or(cli.code_interpreter_port, Default.code_interpreter_port))
      /\ b.ci_workers = IfEnabled(mode, Or(cli.code_interpreter_workers, Default.code_interpreter_workers))
      /\ b.egress = cli.code_interpreter_egress_policy_path /\ b.mcp_config_path = cli.mcp_config_path
      /\ b.mcp_url = url /\ b.codex_approval_model = cli.codex_approval_model
  OBVIOUS
<1>5. needs_mcp(c) = needs_mcp(b)
  <2>1. c.mcp_config_path = b.mcp_config_path /\ c.web_search_profile = b.web_search_profile
    <3> HIDE DEF b
    <3> QED BY <1>1, <1>2, BuiltFields DEF Fields
  <2> QED BY <2>1, SameNeeds
<1>6. (url = NoUrl) = (cli.mcp_port = None)
  BY DEF NoUrl, loopback_url_from_port, None
<1> HIDE DEF b, url
<1>7. b.mcp_url = NoUrl <=> cli.mcp_port = None
  BY <1>4, <1>6
<1> QED
  <2> HIDE DEF mode
  <2>2. mode = c.mode
    BY <1>1, <1>2, BuiltFields, <1>4 DEF Fields
  <2>3. c.mcp_url = IF needs_mcp(c) /\ cli.mcp_port = None THEN DefaultMcpUrl ELSE url
    BY <1>1, <1>2, BuiltFields, <1>4, <1>5, <1>7
  <2>4. c = [f \in Fields |-> c[f]]
    BY <1>1, <1>2, BuiltFields
  <2>5. \A f \in Fields \ {"mcp_url", "egress", "max_concurrency", "request_remote", "bun_fallback"} : c[f] = b[f]
    BY <1>1, <1>2, BuiltFields
  <2>6. /\ c.egress = Or(b.egress, get_optional_str(env, "VR_CODE_INTERPRETER_EGRESS_POLICY_PATH"))
        /\ c.max_concurrency = get_typed(env, "VR_MAX_CONCURRENCY", Default.max_concurrency)
        /\ c.request_remote = get_typed(env, "VR_MCP_REQUEST_REMOTE_ENABLED", Default.mcp_request_remote_enabled)
        /\ c.bun_fallback = get_typed(env, "VR_CODE_INTERPRETER_DEV_BUN_FALLBACK", Default.dev_bun_fallback)
    BY <1>1, <1>2, BuiltFields
  <2>7. /\ c.kind = b.kind /\ c.format = b.format /\ c.host = b.host /\ c.port = b.port /\ c.workers = b.workers
        /\ c.base = b.base /\ c.web_search_profile = b.web_search_profile /\ c.ci_port = b.ci_port
        /\ c.ci_workers = b.ci_workers /\ c.mcp_config_path = b.mcp_config_path
        /\ c.codex_approval_model = b.codex_approval_model
    BY <2>5 DEF Fields
  <2> QED BY <2>2, <2>3, <2>4, <2>6, <2>7, <1>4, Zenon DEF url, mode
------------------------------------------------------------------------------
(* What the configuration of an accepted launch is like: nothing in it is  *)
(* blank but, where the code lets it, a host and an approval model.        *)
Settled(c, env) ==
  /\ c = [f \in Fields |-> c[f]]
  /\ {c.kind, c.format} \cap {None, Blank} = {}
  /\ c.web_search_profile # Blank /\ c.egress # Blank /\ c.mcp_config_path # Blank
  /\ c.mode \in Modes
  /\ IF c.mode = "disabled" THEN c.ci_port = None /\ c.ci_workers = None
     ELSE {c.ci_port, c.ci_workers} \cap {None, Blank} = {}
  /\ c.mcp_url = IF needs_mcp(c) THEN loopback_url_from_port(c.mcp_url.port) ELSE NoUrl
  /\ c.max_concurrency = get_typed(env, "VR_MAX_CONCURRENCY", Default.max_concurrency)
  /\ c.request_remote = get_typed(env, "VR_MCP_REQUEST_REMOTE_ENABLED", Default.mcp_request_remote_enabled)
  /\ c.bun_fallback = get_typed(env, "VR_CODE_INTERPRETER_DEV_BUN_FALLBACK", Default.dev_bun_fallback)

Addressed(c) == c.host # None /\ c.base # None /\ {c.port, c.workers} \cap {None, Blank} = {}

LEMMA LoopbackPort ==
  /\ \A p : loopback_url_from_port(p).port = p /\ loopback_url_from_port(p) # NoUrl
  /\ DefaultMcpUrl = loopback_url_from_port(DefaultMcpUrl.port)
BY DEF loopback_url_from_port, NoUrl, None, DefaultMcpUrl

LEMMA LaunchedIsSettled ==
  ASSUME NEW env, NEW cli, NEW g, AcceptedCli(cli)
  PROVE  Settled(Launched(env, cli, g), env)
<1> DEFINE c == Launched(env, cli, g)
<1> HIDE DEF c
<1>0. c = Launched(env, cli, g)
  BY DEF c
<1>1. c = [f \in Fields |-> c[f]]
  BY <1>0, LaunchedFields
<1>2. {c.kind, c.format} \cap {None, Blank} = {}
  <2>1. /\ c.kind = Or(cli.upstream_api_kind, Default.upstream_api_kind)
        /\ c.format = Or(cli.reasoning_event_format, Default.reasoning_event_format)
    BY <1>0, LaunchedFields
  <2>2. Or(cli.upstream_api_kind, Default.upstream_api_kind) \in Kinds
    BY DEF AcceptedCli, Or, Default, Kinds
  <2>3. Or(cli.reasoning_event_format, Default.reasoning_event_format) \in Formats
    BY DEF AcceptedCli, Or, Default, Formats
  <2> QED BY <2>1, <2>2, <2>3 DEF Kinds, Formats, None, Blank
<1>3. c.web_search_profile # Blank /\ c.mcp_config_path # Blank
  BY <1>0, LaunchedFields DEF AcceptedCli
<1>4. c.egress # Blank
  <2>1. get_optional_str(env, "VR_CODE_INTERPRETER_EGRESS_POLICY_PATH") # Blank
    BY DEF get_optional_str, None, Blank
  <2>2. c.egress = Or(cli.code_interpreter_egress_policy_path, get_optional_str(env, "VR_CODE_INTERPRETER_EGRESS_POLICY_PATH"))
    BY <1>0, LaunchedFields
  <2> QED BY <2>1, <2>2 DEF AcceptedCli, Or
<1>5. c.mode \in Modes
  BY <1>0, LaunchedFields DEF AcceptedCli, Or, Modes, Default
<1>6. IF c.mode = "disabled" THEN c.ci_port = None /\ c.ci_workers = None
      ELSE {c.ci_port, c.ci_workers} \cap {None, Blank} = {}
  <2>1. /\ c.ci_port = IfEnabled(c.mode, Or(cli.code_interpreter_port, Default.code_interpreter_port))
        /\ c.ci_workers = IfEnabled(c.mode, Or(cli.code_interpreter_workers, Default.code_interpreter_workers))
    BY <1>0, LaunchedFields
  <2>2. /\ Or(cli.code_interpreter_port, Default.code_interpreter_port) \notin {None, Blank}
        /\ Or(cli.code_interpreter_workers, Default.code_interpreter_workers) \notin {None, Blank}
    BY NumbersAssumption DEF AcceptedCli, Or, Default, None, Blank
  <2> QED BY <2>1, <2>2 DEF IfEnabled
<1>7. c.mcp_url = IF needs_mcp(c) THEN loopback_url_from_port(c.mcp_url.port) ELSE NoUrl
  <2>1. c.mcp_url = IF needs_mcp(c) /\ cli.mcp_port = None THEN DefaultMcpUrl
                    ELSE IF cli.mcp_port = None THEN NoUrl ELSE loopback_url_from_port(cli.mcp_port)
    BY <1>0, LaunchedFields
  <2>2. c.mcp_config_path = cli.mcp_config_path /\ c.web_search_profile = cli.web_search_profile
    BY <1>0, LaunchedFields
  <2>3. cli.mcp_port # None => needs_mcp(c)
    BY <2>2 DEF AcceptedCli, needs_mcp
  <2>4. CASE cli.mcp_port = None
    BY <2>1, <2>4, LoopbackPort
  <2>5. CASE cli.mcp_port # None
    BY <2>1, <2>3, <2>5, LoopbackPort
  <2> QED BY <2>4, <2>5
<1>8. /\ c.max_concurrency = get_typed(env, "VR_MAX_CONCURRENCY", Default.max_concurrency)
      /\ c.request_remote = get_typed(env, "VR_MCP_REQUEST_REMOTE_ENABLED", Default.mcp_request_remote_enabled)
      /\ c.bun_fallback = get_typed(env, "VR_CODE_INTERPRETER_DEV_BUN_FALLBACK", Default.dev_bun_fallback)
  BY <1>0, LaunchedFields
<1> QED BY <1>1, <1>2, <1>3, <1>4, <1>5, <1>6, <1>7, <1>8 DEF Settled, c

(* The two launchers.                                                      *)
LEMMA SupervisorIsSettled ==
  ASSUME NEW env, NEW args, ~build_runtime_config_for_supervisor_fails(env, args),
         NEW c, c = build_runtime_config_for_supervisor(env, args)
  PROVE  Settled(c, env) /\ Addressed(c)
<1> DEFINE g == [host |-> Or(_parse_optional_flag(args, "--gateway-host"), Default.host),
                 port |-> Or(_parse_optional_flag(args, "--gateway-port"), Default.port),
                 workers |-> Or(_parse_optional_flag(args, "--gateway-workers"), Default.workers),
                 base |-> _parse_optional_flag(args, "--upstream")]
           cli == SupervisorCli(args)
<1>1. AcceptedCli(cli)
  BY CliIsAccepted DEF build_runtime_config_for_supervisor_fails, SupervisorCli
<1>2. g.port \notin {None, Blank} /\ g.workers \notin {None, Blank}
  BY NumbersAssumption DEF build_runtime_config_for_supervisor_fails, Or, Default, None, Blank
<1>3. g.host # None /\ g.base # None
  BY DEF build_runtime_config_for_supervisor_fails, Or, Default, None
<1>4. c = Launched(env, cli, g)
  BY DEF build_runtime_config_for_supervisor
<1> HIDE DEF g, cli
<1>5. Settled(c, env)
  BY <1>1, <1>4, LaunchedIsSettled
<1>6. c.host = g.host /\ c.port = g.port /\ c.workers = g.workers /\ c.base = g.base
  BY <1>4, LaunchedFields
<1> QED BY <1>2, <1>3, <1>5, <1>6 DEF Addressed

LEMMA IntegratedIsSettled ==
  ASSUME NEW env, NEW args, ~validate_responses_cli_args_fails(IntegratedCli(args)),
         NEW c, c = build_runtime_config_for_integrated(env, args)
  PROVE  Settled(c, env)
<1> DEFINE cli == IntegratedCli(args)
           base == derive_integrated_llm_api_base(Or(cli.upstream_api_kind, Default.upstream_api_kind))
           g == [host |-> Or(find_flag_value(args, "--host"), "127.0.0.1"),
                 port |-> Or(find_flag_value(args, "--port"), "8000"), workers |-> "1", base |-> base]
<1>1. AcceptedCli(cli)
  BY CliIsAccepted DEF IntegratedCli
<1>2. c = Launched(env, cli, g)
  BY DEF build_runtime_config_for_integrated
<1> HIDE DEF g, cli
<1> QED BY <1>1, <1>2, LaunchedIsSettled
------------------------------------------------------------------------------
(* A configuration a process builds from its environment alone.            *)
LEMMA StandaloneFields ==
  ASSUME NEW env, NEW c, c = build_runtime_config_for_standalone(env)
  PROVE  /\ c = [f \in Fields |-> c[f]]
         /\ c.kind = get_typed(env, "VR_UPSTREAM_API_KIND", Default.upstream_api_kind)
         /\ c.format = get_typed(env, "VR_REASONING_EVENT_FORMAT", Default.reasoning_event_format)
         /\ c.host = get_typed(env, "VR_HOST", Default.host)
         /\ c.port = get_typed(env, "VR_PORT", Default.port)
         /\ c.workers = get_typed(env, "VR_WORKERS", Default.workers)
         /\ c.base = get_typed(env, "VR_LLM_API_BASE", Default.base)
         /\ c.web_search_profile = get_optional_str(env, "VR_WEB_SEARCH_PROFILE")
         /\ c.mode = StandaloneMode(env)
         /\ c.ci_port = IfEnabled(c.mode, get_typed(env, "VR_CODE_INTERPRETER_PORT", Default.code_interpreter_port))
         /\ c.ci_workers = IfEnabled(c.mode, get_typed(env, "VR_CODE_INTERPRETER_WORKERS", Default.code_interpreter_workers))
         /\ c.egress = get_optional_str(env, "VR_CODE_INTERPRETER_EGRESS_POLICY_PATH")
         /\ c.mcp_config_path = get_optional_str(env, "VR_MCP_CONFIG_PATH")
         /\ c.mcp_url = IF needs_mcp(c) /\ env.VR_MCP_BUILTIN_RUNTIME_URL = NoUrl THEN DefaultMcpUrl
                        ELSE env.VR_MCP_BUILTIN_RUNTIME_URL
         /\ c.codex_approval_model = get_optional_str(env, "VR_CODEX_APPROVAL_MODEL")
         /\ c.max_concurrency = get_typed(env, "VR_MAX_CONCURRENCY", Default.max_concurrency)
         /\ c.request_remote = get_typed(env, "VR_MCP_REQUEST_REMOTE_ENABLED", Default.mcp_request_remote_enabled)
         /\ c.bun_fallback = get_typed(env, "VR_CODE_INTERPRETER_DEV_BUN_FALLBACK", Default.dev_bun_fallback)
<1> DEFINE mode == StandaloneMode(env)
           b == [kind |-> get_typed(env, "VR_UPSTREAM_API_KIND", Default.upstream_api_kind),
                 format |-> get_typed(env, "VR_REASONING_EVENT_FORMAT", Default.reasoning_event_format),
                 host |-> get_typed(env, "VR_HOST", Default.host), port |-> get_typed(env, "VR_PORT", Default.port),
                 workers |-> get_typed(env, "VR_WORKERS", Default.workers),
                 base |-> get_typed(env, "VR_LLM_API_BASE", Default.base),
                 web_search_profile |-> get_optional_str(env, "VR_WEB_SEARCH_PROFILE"), mode |-> mode,
                 ci_port |-> IfEnabled(mode, get_typed(env, "VR_CODE_INTERPRETER_PORT", Default.code_interpreter_port)),
                 ci_workers |-> IfEnabled(mode, get_typed(env, "VR_CODE_INTERPRETER_WORKERS", Default.code_interpreter_workers)),
                 timeout |-> get_typed(env, "VR_CODE_INTERPRETER_STARTUP_TIMEOUT", Default.code_interpreter_startup_timeout_s),
                 egress |-> None,
                 mcp_config_path |-> get_optional_str(env, "VR_MCP_CONFIG_PATH"),
                 mcp_url |-> env.VR_MCP_BUILTIN_RUNTIME_URL,
                 codex_approval_model |-> get_optional_str(env, "VR_CODEX_APPROVAL_MODEL"),
                 max_concurrency |-> None, request_remote |-> None, bun_fallback |-> None]
<1>1. c = build_common_runtime_config(env, b)
  BY Zenon DEF build_runtime_config_for_standalone
<1>2. DOMAIN b = Fields
  BY DEF Fields
<1>3. /\ b.kind = get_typed(env, "VR_UPSTREAM_API_KIND", Default.upstream_api_kind)
      /\ b.format = get_typed(env, "VR_REASONING_EVENT_FORMAT", Default.reasoning_event_format)
      /\ b.host = get_typed(env, "VR_HOST", Default.host)
      /\ b.port = get_typed(env, "VR_PORT", Default.port)
      /\ b.workers = get_typed(env, "VR_WORKERS", Default.workers)
      /\ b.base = get_typed(env, "VR_LLM_API_BASE", Default.base)
      /\ b.web_search_profile = get_optional_str(env, "VR_WEB_SEARCH_PROFILE") /\ b.mode = mode
      /\ b.ci_port = IfEnabled(mode, get_typed(env, "VR_CODE_INTERPRETER_PORT", Default.code_interpreter_port))
      /\ b.ci_workers = IfEnabled(mode, get_typed(env, "VR_CODE_INTERPRETER_WORKERS", Default.code_interpreter_workers))
      /\ b.egress = None /\ b.mcp_config_path = get_optional_str(env, "VR_MCP_CONFIG_PATH")
      /\ b.mcp_url = env.VR_MCP_BUILTIN_RUNTIME_URL
      /\ b.codex_approval_model = get_optional_str(env, "VR_CODEX_APPROVAL_MODEL")
  OBVIOUS
<1> HIDE DEF b, mode
<1>4. /\ c = [f \in Fields |-> c[f]]
      /\ \A f \in Fields \ {"mcp_url", "egress", "max_concurrency", "request_remote", "bun_fallback"} : c[f] = b[f]
      /\ c.mcp_url = IF needs_mcp(b) /\ b.mcp_url = NoUrl THEN DefaultMcpUrl ELSE b.mcp_url
      /\ c.egress = Or(b.egress, get_optional_str(env, "VR_CODE_INTERPRETER_EGRESS_POLICY_PATH"))
      /\ c.max_concurrency = get_typed(env, "VR_MAX_CONCURRENCY", Default.max_concurrency)
      /\ c.request_remote = get_typed(env, "VR_MCP_REQUEST_REMOTE_ENABLED", Default.mcp_request_remote_enabled)
      /\ c.bun_fallback = get_typed(env, "VR_CODE_INTERPRETER_DEV_BUN_FALLBACK", Default.dev_bun_fallback)
  BY <1>1, <1>2, BuiltFields
<1>5. /\ c.kind = b.kind /\ c.format = b.format /\ c.host = b.host /\ c.port = b.port /\ c.workers = b.workers
      /\ c.base = b.base /\ c.web_search_profile = b.web_search_profile /\ c.mode = b.mode /\ c.ci_port = b.ci_port
      /\ c.ci_workers = b.ci_workers /\ c.mcp_config_path = b.mcp_config_path
      /\ c.codex_approval_model = b.codex_approval_model
  BY <1>4 DEF Fields
<1>6. needs_mcp(c) = needs_mcp(b)
  BY <1>5, SameNeeds
<1>7. c.egress = get_optional_str(env, "VR_CODE_INTERPRETER_EGRESS_POLICY_PATH")
  BY <1>3, <1>4 DEF Or
<1>8. c.mcp_url = IF needs_mcp(c) /\ env.VR_MCP_BUILTIN_RUNTIME_URL = NoUrl THEN DefaultMcpUrl
                  ELSE env.VR_MCP_BUILTIN_RUNTIME_URL
  BY <1>3, <1>4, <1>6
<1>9. mode = c.mode
  BY <1>3, <1>5
<1> QED BY <1>3, <1>4, <1>5, <1>7, <1>8, <1>9, Zenon DEF mode
------------------------------------------------------------------------------
(* The environments of the children.                                       *)
LEMMA WorkerEnv ==
  ASSUME EnvKeys \subseteq DOMAIN launch.env, NEW c, NEW e, e = _build_gateway_worker_env(c)
  PROVE  /\ e.VR_LLM_API_BASE = c.base /\ e.VR_UPSTREAM_API_KIND = c.kind
         /\ e.VR_REASONING_EVENT_FORMAT = c.format /\ e.VR_HOST = c.host /\ e.VR_PORT = c.port
         /\ e.VR_WORKERS = c.workers /\ e.VR_WEB_SEARCH_PROFILE = c.web_search_profile
         /\ e.VR_CODEX_APPROVAL_MODEL = c.codex_approval_model /\ e.VR_MCP_CONFIG_PATH = c.mcp_config_path
         /\ e.VR_CODE_INTERPRETER_EGRESS_POLICY_PATH = c.egress
         /\ e.VR_MCP_BUILTIN_RUNTIME_URL = build_mcp_runtime_spec(c)
         /\ e.VR_CODE_INTERPRETER_MODE = IF c.mode # "disabled" THEN "external" ELSE "disabled"
         /\ e.VR_CODE_INTERPRETER_PORT = c.ci_port /\ e.VR_CODE_INTERPRETER_WORKERS = c.ci_workers
         /\ \A k \in EnvOwned : e[k] = launch.env[k]
BY DEF _build_gateway_worker_env, EnvKeys, EnvOwned

LEMMA McpRuntimeReads ==
  ASSUME EnvKeys \subseteq DOMAIN launch.env, NEW c, c.web_search_profile # Blank, c.mcp_config_path # Blank,
         NEW own, own = build_runtime_config_for_standalone(McpRuntimeEnv(c))
  PROVE  own.web_search_profile = c.web_search_profile /\ own.mcp_config_path = c.mcp_config_path
<1> DEFINE e == McpRuntimeEnv(c)
<1>1. e.VR_WEB_SEARCH_PROFILE = c.web_search_profile /\ e.VR_MCP_CONFIG_PATH = c.mcp_config_path
  BY DEF McpRuntimeEnv, EnvKeys
<1>2. own = build_runtime_config_for_standalone(e)
  OBVIOUS
<1> HIDE DEF e
<1>3. /\ own.web_search_profile = get_optional_str(e, "VR_WEB_SEARCH_PROFILE")
      /\ own.mcp_config_path = get_optional_str(e, "VR_MCP_CONFIG_PATH")
  BY <1>2, StandaloneFields
<1> QED BY <1>1, <1>3, OptionalReadBack

(* The configuration a worker builds from its environment.                 *)
HandedOn(c) ==
  EnvKeys \subseteq DOMAIN launch.env /\ Settled(c, launch.env) /\ Addressed(c) /\ c.base # Blank
Follows(w, c) ==
  /\ w = [c EXCEPT !.mode = IF @ = "spawn" THEN w.mode ELSE @,
                   !.codex_approval_model = IF @ = Blank THEN w.codex_approval_model ELSE @,
                   !.host = IF @ = Blank THEN w.host ELSE @,
                   !.timeout = w.timeout]
  /\ w.mode = IF c.mode = "disabled" THEN "disabled" ELSE "external"

LEMMA WorkerReadsBack ==
  ASSUME NEW c, HandedOn(c),
         NEW w, w = build_runtime_config_for_standalone(_build_gateway_worker_env(c))
  PROVE  Follows(w, c)
<1>0. EnvKeys \subseteq DOMAIN launch.env /\ Settled(c, launch.env) /\ Addressed(c) /\ c.base # Blank
  BY DEF HandedOn
<1> DEFINE e == _build_gateway_worker_env(c)
<1>1. w = build_runtime_config_for_standalone(e)
  OBVIOUS
<1> HIDE DEF e
<1>2. w = [f \in Fields |-> w[f]]
  BY <1>0, <1>1, StandaloneFields
<1>3. w.kind = c.kind /\ w.format = c.format
  <2>1. e.VR_UPSTREAM_API_KIND = c.kind /\ e.VR_REASONING_EVENT_FORMAT = c.format
    BY <1>0, WorkerEnv DEF e
  <2>2. c.kind \notin {None, Blank} /\ c.format \notin {None, Blank}
    BY <1>0 DEF Settled
  <2>3. /\ w.kind = get_typed(e, "VR_UPSTREAM_API_KIND", Default.upstream_api_kind)
        /\ w.format = get_typed(e, "VR_REASONING_EVENT_FORMAT", Default.reasoning_event_format)
    BY <1>0, <1>1, StandaloneFields
  <2> QED BY <2>1, <2>2, <2>3, ReadBack
<1>4. w.port = c.port /\ w.workers = c.workers /\ w.base = c.base
  <2>1. e.VR_PORT = c.port /\ e.VR_WORKERS = c.workers /\ e.VR_LLM_API_BASE = c.base
    BY <1>0, WorkerEnv DEF e
  <2>2. c.port \notin {None, Blank} /\ c.workers \notin {None, Blank} /\ c.base \notin {None, Blank}
    BY <1>0 DEF Addressed
  <2>3. /\ w.port = get_typed(e, "VR_PORT", Default.port) /\ w.workers = get_typed(e, "VR_WORKERS", Default.workers)
        /\ w.base = get_typed(e, "VR_LLM_API_BASE", Default.base)
    BY <1>0, <1>1, StandaloneFields
  <2> QED BY <2>1, <2>2, <2>3, ReadBack
<1>5. c.host # Blank => w.host = c.host
  <2>1. e.VR_HOST = c.host
    BY <1>0, WorkerEnv DEF e
  <2>2. w.host = get_typed(e, "VR_HOST", Default.host)
    BY <1>0, <1>1, StandaloneFields
  <2>3. c.host # None
    BY <1>0 DEF Addressed
  <2> QED BY <2>1, <2>2, <2>3, ReadBack
<1>6. w.web_search_profile = c.web_search_profile /\ w.mcp_config_path = c.mcp_config_path /\ w.egress = c.egress
  <2>1. /\ e.VR_WEB_SEARCH_PROFILE = c.web_search_profile /\ e.VR_MCP_CONFIG_PATH = c.mcp_config_path
        /\ e.VR_CODE_INTERPRETER_EGRESS_POLICY_PATH = c.egress
    BY <1>0, WorkerEnv DEF e
  <2>2. c.web_search_profile # Blank /\ c.mcp_config_path # Blank /\ c.egress # Blank
    BY <1>0 DEF Settled
  <2>3. /\ w.web_search_profile = get_optional_str(e, "VR_WEB_SEARCH_PROFILE")
        /\ w.mcp_config_path = get_optional_str(e, "VR_MCP_CONFIG_PATH")
        /\ w.egress = get_optional_str(e, "VR_CODE_INTERPRETER_EGRESS_POLICY_PATH")
    BY <1>0, <1>1, StandaloneFields
  <2> QED BY <2>1, <2>2, <2>3, OptionalReadBack
<1>7. c.codex_approval_model # Blank => w.codex_approval_model = c.codex_approval_model
  <2>1. /\ e.VR_CODEX_APPROVAL_MODEL = c.codex_approval_model
        /\ w.codex_approval_model = get_optional_str(e, "VR_CODEX_APPROVAL_MODEL")
    BY <1>0, <1>1, WorkerEnv, StandaloneFields DEF e
  <2> QED BY <2>1, OptionalReadBack
<1>8. w.mode = IF c.mode = "disabled" THEN "disabled" ELSE "external"
  <2>1. /\ e.VR_CODE_INTERPRETER_MODE = IF c.mode # "disabled" THEN "external" ELSE "disabled"
        /\ w.mode = get_typed(e, "VR_CODE_INTERPRETER_MODE", Default.code_interpreter_mode)
    BY <1>0, <1>1, WorkerEnv, StandaloneFields DEF e, StandaloneMode
  <2>2. e.VR_CODE_INTERPRETER_MODE \notin {None, Blank}
    BY <2>1 DEF None, Blank
  <2> QED BY <2>1, <2>2, ReadBack
<1>9. w.ci_port = c.ci_port /\ w.ci_workers = c.ci_workers
  <2>1. /\ w.ci_port = IfEnabled(w.mode, get_typed(e, "VR_CODE_INTERPRETER_PORT", Default.code_interpreter_port))
        /\ w.ci_workers = IfEnabled(w.mode, get_typed(e, "VR_CODE_INTERPRETER_WORKERS", Default.code_interpreter_workers))
    BY <1>0, <1>1, StandaloneFields
  <2>2. e.VR_CODE_INTERPRETER_PORT = c.ci_port /\ e.VR_CODE_INTERPRETER_WORKERS = c.ci_workers
    BY <1>0, WorkerEnv DEF e
  <2>3. CASE c.mode = "disabled"
    BY <1>0, <1>8, <2>1, <2>3 DEF Settled, IfEnabled
  <2>4. CASE c.mode # "disabled"
    <3>1. c.ci_port \notin {None, Blank} /\ c.ci_workers \notin {None, Blank}
      BY <1>0, <2>4 DEF Settled
    <3>2. /\ get_typed(e, "VR_CODE_INTERPRETER_PORT", Default.code_interpreter_port) = c.ci_port
          /\ get_typed(e, "VR_CODE_INTERPRETER_WORKERS", Default.code_interpreter_workers) = c.ci_workers
      BY <2>2, <3>1, ReadBack
    <3> QED BY <1>8, <2>1, <2>4, <3>2 DEF IfEnabled
  <2> QED BY <2>3, <2>4
<1>10. w.mcp_url = c.mcp_url
  <2>1. needs_mcp(w) = needs_mcp(c)
    BY <1>6, SameNeeds
  <2>2. c.mcp_url = IF needs_mcp(c) THEN loopback_url_from_port(c.mcp_url.port) ELSE NoUrl
    BY <1>0 DEF Settled
  <2>3. e.VR_MCP_BUILTIN_RUNTIME_URL = c.mcp_url
    BY <1>0, <2>2, WorkerEnv DEF e, build_mcp_runtime_spec
  <2>4. w.mcp_url = IF needs_mcp(w) /\ e.VR_MCP_BUILTIN_RUNTIME_URL = NoUrl THEN DefaultMcpUrl
                    ELSE e.VR_MCP_BUILTIN_RUNTIME_URL
    BY <1>0, <1>1, StandaloneFields
  <2> QED BY <2>1, <2>2, <2>3, <2>4, LoopbackPort
<1>11. /\ w.max_concurrency = c.max_concurrency /\ w.request_remote = c.request_remote
       /\ w.bun_fallback = c.bun_fallback
  <2>1. \A k \in EnvOwned : e[k] = launch.env[k]
    BY <1>0, WorkerEnv DEF e
  <2>2. \A k \in EnvOwned : \A default : get_typed(e, k, default) = get_typed(launch.env, k, default)
    BY <2>1, Zenon DEF get_typed
  <2>3. /\ w.max_concurrency = get_typed(e, "VR_MAX_CONCURRENCY", Default.max_concurrency)
        /\ w.request_remote = get_typed(e, "VR_MCP_REQUEST_REMOTE_ENABLED", Default.mcp_request_remote_enabled)
        /\ w.bun_fallback = get_typed(e, "VR_CODE_INTERPRETER_DEV_BUN_FALLBACK", Default.dev_bun_fallback)
    BY <1>0, <1>1, StandaloneFields
  <2> QED BY <1>0, <2>2, <2>3 DEF Settled, EnvOwned
<1>12. c = [f \in Fields |-> c[f]] /\ c.mode \in Modes
  BY <1>0 DEF Settled
<1> DEFINE told == [c EXCEPT !.mode = IF @ = "spawn" THEN w.mode ELSE @,
                             !.codex_approval_model = IF @ = Blank THEN w.codex_approval_model ELSE @,
                             !.host = IF @ = Blank THEN w.host ELSE @,
                             !.timeout = w.timeout]
<1>13. told = [f \in Fields |-> told[f]]
  BY <1>12
<1>14. \A f \in Fields : told[f] = w[f]
  <2>1. /\ \A f \in Fields \ {"mode", "codex_approval_model", "host", "timeout"} : told[f] = c[f]
        /\ told.timeout = w.timeout
        /\ told.mode = IF c.mode = "spawn" THEN w.mode ELSE c.mode
        /\ told.codex_approval_model = IF c.codex_approval_model = Blank THEN w.codex_approval_model
                                       ELSE c.codex_approval_model
        /\ told.host = IF c.host = Blank THEN w.host ELSE c.host
    BY <1>12 DEF Fields
  <2> HIDE DEF told
  <2>2. told.mode = w.mode
    BY <1>8, <1>12, <2>1 DEF Modes
  <2>3. \A f \in Fields \ {"mode", "codex_approval_model", "host", "timeout"} : c[f] = w[f]
    BY <1>3, <1>4, <1>6, <1>9, <1>10, <1>11 DEF Fields
  <2> QED BY <1>5, <1>7, <2>1, <2>2, <2>3
<1>15. told = w
  <2> HIDE DEF told
  <2> QED BY <1>2, <1>13, <1>14
<1> QED BY <1>8, <1>15 DEF Follows
------------------------------------------------------------------------------
(* What a launcher has built so far, phase by phase: the inductive         *)
(* invariant.                                                              *)
Launching(phases) == launch.by # "standalone" /\ phase \in phases
ConfigInv == Launching({"configured", "interpreter", "helped", "serving"}) =>
  /\ Settled(config, launch.env)
  /\ launch.by = "supervisor" => Addressed(config)
InterpreterInv == Launching({"interpreter", "helped", "serving"}) =>
  /\ launch.by = "supervisor" => config.base # Blank
  /\ config.mode = "spawn" => ci = Interpreter(config)
RuntimeInv == Launching({"helped", "serving"}) =>
  mcp = IF needs_mcp(config) THEN McpRuntime(McpRuntimeEnv(config), build_mcp_runtime_spec(config)) ELSE NoMcp
GatewayInv == Launching({"serving"}) =>
  gateway = IF launch.by = "supervisor" THEN build_runtime_config_for_standalone(_build_gateway_worker_env(config))
            ELSE config
ConfigurationInv ==
  launch \in Launches /\ ConfigInv /\ InterpreterInv /\ RuntimeInv /\ GatewayInv

LEMMA ConfigurationInductive == ConfigurationSpec => []ConfigurationInv
<1> USE DEF Launching
<1>1. ConfigurationInit => ConfigurationInv
  BY DEF ConfigurationInit, ConfigurationInv, ConfigInv, InterpreterInv, RuntimeInv, GatewayInv
<1>2. ConfigurationInv /\ [ConfigurationNext]_configurationVars => ConfigurationInv'
  <2> SUFFICES ASSUME ConfigurationInv, [ConfigurationNext]_configurationVars
               PROVE  ConfigurationInv'
    OBVIOUS
  <2> USE DEF ConfigurationInv
  <2>0. ASSUME NEW end \in {"refused", "unresolved", "upstream_never_ready", "helper_died", "worker_died"}, Stop(end)
        PROVE  ConfigurationInv'
    BY <2>0 DEF Stop, ConfigInv, InterpreterInv, RuntimeInv, GatewayInv
  <2>1. CASE Supervise
    <3>1. CASE build_runtime_config_for_supervisor_fails(launch.env, launch.args)
      BY <2>0, <2>1, <3>1 DEF Supervise
    <3>2. CASE ~build_runtime_config_for_supervisor_fails(launch.env, launch.args)
      <4>1. /\ config' = build_runtime_config_for_supervisor(launch.env, launch.args) /\ phase' = "configured"
            /\ UNCHANGED <<launch, ci, mcp, gateway>> /\ launch.by = "supervisor"
        BY <2>1, <3>2 DEF Supervise
      <4>2. Settled(config', launch.env) /\ Addressed(config')
        BY <3>2, <4>1, SupervisorIsSettled
      <4> QED BY <4>1, <4>2 DEF ConfigInv, InterpreterInv, RuntimeInv, GatewayInv, Settled, Addressed
    <3> QED BY <3>1, <3>2
  <2>2. CASE Integrate
    <3> DEFINE cli == IntegratedCli(launch.args)
    <3>1. CASE build_integrated_serve_spec_fails(launch.args) \/ validate_responses_cli_args_fails(cli)
      BY <2>0, <2>2, <3>1 DEF Integrate
    <3>2. CASE /\ ~(build_integrated_serve_spec_fails(launch.args) \/ validate_responses_cli_args_fails(cli))
               /\ Unresolved(cli) \/ build_common_runtime_config_fails(launch.env, cli.web_search_profile)
      BY <2>0, <2>2, <3>2 DEF Integrate
    <3>3. CASE /\ ~(build_integrated_serve_spec_fails(launch.args) \/ validate_responses_cli_args_fails(cli))
               /\ ~Unresolved(cli) /\ ~build_common_runtime_config_fails(launch.env, cli.web_search_profile)
      <4>1. /\ config' = build_runtime_config_for_integrated(launch.env, launch.args) /\ phase' = "configured"
            /\ UNCHANGED <<launch, ci, mcp, gateway>> /\ launch.by = "integrated"
        BY <2>2, <3>3 DEF Integrate
      <4>2. Settled(config', launch.env)
        BY <3>3, <4>1, IntegratedIsSettled
      <4> QED BY <4>1, <4>2 DEF ConfigInv, InterpreterInv, RuntimeInv, GatewayInv, Settled
    <3> QED BY <3>1, <3>2, <3>3
  <2>3. CASE StartInterpreter
    <3>1. CASE \E end \in {"refused", "upstream_never_ready"} : Stop(end)
      BY <2>0, <3>1
    <3>2. CASE ~ \E end \in {"refused", "upstream_never_ready"} : Stop(end)
      <4>1. /\ phase = "configured" /\ phase' = "interpreter" /\ UNCHANGED <<launch, config, mcp, gateway>>
            /\ launch.by = "supervisor" => config.base # Blank
            /\ ci' = IF config.mode = "spawn" THEN Interpreter(config) ELSE NoInterpreter
        BY <2>3, <3>2 DEF StartInterpreter
      <4>2. ConfigInv'
        BY <4>1 DEF ConfigInv, Settled, Addressed
      <4>3. InterpreterInv'
        BY <4>1 DEF InterpreterInv, Interpreter
      <4> QED BY <4>1, <4>2, <4>3 DEF RuntimeInv, GatewayInv
    <3> QED BY <3>1, <3>2
  <2>4. CASE StartMcpRuntime
    <3>1. CASE Stop("helper_died")
      BY <2>0, <3>1
    <3>2. CASE ~Stop("helper_died")
      <4>1. /\ phase = "interpreter" /\ phase' = "helped" /\ UNCHANGED <<launch, config, ci, gateway>>
            /\ mcp' = IF needs_mcp(config) THEN McpRuntime(McpRuntimeEnv(config), build_mcp_runtime_spec(config)) ELSE NoMcp
        BY <2>4, <3>2 DEF StartMcpRuntime
      <4>2. ConfigInv'
        BY <4>1 DEF ConfigInv, Settled, Addressed
      <4>3. InterpreterInv'
        BY <4>1 DEF InterpreterInv, Interpreter
      <4>4. RuntimeInv'
        BY <4>1 DEF RuntimeInv, McpRuntimeEnv
      <4> QED BY <4>1, <4>2, <4>3, <4>4 DEF GatewayInv
    <3> QED BY <3>1, <3>2
  <2>5. CASE StartGateway
    <3>1. CASE Stop("worker_died")
      BY <2>0, <3>1
    <3>2. CASE ~Stop("worker_died")
      <4>1. /\ phase = "helped" /\ phase' = "serving" /\ UNCHANGED <<launch, config, ci, mcp>>
            /\ gateway' = IF launch.by = "supervisor"
                           THEN build_runtime_config_for_standalone(_build_gateway_worker_env(config)) ELSE config
        BY <2>5, <3>2 DEF StartGateway
      <4>2. ConfigInv'
        BY <4>1 DEF ConfigInv, Settled, Addressed
      <4>3. InterpreterInv'
        BY <4>1 DEF InterpreterInv, Interpreter
      <4>4. RuntimeInv'
        BY <4>1 DEF RuntimeInv, McpRuntimeEnv
      <4>5. GatewayInv'
        BY <4>1 DEF GatewayInv, _build_gateway_worker_env
      <4> QED BY <4>1, <4>2, <4>3, <4>4, <4>5
    <3> QED BY <3>1, <3>2
  <2>6. CASE StartStandalone
    <3>1. launch.by = "standalone" /\ launch' = launch
      BY <2>6 DEF StartStandalone, Stop
    <3> QED BY <3>1 DEF ConfigInv, InterpreterInv, RuntimeInv, GatewayInv
  <2>7. CASE UNCHANGED configurationVars
    <3>0. UNCHANGED <<launch, phase, config, ci, mcp, gateway>>
      BY <2>7 DEF configurationVars
    <3>1. ConfigInv'
      BY <3>0 DEF ConfigInv, Settled, Addressed
    <3>2. InterpreterInv'
      BY <3>0 DEF InterpreterInv, Interpreter
    <3>3. RuntimeInv'
      BY <3>0 DEF RuntimeInv, McpRuntimeEnv
    <3>4. GatewayInv'
      BY <3>0 DEF GatewayInv, _build_gateway_worker_env
    <3> QED BY <3>0, <3>1, <3>2, <3>3, <3>4
  <2> QED BY <2>1, <2>2, <2>3, <2>4, <2>5, <2>6, <2>7 DEF ConfigurationNext
<1> QED BY <1>1, <1>2, PTL DEF ConfigurationSpec
------------------------------------------------------------------------------
(* The gateway a launcher starts runs with what the launcher was told --   *)
(* _build_gateway_worker_env writes and build_runtime_config_for_standalone *)
(* reads -- whatever its environment held, for every command line.         *)
THEOREM TheGatewayFollowsItsLauncher == ConfigurationSpec => []GatewayFollowsLauncher
<1>1. ConfigurationInv => GatewayFollowsLauncher
  <2> SUFFICES ASSUME ConfigurationInv, Serving
               PROVE  GatewayFollowsLauncher
    BY DEF GatewayFollowsLauncher
  <2>1. Launching({"configured", "interpreter", "helped", "serving"}) /\ Launching({"interpreter", "helped", "serving"})
        /\ Launching({"serving"})
    BY DEF Serving, Launching
  <2>2. Settled(config, launch.env) /\ (launch.by = "supervisor" => Addressed(config) /\ config.base # Blank)
    BY <2>1 DEF ConfigurationInv, ConfigInv, InterpreterInv
  <2>3. EnvKeys \subseteq DOMAIN launch.env
    BY LaunchesAssumption DEF ConfigurationInv
  <2>4. config = [f \in Fields |-> config[f]] /\ config.mode \in Modes
    BY <2>2 DEF Settled
  <2>5. CASE launch.by = "supervisor"
    <3>1. gateway = build_runtime_config_for_standalone(_build_gateway_worker_env(config))
      BY <2>1, <2>5 DEF ConfigurationInv, GatewayInv
    <3>2. /\ gateway = [config EXCEPT !.mode = IF @ = "spawn" THEN gateway.mode ELSE @,
                          !.codex_approval_model = IF @ = Blank THEN gateway.codex_approval_model ELSE @,
                          !.host = IF @ = Blank THEN gateway.host ELSE @,
                          !.timeout = gateway.timeout]
          /\ gateway.mode = IF config.mode = "disabled" THEN "disabled" ELSE "external"
      <4>1. HandedOn(config)
        BY <2>2, <2>3, <2>5 DEF HandedOn
      <4>2. Follows(gateway, config)
        BY <3>1, <4>1, WorkerReadsBack
      <4> QED BY <4>2, Zenon DEF Follows
    <3>3. (config.mode = "disabled") = (gateway.mode = "disabled") /\ gateway.mode # "spawn"
      BY <3>2
    <3> QED BY <3>2, <3>3 DEF GatewayFollowsLauncher
  <2>6. CASE launch.by # "supervisor"
    <3>1. gateway = config
      BY <2>1, <2>6 DEF ConfigurationInv, GatewayInv
    <3>2. gateway = [config EXCEPT !.mode = IF @ = "spawn" THEN gateway.mode ELSE @,
                       !.codex_approval_model = IF @ = Blank THEN gateway.codex_approval_model ELSE @,
                       !.host = IF @ = Blank THEN gateway.host ELSE @,
                       !.timeout = gateway.timeout]
      BY <2>4, <3>1
    <3> QED BY <2>6, <3>1, <3>2 DEF GatewayFollowsLauncher
  <2> QED BY <2>5, <2>6
<1> QED BY <1>1, ConfigurationInductive, PTL

(* The interpreter a gateway calls is the one its launcher spawned, and    *)
(* the built-in MCP runtime is there, at the URL the gateway has, when and *)
(* only when something needs it, with all the servers of the gateway's     *)
(* profile and configuration file.                                         *)
THEOREM TheHelpersAreThere == ConfigurationSpec => []HelpersAreThere
<1>1. ConfigurationInv /\ GatewayFollowsLauncher => HelpersAreThere
  <2> SUFFICES ASSUME ConfigurationInv, GatewayFollowsLauncher, Serving
               PROVE  HelpersAreThere
    BY DEF HelpersAreThere
  <2>1. Launching({"configured", "interpreter", "helped", "serving"}) /\ Launching({"interpreter", "helped", "serving"})
        /\ Launching({"helped", "serving"})
    BY DEF Serving, Launching
  <2>2. Settled(config, launch.env) /\ EnvKeys \subseteq DOMAIN launch.env
    BY <2>1, LaunchesAssumption DEF ConfigurationInv, ConfigInv
  <2>3. /\ config.web_search_profile # Blank /\ config.mcp_config_path # Blank
        /\ config.mcp_url = IF needs_mcp(config) THEN loopback_url_from_port(config.mcp_url.port) ELSE NoUrl
    BY <2>2 DEF Settled
  <2>4. /\ gateway.ci_port = config.ci_port /\ gateway.egress = config.egress /\ gateway.mcp_url = config.mcp_url
        /\ gateway.web_search_profile = config.web_search_profile /\ gateway.mcp_config_path = config.mcp_config_path
    <3>1. config = [f \in Fields |-> config[f]]
      BY <2>2 DEF Settled
    <3>2. gateway = [config EXCEPT !.mode = IF @ = "spawn" THEN gateway.mode ELSE @,
                       !.codex_approval_model = IF @ = Blank THEN gateway.codex_approval_model ELSE @,
                       !.host = IF @ = Blank THEN gateway.host ELSE @,
                       !.timeout = gateway.timeout]
      BY DEF GatewayFollowsLauncher
    <3> QED BY <3>1, <3>2 DEF Fields
  <2>5. config.mode = "spawn" => ci.port = gateway.ci_port /\ ci.egress = gateway.egress
    BY <2>1, <2>4 DEF ConfigurationInv, InterpreterInv, Interpreter
  <2>6. CASE ~needs_mcp(config)
    <3>1. mcp = NoMcp /\ gateway.mcp_url = NoUrl
      BY <2>1, <2>3, <2>4, <2>6 DEF ConfigurationInv, RuntimeInv
    <3> QED BY <2>5, <3>1 DEF HelpersAreThere, NoMcp
  <2>7. CASE needs_mcp(config)
    <3> DEFINE own == build_runtime_config_for_standalone(McpRuntimeEnv(config))
    <3>1. mcp = McpRuntime(McpRuntimeEnv(config), build_mcp_runtime_spec(config))
      BY <2>1, <2>7 DEF ConfigurationInv, RuntimeInv
    <3>2. own.web_search_profile = config.web_search_profile /\ own.mcp_config_path = config.mcp_config_path
      BY <2>2, <2>3, McpRuntimeReads
    <3>3. mcp.url = gateway.mcp_url /\ gateway.mcp_url # NoUrl
      BY <2>3, <2>4, <2>7, <3>1, LoopbackPort DEF McpRuntime, build_mcp_runtime_spec
    <3>4. mcp.servers = merge_mcp_runtime_configs(build_builtin_mcp_runtime_config(own.web_search_profile),
                                                  FileAt(own.mcp_config_path).servers)
      BY <3>1 DEF McpRuntime
    <3>5. DOMAIN mcp.servers = DOMAIN build_builtin_mcp_runtime_config(own.web_search_profile)
                                 \cup DOMAIN FileAt(own.mcp_config_path).servers
      BY <3>4, Zenon DEF merge_mcp_runtime_configs
    <3>6. DOMAIN build_builtin_mcp_runtime_config(own.web_search_profile)
            = resolve_required_builtin_mcp_server_labels(own.web_search_profile)
      BY Zenon DEF build_builtin_mcp_runtime_config
    <3>7. DOMAIN mcp.servers = resolve_required_builtin_mcp_server_labels(gateway.web_search_profile)
                                 \cup DOMAIN FileAt(gateway.mcp_config_path).servers
      <4>1. own.web_search_profile = gateway.web_search_profile /\ own.mcp_config_path = gateway.mcp_config_path
        BY <2>4, <3>2
      <4> HIDE DEF own
      <4> QED BY <3>5, <3>6, <4>1, Zenon
    <3>8. mcp # NoMcp
      BY <3>3 DEF NoMcp
    <3> QED BY <2>5, <3>3, <3>7, <3>8 DEF HelpersAreThere
  <2> QED BY <2>6, <2>7
<1> QED BY <1>1, ConfigurationInductive, TheGatewayFollowsItsLauncher, PTL

=============================================================================
