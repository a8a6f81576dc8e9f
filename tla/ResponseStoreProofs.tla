------------------------- MODULE ResponseStoreProofs -------------------------
(***************************************************************************)
(* Proofs about ResponseStore, for every set of requests and of bodies and *)
(* with or without the cache.                                              *)
(*                                                                         *)
(* Two inductive invariants carry the theorems.  The core of the first is  *)
(* that a row is written once: until a request has committed there is      *)
(* neither a row nor a cache entry under its id, and afterwards both can   *)
(* only be what it wrote.  A lookup that was overtaken by expiry, a writer *)
(* that died between commit and cache, and a late refill then all write    *)
(* the one value there is.                                                 *)
(*                                                                         *)
(* The second one says what each request was given: the conversation of    *)
(* its chain of turns.  It needs what the filters of the inputs and the    *)
(* chain, both recursive functions, yield; the lemmas about them stand in  *)
(* front, by induction over the natural numbers for sets.                  *)
(***************************************************************************)
EXTENDS ResponseStore, SequenceTheorems, NaturalsInduction, WellFoundedInduction, TLAPS

Before == {"idle", "running", "commit"} \cup Lookups

Domains ==
  /\ DOMAIN rows = Requests /\ DOMAIN cache = Requests /\ DOMAIN pc = Requests
  /\ DOMAIN prev = Requests /\ DOMAIN got = Requests /\ DOMAIN hydrated = Requests
  /\ DOMAIN body = Requests

(* Nothing is stored under the id of a request that has not committed.     *)
WrittenOnce ==
  \A r \in Requests : pc[r] \in Before => rows[r] = NoRow

(* What a request took from the store is still what the store has.         *)
GotIsStored ==
  \A r \in Requests :
    /\ pc[r] \in {"lookup", "query", "refill"} => prev[r] \in Requests
    /\ pc[r] = "refill" \/ (pc[r] = "hydrate" /\ prev[r] # None)
         => prev[r] \in Requests /\ got[r] # NoRow /\ got[r] = rows[prev[r]]

PublishedIsStored ==
  \A r \in Requests : pc[r] = "publish" => rows[r] = Payload(r)

AnsweredIsStored ==
  \A r \in Requests : pc[r] \in {"publish", "answered"} /\ body[r].store => rows[r] # NoRow

StoredIsRunnable ==
  \A r \in Requests :
    /\ rows[r] # NoRow => Runnable(rows[r])
    /\ pc[r] \in {"running", "commit", "publish"} => Runnable(hydrated[r])

StoreInv ==
  /\ Domains
  /\ CacheIsTransparent
  /\ WrittenOnce
  /\ GotIsStored
  /\ PublishedIsStored
  /\ AnsweredIsStored
  /\ StoredIsRunnable

-----------------------------------------------------------------------------
LEMMA PayloadIsARow ==
  ASSUME NEW r \in Requests
  PROVE  Payload(r) # NoRow
<1>1. Payload(r).id = r
  BY DEF Payload
<1>2. NoRow.id = None
  BY DEF NoRow
<1> QED
  BY <1>1, <1>2, StoreAssumption

(* Stripping the credentials of tools leaves the tool they choose.         *)
LEMMA PayloadIsRunnable ==
  ASSUME NEW r \in Requests, Runnable(hydrated[r])
  PROVE  Runnable(Payload(r))
<1>1. /\ Payload(r).choice = hydrated[r].choice
      /\ Payload(r).tools = Sanitized(hydrated[r].tools)
  BY DEF Payload
<1> QED
  BY <1>1 DEF Runnable, Sanitized, DeclaresMcp

LEMMA PayloadUnchanged ==
  ASSUME hydrated' = hydrated
  PROVE  \A r \in Requests : Payload(r)' = Payload(r)
BY DEF Payload

(* A request that gives up changes nothing the invariant speaks of.        *)
LEMMA GivingUp ==
  ASSUME StoreInv, NEW r \in Requests,
         UNCHANGED <<rows, cache, prev, got, hydrated, body>>,
         NEW place \in {"failed", "gone", "not found", "refused", "unresolved"},
         pc' = [pc EXCEPT ![r] = place]
  PROVE  StoreInv'
<1> USE DEF StoreInv, Domains
<1>1. pc'[r] = place /\ \A q \in Requests \ {r} : pc'[q] = pc[q]
  OBVIOUS
<1>2. Domains' /\ CacheIsTransparent'
  BY DEF CacheIsTransparent
<1>3. WrittenOnce' /\ GotIsStored'
  BY <1>1 DEF WrittenOnce, GotIsStored, Before, Lookups
<1>4. PublishedIsStored' /\ AnsweredIsStored' /\ StoredIsRunnable'
  BY <1>1, PayloadUnchanged DEF PublishedIsStored, AnsweredIsStored, StoredIsRunnable
<1> QED
  BY <1>2, <1>3, <1>4

(* Putting the payload of r under r where nothing was keeps what is known  *)
(* of rows, cache and lookups; it is shared by Commit, by a commit that    *)
(* raises although it took effect, and by one whose client left.           *)
LEMMA Inserting ==
  ASSUME StoreInv, NEW r \in Requests, pc[r] = "commit",
         rows' = [rows EXCEPT ![r] = Payload(r)],
         UNCHANGED <<cache, prev, got, hydrated, body>>,
         NEW place \in {"publish", "answered", "failed", "gone"},
         pc' = [pc EXCEPT ![r] = place]
  PROVE  StoreInv'
<1> USE DEF StoreInv, Domains
<1>1. rows[r] = NoRow /\ rows'[r] = Payload(r) /\ Payload(r) # NoRow
  BY PayloadIsARow DEF WrittenOnce, Before
<1>2. \A id \in Requests \ {r} : rows'[id] = rows[id]
  OBVIOUS
<1>3. pc'[r] = place /\ \A q \in Requests \ {r} : pc'[q] = pc[q]
  OBVIOUS
<1>4. Domains'
  OBVIOUS
<1>5. CacheIsTransparent'
  BY <1>1, <1>2 DEF CacheIsTransparent
<1>6. WrittenOnce'
  BY <1>2, <1>3 DEF WrittenOnce, Before, Lookups
<1>7. GotIsStored'
  BY <1>1, <1>2, <1>3 DEF GotIsStored
<1>8. PublishedIsStored'
  BY <1>1, <1>2, <1>3, PayloadUnchanged DEF PublishedIsStored
<1>9. AnsweredIsStored'
  BY <1>1, <1>2, <1>3 DEF AnsweredIsStored
<1>10. StoredIsRunnable'
  <2>1. Runnable(Payload(r))
    BY PayloadIsRunnable DEF StoredIsRunnable
  <2> QED
    BY <2>1, <1>1, <1>2, <1>3 DEF StoredIsRunnable
<1> QED
  BY <1>4, <1>5, <1>6, <1>7, <1>8, <1>9, <1>10

-----------------------------------------------------------------------------
LEMMA InvInit == Init => StoreInv
<1> SUFFICES ASSUME Init PROVE StoreInv
  OBVIOUS
<1> QED
  BY DEF Init, StoreInv, Domains, CacheIsTransparent, WrittenOnce, GotIsStored,
         PublishedIsStored, AnsweredIsStored, StoredIsRunnable, Before, Lookups

(* Steps that touch neither rows nor cache, take no row over and do not    *)
(* move the request into a place the invariant speaks of keep it; the      *)
(* others are proved one by one.                                           *)
LEMMA InvStep ==
  ASSUME StoreInv, [Next]_vars
  PROVE  StoreInv'
<1> USE DEF StoreInv, Domains, CacheIsTransparent, WrittenOnce, GotIsStored,
            PublishedIsStored, AnsweredIsStored, StoredIsRunnable, Before, Lookups
<1>1. CASE UNCHANGED vars
  BY <1>1 DEF vars, Payload
<1>2. ASSUME NEW r \in Requests, NEW b \in Bodies, NEW p \in Requests \cup {None}, Arrive(r, b, p)
      PROVE  StoreInv'
  BY <1>2, StoreAssumption DEF Arrive, Step, Payload
<1>3. ASSUME NEW r \in Requests, CacheHit(r)
      PROVE  StoreInv'
  BY <1>3 DEF CacheHit, Step, Payload
<1>4. ASSUME NEW r \in Requests, CacheMiss(r)
      PROVE  StoreInv'
  BY <1>4 DEF CacheMiss, Step, Payload
<1>5. ASSUME NEW r \in Requests, Query(r)
      PROVE  StoreInv'
  <2>1. CASE pc' = [pc EXCEPT ![r] = "not found"] /\ UNCHANGED got
    <3>1. UNCHANGED <<rows, cache, body, prev, hydrated>>
      BY <1>5 DEF Query
    <3> QED
      BY <2>1, <3>1, GivingUp
  <2>2. CASE /\ pc[r] = "query" /\ rows[prev[r]] # NoRow
             /\ pc' = [pc EXCEPT ![r] = IF CacheEnabled THEN "refill" ELSE "hydrate"]
             /\ got' = [got EXCEPT ![r] = rows[prev[r]]]
    <3>1. UNCHANGED <<rows, cache, body, prev, hydrated>>
      BY <1>5 DEF Query
    <3>2. got'[r] = rows[prev[r]] /\ pc'[r] \in {"refill", "hydrate"} /\ prev[r] \in Requests
      BY <2>2
    <3>3. \A q \in Requests \ {r} : got'[q] = got[q] /\ pc'[q] = pc[q]
      BY <2>2
    <3>4. Domains' /\ CacheIsTransparent'
      BY <2>2, <3>1
    <3>5. GotIsStored'
      BY <2>2, <3>1, <3>2, <3>3
    <3>6. WrittenOnce' /\ AnsweredIsStored' /\ StoredIsRunnable' /\ PublishedIsStored'
      BY <2>2, <3>1, <3>2, <3>3, PayloadUnchanged
    <3> QED
      BY <3>4, <3>5, <3>6
  <2> QED
    BY <1>5, <2>1, <2>2 DEF Query, Step
<1>6. ASSUME NEW r \in Requests, QueryRaises(r)
      PROVE  StoreInv'
  BY <1>6, GivingUp DEF QueryRaises, Step
<1>7. ASSUME NEW r \in Requests, Refill(r)
      PROVE  StoreInv'
  BY <1>7 DEF Refill, Step, Payload
<1>8. ASSUME NEW r \in Requests, Hydrate(r)
      PROVE  StoreInv'
  <2>1. UNCHANGED <<rows, cache, body, prev, got>>
    BY <1>8 DEF Hydrate
  <2>2. PICK h : h = IF prev[r] = None THEN Root(r) ELSE Continued(r, got[r])
    OBVIOUS
  <2>3. CASE Runnable(h) /\ Step(r, "hydrate", "running") /\ hydrated' = [hydrated EXCEPT ![r] = h]
    BY <2>1, <2>3 DEF Step, Payload
  <2>4. CASE UNCHANGED hydrated /\ (Step(r, "hydrate", "refused") \/ Step(r, "hydrate", "unresolved"))
    BY <2>1, <2>4, GivingUp DEF Step
  <2> QED
    BY <1>8, <2>2, <2>3, <2>4 DEF Hydrate
<1>9. ASSUME NEW r \in Requests, Finish(r)
      PROVE  StoreInv'
  BY <1>9 DEF Finish, Step, Payload
<1>10. ASSUME NEW r \in Requests, Commit(r)
       PROVE  StoreInv'
  BY <1>10, Inserting DEF Commit, Step
<1>11. ASSUME NEW r \in Requests, CommitRaises(r)
       PROVE  StoreInv'
  <2>1. CASE UNCHANGED rows
    BY <2>1, <1>11, GivingUp DEF CommitRaises, Step
  <2> QED
    BY <2>1, <1>11, Inserting DEF CommitRaises, Step
<1>12. ASSUME NEW r \in Requests, Publish(r)
       PROVE  StoreInv'
  BY <1>12, PayloadUnchanged, PayloadIsARow DEF Publish, Step
<1>13. ASSUME NEW r \in Requests, Leave(r)
       PROVE  StoreInv'
  <2>1. CASE UNCHANGED <<rows, cache>>
    BY <2>1, <1>13, GivingUp DEF Leave
  <2>2. CASE pc[r] = "commit" /\ rows' = [rows EXCEPT ![r] = Payload(r)] /\ UNCHANGED cache
    BY <2>2, <1>13, Inserting DEF Leave
  <2>3. CASE pc[r] = "publish" /\ cache' = [cache EXCEPT ![r] = Payload(r)] /\ UNCHANGED rows
    BY <2>3, <1>13, PayloadUnchanged DEF Leave
  <2> QED
    BY <1>13, <2>1, <2>2, <2>3 DEF Leave
<1>14. ASSUME NEW id \in Requests, Expire(id)
       PROVE  StoreInv'
  BY <1>14 DEF Expire, Payload
<1> QED
  BY <1>1, <1>2, <1>3, <1>4, <1>5, <1>6, <1>7, <1>8, <1>9, <1>10, <1>11, <1>12, <1>13, <1>14
     DEF Next
-----------------------------------------------------------------------------
LEMMA InvAlways == Spec => []StoreInv
BY InvInit, InvStep, PTL DEF Spec

(* Whatever fails, expires or is abandoned half-way, an entry of the cache *)
(* is the row of the database: _cache_set never publishes what was not     *)
(* committed, and the refill of get() never overwrites newer data.         *)
THEOREM CacheTransparent == Spec => []CacheIsTransparent
<1>1. StoreInv => CacheIsTransparent
  BY DEF StoreInv
<1> QED
  BY <1>1, InvAlways, PTL

(* put_completed is awaited before the terminal event is sent: a response  *)
(* answered with store=true is found by every later lookup.                *)
THEOREM AnsweredFound == Spec => AnsweredIsFound
<1> DEFINE Found == \A r \in Requests :
                      pc[r] = "query" /\ pc'[r] = "not found"
                        => ~(pc[prev[r]] = "answered" /\ body[prev[r]].store)
<1>1. ASSUME StoreInv, [Next]_vars
      PROVE  Found
  <2> SUFFICES ASSUME NEW r \in Requests, pc[r] = "query", pc'[r] = "not found",
                      pc[prev[r]] = "answered", body[prev[r]].store
               PROVE  FALSE
    OBVIOUS
  <2>1. prev[r] \in Requests /\ rows[prev[r]] # NoRow
    BY <1>1 DEF StoreInv, GotIsStored, AnsweredIsStored
  <2>2. ~ UNCHANGED vars
    BY DEF vars
  <2>3. \A q \in Requests : ~ (Query(q) /\ q = r)
    BY <2>1, <1>1 DEF Query, Step, StoreInv, Domains
  <2>4. pc'[r] # pc[r] /\ DOMAIN pc = Requests
    BY <1>1 DEF StoreInv, Domains
  <2>5. ASSUME NEW q \in Requests, NEW b \in Bodies, NEW p \in Requests \cup {None}, Arrive(q, b, p)
        PROVE  FALSE
    BY <2>5, <2>4 DEF Arrive, Step
  <2>6. ASSUME NEW q \in Requests,
               CacheHit(q) \/ CacheMiss(q) \/ QueryRaises(q) \/ Refill(q) \/ Hydrate(q)
                 \/ Finish(q) \/ Commit(q) \/ CommitRaises(q) \/ Publish(q)
        PROVE  FALSE
    BY <2>6, <2>4 DEF CacheHit, CacheMiss, QueryRaises, Refill, Hydrate, Finish, Commit,
                      CommitRaises, Publish, Step
  <2>7. ASSUME NEW q \in Requests, Query(q)
        PROVE  FALSE
    BY <2>7, <2>3, <2>4 DEF Query, Step
  <2>8. ASSUME NEW q \in Requests, Leave(q)
        PROVE  FALSE
    BY <2>8, <2>4 DEF Leave
  <2>9. ASSUME NEW id \in Requests, Expire(id)
        PROVE  FALSE
    BY <2>9, <2>4 DEF Expire
  <2> QED
    BY <1>1, <2>2, <2>5, <2>6, <2>7, <2>8, <2>9 DEF Next
<1>2. ASSUME StoreInv, [Next]_vars
      PROVE  [Found]_vars
  BY <1>1, <1>2
<1> QED
  BY <1>2, InvAlways, PTL DEF Spec, AnsweredIsFound

-----------------------------------------------------------------------------
(* A nonempty set of natural numbers has a least element.                  *)
LEMMA LeastNat ==
  ASSUME NEW T, T \subseteq Nat, T # {}
  PROVE  \E n \in T : \A m \in T : n <= m
<1>1. PICK n \in T : \A m \in T : ~ (<<m, n>> \in OpToRel(<, Nat))
  BY NatLessThanWellFounded, WFMin
<1>2. \A m \in T : ~ (m < n)
  BY <1>1 DEF OpToRel
<1> QED
  BY <1>2

(* Induction over the natural numbers, for a set instead of a predicate.   *)
LEMMA InductNat ==
  ASSUME NEW S, 0 \in S, \A n \in Nat : n \in S => n + 1 \in S
  PROVE  Nat \subseteq S
<1> DEFINE T == Nat \ S
<1> SUFFICES ASSUME T # {} PROVE FALSE
  OBVIOUS
<1>1. PICK n \in T : \A m \in T : n <= m
  BY LeastNat
<1>2. n # 0 /\ n - 1 \in Nat
  BY <1>1
<1>3. n - 1 \in S
  BY <1>1, <1>2
<1> QED
  BY <1>1, <1>2, <1>3

-----------------------------------------------------------------------------
(* WithRoles is a recursive function: it exists, it is the only one, and   *)
(* what it makes of an input with one more item.                           *)
KeptUpTo(f, s, roles, n) ==
  f = [i \in 0 .. n |->
         IF i = 0 THEN <<>>
         ELSE IF s[i].role \in roles THEN Append(f[i - 1], s[i])
         ELSE f[i - 1]]

LEMMA KeptAt ==
  ASSUME NEW f, NEW s, NEW roles, NEW n \in Nat, KeptUpTo(f, s, roles, n)
  PROVE  /\ f[0] = <<>>
         /\ \A i \in Nat : i < n =>
              f[i + 1] = IF s[i + 1].role \in roles THEN Append(f[i], s[i + 1]) ELSE f[i]
<1>1. \A i \in 0 .. n :
        f[i] = IF i = 0 THEN <<>>
               ELSE IF s[i].role \in roles THEN Append(f[i - 1], s[i])
               ELSE f[i - 1]
  BY DEF KeptUpTo
<1>2. 0 \in 0 .. n
  OBVIOUS
<1>3. f[0] = <<>>
  BY <1>1, <1>2
<1>4. ASSUME NEW i \in Nat, i < n
      PROVE  f[i + 1] = IF s[i + 1].role \in roles THEN Append(f[i], s[i + 1]) ELSE f[i]
  <2>1. i + 1 \in 0 .. n /\ i + 1 # 0 /\ (i + 1) - 1 = i
    BY <1>4
  <2> QED
    BY <1>1, <2>1
<1> QED
  BY <1>3, <1>4

LEMMA KeptExists ==
  ASSUME NEW s, NEW roles, NEW n \in Nat
  PROVE  \E f : KeptUpTo(f, s, roles, n)
<1> DEFINE S == {m \in Nat : \E f : KeptUpTo(f, s, roles, m)}
<1>1. 0 \in S
  <2> DEFINE f == [i \in 0 .. 0 |-> <<>>]
  <2>1. KeptUpTo(f, s, roles, 0)
    BY DEF KeptUpTo
  <2> QED
    BY <2>1
<1>2. ASSUME NEW m \in Nat, m \in S
      PROVE  m + 1 \in S
  <2>1. PICK f : KeptUpTo(f, s, roles, m)
    BY <1>2
  <2> DEFINE next == IF s[m + 1].role \in roles THEN Append(f[m], s[m + 1]) ELSE f[m]
             g == [i \in 0 .. m + 1 |-> IF i = m + 1 THEN next ELSE f[i]]
  <2>2. g[m + 1] = next /\ \A i \in 0 .. m : g[i] = f[i]
    OBVIOUS
  <2>3. f[0] = <<>>
    BY <2>1, KeptAt
  <2>4. \A i \in 1 .. m : f[i] = IF s[i].role \in roles THEN Append(f[i - 1], s[i]) ELSE f[i - 1]
    <3> SUFFICES ASSUME NEW i \in 1 .. m
                 PROVE  f[i] = IF s[i].role \in roles THEN Append(f[i - 1], s[i]) ELSE f[i - 1]
      OBVIOUS
    <3>1. i - 1 \in Nat /\ i - 1 < m /\ (i - 1) + 1 = i
      OBVIOUS
    <3> QED
      BY <2>1, <3>1, KeptAt
  <2>5. \A i \in 0 .. m + 1 :
          g[i] = IF i = 0 THEN <<>>
                 ELSE IF s[i].role \in roles THEN Append(g[i - 1], s[i])
                 ELSE g[i - 1]
    <3> SUFFICES ASSUME NEW i \in 0 .. m + 1
                 PROVE  g[i] = IF i = 0 THEN <<>>
                               ELSE IF s[i].role \in roles THEN Append(g[i - 1], s[i])
                               ELSE g[i - 1]
      OBVIOUS
    <3> HIDE DEF g
    <3>1. CASE i = 0
      BY <3>1, <2>2, <2>3
    <3>2. CASE i = m + 1
      BY <3>2, <2>2
    <3>3. CASE i \in 1 .. m
      <4>1. g[i] = f[i] /\ g[i - 1] = f[i - 1]
        BY <3>3, <2>2
      <4> QED
        BY <3>3, <4>1, <2>4
    <3> QED
      BY <3>1, <3>2, <3>3
  <2>6. KeptUpTo(g, s, roles, m + 1)
    BY <2>5 DEF KeptUpTo
  <2> QED
    BY <2>6
<1>3. Nat \subseteq S
  <2> HIDE DEF S
  <2> QED
    BY <1>1, <1>2, InductNat
<1> QED
  BY <1>3

LEMMA KeptUnique ==
  ASSUME NEW s, NEW t, NEW roles, NEW m \in Nat, NEW k \in Nat, NEW n \in Nat, n <= m, n <= k,
         \A i \in 1 .. n : s[i] = t[i],
         NEW f, KeptUpTo(f, s, roles, m), NEW g, KeptUpTo(g, t, roles, k)
  PROVE  f[n] = g[n]
<1> DEFINE S == {i \in Nat : i <= n => f[i] = g[i]}
<1>1. 0 \in S
  BY KeptAt
<1>2. ASSUME NEW i \in Nat, i \in S
      PROVE  i + 1 \in S
  <2> SUFFICES ASSUME i + 1 <= n PROVE f[i + 1] = g[i + 1]
    OBVIOUS
  <2>1. f[i] = g[i] /\ s[i + 1] = t[i + 1]
    BY <1>2
  <2>2. i < m /\ i < k
    OBVIOUS
  <2>3. f[i + 1] = IF s[i + 1].role \in roles THEN Append(f[i], s[i + 1]) ELSE f[i]
    BY <2>2, KeptAt
  <2>5. g[i + 1] = IF t[i + 1].role \in roles THEN Append(g[i], t[i + 1]) ELSE g[i]
    BY <2>2, KeptAt
  <2> QED
    BY <2>1, <2>3, <2>5
<1>3. Nat \subseteq S
  <2> HIDE DEF S
  <2> QED
    BY <1>1, <1>2, InductNat
<1> QED
  BY <1>3

LEMMA WithRolesIs ==
  ASSUME NEW s, NEW roles, Len(s) \in Nat
  PROVE  \E f : KeptUpTo(f, s, roles, Len(s)) /\ WithRoles(s, roles) = f[Len(s)]
<1> DEFINE f == CHOOSE g : KeptUpTo(g, s, roles, Len(s))
<1>1. KeptUpTo(f, s, roles, Len(s))
  BY KeptExists
<1>2. WithRoles(s, roles) = f[Len(s)]
  BY DEF WithRoles, KeptUpTo
<1> HIDE DEF f
<1> QED
  BY <1>1, <1>2

LEMMA WithRolesEmpty ==
  ASSUME NEW roles
  PROVE  WithRoles(<<>>, roles) = <<>>
<1>1. Len(<<>>) = 0
  OBVIOUS
<1>2. PICK f : KeptUpTo(f, <<>>, roles, 0) /\ WithRoles(<<>>, roles) = f[0]
  BY <1>1, WithRolesIs
<1> QED
  BY <1>2, KeptAt

LEMMA WithRolesAppend ==
  ASSUME NEW s \in Seq(Item), NEW x \in Item, NEW roles
  PROVE  WithRoles(Append(s, x), roles) =
           IF x.role \in roles THEN Append(WithRoles(s, roles), x) ELSE WithRoles(s, roles)
<1> DEFINE t == Append(s, x)
           n == Len(s)
<1>1. n \in Nat /\ Len(t) = n + 1 /\ t[n + 1] = x /\ \A i \in 1 .. n : t[i] = s[i]
  OBVIOUS
<1>2. PICK f : KeptUpTo(f, s, roles, n) /\ WithRoles(s, roles) = f[n]
  BY <1>1, WithRolesIs
<1> HIDE DEF t
<1>3. PICK g : KeptUpTo(g, t, roles, n + 1) /\ WithRoles(t, roles) = g[n + 1]
  BY <1>1, WithRolesIs
<1> HIDE DEF n
<1>4. f[n] = g[n]
  <2>1. n \in Nat /\ n + 1 \in Nat /\ n <= n /\ n <= n + 1
    BY <1>1
  <2>2. \A i \in 1 .. n : s[i] = t[i]
    BY <1>1
  <2>3. KeptUpTo(f, s, roles, n) /\ KeptUpTo(g, t, roles, n + 1)
    BY <1>2, <1>3
  <2> QED
    BY <2>1, <2>2, <2>3, KeptUnique
<1>5. g[n + 1] = IF t[n + 1].role \in roles THEN Append(g[n], t[n + 1]) ELSE g[n]
  <2>1. n \in Nat /\ n + 1 \in Nat /\ n < n + 1
    BY <1>1
  <2> QED
    BY <2>1, <1>3, KeptAt
<1>6. WithRoles(t, roles) = IF x.role \in roles THEN Append(WithRoles(s, roles), x)
                            ELSE WithRoles(s, roles)
  BY <1>1, <1>2, <1>3, <1>4, <1>5
<1> QED
  BY <1>6 DEF t

-----------------------------------------------------------------------------
(* What was said in a chain of turns.                                      *)

LEMMA SaidTyped ==
  ASSUME NEW t \in Seq(Requests), t # <<>>
  PROVE  /\ Said(t) \in Seq(Item)
         /\ Len(Said(t)) = 2 * Len(t) - 1
         /\ \A i \in DOMAIN Said(t) : Said(t)[i].role \in {"user", "output"}
<1> DEFINE n == Len(t)
           f == [i \in 1 .. 2 * n - 1 |->
                   IF i % 2 = 1 THEN Message("user", t[(i + 1) \div 2])
                   ELSE Message("output", t[i \div 2])]
<1>1. n \in Nat \ {0} /\ \A i \in 1 .. n : t[i] \in Requests
  OBVIOUS
<1>2. \A q \in Requests : Message("user", q) \in Item /\ Message("output", q) \in Item
  BY DEF Message, Item, Roles
<1>3. \A q : Message("user", q).role = "user" /\ Message("output", q).role = "output"
  BY DEF Message
<1> HIDE DEF n
<1>4. ASSUME NEW i \in 1 .. 2 * n - 1
      PROVE  f[i] \in Item /\ f[i].role \in {"user", "output"}
  <2>1. CASE i % 2 = 1
    <3>1. (i + 1) \div 2 \in 1 .. n
      BY <1>1
    <3>2. f[i] = Message("user", t[(i + 1) \div 2])
      BY <2>1
    <3> QED
      BY <3>1, <3>2, <1>1, <1>2, <1>3
  <2>2. CASE i % 2 # 1
    <3>1. i \div 2 \in 1 .. n
      BY <1>1, <2>2
    <3>2. f[i] = Message("output", t[i \div 2])
      BY <2>2
    <3> QED
      BY <3>1, <3>2, <1>1, <1>2, <1>3
  <2> QED
    BY <2>1, <2>2
<1>5. Said(t) = f
  BY DEF Said, n
<1>6. 2 * n - 1 \in Nat /\ DOMAIN f = 1 .. 2 * n - 1
  BY <1>1
<1> HIDE DEF f
<1>7. f \in [1 .. 2 * n - 1 -> Item]
  <2>1. f = [i \in 1 .. 2 * n - 1 |-> f[i]]
    BY DEF f
  <2> QED
    BY <1>4, <2>1
<1>8. f \in Seq(Item) /\ Len(f) = 2 * n - 1
  BY <1>6, <1>7
<1> QED
  BY <1>4, <1>5, <1>6, <1>8 DEF n

LEMMA SaidOne ==
  ASSUME NEW q \in Requests
  PROVE  Said(<<q>>) = <<Message("user", q)>>
<1>1. Len(<<q>>) = 1 /\ 2 * 1 - 1 = 1 /\ 1 % 2 = 1 /\ (1 + 1) \div 2 = 1 /\ <<q>>[1] = q
  OBVIOUS
<1>2. /\ <<q>> \in Seq(Requests) /\ <<q>> # <<>>
  OBVIOUS
<1>3. Said(<<q>>) \in Seq(Item) /\ Len(Said(<<q>>)) = 1
  BY <1>1, <1>2, SaidTyped
<1>4. Said(<<q>>)[1] = Message("user", q)
  BY <1>1 DEF Said
<1> QED
  BY <1>3, <1>4

(* One more turn: the answer to the last one and another user's message.   *)
LEMMA SaidAppend ==
  ASSUME NEW t \in Seq(Requests), t # <<>>, NEW q \in Requests
  PROVE  Said(Append(t, q)) =
           Append(Append(Said(t), Message("output", t[Len(t)])), Message("user", q))
<1> DEFINE n == Len(t)
           u == Append(t, q)
           a == Said(u)
           b == Append(Append(Said(t), Message("output", t[n])), Message("user", q))
<1>1. n \in Nat \ {0} /\ u \in Seq(Requests) /\ u # <<>> /\ Len(u) = n + 1
      /\ u[n + 1] = q /\ (\A i \in 1 .. n : u[i] = t[i] /\ t[i] \in Requests)
  OBVIOUS
<1>2. Message("output", t[n]) \in Item /\ Message("user", q) \in Item
  BY <1>1 DEF Message, Item, Roles
<1> HIDE DEF u, n
<1>3. Said(t) \in Seq(Item) /\ Len(Said(t)) = 2 * n - 1
  BY SaidTyped DEF n
<1>4. b \in Seq(Item) /\ Len(b) = 2 * n + 1 /\ b[2 * n] = Message("output", t[n])
      /\ b[2 * n + 1] = Message("user", q) /\ \A i \in 1 .. 2 * n - 1 : b[i] = Said(t)[i]
  BY <1>1, <1>2, <1>3
<1>5. a \in Seq(Item) /\ Len(a) = 2 * n + 1
  BY <1>1, SaidTyped
<1>6. \A i \in 1 .. 2 * n + 1 :
        a[i] = IF i % 2 = 1 THEN Message("user", u[(i + 1) \div 2])
               ELSE Message("output", u[i \div 2])
  BY <1>1 DEF Said
<1>7. \A i \in 1 .. 2 * n - 1 :
        Said(t)[i] = IF i % 2 = 1 THEN Message("user", t[(i + 1) \div 2])
                     ELSE Message("output", t[i \div 2])
  BY DEF Said, n
<1>8. ASSUME NEW i \in 1 .. 2 * n - 1
      PROVE  a[i] = b[i]
  <2>1. i % 2 = 1 => (i + 1) \div 2 \in 1 .. n
    BY <1>1
  <2>2. i % 2 # 1 => i \div 2 \in 1 .. n
    BY <1>1
  <2>3. i \in 1 .. 2 * n + 1
    BY <1>1
  <2> HIDE DEF a, b
  <2> QED
    BY <2>1, <2>2, <2>3, <1>1, <1>4, <1>6, <1>7
<1>9. a[2 * n] = b[2 * n]
  <2>1. 2 * n \in 1 .. 2 * n + 1 /\ (2 * n) % 2 # 1 /\ (2 * n) \div 2 = n /\ n \in 1 .. n
    BY <1>1
  <2> HIDE DEF a, b
  <2>2. a[2 * n] = Message("output", u[(2 * n) \div 2])
    BY <2>1, <1>6
  <2>3. a[2 * n] = Message("output", u[n]) /\ u[n] = t[n]
    BY <2>1, <2>2, <1>1
  <2> QED
    BY <2>3, <1>4
<1>10. a[2 * n + 1] = b[2 * n + 1]
  <2>1. 2 * n + 1 \in 1 .. 2 * n + 1 /\ (2 * n + 1) % 2 = 1 /\ (2 * n + 1 + 1) \div 2 = n + 1
    BY <1>1
  <2> HIDE DEF a, b
  <2>2. a[2 * n + 1] = Message("user", u[(2 * n + 1 + 1) \div 2])
    BY <2>1, <1>6
  <2>3. a[2 * n + 1] = Message("user", u[n + 1])
    BY <2>1, <2>2
  <2> QED
    BY <2>3, <1>1, <1>4
<1>11. \A i \in 1 .. 2 * n + 1 : a[i] = b[i]
  <2> SUFFICES ASSUME NEW i \in 1 .. 2 * n + 1 PROVE a[i] = b[i]
    OBVIOUS
  <2>1. i \in 1 .. 2 * n - 1 \/ i = 2 * n \/ i = 2 * n + 1
    BY <1>1
  <2> HIDE DEF a, b
  <2> QED
    BY <2>1, <1>8, <1>9, <1>10
<1> HIDE DEF a, b
<1>12. a = b
  BY <1>4, <1>5, <1>11
<1> QED
  BY <1>12 DEF a, b, u, n

(* Nothing that was said is lost by the filters, and the users' part of it *)
(* names the turns.                                                        *)
SaidWell(t) ==
  /\ WithRoles(Said(t), Replayable) = Said(t)
  /\ WithRoles(Said(t), {"user"}) \in Seq(Item)
  /\ Len(WithRoles(Said(t), {"user"})) = Len(t)
  /\ \A i \in 1 .. Len(t) : WithRoles(Said(t), {"user"})[i].by = t[i]

LEMMA MessageTyped ==
  ASSUME NEW q \in Requests
  PROVE  /\ \A role \in Roles : Message(role, q) \in Item
         /\ \A role : Message(role, q).role = role /\ Message(role, q).by = q
BY DEF Message, Item

LEMMA WithRolesOne ==
  ASSUME NEW x \in Item, NEW roles
  PROVE  WithRoles(<<x>>, roles) = IF x.role \in roles THEN <<x>> ELSE <<>>
<1>1. <<>> \in Seq(Item) /\ <<x>> = Append(<<>>, x)
  OBVIOUS
<1>2. PICK e \in Seq(Item) : e = <<>>
  BY <1>1
<1>3. WithRoles(Append(e, x), roles) =
        IF x.role \in roles THEN Append(WithRoles(e, roles), x) ELSE WithRoles(e, roles)
  BY WithRolesAppend
<1>4. WithRoles(e, roles) = <<>>
  BY <1>2, WithRolesEmpty
<1>5. Append(e, x) = <<x>> /\ Append(<<>>, x) = <<x>>
  BY <1>2
<1> QED
  BY <1>3, <1>4, <1>5

LEMMA SaidWellOne ==
  ASSUME NEW q \in Requests
  PROVE  SaidWell(<<q>>)
<1>1. Message("user", q) \in Item /\ Message("user", q).role = "user" /\ Message("user", q).by = q
  BY MessageTyped DEF Roles
<1>2. Said(<<q>>) = <<Message("user", q)>>
  BY SaidOne
<1>3. "user" \in Replayable
  BY DEF Replayable, Roles
<1>4. /\ WithRoles(<<Message("user", q)>>, Replayable) = <<Message("user", q)>>
      /\ WithRoles(<<Message("user", q)>>, {"user"}) = <<Message("user", q)>>
  BY <1>1, <1>3, WithRolesOne
<1> QED
  BY <1>1, <1>2, <1>4 DEF SaidWell

LEMMA SaidWellAppend ==
  ASSUME NEW t \in Seq(Requests), t # <<>>, NEW q \in Requests, SaidWell(t)
  PROVE  SaidWell(Append(t, q))
<1> DEFINE s == Said(t)
           x == Message("output", t[Len(t)])
           y == Message("user", q)
           z == Append(Append(s, x), y)
<1>1. t[Len(t)] \in Requests
  OBVIOUS
<1>2. x \in Item /\ y \in Item /\ x.role = "output" /\ y.role = "user" /\ y.by = q
  BY <1>1, MessageTyped DEF Roles
<1>3. s \in Seq(Item) /\ Said(Append(t, q)) = z
  BY SaidTyped, SaidAppend
<1>4. "user" \in Replayable /\ "output" \in Replayable
  BY DEF Replayable, Roles
<1> DEFINE w == WithRoles(s, {"user"})
<1>5. w \in Seq(Item) /\ Len(w) = Len(t) /\ (\A i \in 1 .. Len(t) : w[i].by = t[i])
      /\ WithRoles(s, Replayable) = s
  BY DEF SaidWell
<1> HIDE DEF s, x, y, w
<1> DEFINE a == Append(s, x)
<1>6. a \in Seq(Item)
  BY <1>2, <1>3
<1>7. WithRoles(z, Replayable) = z
  <2>1. WithRoles(a, Replayable) = a
    BY <1>2, <1>3, <1>4, <1>5, WithRolesAppend
  <2> HIDE DEF a
  <2>2. WithRoles(Append(a, y), Replayable) = Append(a, y)
    BY <2>1, <1>2, <1>4, <1>6, WithRolesAppend
  <2> QED
    BY <2>2 DEF a
<1>8. WithRoles(z, {"user"}) = Append(w, y)
  <2>1. WithRoles(a, {"user"}) = w
    BY <1>2, <1>3, WithRolesAppend DEF w
  <2> HIDE DEF a
  <2>2. WithRoles(Append(a, y), {"user"}) = Append(w, y)
    BY <2>1, <1>2, <1>6, WithRolesAppend
  <2> QED
    BY <2>2 DEF a
<1> DEFINE v == Append(w, y)
           u == Append(t, q)
<1>9. v \in Seq(Item) /\ Len(v) = Len(u)
  BY <1>2, <1>5
<1>10. \A i \in 1 .. Len(u) : v[i].by = u[i]
  <2> SUFFICES ASSUME NEW i \in 1 .. Len(u) PROVE v[i].by = u[i]
    OBVIOUS
  <2>1. CASE i = Len(u)
    BY <2>1, <1>2, <1>5
  <2>2. CASE i # Len(u)
    <3>1. i \in 1 .. Len(t) /\ u[i] = t[i]
      BY <2>2
    <3>2. v[i] = w[i]
      BY <3>1, <1>2, <1>5
    <3> QED
      BY <3>1, <3>2, <1>5
  <2> QED
    BY <2>1, <2>2
<1> HIDE DEF z, v, u
<1>11. Said(u) = z /\ WithRoles(z, {"user"}) = v
  BY <1>3, <1>8 DEF u, v
<1>12. SaidWell(u)
  BY <1>7, <1>9, <1>10, <1>11 DEF SaidWell
<1> QED
  BY <1>12 DEF u

LEMMA OneTurn ==
  ASSUME NEW u \in Seq(Requests), Len(u) = 1
  PROVE  u[1] \in Requests /\ u = <<u[1]>>
<1>1. u[1] \in Requests
  OBVIOUS
<1>2. <<u[1]>> \in Seq(Requests) /\ Len(<<u[1]>>) = 1 /\ <<u[1]>>[1] = u[1]
  BY <1>1
<1> QED
  BY <1>1, <1>2

(* Induction over the length of the chain.                                 *)
LEMMA SaidIsWell ==
  ASSUME NEW t \in Seq(Requests), t # <<>>
  PROVE  SaidWell(t)
<1> DEFINE S == {n \in Nat : \A u \in Seq(Requests) : Len(u) = n + 1 => SaidWell(u)}
<1>1. 0 \in S
  <2> SUFFICES ASSUME NEW u \in Seq(Requests), Len(u) = 1
               PROVE  SaidWell(u)
    OBVIOUS
  <2>1. u[1] \in Requests /\ u = <<u[1]>>
    BY OneTurn
  <2> QED
    BY <2>1, SaidWellOne
<1>2. ASSUME NEW n \in Nat, n \in S
      PROVE  n + 1 \in S
  <2> SUFFICES ASSUME NEW u \in Seq(Requests), Len(u) = n + 2
               PROVE  SaidWell(u)
    OBVIOUS
  <2> DEFINE front == [i \in 1 .. n + 1 |-> u[i]]
  <2>1. front \in Seq(Requests) /\ Len(front) = n + 1
    OBVIOUS
  <2>2. u[n + 2] \in Requests /\ u = Append(front, u[n + 2])
    OBVIOUS
  <2> HIDE DEF front
  <2>3. SaidWell(front) /\ front # <<>>
    BY <1>2, <2>1
  <2>4. SaidWell(Append(front, u[n + 2]))
    BY <2>1, <2>2, <2>3, SaidWellAppend
  <2> QED
    BY <2>2, <2>4
<1>3. Nat \subseteq S
  <2> HIDE DEF S
  <2> QED
    BY <1>1, <1>2, InductNat
<1>4. Len(t) - 1 \in Nat /\ Len(t) = (Len(t) - 1) + 1
  OBVIOUS
<1> QED
  BY <1>3, <1>4

-----------------------------------------------------------------------------
(* The last turn that gave something.                                      *)

LEMMA MaxIs ==
  ASSUME NEW n \in Nat, NEW A \in SUBSET (1 .. n), A # {}
  PROVE  Max(A) \in A /\ \A y \in A : Max(A) >= y
<1> DEFINE T == {m \in Nat : n - m \in A}
<1>1. T \subseteq Nat
  OBVIOUS
<1>2. T # {}
  <2>1. PICK y \in A : TRUE
    OBVIOUS
  <2>2. n - y \in Nat /\ n - (n - y) = y
    OBVIOUS
  <2>3. n - y \in T
    BY <2>1, <2>2
  <2> QED
    BY <2>3
<1>3. PICK m \in T : \A k \in T : m <= k
  <2> HIDE DEF T
  <2> QED
    BY <1>1, <1>2, LeastNat
<1>4. \A y \in A : n - m >= y
  <2> SUFFICES ASSUME NEW y \in A PROVE n - m >= y
    OBVIOUS
  <2>1. n - y \in Nat /\ n - (n - y) = y /\ y \in Nat
    OBVIOUS
  <2>2. n - y \in T
    BY <2>1
  <2> QED
    BY <2>1, <2>2, <1>3
<1>5. n - m \in A
  OBVIOUS
<1> QED
  BY <1>4, <1>5 DEF Max

LEMMA LastIs ==
  ASSUME NEW t \in Seq(Requests), NEW S
  PROVE  \/ LastOf(t, S) = None /\ \A i \in 1 .. Len(t) : t[i] \notin S
         \/ \E k \in 1 .. Len(t) : /\ t[k] \in S /\ LastOf(t, S) = t[k]
                                   /\ \A i \in 1 .. Len(t) : t[i] \in S => i <= k
<1> DEFINE A == {i \in DOMAIN t : t[i] \in S}
<1>1. LastOf(t, S) = IF A = {} THEN None ELSE t[Max(A)]
  BY Zenon DEF LastOf
<1>2. CASE A = {}
  BY <1>1, <1>2
<1>3. CASE A # {}
  <2>1. Len(t) \in Nat /\ A \in SUBSET (1 .. Len(t))
    OBVIOUS
  <2> DEFINE k == Max(A)
  <2>2. k \in A /\ \A y \in A : k >= y
    <3> HIDE DEF A
    <3> QED
      BY <2>1, <1>3, MaxIs
  <2>3. LastOf(t, S) = t[k]
    BY <1>1, <1>3
  <2> HIDE DEF k
  <2>4. k \in 1 .. Len(t) /\ t[k] \in S
    BY <2>2
  <2>5. \A i \in 1 .. Len(t) : t[i] \in S => i <= k
    BY <2>2, <2>4
  <2> QED
    BY <2>3, <2>4, <2>5
<1> QED
  BY <1>2, <1>3

LEMMA LastMember ==
  ASSUME NEW t \in Seq(Requests), NEW S
  PROVE  LastOf(t, S) = None \/ \E k \in 1 .. Len(t) : LastOf(t, S) = t[k] /\ t[k] \in S
BY LastIs

LEMMA LastOne ==
  ASSUME NEW q \in Requests, NEW S
  PROVE  LastOf(<<q>>, S) = IF q \in S THEN q ELSE None
<1>1. PICK t : t = <<q>>
  OBVIOUS
<1>2. t \in Seq(Requests) /\ Len(t) = 1 /\ t[1] = q
  BY <1>1
<1>3. \A k \in 1 .. Len(t) : t[k] = q
  BY <1>2
<1>4. 1 \in 1 .. Len(t)
  BY <1>2
<1>5. LastOf(t, S) = IF q \in S THEN q ELSE None
  BY <1>2, <1>3, <1>4, LastIs
<1> QED
  BY <1>1, <1>5

LEMMA LastAppend ==
  ASSUME NEW t \in Seq(Requests), NEW q \in Requests, NEW S
  PROVE  LastOf(Append(t, q), S) = IF q \in S THEN q ELSE LastOf(t, S)
<1> DEFINE u == Append(t, q)
           n == Len(t)
<1>1. u \in Seq(Requests) /\ n \in Nat /\ Len(u) = n + 1 /\ u[n + 1] = q
      /\ \A i \in 1 .. n : u[i] = t[i]
  OBVIOUS
<1> HIDE DEF u, n
<1>2. n + 1 \in 1 .. Len(u)
  BY <1>1
<1>3. CASE q \in S
  <2>1. PICK k \in 1 .. Len(u) : LastOf(u, S) = u[k] /\ \A i \in 1 .. Len(u) : u[i] \in S => i <= k
    BY <1>1, <1>2, <1>3, LastIs
  <2>2. k = n + 1
    BY <2>1, <1>1, <1>2, <1>3
  <2> QED
    BY <2>1, <2>2, <1>1, <1>3 DEF u
<1>4. CASE q \notin S
  <2>1. CASE \A i \in 1 .. n : t[i] \notin S
    <3>1. \A i \in 1 .. Len(u) : u[i] \notin S
      <4> SUFFICES ASSUME NEW i \in 1 .. Len(u) PROVE u[i] \notin S
        OBVIOUS
      <4>1. i \in 1 .. n \/ i = n + 1
        BY <1>1
      <4> QED
        BY <4>1, <2>1, <1>1, <1>4
    <3>2. LastOf(u, S) = None
      BY <3>1, <1>1, LastIs
    <3>3. LastOf(t, S) = None
      BY <2>1, LastIs DEF n
    <3> QED
      BY <3>2, <3>3, <1>4 DEF u
  <2>2. CASE \E i \in 1 .. n : t[i] \in S
    <3>1. PICK j \in 1 .. n : t[j] \in S /\ LastOf(t, S) = t[j]
                              /\ \A i \in 1 .. n : t[i] \in S => i <= j
      BY <2>2, LastIs DEF n
    <3>2. j \in 1 .. Len(u) /\ u[j] \in S
      BY <3>1, <1>1
    <3>3. PICK k \in 1 .. Len(u) : u[k] \in S /\ LastOf(u, S) = u[k]
                                  /\ \A i \in 1 .. Len(u) : u[i] \in S => i <= k
      BY <3>2, <1>1, LastIs
    <3>4. k # n + 1
      BY <3>3, <1>1, <1>4
    <3>5. k \in 1 .. n
      BY <3>4, <1>1
    <3>6. k = j
      <4>1. t[k] \in S
        BY <3>3, <3>5, <1>1
      <4>2. k <= j
        BY <4>1, <3>1, <3>5
      <4>3. j <= k
        BY <3>2, <3>3
      <4> QED
        BY <4>2, <4>3, <1>1
    <3> QED
      BY <3>1, <3>3, <3>6, <1>1, <1>4 DEF u
  <2> QED
    BY <2>1, <2>2
<1> QED
  BY <1>3, <1>4

(* Only the turns of the chain matter.                                     *)
LEMMA LastAgree ==
  ASSUME NEW t \in Seq(Requests), NEW S, NEW T,
         \A i \in 1 .. Len(t) : t[i] \in S <=> t[i] \in T
  PROVE  LastOf(t, S) = LastOf(t, T)
<1>1. {i \in DOMAIN t : t[i] \in S} = {i \in DOMAIN t : t[i] \in T}
  OBVIOUS
<1> QED
  BY <1>1 DEF LastOf

-----------------------------------------------------------------------------
(* The chain of turns: a recursive function over previous_response_id,     *)
(* which is well defined because a request names one that was there.       *)
IsTurns(f, p) ==
  f = [q \in Requests |-> IF p[q] = None THEN <<q>> ELSE Append(f[p[q]], q)]

LEMMA TurnsAgree ==
  ASSUME NEW p \in [Requests -> Requests \cup {None}],
         NEW f \in [Requests -> Seq(Requests)], IsTurns(f, p),
         NEW g, IsTurns(g, p), NEW r \in Requests
  PROVE  g[r] = f[r]
<1> DEFINE T == {n \in Nat : \E q \in Requests : Len(f[q]) = n /\ f[q] # g[q]}
<1> SUFFICES ASSUME f[r] # g[r] PROVE FALSE
  OBVIOUS
<1>1. T \subseteq Nat /\ T # {}
  <2>1. Len(f[r]) \in Nat
    OBVIOUS
  <2>2. Len(f[r]) \in T
    BY <2>1
  <2> QED
    BY <2>2
<1>2. PICK n \in T : \A m \in T : n <= m
  <2> HIDE DEF T
  <2> QED
    BY <1>1, LeastNat
<1>3. PICK q \in Requests : Len(f[q]) = n /\ f[q] # g[q]
  OBVIOUS
<1>4. f[q] = IF p[q] = None THEN <<q>> ELSE Append(f[p[q]], q)
  BY DEF IsTurns
<1>5. g[q] = IF p[q] = None THEN <<q>> ELSE Append(g[p[q]], q)
  BY DEF IsTurns
<1>6. p[q] \in Requests /\ f[p[q]] # g[p[q]]
  BY <1>3, <1>4, <1>5
<1>7. f[p[q]] \in Seq(Requests) /\ f[q] = Append(f[p[q]], q)
  BY <1>4, <1>6, StoreAssumption
<1>8. Len(f[p[q]]) \in Nat /\ Len(f[q]) = Len(f[p[q]]) + 1
  BY <1>7
<1>9. Len(f[p[q]]) \in T
  BY <1>6, <1>8
<1> HIDE DEF T
<1>10. n <= Len(f[p[q]])
  BY <1>2, <1>9
<1> QED
  BY <1>3, <1>8, <1>10

LEMMA TurnsIs ==
  ASSUME prev \in [Requests -> Requests \cup {None}],
         NEW f \in [Requests -> Seq(Requests)], IsTurns(f, prev), NEW r \in Requests
  PROVE  Turns(r) = f[r]
<1> DEFINE g == CHOOSE h : IsTurns(h, prev)
<1>1. IsTurns(g, prev)
  OBVIOUS
<1>2. Turns(r) = g[r]
  BY DEF Turns, IsTurns
<1> HIDE DEF g
<1> QED
  BY <1>1, <1>2, TurnsAgree

-----------------------------------------------------------------------------
(* Short sequences, item by item.                                          *)
LEMMA Added ==
  ASSUME NEW a \in Seq(Item), NEW y \in Item, NEW c \in Seq(Item),
         Len(c) = Len(a) + 1, c[Len(c)] = y, \A i \in 1 .. Len(a) : c[i] = a[i]
  PROVE  a \o <<y>> = c /\ Append(a, y) = c
<1> DEFINE n == Len(a)
<1>1. PICK b : b = Append(a, y)
  OBVIOUS
<1>0. n \in Nat
  OBVIOUS
<1>2. b \in Seq(Item) /\ Len(b) = n + 1 /\ b[n + 1] = y /\ \A i \in 1 .. n : b[i] = a[i]
  BY <1>1, AppendProperties
<1>3. \A i \in 1 .. n + 1 : b[i] = c[i]
  <2> SUFFICES ASSUME NEW i \in 1 .. n + 1 PROVE b[i] = c[i]
    OBVIOUS
  <2>1. i \in 1 .. n \/ i = n + 1
    OBVIOUS
  <2> QED
    BY <2>1, <1>2
<1>4. b = c
  BY <1>2, <1>3
<1> QED
  BY <1>1, <1>4, AppendIsConcat

LEMMA TwoItems ==
  ASSUME NEW x \in Item, NEW y \in Item
  PROVE  <<x>> \o <<y>> = <<x, y>> /\ Append(<<x>>, y) = <<x, y>>
<1>1. PICK a : a = <<x>>
  OBVIOUS
<1>2. a \in Seq(Item) /\ Len(a) = 1 /\ a[1] = x
  BY <1>1
<1>3. PICK c : c = <<x, y>>
  OBVIOUS
<1>4. c \in Seq(Item) /\ Len(c) = 2 /\ c[1] = x /\ c[2] = y
  BY <1>3
<1>5. a \o <<y>> = c /\ Append(a, y) = c
  <2>1. Len(c) = Len(a) + 1 /\ c[Len(c)] = y /\ \A i \in 1 .. Len(a) : c[i] = a[i]
    BY <1>2, <1>4
  <2> QED
    BY <2>1, <1>2, <1>4, Added
<1> QED
  BY <1>1, <1>3, <1>5, Zenon

LEMMA ThreeItems ==
  ASSUME NEW x \in Item, NEW y \in Item, NEW z \in Item
  PROVE  <<x, y>> \o <<z>> = <<x, y, z>>  /\ Append(<<x, y>>, z) = <<x, y, z>>
<1>1. PICK a : a = <<x, y>>
  OBVIOUS
<1>2. a \in Seq(Item) /\ Len(a) = 2 /\ a[1] = x /\ a[2] = y
  BY <1>1
<1>3. PICK c : c = <<x, y, z>>
  OBVIOUS
<1>4. c \in Seq(Item) /\ Len(c) = 3 /\ c[1] = x /\ c[2] = y /\ c[3] = z
  BY <1>3
<1>5. a \o <<z>> = c /\ Append(a, z) = c
  <2>1. Len(c) = Len(a) + 1 /\ c[Len(c)] = z /\ \A i \in 1 .. Len(a) : c[i] = a[i]
    BY <1>2, <1>4
  <2> QED
    BY <2>1, <1>2, <1>4, Added
<1> QED
  BY <1>1, <1>3, <1>5, Zenon

-----------------------------------------------------------------------------
(* The input of a request and what the filters leave of it.                *)

LEMMA WithRolesTwo ==
  ASSUME NEW x \in Item, NEW y \in Item, NEW roles
  PROVE  WithRoles(<<x, y>>, roles) =
           IF y.role \in roles THEN Append(WithRoles(<<x>>, roles), y) ELSE WithRoles(<<x>>, roles)
<1>1. PICK s : s = <<x>>
  OBVIOUS
<1>2. s \in Seq(Item) /\ <<x, y>> = Append(s, y)
  BY <1>1, TwoItems
<1>3. WithRoles(Append(s, y), roles) =
        IF y.role \in roles THEN Append(WithRoles(s, roles), y) ELSE WithRoles(s, roles)
  BY <1>2, WithRolesAppend
<1> QED
  BY <1>1, <1>2, <1>3, Zenon

LEMMA WithRolesThree ==
  ASSUME NEW x \in Item, NEW y \in Item, NEW z \in Item, NEW roles
  PROVE  WithRoles(<<x, y, z>>, roles) =
           IF z.role \in roles THEN Append(WithRoles(<<x, y>>, roles), z)
           ELSE WithRoles(<<x, y>>, roles)
<1>1. PICK s : s = <<x, y>>
  OBVIOUS
<1>2. s \in Seq(Item) /\ <<x, y, z>> = Append(s, z)
  BY <1>1, ThreeItems
<1>3. WithRoles(Append(s, z), roles) =
        IF z.role \in roles THEN Append(WithRoles(s, roles), z) ELSE WithRoles(s, roles)
  BY <1>2, WithRolesAppend
<1> QED
  BY <1>1, <1>2, <1>3, Zenon

LEMMA InputIs ==
  ASSUME NEW r \in Requests, body[r] \in Body
  PROVE  LET s == Message("system", r)
             d == Message("developer", r)
             u == Message("user", r)
         IN Input(r) = IF body[r].system
                       THEN IF body[r].developer THEN <<s, d, u>> ELSE <<s, u>>
                       ELSE IF body[r].developer THEN <<d, u>> ELSE <<u>>
<1> DEFINE s == Message("system", r)
           d == Message("developer", r)
           u == Message("user", r)
<1>1. body[r].system \in BOOLEAN /\ body[r].developer \in BOOLEAN
  BY DEF Body
<1>2. Input(r) = (IF body[r].system THEN <<s>> ELSE <<>>)
                   \o (IF body[r].developer THEN <<d>> ELSE <<>>) \o <<u>>
  BY DEF Input
<1>0. s \in Item /\ d \in Item /\ u \in Item
  BY MessageTyped DEF Roles
<1> HIDE DEF s, d, u
<1>3. CASE body[r].system /\ body[r].developer
  <2>1. Input(r) = <<s>> \o <<d>> \o <<u>>
    BY <1>2, <1>3
  <2>2. <<s>> \o <<d>> = <<s, d>> /\ <<s, d>> \o <<u>> = <<s, d, u>>
    BY <1>0, TwoItems, ThreeItems
  <2>3. Input(r) = <<s, d, u>>
    BY <2>1, <2>2
  <2> QED
    BY <2>3, <1>3 DEF s, d, u
<1>4. CASE body[r].system /\ ~ body[r].developer
  <2>1. Input(r) = <<s>> \o <<>> \o <<u>>
    BY <1>2, <1>4
  <2>2. <<s>> \in Seq(Item)
    BY <1>0
  <2>3. Input(r) = <<s, u>>
    BY <2>1, <2>2, <1>0, TwoItems
  <2> QED
    BY <2>3, <1>4 DEF s, d, u
<1>5. CASE ~ body[r].system /\ body[r].developer
  <2>1. Input(r) = <<>> \o <<d>> \o <<u>>
    BY <1>2, <1>5
  <2>2. <<>> \o <<d>> = <<d>>
    BY <1>0
  <2>3. Input(r) = <<d, u>>
    BY <2>1, <2>2, <1>0, TwoItems
  <2> QED
    BY <2>3, <1>5 DEF s, d, u
<1>6. CASE ~ body[r].system /\ ~ body[r].developer
  <2>1. Input(r) = <<>> \o <<>> \o <<u>>
    BY <1>2, <1>6
  <2> QED
    BY <2>1, <1>6 DEF s, d, u
<1> QED
  BY <1>1, <1>3, <1>4, <1>5, <1>6

(* All messages are the request's own; the user's comes last.              *)
LEMMA InputFiltered ==
  ASSUME NEW r \in Requests, body[r] \in Body, NEW roles,
         "user" \in roles, "system" \notin roles
  PROVE  WithRoles(Input(r), roles) =
           IF body[r].developer /\ "developer" \in roles
           THEN <<Message("developer", r), Message("user", r)>>
           ELSE <<Message("user", r)>>
<1> DEFINE s == Message("system", r)
           d == Message("developer", r)
           u == Message("user", r)
<1>1. /\ s \in Item /\ d \in Item /\ u \in Item
      /\ s.role = "system" /\ d.role = "developer" /\ u.role = "user"
  BY MessageTyped DEF Roles
<1>2. Input(r) = IF body[r].system
                 THEN IF body[r].developer THEN <<s, d, u>> ELSE <<s, u>>
                 ELSE IF body[r].developer THEN <<d, u>> ELSE <<u>>
  BY InputIs
<1>3. body[r].system \in BOOLEAN /\ body[r].developer \in BOOLEAN
  BY DEF Body
<1> HIDE DEF s, d, u
<1>4. /\ WithRoles(<<s>>, roles) = <<>>
      /\ WithRoles(<<d>>, roles) = IF "developer" \in roles THEN <<d>> ELSE <<>>
      /\ WithRoles(<<u>>, roles) = <<u>>
  BY <1>1, WithRolesOne
<1>5. Append(<<>>, u) = <<u>> /\ Append(<<>>, d) = <<d>>
  OBVIOUS
<1>9. Append(<<d>>, u) = <<d, u>>
  BY <1>1, TwoItems
<1>6. /\ WithRoles(<<s, u>>, roles) = <<u>>
      /\ WithRoles(<<d, u>>, roles) = IF "developer" \in roles THEN <<d, u>> ELSE <<u>>
      /\ WithRoles(<<s, d>>, roles) = IF "developer" \in roles THEN <<d>> ELSE <<>>
  <2>1. WithRoles(<<s, u>>, roles) = Append(WithRoles(<<s>>, roles), u)
    BY <1>1, WithRolesTwo
  <2>2. WithRoles(<<d, u>>, roles) = Append(WithRoles(<<d>>, roles), u)
    BY <1>1, WithRolesTwo
  <2>3. WithRoles(<<s, d>>, roles) =
          IF "developer" \in roles THEN Append(WithRoles(<<s>>, roles), d) ELSE WithRoles(<<s>>, roles)
    BY <1>1, WithRolesTwo
  <2> QED
    BY <2>1, <2>2, <2>3, <1>4, <1>5, <1>9
<1>7. WithRoles(<<s, d, u>>, roles) = IF "developer" \in roles THEN <<d, u>> ELSE <<u>>
  <2>1. WithRoles(<<s, d, u>>, roles) = Append(WithRoles(<<s, d>>, roles), u)
    BY <1>1, WithRolesThree
  <2>2. CASE "developer" \in roles
    BY <2>1, <2>2, <1>6, <1>9
  <2>3. CASE "developer" \notin roles
    BY <2>1, <2>3, <1>5, <1>6
  <2> QED
    BY <2>2, <2>3
<1>8. WithRoles(Input(r), roles) = IF body[r].developer /\ "developer" \in roles
                                   THEN <<d, u>> ELSE <<u>>
  BY <1>2, <1>3, <1>4, <1>6, <1>7
<1> QED
  BY <1>8 DEF s, d, u

LEMMA InputItems ==
  ASSUME NEW r \in Requests, body[r] \in Body
  PROVE  /\ Input(r) \in Seq(Item)
         /\ \A i \in DOMAIN Input(r) :
              /\ Input(r)[i].by = r
              /\ Input(r)[i].role = "system" => body[r].system
         /\ body[r].system => \E i \in DOMAIN Input(r) : Input(r)[i].role = "system"
         /\ body[r].developer => \E i \in DOMAIN Input(r) : Input(r)[i] = Message("developer", r)
<1> DEFINE s == Message("system", r)
           d == Message("developer", r)
           u == Message("user", r)
<1>1. /\ s \in Item /\ d \in Item /\ u \in Item /\ s.by = r /\ d.by = r /\ u.by = r
      /\ s.role = "system" /\ d.role = "developer" /\ u.role = "user"
  BY MessageTyped DEF Roles
<1>2. body[r].system \in BOOLEAN /\ body[r].developer \in BOOLEAN
  BY DEF Body
<1>3. PICK e : e = Input(r)
  OBVIOUS
<1> HIDE DEF s, d, u
<1>4. e = IF body[r].system
          THEN IF body[r].developer THEN <<s, d, u>> ELSE <<s, u>>
          ELSE IF body[r].developer THEN <<d, u>> ELSE <<u>>
  BY <1>3, InputIs DEF s, d, u
<1> DEFINE Fine == /\ e \in Seq(Item)
                   /\ \A i \in DOMAIN e : e[i].by = r /\ (e[i].role = "system" => body[r].system)
                   /\ body[r].system => \E i \in DOMAIN e : e[i].role = "system"
                   /\ body[r].developer => \E i \in DOMAIN e : e[i] = d
<1>5. CASE body[r].system /\ body[r].developer
  <2>1. e = <<s, d, u>>
    BY <1>4, <1>5
  <2>2. e \in Seq(Item) /\ DOMAIN e = 1 .. 3 /\ e[1] = s /\ e[2] = d /\ e[3] = u
    BY <2>1, <1>1
  <2>3. Fine
    BY <2>2, <1>1, <1>5
  <2> QED
    BY <2>3, <1>3 DEF d
<1>6. CASE body[r].system /\ ~ body[r].developer
  <2>1. e = <<s, u>>
    BY <1>4, <1>6
  <2>2. e \in Seq(Item) /\ DOMAIN e = 1 .. 2 /\ e[1] = s /\ e[2] = u
    BY <2>1, <1>1
  <2>3. Fine
    BY <2>2, <1>1, <1>6
  <2> QED
    BY <2>3, <1>3 DEF d
<1>7. CASE ~ body[r].system /\ body[r].developer
  <2>1. e = <<d, u>>
    BY <1>4, <1>7
  <2>2. e \in Seq(Item) /\ DOMAIN e = 1 .. 2 /\ e[1] = d /\ e[2] = u
    BY <2>1, <1>1
  <2>3. Fine
    BY <2>2, <1>1, <1>7
  <2> QED
    BY <2>3, <1>3 DEF d
<1>8. CASE ~ body[r].system /\ ~ body[r].developer
  <2>1. e = <<u>>
    BY <1>4, <1>8
  <2>2. e \in Seq(Item) /\ DOMAIN e = 1 .. 1 /\ e[1] = u
    BY <2>1, <1>1
  <2>3. Fine
    BY <2>2, <1>1, <1>8
  <2> QED
    BY <2>3, <1>3 DEF d
<1> QED
  BY <1>2, <1>5, <1>6, <1>7, <1>8

LEMMA SystemInIs ==
  ASSUME NEW s, NEW q, \A i \in DOMAIN s : s[i].role = "system" => s[i].by = q
  PROVE  SystemIn(s) = IF \E i \in DOMAIN s : s[i].role = "system" THEN q ELSE None
BY DEF SystemIn

LEMMA InputSystem ==
  ASSUME NEW r \in Requests, body[r] \in Body
  PROVE  SystemIn(Input(r)) = IF body[r].system THEN r ELSE None
<1>1. PICK e : e = Input(r)
  OBVIOUS
<1>2. \A i \in DOMAIN e : e[i].role = "system" => e[i].by = r
  BY <1>1, InputItems
<1>3. SystemIn(e) = IF \E i \in DOMAIN e : e[i].role = "system" THEN r ELSE None
  BY <1>2, SystemInIs
<1>4. (\E i \in DOMAIN e : e[i].role = "system") <=> body[r].system
  <2>1. body[r].system \in BOOLEAN
    BY DEF Body
  <2> QED
    BY <2>1, <1>1, InputItems
<1> QED
  BY <1>1, <1>3, <1>4

(* A request's new messages after what was said before.                    *)
LEMMA NewIs ==
  ASSUME NEW r \in Requests, body[r] \in Body
  PROVE  WithRoles(Input(r), NotSystem) =
           IF body[r].developer THEN <<Message("developer", r), Message("user", r)>>
           ELSE <<Message("user", r)>>
<1>1. "user" \in NotSystem /\ "developer" \in NotSystem /\ "system" \notin NotSystem
  BY DEF NotSystem, Roles
<1> QED
  BY <1>1, InputFiltered

LEMMA FollowingOne ==
  ASSUME NEW r \in Requests, NEW past \in Seq(Item), NEW roles, "user" \in roles,
         "developer" \notin roles
  PROVE  /\ WithRoles(past \o <<Message("user", r)>>, roles) =
              Append(WithRoles(past, roles), Message("user", r))
         /\ WithRoles(past \o <<Message("developer", r), Message("user", r)>>, roles) =
              Append(WithRoles(past, roles), Message("user", r))
<1> DEFINE d == Message("developer", r)
           u == Message("user", r)
<1>1. d \in Item /\ u \in Item /\ d.role = "developer" /\ u.role = "user"
  BY MessageTyped DEF Roles
<1> HIDE DEF d, u
<1>2. past \o <<u>> = Append(past, u) /\ past \o <<d, u>> = Append(Append(past, d), u)
  BY <1>1
<1>3. WithRoles(Append(past, u), roles) = Append(WithRoles(past, roles), u)
  BY <1>1, WithRolesAppend
<1>4. WithRoles(Append(past, d), roles) = WithRoles(past, roles)
  BY <1>1, WithRolesAppend
<1>5. PICK a : a = Append(past, d)
  OBVIOUS
<1>8. a \in Seq(Item)
  BY <1>1, <1>5
<1>6. WithRoles(Append(a, u), roles) = Append(WithRoles(a, roles), u)
  BY <1>1, <1>8, WithRolesAppend
<1>7. /\ WithRoles(past \o <<u>>, roles) = Append(WithRoles(past, roles), u)
      /\ WithRoles(past \o <<d, u>>, roles) = Append(WithRoles(past, roles), u)
  BY <1>2, <1>3, <1>4, <1>5, <1>6
<1> QED
  BY <1>7 DEF d, u

Follows(r, past, input) ==
  /\ WithRoles(input, Replayable) = Append(WithRoles(past, Replayable), Message("user", r))
  /\ WithRoles(input, {"user"}) = Append(WithRoles(past, {"user"}), Message("user", r))
  /\ \A i \in DOMAIN input : input[i].role # "system"
                             /\ (input[i].role = "developer" => input[i].by = r)
  /\ body[r].developer => \E i \in DOMAIN input : input[i] = Message("developer", r)

LEMMA Following ==
  ASSUME NEW r \in Requests, body[r] \in Body, NEW past \in Seq(Item), NEW input,
         input = past \o WithRoles(Input(r), NotSystem),
         \A i \in DOMAIN past : past[i].role \in {"user", "output"}
  PROVE  Follows(r, past, input)
<1> DEFINE d == Message("developer", r)
           u == Message("user", r)
<1>1. /\ d \in Item /\ u \in Item /\ d.role = "developer" /\ u.role = "user"
      /\ d.by = r /\ u.by = r
  BY MessageTyped DEF Roles
<1>2. "user" \in Replayable /\ "developer" \notin Replayable
  BY DEF Replayable, Roles
<1>3. input = past \o (IF body[r].developer THEN <<d, u>> ELSE <<u>>)
  BY NewIs
<1>4. \A roles : "user" \in roles /\ "developer" \notin roles =>
        WithRoles(input, roles) = Append(WithRoles(past, roles), u)
  <2> SUFFICES ASSUME NEW roles, "user" \in roles, "developer" \notin roles
               PROVE  WithRoles(input, roles) = Append(WithRoles(past, roles), u)
    OBVIOUS
  <2>1. CASE body[r].developer
    <3>1. input = past \o <<d, u>>
      BY <2>1, <1>3
    <3> QED
      BY <3>1, FollowingOne
  <2>2. CASE ~ body[r].developer
    <3>1. input = past \o <<u>>
      BY <2>2, <1>3
    <3> QED
      BY <3>1, FollowingOne
  <2> QED
    BY <2>1, <2>2
<1> HIDE DEF d, u
<1> DEFINE n == Len(past)
<1>5. n \in Nat /\ DOMAIN past = 1 .. n
  OBVIOUS
<1>6. /\ \A i \in DOMAIN input : input[i].role # "system"
                                 /\ (input[i].role = "developer" => input[i].by = r)
      /\ body[r].developer => \E i \in DOMAIN input : input[i] = d
  <2>1. CASE body[r].developer
    <3>1. input = past \o <<d, u>>
      BY <2>1, <1>3
    <3>2. /\ DOMAIN input = 1 .. n + 2 /\ input[n + 1] = d /\ input[n + 2] = u
          /\ \A i \in 1 .. n : input[i] = past[i]
      BY <3>1, <1>1, <1>5
    <3>3. \A i \in 1 .. n + 2 : i \in 1 .. n \/ i = n + 1 \/ i = n + 2
      BY <1>5
    <3>4. n + 1 \in 1 .. n + 2
      BY <1>5
    <3> HIDE DEF n
    <3> QED
      BY <3>2, <3>3, <3>4, <1>1, <1>5
  <2>2. CASE ~ body[r].developer
    <3>1. input = past \o <<u>>
      BY <2>2, <1>3
    <3>2. /\ DOMAIN input = 1 .. n + 1 /\ input[n + 1] = u
          /\ \A i \in 1 .. n : input[i] = past[i]
      BY <3>1, <1>1, <1>5
    <3>3. \A i \in 1 .. n + 1 : i \in 1 .. n \/ i = n + 1
      BY <1>5
    <3> HIDE DEF n
    <3> QED
      BY <3>2, <3>3, <1>1, <1>5, <2>2
  <2> QED
    BY <2>1, <2>2
<1>7. "user" \in {"user"} /\ "developer" \notin {"user"}
  OBVIOUS
<1> QED
  BY <1>2, <1>4, <1>6, <1>7 DEF d, u, Follows

-----------------------------------------------------------------------------
(* What one request is given, from what the request before it was given.   *)

ToolsIn(b) == {q \in Requests : b[q].tools # "omitted"}
ChoiceIn(b) == {q \in Requests : b[q].choice # "omitted"}
SystemsIn(b) == {q \in Requests : b[q].system}

ToolsOf(r, t, b) ==
  LET q == LastOf(t, ToolsIn(b))
  IN IF q = None THEN None ELSE IF q = r THEN b[r].tools ELSE Sanitized(b[q].tools)

ChoiceOf(t, b) ==
  LET q == LastOf(t, ChoiceIn(b)) IN IF q = None THEN "auto" ELSE b[q].choice

(* Continues, of any hydrated request, turns and bodies; and what the      *)
(* users said in it.                                                       *)
ContinuesAs(r, h, t, b) ==
  /\ WithRoles(h.input, Replayable) = Said(t)
  /\ \A i \in DOMAIN h.input :
       h.input[i].role \in {"system", "developer"} => h.input[i].by = r
  /\ b[r].developer => \E i \in DOMAIN h.input : h.input[i] = Message("developer", r)
  /\ h.tools = ToolsOf(r, t, b)
  /\ h.choice = ChoiceOf(t, b)
  /\ Else(h.system, SystemIn(h.input)) = LastOf(t, SystemsIn(b))
  /\ WithRoles(h.input, {"user"}) = WithRoles(Said(t), {"user"})

LEMMA ContinuesIs ==
  ASSUME NEW r \in Requests, ContinuesAs(r, hydrated[r], Turns(r), body)
  PROVE  Continues(r)
BY DEF ContinuesAs, Continues, ToolsOf, ChoiceOf, ToolsIn, ChoiceIn, SystemsIn,
       GaveTools, GaveChoice, GaveSystem

(* Bodies matter for the turns of the chain only.                          *)
LEMMA BodiesOfTurns ==
  ASSUME NEW r \in Requests, NEW h, NEW t \in Seq(Requests), NEW b, NEW c,
         \A i \in 1 .. Len(t) : b[t[i]] = c[t[i]], b[r] = c[r],
         ContinuesAs(r, h, t, b)
  PROVE  ContinuesAs(r, h, t, c)
<1>1. \A i \in 1 .. Len(t) : t[i] \in Requests
  OBVIOUS
<1>2. /\ LastOf(t, ToolsIn(b)) = LastOf(t, ToolsIn(c))
      /\ LastOf(t, ChoiceIn(b)) = LastOf(t, ChoiceIn(c))
      /\ LastOf(t, SystemsIn(b)) = LastOf(t, SystemsIn(c))
  <2>1. \A i \in 1 .. Len(t) : /\ t[i] \in ToolsIn(b) <=> t[i] \in ToolsIn(c)
                               /\ t[i] \in ChoiceIn(b) <=> t[i] \in ChoiceIn(c)
                               /\ t[i] \in SystemsIn(b) <=> t[i] \in SystemsIn(c)
    BY <1>1 DEF ToolsIn, ChoiceIn, SystemsIn
  <2> QED
    BY <2>1, LastAgree
<1>3. \A S : LastOf(t, S) = None \/ b[LastOf(t, S)] = c[LastOf(t, S)]
  BY LastMember
<1>4. ToolsOf(r, t, b) = ToolsOf(r, t, c)
  BY <1>2, <1>3 DEF ToolsOf
<1>5. ChoiceOf(t, b) = ChoiceOf(t, c)
  BY <1>2, <1>3 DEF ChoiceOf
<1> QED
  BY <1>2, <1>4, <1>5 DEF ContinuesAs

LEMMA RootContinues ==
  ASSUME NEW r \in Requests, body[r] \in Body
  PROVE  ContinuesAs(r, Root(r), <<r>>, body)
<1> DEFINE t == <<r>>
           h == Root(r)
<1>1. /\ h.input = Input(r) /\ h.tools = OwnTools(r) /\ h.choice = OwnChoice(r)
      /\ h.system = None
  BY DEF Root
<1>2. \A S : LastOf(t, S) = IF r \in S THEN r ELSE None
  BY LastOne
<1>3. r # None
  BY StoreAssumption
<1>4. Said(t) = <<Message("user", r)>>
  BY SaidOne
<1> HIDE DEF t, h
<1>5. /\ WithRoles(h.input, Replayable) = Said(t)
      /\ WithRoles(h.input, {"user"}) = WithRoles(Said(t), {"user"})
  <2>1. /\ "user" \in Replayable /\ "system" \notin Replayable /\ "developer" \notin Replayable
        /\ "user" \in {"user"} /\ "system" \notin {"user"} /\ "developer" \notin {"user"}
    BY DEF Replayable, Roles
  <2>2. /\ WithRoles(Input(r), Replayable) = <<Message("user", r)>>
        /\ WithRoles(Input(r), {"user"}) = <<Message("user", r)>>
    BY <2>1, InputFiltered
  <2>3. WithRoles(<<Message("user", r)>>, {"user"}) = <<Message("user", r)>>
    BY MessageTyped, WithRolesOne DEF Roles
  <2> QED
    BY <1>1, <1>4, <2>2, <2>3
<1>6. /\ \A i \in DOMAIN h.input :
           h.input[i].role \in {"system", "developer"} => h.input[i].by = r
      /\ body[r].developer => \E i \in DOMAIN h.input : h.input[i] = Message("developer", r)
  BY <1>1, InputItems
<1>7. h.tools = ToolsOf(r, t, body)
  <2>1. LastOf(t, ToolsIn(body)) = IF body[r].tools # "omitted" THEN r ELSE None
    BY <1>2 DEF ToolsIn
  <2> QED
    BY <1>1, <1>3, <2>1 DEF ToolsOf, OwnTools
<1>8. h.choice = ChoiceOf(t, body)
  <2>1. LastOf(t, ChoiceIn(body)) = IF body[r].choice # "omitted" THEN r ELSE None
    BY <1>2 DEF ChoiceIn
  <2> QED
    BY <1>1, <1>3, <2>1 DEF ChoiceOf, OwnChoice
<1>9. Else(h.system, SystemIn(h.input)) = LastOf(t, SystemsIn(body))
  <2>1. LastOf(t, SystemsIn(body)) = IF body[r].system THEN r ELSE None
    BY <1>2 DEF SystemsIn
  <2> QED
    BY <1>1, <2>1, InputSystem DEF Else
<1>10. ContinuesAs(r, h, t, body)
  BY <1>5, <1>6, <1>7, <1>8, <1>9 DEF ContinuesAs
<1> QED
  BY <1>10 DEF h, t

LEMMA NothingOfSystem ==
  ASSUME NEW s, \A i \in DOMAIN s : s[i].role # "system"
  PROVE  SystemIn(s) = None
BY DEF SystemIn

(* What a stored response passes on: what was said, its output and the     *)
(* fields most recently given.                                             *)
Passes(stored, p, t, b) ==
  /\ stored.input = Said(t)
  /\ stored.output = <<Message("output", p)>>
  /\ stored.tools = Sanitized(ToolsOf(p, t, b))
  /\ stored.choice = ChoiceOf(t, b)
  /\ stored.system = LastOf(t, SystemsIn(b))

LEMMA PayloadPasses ==
  ASSUME NEW p \in Requests, NEW t, ContinuesAs(p, hydrated[p], t, body)
  PROVE  Passes(Payload(p), p, t, body)
BY DEF Passes, Payload, ContinuesAs

LEMMA ContinuedContinues ==
  ASSUME NEW r \in Requests, body \in [Requests -> Body],
         NEW p \in Requests, NEW t \in Seq(Requests), t # <<>>, t[Len(t)] = p,
         NEW stored, Passes(stored, p, t, body)
  PROVE  ContinuesAs(r, Continued(r, stored), Append(t, r), body)
<1> DEFINE u == Append(t, r)
           h == Continued(r, stored)
           past == Append(Said(t), Message("output", p))
           new == WithRoles(Input(r), NotSystem)
<1>0. body[r] \in Body
  OBVIOUS
<1>1. /\ Said(t) \in Seq(Item) /\ WithRoles(Said(t), Replayable) = Said(t)
      /\ \A i \in DOMAIN Said(t) : Said(t)[i].role \in {"user", "output"}
  BY SaidTyped, SaidIsWell DEF SaidWell
<1>2. Message("output", p) \in Item /\ Message("output", p).role = "output"
  BY MessageTyped DEF Roles
<1>3. Said(u) = Append(past, Message("user", r))
  BY SaidAppend
<1>4. /\ h.input = WithRoles(stored.input, Replayable) \o stored.output \o new
      /\ h.tools = IF body[r].tools = "omitted" THEN stored.tools ELSE body[r].tools
      /\ h.choice = IF body[r].choice = "omitted" THEN stored.choice ELSE body[r].choice
      /\ h.system = Else(SystemIn(Input(r)), Else(stored.system, SystemIn(stored.input)))
  BY DEF Continued
<1>5. /\ stored.input = Said(t) /\ stored.output = <<Message("output", p)>>
      /\ stored.tools = Sanitized(ToolsOf(p, t, body))
      /\ stored.choice = ChoiceOf(t, body)
      /\ stored.system = LastOf(t, SystemsIn(body))
  BY DEF Passes
<1>6. \A S : LastOf(u, S) = IF r \in S THEN r ELSE LastOf(t, S)
  BY LastAppend
<1>7. r # None
  BY StoreAssumption
<1>8. /\ past \in Seq(Item) /\ past = Said(t) \o <<Message("output", p)>>
      /\ \A i \in DOMAIN past : past[i].role \in {"user", "output"}
  <2> DEFINE s == Said(t)
             x == Message("output", p)
             v == Append(s, x)
  <2> HIDE DEF s, x
  <2>1. s \in Seq(Item) /\ x \in Item /\ x.role = "output"
        /\ \A i \in DOMAIN s : s[i].role \in {"user", "output"}
    BY <1>1, <1>2 DEF s, x
  <2>2. v \in Seq(Item) /\ v = s \o <<x>> /\ DOMAIN v = 1 .. Len(s) + 1
        /\ v[Len(s) + 1] = x /\ (\A i \in 1 .. Len(s) : v[i] = s[i]) /\ Len(s) \in Nat
        /\ DOMAIN s = 1 .. Len(s)
    BY <2>1, AppendProperties
  <2>3. \A i \in DOMAIN v : i \in 1 .. Len(s) \/ i = Len(s) + 1
    BY <2>2
  <2> HIDE DEF v
  <2>4. \A i \in DOMAIN v : v[i].role \in {"user", "output"}
    BY <2>1, <2>2, <2>3
  <2> QED
    BY <2>2, <2>4 DEF v, s, x
<1>9. h.input = past \o new
  BY <1>1, <1>4, <1>5, <1>8
<1> HIDE DEF past, new, u, h
<1>10. /\ WithRoles(h.input, Replayable) = Append(WithRoles(past, Replayable), Message("user", r))
       /\ WithRoles(h.input, {"user"}) = Append(WithRoles(past, {"user"}), Message("user", r))
       /\ \A i \in DOMAIN h.input : h.input[i].role # "system"
                                   /\ (h.input[i].role = "developer" => h.input[i].by = r)
       /\ body[r].developer => \E i \in DOMAIN h.input : h.input[i] = Message("developer", r)
  <2>1. PICK input : input = h.input
    OBVIOUS
  <2>2. input = past \o WithRoles(Input(r), NotSystem)
    BY <2>1, <1>9 DEF new
  <2>3. Follows(r, past, input)
    BY <1>0, <1>8, <2>2, Following
  <2> QED
    BY <2>1, <2>3 DEF Follows
<1>11. WithRoles(past, Replayable) = past
  <2>1. "output" \in Replayable
    BY DEF Replayable, Roles
  <2> QED
    BY <1>1, <1>2, <2>1, WithRolesAppend DEF past
<1>12. /\ WithRoles(h.input, Replayable) = Said(u)
       /\ WithRoles(h.input, {"user"}) = WithRoles(Said(u), {"user"})
  <2> DEFINE y == Message("user", r)
  <2>1. y \in Item /\ y.role = "user"
    BY MessageTyped DEF Roles
  <2> HIDE DEF y
  <2>4. past \in Seq(Item) /\ y.role \in {"user"}
    BY <2>1, <1>8
  <2>2. WithRoles(Append(past, y), {"user"}) = Append(WithRoles(past, {"user"}), y)
    BY <2>1, <2>4, WithRolesAppend
  <2>3. /\ Said(u) = Append(past, y)
        /\ WithRoles(h.input, Replayable) = Append(WithRoles(past, Replayable), y)
        /\ WithRoles(h.input, {"user"}) = Append(WithRoles(past, {"user"}), y)
    BY <1>3, <1>10 DEF y
  <2> QED
    BY <1>11, <2>2, <2>3
<1>13. h.tools = ToolsOf(r, u, body)
  <2>1. LastOf(u, ToolsIn(body)) =
          IF body[r].tools # "omitted" THEN r ELSE LastOf(t, ToolsIn(body))
    BY <1>6 DEF ToolsIn
  <2>2. CASE body[r].tools # "omitted"
    BY <2>1, <2>2, <1>4, <1>7 DEF ToolsOf
  <2>3. CASE body[r].tools = "omitted"
    <3> DEFINE q == LastOf(t, ToolsIn(body))
    <3>1. q = None \/ (q \in ToolsIn(body) /\ q # r)
      <4>1. q = None \/ q \in ToolsIn(body)
        BY LastMember
      <4> QED
        BY <4>1, <2>3 DEF ToolsIn
    <3> HIDE DEF q
    <3>2. \A x : Sanitized(Sanitized(x)) = Sanitized(x)
      BY DEF Sanitized
    <3>3. Sanitized(None) = None
      BY DEF Sanitized, None
    <3>4. Sanitized(body[p].tools) = Sanitized(body[q].tools) \/ q # p
      OBVIOUS
    <3>5. h.tools = Sanitized(ToolsOf(p, t, body)) /\ LastOf(u, ToolsIn(body)) = q
      BY <2>1, <2>3, <1>4, <1>5 DEF q
    <3>6. ToolsOf(p, t, body) = IF q = None THEN None
                                ELSE IF q = p THEN body[p].tools ELSE Sanitized(body[q].tools)
      BY DEF ToolsOf, q
    <3>7. ToolsOf(r, u, body) = IF q = None THEN None ELSE Sanitized(body[q].tools)
      BY <3>1, <3>5 DEF ToolsOf
    <3> QED
      BY <3>2, <3>3, <3>5, <3>6, <3>7
  <2> QED
    BY <2>2, <2>3
<1>14. h.choice = ChoiceOf(u, body)
  <2>1. LastOf(u, ChoiceIn(body)) =
          IF body[r].choice # "omitted" THEN r ELSE LastOf(t, ChoiceIn(body))
    BY <1>6 DEF ChoiceIn
  <2> QED
    BY <2>1, <1>4, <1>5, <1>7 DEF ChoiceOf
<1>15. Else(h.system, SystemIn(h.input)) = LastOf(u, SystemsIn(body))
  <2>1. LastOf(u, SystemsIn(body)) = IF body[r].system THEN r ELSE LastOf(t, SystemsIn(body))
    BY <1>6 DEF SystemsIn
  <2>2. SystemIn(h.input) = None
    BY <1>10, NothingOfSystem
  <2>3. SystemIn(stored.input) = None
    <3>1. \A i \in DOMAIN stored.input : stored.input[i].role # "system"
      BY <1>1, <1>5
    <3> QED
      BY <3>1, NothingOfSystem
  <2>4. SystemIn(Input(r)) = IF body[r].system THEN r ELSE None
    BY <1>0, InputSystem
  <2> QED
    BY <2>1, <2>2, <2>3, <2>4, <1>4, <1>5, <1>7 DEF Else
<1>16. \A i \in DOMAIN h.input :
         h.input[i].role \in {"system", "developer"} => h.input[i].by = r
  BY <1>10
<1>17. ContinuesAs(r, h, u, body)
  BY <1>10, <1>12, <1>13, <1>14, <1>15, <1>16 DEF ContinuesAs
<1> QED
  BY <1>17 DEF h, u

(* The turns are what the users said, for the refinement.                  *)
LEMMA SpokenIs ==
  ASSUME NEW t \in Seq(Requests), t # <<>>, NEW input,
         WithRoles(input, {"user"}) = WithRoles(Said(t), {"user"})
  PROVE  Spoken(input) = t
<1> DEFINE w == WithRoles(Said(t), {"user"})
<1>1. w \in Seq(Item) /\ Len(w) = Len(t) /\ \A i \in 1 .. Len(t) : w[i].by = t[i]
  BY SaidIsWell DEF SaidWell
<1>2. Spoken(input) = [i \in DOMAIN w |-> w[i].by]
  BY DEF Spoken
<1> HIDE DEF w
<1>3. DOMAIN w = 1 .. Len(t)
  BY <1>1
<1>4. Spoken(input) = [i \in 1 .. Len(t) |-> t[i]]
  BY <1>1, <1>2, <1>3
<1> QED
  BY <1>4


-----------------------------------------------------------------------------
(* The conversations.                                                      *)

FieldsInv ==
  /\ body \in [Requests -> Body]
  /\ prev \in [Requests -> Requests \cup {None}]

(* The chains of turns end with the request itself and contain nobody who  *)
(* has not arrived.                                                        *)
ChainsOf(f) ==
  /\ f \in [Requests -> Seq(Requests)]
  /\ IsTurns(f, prev)
  /\ \A r \in Requests : f[r] # <<>> /\ f[r][Len(f[r])] = r
  /\ \A r \in Requests : pc[r] # "idle" => \A i \in 1 .. Len(f[r]) : pc[f[r][i]] # "idle"

ChainInv == \E f : ChainsOf(f)

Handed == {"running", "commit", "publish"}

HandedInv ==
  \A r \in Requests :
    /\ pc[r] = "idle" => prev[r] = None
    /\ pc[r] \in {"idle"} \cup Lookups => hydrated[r] = NotHydrated
    /\ pc[r] \in Handed => hydrated[r] # NotHydrated

RowInv ==
  \A r \in Requests : rows[r] # NoRow => rows[r] = Payload(r) /\ hydrated[r] # NotHydrated

HeardInv ==
  \A r \in Requests :
    hydrated[r] # NotHydrated => ContinuesAs(r, hydrated[r], Turns(r), body)

TalkInv == FieldsInv /\ ChainInv /\ HandedInv /\ RowInv /\ HeardInv

LEMMA TurnTyped ==
  ASSUME NEW s \in Seq(Requests)
  PROVE  \A i \in 1 .. Len(s) : s[i] \in Requests
OBVIOUS

(* Turns in terms of previous_response_id, now and after a step.           *)
TurnsOver(p, r) == (CHOOSE f : IsTurns(f, p))[r]

LEMMA TurnsNow == \A r : Turns(r) = TurnsOver(prev, r)
BY DEF Turns, TurnsOver, IsTurns

LEMMA TurnsThen == \A r : Turns(r)' = TurnsOver(prev', r)
BY DEF Turns, TurnsOver, IsTurns

LEMMA TurnsOverIs ==
  ASSUME NEW p \in [Requests -> Requests \cup {None}],
         NEW f \in [Requests -> Seq(Requests)], IsTurns(f, p), NEW r \in Requests
  PROVE  TurnsOver(p, r) = f[r]
<1>1. PICK g : g = CHOOSE h : IsTurns(h, p)
  OBVIOUS
<1>2. IsTurns(g, p)
  BY <1>1
<1> QED
  BY <1>1, <1>2, TurnsAgree DEF TurnsOver

LEMMA TalkInit == Init => TalkInv
<1> SUFFICES ASSUME Init PROVE TalkInv
  OBVIOUS
<1>1. FieldsInv
  BY DEF Init, FieldsInv, NoBody, Body, ToolsGiven, ChoiceGiven
<1>2. ChainInv
  <2> DEFINE f == [q \in Requests |-> <<q>>]
  <2>1. f \in [Requests -> Seq(Requests)]
    OBVIOUS
  <2>2. IsTurns(f, prev)
    BY DEF IsTurns, Init
  <2>3. ASSUME NEW r \in Requests
        PROVE  f[r] # <<>> /\ f[r][Len(f[r])] = r
    OBVIOUS
  <2>4. \A r \in Requests : pc[r] = "idle"
    BY DEF Init
  <2> HIDE DEF f
  <2>5. ChainsOf(f)
    BY <2>1, <2>2, <2>3, <2>4 DEF ChainsOf
  <2> QED
    BY <2>5 DEF ChainInv
<1>3. HandedInv /\ RowInv /\ HeardInv
  BY DEF Init, HandedInv, RowInv, HeardInv, Handed
<1> QED
  BY <1>1, <1>2, <1>3 DEF TalkInv

(* A step that lets nobody arrive and hydrates nobody.                     *)
LEMMA TalkMoves ==
  ASSUME TalkInv, NEW r \in Requests, pc[r] # "idle", NEW place, place # "idle",
         place \in Lookups => pc[r] \in Lookups,
         place \in Handed => pc[r] \in Handed,
         DOMAIN pc = Requests, DOMAIN rows = Requests,
         pc' = [pc EXCEPT ![r] = place],
         UNCHANGED <<body, prev, hydrated>>,
         rows' = rows \/ (pc[r] = "commit" /\ rows' = [rows EXCEPT ![r] = Payload(r)])
  PROVE  TalkInv'
<1>1. FieldsInv'
  BY DEF TalkInv, FieldsInv
<1>2. pc'[r] = place /\ \A q \in Requests : q # r => pc'[q] = pc[q]
  OBVIOUS
<1>3. ChainInv'
  <2>1. PICK f : ChainsOf(f)
    BY DEF TalkInv, ChainInv
  <2>2. \A q \in Requests : pc'[q] # "idle" <=> pc[q] # "idle"
    BY <1>2
  <2>3. f \in [Requests -> Seq(Requests)] /\ IsTurns(f, prev')
        /\ \A q \in Requests : f[q] # <<>> /\ f[q][Len(f[q])] = q
    BY <2>1 DEF ChainsOf
  <2>4. ASSUME NEW q \in Requests, pc'[q] # "idle", NEW i \in 1 .. Len(f[q])
        PROVE  pc'[f[q][i]] # "idle"
    <3>1. f[q][i] \in Requests
      <4>1. f[q] \in Seq(Requests)
        BY <2>3
      <4> QED
        BY <4>1, <2>4, TurnTyped
    <3>2. pc[f[q][i]] # "idle"
      BY <2>1, <2>2, <2>4 DEF ChainsOf
    <3> QED
      BY <3>1, <3>2, <2>2
  <2>5. ChainsOf(f)'
    BY <2>3, <2>4 DEF ChainsOf, IsTurns
  <2> QED
    BY <2>5 DEF ChainInv
<1>4. HandedInv'
  BY <1>2 DEF TalkInv, HandedInv, Handed, Lookups
<1>5. RowInv'
  <2>1. \A q : Payload(q)' = Payload(q)
    BY DEF Payload
  <2>2. pc[r] = "commit" => hydrated[r] # NotHydrated
    BY DEF TalkInv, HandedInv, Handed
  <2>3. \A q \in Requests : rows'[q] = rows[q] \/ (pc[r] = "commit" /\ q = r /\ rows'[q] = Payload(q))
    OBVIOUS
  <2> QED
    BY <2>1, <2>2, <2>3 DEF TalkInv, RowInv
<1>6. HeardInv'
  <2>1. \A q : Turns(q)' = Turns(q)
    BY TurnsNow, TurnsThen
  <2> SUFFICES ASSUME NEW q \in Requests, hydrated[q] # NotHydrated
               PROVE  ContinuesAs(q, hydrated[q], Turns(q)', body')
    BY DEF HeardInv, ContinuesAs, ToolsOf, ChoiceOf, ToolsIn, ChoiceIn, SystemsIn
  <2>2. ContinuesAs(q, hydrated[q], Turns(q), body)
    BY DEF TalkInv, HeardInv
  <2> QED
    BY <2>1, <2>2
<1> QED
  BY <1>1, <1>3, <1>4, <1>5, <1>6 DEF TalkInv

(* A request arrives: nobody names it yet, so no chain but its own changes. *)
LEMMA TalkArrives ==
  ASSUME TalkInv, StoreInv, NEW r \in Requests, NEW b \in Bodies,
         NEW p \in Requests \cup {None}, Arrive(r, b, p)
  PROVE  TalkInv'
<1>1. /\ pc[r] = "idle"
      /\ p # None => pc[p] # "idle"
      /\ body' = [body EXCEPT ![r] = b] /\ prev' = [prev EXCEPT ![r] = p]
      /\ UNCHANGED <<rows, hydrated>>
  BY DEF Arrive, Step
<1>2. PICK place \in {"hydrate", "lookup", "query"} : pc' = [pc EXCEPT ![r] = place]
  BY DEF Arrive, Step
<1>3. DOMAIN pc = Requests
  BY DEF StoreInv, Domains
<1>4. pc'[r] # "idle" /\ pc'[r] \in Lookups /\ \A q \in Requests : q # r => pc'[q] = pc[q]
  BY <1>2, <1>3 DEF Lookups
<1>5. body \in [Requests -> Body] /\ prev \in [Requests -> Requests \cup {None}]
  BY DEF TalkInv, FieldsInv
<1>6. b \in Body
  BY StoreAssumption
<1>7. FieldsInv'
  BY <1>1, <1>5, <1>6 DEF FieldsInv
<1>8. PICK f : ChainsOf(f)
  BY DEF TalkInv, ChainInv
<1> DEFINE own == IF p = None THEN <<r>> ELSE Append(f[p], r)
           g == [f EXCEPT ![r] = own]
<1>9. /\ f \in [Requests -> Seq(Requests)] /\ IsTurns(f, prev)
      /\ \A q \in Requests : f[q] # <<>> /\ f[q][Len(f[q])] = q
      /\ \A q \in Requests : pc[q] # "idle" => \A i \in 1 .. Len(f[q]) : pc[f[q][i]] # "idle"
  BY <1>8 DEF ChainsOf
<1>10. \A q \in Requests : f[q] = IF prev[q] = None THEN <<q>> ELSE Append(f[prev[q]], q)
  BY <1>9 DEF IsTurns
<1>11. own \in Seq(Requests) /\ own # <<>> /\ own[Len(own)] = r
       /\ \A i \in 1 .. Len(own) : pc'[own[i]] # "idle"
  <2>1. CASE p = None
    <3>1. PICK o : o = own
      OBVIOUS
    <3>2. o = <<r>>
      BY <2>1, <3>1
    <3>3. o \in Seq(Requests) /\ Len(o) = 1 /\ o[1] = r
      BY <3>2
    <3>4. \A i \in 1 .. Len(o) : pc'[o[i]] # "idle"
      BY <3>3, <1>4
    <3> QED
      BY <3>1, <3>3, <3>4
  <2>2. CASE p # None
    <3>1. p \in Requests /\ f[p] \in Seq(Requests) /\ pc[p] # "idle"
      BY <2>2, <1>1, <1>9
    <3>2. \A i \in 1 .. Len(f[p]) : pc[f[p][i]] # "idle" /\ f[p][i] \in Requests
      BY <3>1, <1>9, TurnTyped
    <3>3. \A i \in 1 .. Len(f[p]) : pc'[f[p][i]] # "idle"
      BY <3>2, <1>1, <1>4
    <3>4. PICK s \in Seq(Requests) : s = f[p]
      BY <3>1
    <3>5. PICK o : o = Append(s, r)
      OBVIOUS
    <3>6. o \in Seq(Requests) /\ o # <<>> /\ Len(o) = Len(s) + 1 /\ o[Len(s) + 1] = r
          /\ \A i \in 1 .. Len(s) : o[i] = s[i]
      BY <3>5, AppendProperties
    <3>7. \A i \in 1 .. Len(o) : pc'[o[i]] # "idle"
      <4> SUFFICES ASSUME NEW i \in 1 .. Len(o) PROVE pc'[o[i]] # "idle"
        OBVIOUS
      <4>1. i \in 1 .. Len(s) \/ i = Len(s) + 1
        BY <3>6
      <4> QED
        BY <4>1, <3>3, <3>4, <3>6, <1>4
    <3>8. own = o
      BY <2>2, <3>4, <3>5
    <3> HIDE DEF own
    <3> QED
      BY <3>6, <3>7, <3>8
  <2> QED
    BY <2>1, <2>2
<1> HIDE DEF own
<1>12. g \in [Requests -> Seq(Requests)] /\ g[r] = own /\ \A q \in Requests : q # r => g[q] = f[q]
  BY <1>9, <1>11
<1> HIDE DEF g
<1>13. \A q \in Requests : q # r => prev[q] # r
  <2> SUFFICES ASSUME NEW q \in Requests, q # r, prev[q] = r PROVE FALSE
    OBVIOUS
  <2>1. pc[q] # "idle"
    BY StoreAssumption DEF TalkInv, HandedInv
  <2>2. PICK s \in Seq(Requests) : s = f[r]
    BY <1>9
  <2>3. s # <<>> /\ s[Len(s)] = r
    BY <2>2, <1>9
  <2>4. PICK u : u = f[q]
    OBVIOUS
  <2>5. u = Append(s, q)
    BY <2>2, <2>4, <1>10, StoreAssumption
  <2>6. Len(s) \in 1 .. Len(u) /\ u[Len(s)] = r
    BY <2>3, <2>5
  <2>7. pc[u[Len(s)]] # "idle"
    BY <2>1, <2>4, <2>6, <1>9
  <2> QED
    BY <2>6, <2>7, <1>1
<1>14. IsTurns(g, prev')
  <2>1. \A q \in Requests : g[q] = IF prev'[q] = None THEN <<q>> ELSE Append(g[prev'[q]], q)
    <3> SUFFICES ASSUME NEW q \in Requests
                 PROVE  g[q] = IF prev'[q] = None THEN <<q>> ELSE Append(g[prev'[q]], q)
      OBVIOUS
    <3>1. CASE q = r
      <4>1. prev'[r] = p
        BY <1>1, <1>5
      <4>2. p # None => p # r /\ p \in Requests
        BY <1>1
      <4> QED
        BY <3>1, <4>1, <4>2, <1>12 DEF own
    <3>2. CASE q # r
      <4>1. prev'[q] = prev[q]
        BY <3>2, <1>1, <1>5
      <4>2. prev[q] # None => prev[q] \in Requests /\ prev[q] # r
        BY <3>2, <1>5, <1>13
      <4> QED
        BY <3>2, <4>1, <4>2, <1>10, <1>12
    <3> QED
      BY <3>1, <3>2
  <2>2. g = [q \in Requests |-> g[q]]
    BY <1>12
  <2> QED
    BY <2>1, <2>2 DEF IsTurns
<1>15. ChainInv'
  <2>1. ASSUME NEW q \in Requests
        PROVE  g[q] # <<>> /\ g[q][Len(g[q])] = q
    <3>1. CASE q = r
      BY <3>1, <1>11, <1>12
    <3>2. CASE q # r
      BY <3>2, <1>9, <1>12
    <3> QED
      BY <3>1, <3>2
  <2>2. ASSUME NEW q \in Requests, pc'[q] # "idle", NEW i \in 1 .. Len(g[q])
        PROVE  pc'[g[q][i]] # "idle"
    <3>1. CASE q = r
      BY <2>2, <3>1, <1>11, <1>12
    <3>2. CASE q # r
      <4>1. g[q] = f[q] /\ pc[q] # "idle" /\ f[q][i] \in Requests
        <5>1. g[q] = f[q] /\ f[q] \in Seq(Requests)
          BY <3>2, <1>9, <1>12
        <5>2. f[q][i] \in Requests
          BY <2>2, <5>1, TurnTyped
        <5> QED
          BY <2>2, <3>2, <5>1, <5>2, <1>4
      <4>2. pc[f[q][i]] # "idle"
        BY <4>1, <2>2, <1>9
      <4> QED
        BY <4>1, <4>2, <1>1, <1>4
    <3> QED
      BY <3>1, <3>2
  <2>3. ChainsOf(g)'
    BY <2>1, <2>2, <1>12, <1>14 DEF ChainsOf, IsTurns
  <2> QED
    BY <2>3 DEF ChainInv
<1>16. HandedInv'
  <2>1. ASSUME NEW q \in Requests
        PROVE  /\ pc'[q] = "idle" => prev'[q] = None
               /\ pc'[q] \in {"idle"} \cup Lookups => hydrated'[q] = NotHydrated
               /\ pc'[q] \in Handed => hydrated'[q] # NotHydrated
    <3>1. CASE q = r
      <4>1. hydrated[r] = NotHydrated
        BY <1>1 DEF TalkInv, HandedInv
      <4> QED
        BY <3>1, <4>1, <1>1, <1>4 DEF Handed, Lookups
    <3>2. CASE q # r
      <4>1. prev'[q] = prev[q] /\ pc'[q] = pc[q] /\ hydrated'[q] = hydrated[q]
        BY <3>2, <1>1, <1>4, <1>5
      <4> QED
        BY <4>1 DEF TalkInv, HandedInv
    <3> QED
      BY <3>1, <3>2
  <2> QED
    BY <2>1 DEF HandedInv
<1>17. RowInv'
  <2>1. \A q : Payload(q)' = Payload(q)
    BY <1>1 DEF Payload
  <2> QED
    BY <2>1, <1>1 DEF TalkInv, RowInv
<1>18. HeardInv'
  <2> SUFFICES ASSUME NEW q \in Requests, hydrated[q] # NotHydrated
               PROVE  ContinuesAs(q, hydrated[q], Turns(q)', body')
    BY <1>1 DEF HeardInv, ContinuesAs, ToolsOf, ChoiceOf, ToolsIn, ChoiceIn, SystemsIn
  <2>1. pc[q] # "idle" /\ q # r
    BY <1>1 DEF TalkInv, HandedInv
  <2>2. ContinuesAs(q, hydrated[q], f[q], body)
    BY <1>5, <1>9, TurnsIs DEF TalkInv, HeardInv
  <2>3. Turns(q)' = f[q]
    <3>1. prev' \in [Requests -> Requests \cup {None}]
      BY <1>7 DEF FieldsInv
    <3>2. TurnsOver(prev', q) = g[q]
      BY <3>1, <1>12, <1>14, TurnsOverIs
    <3>3. Turns(q)' = TurnsOver(prev', q)
      BY TurnsThen
    <3> QED
      BY <3>2, <3>3, <2>1, <1>12
  <2>4. \A i \in 1 .. Len(f[q]) : f[q][i] \in Requests /\ f[q][i] # r
    BY <2>1, <1>1, <1>9, TurnTyped
  <2>5. \A i \in 1 .. Len(f[q]) : body[f[q][i]] = body'[f[q][i]]
    BY <2>4, <1>1, <1>5
  <2>6. body[q] = body'[q]
    BY <2>1, <1>1, <1>5
  <2>7. f[q] \in Seq(Requests)
    BY <1>9
  <2>8. ContinuesAs(q, hydrated[q], f[q], body')
    BY <2>2, <2>5, <2>6, <2>7, BodiesOfTurns
  <2> QED
    BY <2>3, <2>8
<1> QED
  BY <1>7, <1>15, <1>16, <1>17, <1>18 DEF TalkInv

(* A request that is handed to the model gets the whole conversation.      *)
LEMMA HydratedContinues ==
  ASSUME TalkInv, StoreInv, NEW r \in Requests, pc[r] = "hydrate", NEW h,
         h = IF prev[r] = None THEN Root(r) ELSE Continued(r, got[r])
  PROVE  ContinuesAs(r, h, Turns(r), body)
<1>1. body \in [Requests -> Body] /\ prev \in [Requests -> Requests \cup {None}]
  BY DEF TalkInv, FieldsInv
<1>2. PICK f : ChainsOf(f)
  BY DEF TalkInv, ChainInv
<1>3. /\ f \in [Requests -> Seq(Requests)] /\ IsTurns(f, prev)
      /\ \A q \in Requests : f[q] # <<>> /\ f[q][Len(f[q])] = q
  BY <1>2 DEF ChainsOf
<1>4. \A q \in Requests : Turns(q) = f[q]
  BY <1>1, <1>3, TurnsIs
<1>5. f[r] = IF prev[r] = None THEN <<r>> ELSE Append(f[prev[r]], r)
  BY <1>3 DEF IsTurns
<1>6. CASE prev[r] = None
  <2>1. h = Root(r) /\ Turns(r) = <<r>> /\ body[r] \in Body
    BY <1>1, <1>4, <1>5, <1>6
  <2> QED
    BY <2>1, RootContinues
<1>7. CASE prev[r] # None
  <2> DEFINE p == prev[r]
             t == f[prev[r]]
  <2>1. p \in Requests /\ got[r] # NoRow /\ got[r] = rows[p]
    BY <1>7 DEF StoreInv, GotIsStored
  <2>2. got[r] = Payload(p) /\ hydrated[p] # NotHydrated
    BY <2>1 DEF TalkInv, RowInv
  <2>3. ContinuesAs(p, hydrated[p], t, body)
    BY <2>1, <2>2, <1>4 DEF TalkInv, HeardInv
  <2>4. t \in Seq(Requests) /\ t # <<>> /\ t[Len(t)] = p
    BY <2>1, <1>3
  <2>5. Turns(r) = Append(t, r) /\ h = Continued(r, got[r])
    BY <1>4, <1>5, <1>7
  <2> HIDE DEF p, t
  <2>6. Passes(got[r], p, t, body)
    BY <2>1, <2>2, <2>3, PayloadPasses
  <2>7. ContinuesAs(r, Continued(r, got[r]), Append(t, r), body)
    BY <2>1, <2>4, <2>6, <1>1, ContinuedContinues
  <2> QED
    BY <2>5, <2>7
<1> QED
  BY <1>6, <1>7

LEMMA ChainTyped ==
  ASSUME TalkInv, NEW r \in Requests
  PROVE  Turns(r) \in Seq(Requests) /\ Turns(r) # <<>>
<1>1. PICK f : ChainsOf(f)
  BY DEF TalkInv, ChainInv
<1>2. prev \in [Requests -> Requests \cup {None}]
  BY DEF TalkInv, FieldsInv
<1>3. f \in [Requests -> Seq(Requests)] /\ IsTurns(f, prev) /\ f[r] # <<>>
  BY <1>1 DEF ChainsOf
<1>4. Turns(r) = f[r]
  BY <1>2, <1>3, TurnsIs
<1> QED
  BY <1>3, <1>4

LEMMA HydratedIsSomething ==
  ASSUME NEW r \in Requests, NEW h, NEW t \in Seq(Requests), t # <<>>, NEW b,
         ContinuesAs(r, h, t, b)
  PROVE  h # NotHydrated
<1> SUFFICES ASSUME h = NotHydrated PROVE FALSE
  OBVIOUS
<1>1. h.input = <<>>
  BY DEF NotHydrated
<1>2. WithRoles(h.input, Replayable) = <<>>
  BY <1>1, WithRolesEmpty
<1>3. Said(t) = <<>>
  BY <1>2 DEF ContinuesAs
<1>4. Len(Said(t)) = 2 * Len(t) - 1
  BY SaidTyped
<1>5. Len(t) \in Nat /\ Len(t) # 0 /\ Len(<<>>) = 0
  OBVIOUS
<1> QED
  BY <1>3, <1>4, <1>5

LEMMA TalkHydrates ==
  ASSUME TalkInv, StoreInv, NEW r \in Requests, NEW h, pc[r] = "hydrate",
         h = IF prev[r] = None THEN Root(r) ELSE Continued(r, got[r]),
         pc' = [pc EXCEPT ![r] = "running"],
         hydrated' = [hydrated EXCEPT ![r] = h],
         UNCHANGED <<rows, body, prev>>
  PROVE  TalkInv'
<1>1. DOMAIN pc = Requests /\ DOMAIN hydrated = Requests
  BY DEF StoreInv, Domains
<1>2. /\ pc'[r] = "running" /\ \A q \in Requests : q # r => pc'[q] = pc[q]
      /\ hydrated'[r] = h /\ \A q \in Requests : q # r => hydrated'[q] = hydrated[q]
  BY <1>1
<1>3. ContinuesAs(r, h, Turns(r), body)
  BY HydratedContinues
<1>4. h # NotHydrated
  BY <1>3, ChainTyped, HydratedIsSomething
<1>5. FieldsInv'
  BY DEF TalkInv, FieldsInv
<1>6. ChainInv'
  <2>1. PICK f : ChainsOf(f)
    BY DEF TalkInv, ChainInv
  <2>2. \A q \in Requests : pc'[q] # "idle" <=> pc[q] # "idle"
    BY <1>2
  <2>3. f \in [Requests -> Seq(Requests)] /\ IsTurns(f, prev')
        /\ \A q \in Requests : f[q] # <<>> /\ f[q][Len(f[q])] = q
    BY <2>1 DEF ChainsOf
  <2>4. ASSUME NEW q \in Requests, pc'[q] # "idle", NEW i \in 1 .. Len(f[q])
        PROVE  pc'[f[q][i]] # "idle"
    <3>1. f[q][i] \in Requests
      <4>1. f[q] \in Seq(Requests)
        BY <2>3
      <4> QED
        BY <4>1, <2>4, TurnTyped
    <3>2. pc[f[q][i]] # "idle"
      BY <2>1, <2>2, <2>4 DEF ChainsOf
    <3> QED
      BY <3>1, <3>2, <2>2
  <2>5. ChainsOf(f)'
    BY <2>3, <2>4 DEF ChainsOf, IsTurns
  <2> QED
    BY <2>5 DEF ChainInv
<1>7. HandedInv'
  BY <1>2, <1>4 DEF TalkInv, HandedInv, Handed, Lookups
<1>8. RowInv'
  <2>1. rows[r] = NoRow
    BY DEF StoreInv, WrittenOnce, Before, Lookups
  <2>2. \A q \in Requests : q # r => Payload(q)' = Payload(q)
    BY <1>2 DEF Payload
  <2> QED
    BY <2>1, <2>2, <1>2 DEF TalkInv, RowInv
<1>9. HeardInv'
  <2>1. \A q : Turns(q)' = Turns(q)
    BY TurnsNow, TurnsThen
  <2> SUFFICES ASSUME NEW q \in Requests, hydrated'[q] # NotHydrated
               PROVE  ContinuesAs(q, hydrated'[q], Turns(q)', body')
    BY DEF HeardInv, ContinuesAs, ToolsOf, ChoiceOf, ToolsIn, ChoiceIn, SystemsIn
  <2>2. CASE q = r
    BY <2>1, <2>2, <1>2, <1>3
  <2>3. CASE q # r
    <3>1. hydrated'[q] = hydrated[q] /\ hydrated[q] # NotHydrated
      BY <2>3, <1>2
    <3>2. ContinuesAs(q, hydrated[q], Turns(q), body)
      BY <3>1 DEF TalkInv, HeardInv
    <3> QED
      BY <3>1, <3>2, <2>1
  <2> QED
    BY <2>2, <2>3
<1> QED
  BY <1>5, <1>6, <1>7, <1>8, <1>9 DEF TalkInv

-----------------------------------------------------------------------------
(* What one step of the program does to the conversations: a request       *)
(* arrives, is handed to the model, is stored, or nothing of the kind.     *)
Arrives(r) == \E b \in Bodies, p \in Requests \cup {None} : Arrive(r, b, p)

Handing(r, h) ==
  /\ pc[r] = "hydrate" /\ pc' = [pc EXCEPT ![r] = "running"]
  /\ h = IF prev[r] = None THEN Root(r) ELSE Continued(r, got[r])
  /\ hydrated' = [hydrated EXCEPT ![r] = h]
  /\ UNCHANGED <<rows, body, prev>>

Moving(r, place) ==
  /\ pc[r] # "idle" /\ place # "idle"
  /\ place \in Lookups => pc[r] \in Lookups
  /\ place \in Handed => pc[r] \in Handed
  /\ pc' = [pc EXCEPT ![r] = place]
  /\ UNCHANGED <<body, prev, hydrated>>

Storing(r) == pc[r] = "commit" /\ rows' = [rows EXCEPT ![r] = Payload(r)]

LEMMA StepIs ==
  ASSUME [Next]_vars
  PROVE  \/ UNCHANGED <<rows, pc, body, prev, hydrated>>
         \/ \E r \in Requests : \/ Arrives(r)
                                \/ \E h : Handing(r, h)
                                \/ \E place : Moving(r, place) /\ (rows' = rows \/ Storing(r))
<1>1. CASE UNCHANGED vars
  BY <1>1 DEF vars
<1>2. ASSUME NEW r \in Requests, NEW b \in Bodies, NEW p \in Requests \cup {None}, Arrive(r, b, p)
      PROVE  Arrives(r)
  BY <1>2 DEF Arrives
<1>3. ASSUME NEW r \in Requests, CacheHit(r)
      PROVE  Moving(r, "hydrate") /\ rows' = rows
  BY <1>3 DEF CacheHit, Step, Moving, Lookups, Handed
<1>4. ASSUME NEW r \in Requests, CacheMiss(r)
      PROVE  Moving(r, "query") /\ rows' = rows
  BY <1>4 DEF CacheMiss, Step, Moving, Lookups, Handed
<1>5. ASSUME NEW r \in Requests, Query(r)
      PROVE  \E place : Moving(r, place) /\ rows' = rows
  <2>1. PICK place \in {"not found", "refill", "hydrate"} : Step(r, "query", place)
    BY <1>5 DEF Query
  <2>2. Moving(r, place) /\ rows' = rows
    BY <2>1, <1>5 DEF Query, Step, Moving, Lookups, Handed
  <2> QED
    BY <2>2
<1>6. ASSUME NEW r \in Requests, QueryRaises(r)
      PROVE  Moving(r, "failed") /\ rows' = rows
  BY <1>6 DEF QueryRaises, Step, Moving, Lookups, Handed
<1>7. ASSUME NEW r \in Requests, Refill(r)
      PROVE  Moving(r, "hydrate") /\ rows' = rows
  BY <1>7 DEF Refill, Step, Moving, Lookups, Handed
<1>8. ASSUME NEW r \in Requests, Hydrate(r)
      PROVE  (\E h : Handing(r, h)) \/ (\E place : Moving(r, place) /\ rows' = rows)
  <2> DEFINE h == IF prev[r] = None THEN Root(r) ELSE Continued(r, got[r])
  <2>1. /\ UNCHANGED <<rows, cache, body, prev, got>>
        /\ \/ Step(r, "hydrate", "running") /\ hydrated' = [hydrated EXCEPT ![r] = h]
           \/ Step(r, "hydrate", "refused") /\ UNCHANGED hydrated
           \/ Step(r, "hydrate", "unresolved") /\ UNCHANGED hydrated
    BY <1>8 DEF Hydrate
  <2>2. CASE Step(r, "hydrate", "running") /\ hydrated' = [hydrated EXCEPT ![r] = h]
    <3>1. Handing(r, h)
      BY <2>1, <2>2 DEF Handing, Step
    <3> QED
      BY <3>1
  <2>3. CASE Step(r, "hydrate", "refused") /\ UNCHANGED hydrated
    <3>1. Moving(r, "refused") /\ rows' = rows
      BY <2>1, <2>3 DEF Moving, Step, Lookups, Handed
    <3> QED
      BY <3>1
  <2>4. CASE Step(r, "hydrate", "unresolved") /\ UNCHANGED hydrated
    <3>1. Moving(r, "unresolved") /\ rows' = rows
      BY <2>1, <2>4 DEF Moving, Step, Lookups, Handed
    <3> QED
      BY <3>1
  <2> QED
    BY <2>1, <2>2, <2>3, <2>4
<1>9. ASSUME NEW r \in Requests, Finish(r)
      PROVE  \E place : Moving(r, place) /\ rows' = rows
  <2>1. PICK place \in {"failed", "commit", "answered"} : Step(r, "running", place)
    BY <1>9 DEF Finish
  <2>2. Moving(r, place) /\ rows' = rows
    BY <2>1, <1>9 DEF Finish, Step, Moving, Lookups, Handed
  <2> QED
    BY <2>2
<1>10. ASSUME NEW r \in Requests, Commit(r)
       PROVE  \E place : Moving(r, place) /\ Storing(r)
  <2>1. PICK place \in {"publish", "answered"} : Step(r, "commit", place)
    BY <1>10 DEF Commit
  <2>2. Moving(r, place) /\ Storing(r)
    BY <2>1, <1>10 DEF Commit, Step, Moving, Storing, Lookups, Handed
  <2> QED
    BY <2>2
<1>11. ASSUME NEW r \in Requests, CommitRaises(r)
       PROVE  Moving(r, "failed") /\ (rows' = rows \/ Storing(r))
  BY <1>11 DEF CommitRaises, Step, Moving, Storing, Lookups, Handed
<1>12. ASSUME NEW r \in Requests, Publish(r)
       PROVE  Moving(r, "answered") /\ rows' = rows
  BY <1>12 DEF Publish, Step, Moving, Lookups, Handed
<1>13. ASSUME NEW r \in Requests, Leave(r)
       PROVE  Moving(r, "gone") /\ (rows' = rows \/ Storing(r))
  BY <1>13 DEF Leave, Moving, Storing, Lookups, Handed
<1>14. ASSUME NEW id \in Requests, Expire(id)
       PROVE  UNCHANGED <<rows, pc, body, prev, hydrated>>
  BY <1>14 DEF Expire
<1>15. CASE \E id \in Requests : Expire(id)
  BY <1>14, <1>15
<1>16. ASSUME NEW r \in Requests,
              \/ \E b \in Bodies, p \in Requests \cup {None} : Arrive(r, b, p)
              \/ CacheHit(r) \/ CacheMiss(r) \/ Query(r) \/ QueryRaises(r) \/ Refill(r)
              \/ Hydrate(r) \/ Finish(r) \/ Commit(r) \/ CommitRaises(r) \/ Publish(r) \/ Leave(r)
       PROVE  \/ Arrives(r)
              \/ \E h : Handing(r, h)
              \/ \E place : Moving(r, place) /\ (rows' = rows \/ Storing(r))
  BY <1>2, <1>3, <1>4, <1>5, <1>6, <1>7, <1>8, <1>9, <1>10, <1>11, <1>12, <1>13, <1>16
<1> QED
  BY <1>1, <1>15, <1>16 DEF Next

LEMMA TalkStep ==
  ASSUME TalkInv, StoreInv, [Next]_vars
  PROVE  TalkInv'
<1>1. CASE UNCHANGED <<rows, pc, body, prev, hydrated>>
  <2>1. \A q : Turns(q)' = Turns(q)
    BY <1>1, TurnsNow, TurnsThen
  <2>2. FieldsInv' /\ HandedInv'
    BY <1>1 DEF TalkInv, FieldsInv, HandedInv
  <2>3. ChainInv'
    <3>1. PICK f : ChainsOf(f)
      BY DEF TalkInv, ChainInv
    <3>2. ChainsOf(f)'
      BY <1>1, <3>1 DEF ChainsOf, IsTurns
    <3> QED
      BY <3>2 DEF ChainInv
  <2>4. RowInv'
    BY <1>1 DEF TalkInv, RowInv, Payload
  <2>5. HeardInv'
    <3> SUFFICES ASSUME NEW q \in Requests, hydrated[q] # NotHydrated
                 PROVE  ContinuesAs(q, hydrated[q], Turns(q)', body')
      BY <1>1 DEF HeardInv, ContinuesAs, ToolsOf, ChoiceOf, ToolsIn, ChoiceIn, SystemsIn
    <3>1. ContinuesAs(q, hydrated[q], Turns(q), body)
      BY DEF TalkInv, HeardInv
    <3> QED
      BY <1>1, <2>1, <3>1
  <2> QED
    BY <2>2, <2>3, <2>4, <2>5 DEF TalkInv
<1>2. ASSUME NEW r \in Requests, Arrives(r)
      PROVE  TalkInv'
  BY <1>2, TalkArrives DEF Arrives
<1>3. ASSUME NEW r \in Requests, NEW h, Handing(r, h)
      PROVE  TalkInv'
  BY <1>3, TalkHydrates DEF Handing
<1>4. ASSUME NEW r \in Requests, NEW place, Moving(r, place), rows' = rows \/ Storing(r)
      PROVE  TalkInv'
  <2>1. DOMAIN pc = Requests /\ DOMAIN rows = Requests
    BY DEF StoreInv, Domains
  <2> QED
    BY <1>4, <2>1, TalkMoves DEF Moving, Storing
<1> QED
  BY <1>1, <1>2, <1>3, <1>4, StepIs

LEMMA TalkAlways == Spec => [](StoreInv /\ TalkInv)
<1>1. Init => StoreInv /\ TalkInv
  BY InvInit, TalkInit
<1>2. StoreInv /\ TalkInv /\ [Next]_vars => (StoreInv /\ TalkInv)'
  BY InvStep, TalkStep
<1> QED
  BY <1>1, <1>2, PTL DEF Spec

(* rehydrate_request puts the input together from the row of the previous  *)
(* turn alone, and takes tools, tool_choice and the instruction from there *)
(* one by one; the model run gets the whole conversation all the same,     *)
(* with the fields most recently given in it, for every number of          *)
(* requests and every chain of turns.                                      *)
THEOREM ConversationContinued == Spec => []ContinuesConversation
<1>1. TalkInv => ContinuesConversation
  BY ContinuesIs DEF TalkInv, HeardInv, ContinuesConversation
<1> QED
  BY <1>1, TalkAlways, PTL

-----------------------------------------------------------------------------
(* rehydrate_request inherits tools and tool_choice one by one, yet what   *)
(* is stored always fits together, so a follow-up that leaves both out is  *)
(* never refused for its choice; and it is stopped by the resolution of an *)
(* MCP tool only if such a tool was the last one given in its chain.       *)
THEOREM InheritedAccepted == Spec => InheritedFieldsAreAccepted
<1> DEFINE Accepted ==
             \A r \in Requests :
               pc[r] = "hydrate" /\ body[r].tools = "omitted" /\ body[r].choice = "omitted"
                 => /\ pc'[r] # "refused"
                    /\ pc'[r] = "unresolved" =>
                         \E q \in Requests : /\ q = LastOf(Turns(r), GaveTools)
                                             /\ body[q].tools = "mcp with credentials"
<1>1. ASSUME StoreInv, TalkInv, [Next]_vars
      PROVE  Accepted
  <2> SUFFICES ASSUME NEW r \in Requests, pc[r] = "hydrate",
                      pc'[r] \in {"refused", "unresolved"},
                      body[r].tools = "omitted", body[r].choice = "omitted"
               PROVE  /\ pc'[r] = "unresolved"
                      /\ \E q \in Requests : /\ q = LastOf(Turns(r), GaveTools)
                                             /\ body[q].tools = "mcp with credentials"
    OBVIOUS
  <2>1. ~ UNCHANGED vars
    BY DEF vars
  <2>2. pc'[r] # pc[r] /\ DOMAIN pc = Requests
    BY <1>1 DEF StoreInv, Domains
  <2>3. ~ BadChoice(r)
    BY DEF BadChoice
  <2>4. PICK h : h = IF prev[r] = None THEN Root(r) ELSE Continued(r, got[r])
    OBVIOUS
  <2>5. Runnable(h)
    <3>1. Runnable(Root(r))
      BY DEF Root, OwnChoice, Runnable
    <3>2. ASSUME prev[r] # None PROVE Runnable(Continued(r, got[r]))
      <4>1. Runnable(got[r])
        BY <1>1, <3>2 DEF StoreInv, GotIsStored, StoredIsRunnable
      <4>2. /\ Continued(r, got[r]).tools = got[r].tools
            /\ Continued(r, got[r]).choice = got[r].choice
        BY DEF Continued
      <4> QED
        BY <4>1, <4>2 DEF Runnable, DeclaresMcp
    <3> QED
      BY <2>4, <3>1, <3>2
  <2>6. ASSUME NEW q \in Requests, NEW b \in Bodies, NEW p \in Requests \cup {None}, Arrive(q, b, p)
        PROVE  FALSE
    BY <2>6, <2>2 DEF Arrive, Step
  <2>7. ASSUME NEW q \in Requests,
               CacheHit(q) \/ CacheMiss(q) \/ QueryRaises(q) \/ Query(q) \/ Refill(q)
                 \/ Finish(q) \/ Commit(q) \/ CommitRaises(q) \/ Publish(q)
        PROVE  FALSE
    BY <2>7, <2>2 DEF CacheHit, CacheMiss, QueryRaises, Query, Refill, Finish, Commit,
                      CommitRaises, Publish, Step
  <2>8. ASSUME NEW q \in Requests, Hydrate(q)
        PROVE  q = r
    BY <2>8, <2>2 DEF Hydrate, Step
  <2>9. ASSUME NEW q \in Requests, Leave(q)
        PROVE  FALSE
    BY <2>9, <2>2 DEF Leave
  <2>10. ASSUME NEW id \in Requests, Expire(id)
         PROVE  FALSE
    BY <2>10, <2>2 DEF Expire
  <2>11. Hydrate(r)
    BY <1>1, <2>1, <2>6, <2>7, <2>8, <2>9, <2>10 DEF Next
  <2>12. pc'[r] = "unresolved" /\ DeclaresMcp(h)
    BY <2>11, <2>2, <2>3, <2>4, <2>5 DEF Hydrate, Step
  <2>13. \E q \in Requests : /\ q = LastOf(Turns(r), GaveTools)
                             /\ body[q].tools = "mcp with credentials"
    <3> DEFINE t == Turns(r)
               q == LastOf(Turns(r), ToolsIn(body))
    <3>1. h.tools = ToolsOf(r, t, body)
      BY <1>1, <2>4, HydratedContinues DEF ContinuesAs
    <3>2. t \in Seq(Requests) /\ body \in [Requests -> Body]
      BY <1>1, ChainTyped DEF TalkInv, FieldsInv
    <3>3. q = None \/ (q \in ToolsIn(body) /\ q \in Requests)
      BY <3>2, LastMember DEF ToolsIn
    <3>4. q = LastOf(Turns(r), GaveTools)
      BY DEF ToolsIn, GaveTools
    <3>5. ToolsOf(r, t, body) = IF q = None THEN None ELSE IF q = r THEN body[r].tools
                                ELSE Sanitized(body[q].tools)
      BY DEF ToolsOf
    <3> HIDE DEF q, t
    <3>6. q \in Requests /\ h.tools = Sanitized(body[q].tools) /\ q # r
      BY <2>12, <3>1, <3>3, <3>5 DEF DeclaresMcp, None, ToolsIn
    <3>7. body[q].tools \in ToolsGiven
      BY <3>2, <3>6 DEF Body
    <3>8. body[q].tools = "mcp with credentials"
      BY <2>12, <3>6, <3>7 DEF DeclaresMcp, Sanitized, ToolsGiven
    <3> QED
      BY <3>4, <3>6, <3>8
  <2> QED
    BY <2>12, <2>13
<1>2. ASSUME StoreInv, TalkInv, [Next]_vars
      PROVE  [Accepted]_vars
  BY <1>1, <1>2
<1> QED
  BY <1>2, TalkAlways, PTL DEF Spec, InheritedFieldsAreAccepted

-----------------------------------------------------------------------------
(* The rows and the hydrated requests are a map of conversations.          *)

SavedNow == [id \in Requests |-> Spoken(rows[id].input)]
ConvoNow == [r \in Requests |-> Spoken(hydrated[r].input)]

LEMMA SpokenNothing == Spoken(<<>>) = <<>>
<1>1. PICK w : w = WithRoles(<<>>, {"user"})
  OBVIOUS
<1>2. w = <<>>
  BY <1>1, WithRolesEmpty
<1>3. Spoken(<<>>) = [i \in DOMAIN w |-> w[i].by]
  BY <1>1 DEF Spoken
<1> QED
  BY <1>2, <1>3

(* What the conversations are, by the turns.                               *)
LEMMA ViewIs ==
  ASSUME TalkInv, NEW r \in Requests
  PROVE  /\ ConvoNow[r] = IF hydrated[r] = NotHydrated THEN <<>> ELSE Turns(r)
         /\ SavedNow[r] = IF rows[r] = NoRow THEN <<>> ELSE Turns(r)
         /\ hydrated[r] # NotHydrated => Spoken(Payload(r).input) = Turns(r)
         /\ Turns(r) # <<>>
<1>1. Turns(r) \in Seq(Requests) /\ Turns(r) # <<>>
  BY ChainTyped
<1>2. ConvoNow[r] = Spoken(hydrated[r].input) /\ SavedNow[r] = Spoken(rows[r].input)
  BY DEF ConvoNow, SavedNow
<1>3. Spoken(NotHydrated.input) = <<>> /\ Spoken(NoRow.input) = <<>>
  BY SpokenNothing DEF NotHydrated, NoRow
<1>4. ASSUME hydrated[r] # NotHydrated
      PROVE  Spoken(hydrated[r].input) = Turns(r) /\ Spoken(Payload(r).input) = Turns(r)
  <2>1. ContinuesAs(r, hydrated[r], Turns(r), body)
    BY <1>4 DEF TalkInv, HeardInv
  <2>2. WithRoles(hydrated[r].input, {"user"}) = WithRoles(Said(Turns(r)), {"user"})
    BY <2>1 DEF ContinuesAs
  <2>3. Payload(r).input = Said(Turns(r))
    BY <2>1 DEF ContinuesAs, Payload
  <2> QED
    BY <2>2, <2>3, <1>1, SpokenIs
<1>5. rows[r] # NoRow => rows[r] = Payload(r) /\ hydrated[r] # NotHydrated
  BY DEF TalkInv, RowInv
<1> QED
  BY <1>1, <1>2, <1>3, <1>4, <1>5

LEMMA TurnsStep ==
  ASSUME TalkInv, NEW r \in Requests
  PROVE  Turns(r) = IF prev[r] = None THEN <<r>> ELSE Append(Turns(prev[r]), r)
<1>1. PICK f : ChainsOf(f)
  BY DEF TalkInv, ChainInv
<1>2. prev \in [Requests -> Requests \cup {None}]
  BY DEF TalkInv, FieldsInv
<1>3. f \in [Requests -> Seq(Requests)] /\ IsTurns(f, prev)
  BY <1>1 DEF ChainsOf
<1>4. \A q \in Requests : Turns(q) = f[q]
  BY <1>2, <1>3, TurnsIs
<1>5. f[r] = IF prev[r] = None THEN <<r>> ELSE Append(f[prev[r]], r)
  BY <1>3 DEF IsTurns
<1>6. prev[r] # None => prev[r] \in Requests
  BY <1>2
<1> QED
  BY <1>4, <1>5, <1>6

(* The actions of the abstract store, over these.                          *)
LEMMA StoreInit ==
  ASSUME prev = [r \in Requests |-> None],
         SavedNow = [id \in Requests |-> <<>>],
         ConvoNow = [r \in Requests |-> <<>>]
  PROVE  Conversations!Init
BY ZenonT(60) DEF Conversations!Init, SavedNow, ConvoNow

LEMMA StoreIdles ==
  prev' = prev /\ SavedNow' = SavedNow /\ ConvoNow' = ConvoNow => UNCHANGED Conversations!vars
BY ZenonT(60) DEF Conversations!vars, SavedNow, ConvoNow

LEMMA StoreAsks ==
  ASSUME NEW r \in Requests, NEW id \in Requests,
         prev[r] = None, ConvoNow[r] = <<>>, prev' = [prev EXCEPT ![r] = id],
         SavedNow' = SavedNow, ConvoNow' = ConvoNow
  PROVE  Conversations!Next
BY ZenonT(60) DEF Conversations!Next, Conversations!Ask, SavedNow, ConvoNow

LEMMA StoreStarts ==
  ASSUME NEW r \in Requests,
         prev[r] = None, ConvoNow[r] = <<>>, ConvoNow' = [ConvoNow EXCEPT ![r] = <<r>>],
         SavedNow' = SavedNow, prev' = prev
  PROVE  Conversations!Next
BY ZenonT(60) DEF Conversations!Next, Conversations!Start, SavedNow, ConvoNow

LEMMA StoreContinues ==
  ASSUME NEW r \in Requests,
         prev[r] # None, ConvoNow[r] = <<>>, SavedNow[prev[r]] # <<>>,
         ConvoNow' = [ConvoNow EXCEPT ![r] = Append(SavedNow[prev[r]], r)],
         SavedNow' = SavedNow, prev' = prev
  PROVE  Conversations!Next
BY ZenonT(60) DEF Conversations!Next, Conversations!Continue, SavedNow, ConvoNow

LEMMA StoreSaves ==
  ASSUME NEW r \in Requests,
         ConvoNow[r] # <<>>, SavedNow[r] = <<>>,
         SavedNow' = [SavedNow EXCEPT ![r] = ConvoNow[r]],
         ConvoNow' = ConvoNow, prev' = prev
  PROVE  Conversations!Next
BY ZenonT(60) DEF Conversations!Next, Conversations!Save, SavedNow, ConvoNow

LEMMA ViewStep ==
  ASSUME TalkInv, StoreInv, TalkInv', [Next]_vars
  PROVE  [Conversations!Next]_Conversations!vars
<1>1. prev \in [Requests -> Requests \cup {None}] /\ DOMAIN rows = Requests
      /\ DOMAIN hydrated = Requests
  BY DEF TalkInv, FieldsInv, StoreInv, Domains
<1>2. /\ rows' = rows => SavedNow' = SavedNow
      /\ hydrated' = hydrated => ConvoNow' = ConvoNow
  BY DEF SavedNow, ConvoNow
<1>3. CASE UNCHANGED <<rows, pc, body, prev, hydrated>>
  BY <1>2, <1>3, StoreIdles
<1>4. ASSUME NEW r \in Requests, Arrives(r)
      PROVE  [Conversations!Next]_Conversations!vars
  <2>1. PICK b \in Bodies, p \in Requests \cup {None} : Arrive(r, b, p)
    BY <1>4 DEF Arrives
  <2>2. pc[r] = "idle" /\ prev' = [prev EXCEPT ![r] = p] /\ rows' = rows /\ hydrated' = hydrated
    BY <2>1 DEF Arrive, Step
  <2>3. prev[r] = None /\ hydrated[r] = NotHydrated
    BY <2>2 DEF TalkInv, HandedInv
  <2>4. CASE p = None
    <3>1. prev' = prev
      BY <2>2, <2>3, <2>4, <1>1
    <3> QED
      BY <3>1, <2>2, <1>2, StoreIdles
  <2>5. CASE p # None
    <3>1. ConvoNow[r] = <<>> /\ p \in Requests
      BY <2>3, <2>5, ViewIs
    <3> QED
      BY <3>1, <2>2, <2>3, <1>2, StoreAsks
  <2> QED
    BY <2>4, <2>5
<1>5. ASSUME NEW r \in Requests, NEW h, Handing(r, h)
      PROVE  [Conversations!Next]_Conversations!vars
  <2>1. /\ pc[r] = "hydrate" /\ pc' = [pc EXCEPT ![r] = "running"]
        /\ hydrated' = [hydrated EXCEPT ![r] = h]
        /\ rows' = rows /\ body' = body /\ prev' = prev
        /\ h = IF prev[r] = None THEN Root(r) ELSE Continued(r, got[r])
    BY <1>5 DEF Handing
  <2>2. hydrated[r] = NotHydrated
    BY <2>1 DEF TalkInv, HandedInv, Lookups
  <2>3. ContinuesAs(r, h, Turns(r), body)
    BY <2>1, HydratedContinues
  <2>4. Turns(r) \in Seq(Requests) /\ Turns(r) # <<>>
    BY ChainTyped
  <2>5. Spoken(h.input) = Turns(r)
    <3>1. WithRoles(h.input, {"user"}) = WithRoles(Said(Turns(r)), {"user"})
      BY <2>3 DEF ContinuesAs
    <3> QED
      BY <3>1, <2>4, SpokenIs
  <2>6. ConvoNow' = [ConvoNow EXCEPT ![r] = Turns(r)]
    <3>1. hydrated'[r] = h /\ \A q \in Requests : q # r => hydrated'[q] = hydrated[q]
      BY <2>1, <1>1
    <3>2. \A q \in Requests : Spoken(hydrated'[q].input) =
                                IF q = r THEN Turns(r) ELSE Spoken(hydrated[q].input)
      BY <2>5, <3>1
    <3>3. ConvoNow' = [q \in Requests |-> Spoken(hydrated'[q].input)]
      BY DEF ConvoNow, Spoken, WithRoles
    <3>4. [ConvoNow EXCEPT ![r] = Turns(r)] =
            [q \in Requests |-> IF q = r THEN Turns(r) ELSE Spoken(hydrated[q].input)]
      BY DEF ConvoNow
    <3> QED
      BY <3>2, <3>3, <3>4
  <2>7. ConvoNow[r] = <<>>
    BY <2>2, ViewIs
  <2>8. CASE prev[r] = None
    <3>1. Turns(r) = <<r>>
      BY <2>8, TurnsStep
    <3> QED
      BY <3>1, <2>1, <2>6, <2>7, <2>8, <1>2, StoreStarts
  <2>9. CASE prev[r] # None
    <3>1. prev[r] \in Requests /\ rows[prev[r]] # NoRow
      BY <2>1, <2>9 DEF StoreInv, GotIsStored
    <3>2. SavedNow[prev[r]] = Turns(prev[r]) /\ Turns(prev[r]) # <<>>
      BY <3>1, ViewIs
    <3>3. Turns(r) = Append(SavedNow[prev[r]], r)
      BY <3>2, <2>9, TurnsStep
    <3> QED
      BY <3>2, <3>3, <2>1, <2>6, <2>7, <2>9, <1>2, StoreContinues
  <2> QED
    BY <2>8, <2>9
<1>6. ASSUME NEW r \in Requests, NEW place, Moving(r, place), rows' = rows
      PROVE  [Conversations!Next]_Conversations!vars
  BY <1>2, <1>6, StoreIdles DEF Moving
<1>7. ASSUME NEW r \in Requests, NEW place, Moving(r, place), Storing(r)
      PROVE  [Conversations!Next]_Conversations!vars
  <2>1. /\ pc[r] = "commit" /\ rows' = [rows EXCEPT ![r] = Payload(r)]
        /\ prev' = prev /\ hydrated' = hydrated
    BY <1>7 DEF Moving, Storing
  <2>2. hydrated[r] # NotHydrated /\ rows[r] = NoRow
    BY <2>1 DEF TalkInv, HandedInv, Handed, StoreInv, WrittenOnce, Before
  <2>3. ConvoNow[r] = Turns(r) /\ SavedNow[r] = <<>> /\ Spoken(Payload(r).input) = Turns(r)
        /\ Turns(r) # <<>>
    BY <2>2, ViewIs
  <2>4. SavedNow' = [SavedNow EXCEPT ![r] = ConvoNow[r]]
    <3>1. rows'[r] = Payload(r) /\ \A q \in Requests : q # r => rows'[q] = rows[q]
      BY <2>1, <1>1
    <3>2. \A q \in Requests : Spoken(rows'[q].input) =
                                IF q = r THEN ConvoNow[r] ELSE Spoken(rows[q].input)
      BY <2>3, <3>1
    <3>3. SavedNow' = [q \in Requests |-> Spoken(rows'[q].input)]
      BY DEF SavedNow, Spoken, WithRoles
    <3>4. [SavedNow EXCEPT ![r] = ConvoNow[r]] =
            [q \in Requests |-> IF q = r THEN ConvoNow[r] ELSE Spoken(rows[q].input)]
      BY DEF SavedNow
    <3> QED
      BY <3>2, <3>3, <3>4
  <2> QED
    BY <2>1, <2>3, <2>4, <1>2, StoreSaves
<1> QED
  BY <1>3, <1>4, <1>5, <1>6, <1>7, StepIs

(* get(), put_completed and the cache between them, in any number of       *)
(* processes, under any faults, are one map from ids to conversations,     *)
(* written once per id and read at one instant.                            *)
THEOREM StoreIsOneMap == Spec => IsConversationStore
<1>1. StoreInv /\ TalkInv /\ (StoreInv /\ TalkInv)' /\ [Next]_vars
        => [Conversations!Next]_Conversations!vars
  BY ViewStep
<1>2. Init => Conversations!Init
  <2> SUFFICES ASSUME Init PROVE Conversations!Init
    OBVIOUS
  <2>1. SavedNow = [id \in Requests |-> <<>>] /\ ConvoNow = [r \in Requests |-> <<>>]
    BY SpokenNothing DEF Init, SavedNow, ConvoNow, NoRow, NotHydrated
  <2> QED
    BY <2>1, StoreInit DEF Init
<1> QED
  BY <1>1, <1>2, TalkAlways, PTL DEF Spec, IsConversationStore, Conversations!Spec
=============================================================================
