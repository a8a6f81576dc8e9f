----------------------------- MODULE ToolProofs -----------------------------
(***************************************************************************)
(* The tools of a request.  What a request is offered and how its history  *)
(* is replayed (RunSettings), what the web_search tool finds (WebSearch),  *)
(* and the cache the code interpreter starts from (PyodideCache), for all  *)
(* requests, tools and pages, and any number of turns and processes.       *)
(***************************************************************************)
EXTENDS PyodideCache, RunSettings, WebSearch,
        FiniteSetTheorems, NaturalsInduction, SequenceTheorems, WellFoundedInduction, TLAPS

-----------------------------------------------------------------------------
(* A nonempty set of natural numbers has a least element.                  *)
LEMMA LeastNat ==
  ASSUME NEW T, T \subseteq Nat, T # {}
  PROVE  \E n \in T : \A m \in T : n <= m
<1>1. PICK n \in T : \A m \in T : ~ (<<m, n>> \in OpToRel(<, Nat))
  BY NatLessThanWellFounded, WFMin
<1>2. \A m \in T : ~ (m < n)
  BY <1>1 DEF OpToRel
<1> QED
  BY <1>2

(* Induction up to n, for a set instead of a predicate.                    *)
LEMMA InductUpTo ==
  ASSUME NEW S, NEW n \in Nat, 0 \in S, \A i \in 0 .. n - 1 : i \in S => i + 1 \in S
  PROVE  0 .. n \subseteq S
<1> DEFINE T == (0 .. n) \ S
<1> SUFFICES ASSUME T # {} PROVE FALSE
  OBVIOUS
<1>1. PICK i \in T : \A j \in T : i <= j
  <2>1. T \subseteq Nat
    OBVIOUS
  <2> HIDE DEF T
  <2> QED
    BY <2>1, LeastNat
<1>2. i # 0 /\ i - 1 \in 0 .. n - 1
  BY <1>1
<1>3. i - 1 \in S
  BY <1>1, <1>2
<1> QED
  BY <1>1, <1>2, <1>3

-----------------------------------------------------------------------------
(* Sequences put together.                                                 *)
IsSequence(s) == s \in Seq(Range(s))

LEMMA SequenceIs ==
  ASSUME NEW s, IsSequence(s)
  PROVE  Len(s) \in Nat /\ DOMAIN s = 1 .. Len(s) /\ s \in Seq(Range(s)) /\ (Len(s) = 0 => s = <<>>)
BY LenProperties, EmptySeq DEF IsSequence

LEMMA OfSetIsSequence ==
  ASSUME NEW X, NEW s \in Seq(X)
  PROVE  IsSequence(s)
<1>1. Len(s) \in Nat /\ DOMAIN s = 1 .. Len(s) /\ s \in [1 .. Len(s) -> X]
  BY LenProperties
<1>2. s \in [1 .. Len(s) -> Range(s)]
  BY <1>1 DEF Range
<1> QED
  BY <1>1, <1>2 DEF IsSequence

LEMMA JoinIs ==
  ASSUME NEW s, NEW t, IsSequence(s), IsSequence(t)
  PROVE  /\ IsSequence(s \o t) /\ Len(s \o t) = Len(s) + Len(t)
         /\ \A i \in 1 .. Len(s) : (s \o t)[i] = s[i]
         /\ \A k \in 1 .. Len(t) : (s \o t)[Len(s) + k] = t[k]
<1> DEFINE X == Range(s) \cup Range(t)
<1>1. Len(s) \in Nat /\ Len(t) \in Nat
  BY SequenceIs
<1>2. s \in Seq(X) /\ t \in Seq(X)
  BY SeqMonotonic DEF IsSequence
<1> HIDE DEF X
<1>3. /\ s \o t \in Seq(X) /\ Len(s \o t) = Len(s) + Len(t)
      /\ \A i \in 1 .. Len(s) + Len(t) : (s \o t)[i] = IF i <= Len(s) THEN s[i] ELSE t[i - Len(s)]
  BY <1>2, ConcatProperties
<1>4. IsSequence(s \o t)
  BY <1>3, OfSetIsSequence
<1>5. \A k \in 1 .. Len(t) : (s \o t)[Len(s) + k] = t[k]
  <2> SUFFICES ASSUME NEW k \in 1 .. Len(t) PROVE (s \o t)[Len(s) + k] = t[k]
    OBVIOUS
  <2>1. Len(s) + k \in 1 .. Len(s) + Len(t) /\ ~ (Len(s) + k <= Len(s)) /\ (Len(s) + k) - Len(s) = k
    BY <1>1
  <2> QED
    BY <1>3, <2>1
<1> QED
  BY <1>1, <1>3, <1>4, <1>5

LEMMA JoinLen ==
  ASSUME NEW s, NEW t, NEW a, IsSequence(s), IsSequence(t), Len(s) = a
  PROVE  Len(s \o t) = a + Len(t)
BY JoinIs

FlattenedUpTo(f, seqs, n) ==
  f = [i \in 1 .. n |-> IF i = 1 THEN seqs[i] ELSE f[i - 1] \o seqs[i]]

LEMMA FlattenedExists ==
  ASSUME NEW seqs, NEW n \in Nat
  PROVE  \E f : FlattenedUpTo(f, seqs, n)
<1> DEFINE S == {m \in Nat : \E f : FlattenedUpTo(f, seqs, m)}
<1>1. 0 \in S
  <2> DEFINE f == [i \in 1 .. 0 |-> <<>>]
  <2>1. FlattenedUpTo(f, seqs, 0)
    BY DEF FlattenedUpTo
  <2> QED
    BY <2>1
<1>2. ASSUME NEW m \in Nat, m \in S
      PROVE  m + 1 \in S
  <2>1. PICK f : FlattenedUpTo(f, seqs, m)
    BY <1>2
  <2> DEFINE next == IF m + 1 = 1 THEN seqs[m + 1] ELSE f[m] \o seqs[m + 1]
             g == [i \in 1 .. m + 1 |-> IF i = m + 1 THEN next ELSE f[i]]
  <2> HIDE DEF next
  <2>2. /\ DOMAIN g = 1 .. m + 1 /\ g = [i \in DOMAIN g |-> g[i]]
        /\ g[m + 1] = next /\ \A i \in 1 .. m : g[i] = f[i]
    OBVIOUS
  <2>3. \A i \in 1 .. m : f[i] = IF i = 1 THEN seqs[i] ELSE f[i - 1] \o seqs[i]
    BY <2>1 DEF FlattenedUpTo
  <2> HIDE DEF g
  <2>4. ASSUME NEW i \in 1 .. m + 1
        PROVE  g[i] = IF i = 1 THEN seqs[i] ELSE g[i - 1] \o seqs[i]
    <3>1. CASE i = m + 1
      <4>1. (i = 1 \/ m \in 1 .. m) /\ i - 1 = m
        BY <3>1
      <4> QED
        BY <3>1, <4>1, <2>2 DEF next
    <3>2. CASE i # m + 1
      <4>1. i \in 1 .. m /\ (i # 1 => i - 1 \in 1 .. m)
        BY <3>2
      <4> QED
        BY <4>1, <2>2, <2>3
    <3> QED
      BY <3>1, <3>2
  <2>5. FlattenedUpTo(g, seqs, m + 1)
    BY <2>2, <2>4 DEF FlattenedUpTo
  <2> QED
    BY <2>5
<1> HIDE DEF S
<1>3. 0 .. n \subseteq S
  BY <1>1, <1>2, InductUpTo
<1> QED
  BY <1>3 DEF S

LEMMA FlattenSeqIs ==
  ASSUME NEW seqs, IsSequence(seqs), \A i \in 1 .. Len(seqs) : IsSequence(seqs[i])
  PROVE  \E f : /\ f[0] = <<>> /\ f[Len(seqs)] = FlattenSeq(seqs)
                /\ \A i \in 1 .. Len(seqs) : f[i] = f[i - 1] \o seqs[i]
<1> DEFINE n == Len(seqs)
           f == CHOOSE g : FlattenedUpTo(g, seqs, n)
           h == [i \in 0 .. n |-> IF i = 0 THEN <<>> ELSE f[i]]
<1>1. n \in Nat /\ (n = 0 => seqs = <<>>)
  BY SequenceIs
<1>2. FlattenedUpTo(f, seqs, n)
  BY <1>1, FlattenedExists
<1>3. n # 0 => FlattenSeq(seqs) = f[n]
  BY DEF FlattenSeq, FlattenedUpTo
<1>4. n = 0 => FlattenSeq(seqs) = <<>>
  BY <1>1 DEF FlattenSeq
<1> HIDE DEF f
<1>5. \A i \in 1 .. n : f[i] = IF i = 1 THEN seqs[i] ELSE f[i - 1] \o seqs[i]
  BY <1>2 DEF FlattenedUpTo
<1>6. h[0] = <<>> /\ \A i \in 1 .. n : h[i] = f[i]
  BY <1>1
<1>7. h[n] = FlattenSeq(seqs)
  BY <1>1, <1>3, <1>4, <1>6
<1> HIDE DEF h
<1>8. ASSUME NEW i \in 1 .. n PROVE h[i] = h[i - 1] \o seqs[i]
  <2>1. CASE i = 1
    <3>1. h[i] = seqs[i] /\ h[i - 1] = <<>>
      BY <2>1, <1>5, <1>6
    <3>2. <<>> \o seqs[i] = seqs[i]
      BY ConcatEmptySeq, SequenceIs
    <3> QED
      BY <3>1, <3>2
  <2>2. CASE i # 1
    <3>1. i - 1 \in 1 .. n
      BY <2>2, <1>1
    <3> QED
      BY <2>2, <3>1, <1>5, <1>6
  <2> QED
    BY <2>1, <2>2
<1> QED
  BY <1>6, <1>7, <1>8

(* What stands where in the whole: piece i begins after at[i - 1].         *)
Ends(at, seqs, n) ==
  /\ at[0] = 0 /\ \A i \in 0 .. n : at[i] \in Nat
  /\ \A i \in 1 .. n : at[i] = at[i - 1] + Len(seqs[i])
  /\ \A i, j \in 0 .. n : i <= j => at[i] <= at[j]
Placed(flat, at, seqs, n) ==
  /\ IsSequence(flat) /\ Len(flat) = at[n]
  /\ \A i \in 1 .. n : \A k \in 1 .. Len(seqs[i]) : flat[at[i - 1] + k] = seqs[i][k]
  /\ \A j \in 1 .. at[n] : \E i \in 1 .. n : \E k \in 1 .. Len(seqs[i]) : j = at[i - 1] + k

LEMMA PlacedNext ==
  ASSUME NEW flat, NEW at, NEW seqs, NEW n \in Nat, Ends(at, seqs, n), Placed(flat, at, seqs, n),
         IsSequence(seqs[n + 1]), \A i \in 1 .. n : Len(seqs[i]) \in Nat,
         at[n + 1] = at[n] + Len(seqs[n + 1])
  PROVE  Ends(at, seqs, n + 1) /\ Placed(flat \o seqs[n + 1], at, seqs, n + 1)
<1> DEFINE more == flat \o seqs[n + 1]
           last == Len(seqs[n + 1])
<1>1. /\ IsSequence(more) /\ Len(more) = at[n] + last
      /\ \A j \in 1 .. at[n] : more[j] = flat[j]
      /\ \A k \in 1 .. last : more[at[n] + k] = seqs[n + 1][k]
  <2>1. IsSequence(flat) /\ Len(flat) = at[n] /\ IsSequence(seqs[n + 1])
    BY DEF Placed
  <2>2. Len(more) = at[n] + last
    BY <2>1, JoinLen
  <2>3. IsSequence(more)
    BY <2>1, JoinIs
  <2>4. \A i \in 1 .. Len(flat) : more[i] = flat[i]
    BY <2>1, JoinIs
  <2>5. \A k \in 1 .. last : more[Len(flat) + k] = seqs[n + 1][k]
    BY <2>1, JoinIs
  <2> HIDE DEF more
  <2> QED
    BY <2>1, <2>2, <2>3, <2>4, <2>5
<1>2. last \in Nat /\ at[n] \in Nat
  BY SequenceIs DEF Ends
<1> HIDE DEF more
<1>3. Ends(at, seqs, n + 1)
  <2>1. \A i \in 0 .. n + 1 : i \in 0 .. n \/ i = n + 1
    OBVIOUS
  <2>2. \A i \in 0 .. n + 1 : at[i] \in Nat
    BY <1>2, <2>1 DEF Ends
  <2>3. \A i \in 1 .. n + 1 : i \in 1 .. n \/ (i = n + 1 /\ i - 1 = n)
    OBVIOUS
  <2>4. \A i \in 1 .. n + 1 : at[i] = at[i - 1] + Len(seqs[i])
    BY <2>3 DEF Ends
  <2>5. \A i \in 0 .. n : at[i] <= at[n + 1]
    <3> SUFFICES ASSUME NEW i \in 0 .. n PROVE at[i] <= at[n + 1]
      OBVIOUS
    <3>1. at[i] <= at[n] /\ at[i] \in Nat
      BY DEF Ends
    <3> QED
      BY <1>2, <3>1
  <2>6. ASSUME NEW i \in 0 .. n + 1, NEW j \in 0 .. n + 1, i <= j PROVE at[i] <= at[j]
    <3>1. CASE j = n + 1
      BY <3>1, <2>1, <2>2, <2>5
    <3>2. CASE j # n + 1
      <4>1. i \in 0 .. n /\ j \in 0 .. n
        BY <3>2, <2>6
      <4> QED
        BY <4>1, <2>6 DEF Ends
    <3> QED
      BY <3>1, <3>2
  <2>7. at[0] = 0
    BY DEF Ends
  <2> QED
    BY <2>2, <2>4, <2>6, <2>7 DEF Ends
<1>4. ASSUME NEW i \in 1 .. n + 1, NEW k \in 1 .. Len(seqs[i])
      PROVE  more[at[i - 1] + k] = seqs[i][k]
  <2>1. CASE i = n + 1
    BY <2>1, <1>1
  <2>2. CASE i # n + 1
    <3>1. i \in 1 .. n /\ i - 1 \in 0 .. n /\ i \in 0 .. n
      BY <2>2
    <3>2. flat[at[i - 1] + k] = seqs[i][k]
      BY <3>1 DEF Placed
    <3>3. at[i] = at[i - 1] + Len(seqs[i]) /\ at[i] <= at[n] /\ at[i - 1] \in Nat
      BY <3>1 DEF Ends
    <3>4. at[i - 1] + k \in 1 .. at[n]
      BY <1>2, <3>1, <3>3
    <3> QED
      BY <1>1, <3>2, <3>4
  <2> QED
    BY <2>1, <2>2
<1>5. ASSUME NEW j \in 1 .. at[n + 1]
      PROVE  \E i \in 1 .. n + 1 : \E k \in 1 .. Len(seqs[i]) : j = at[i - 1] + k
  <2>1. CASE j <= at[n]
    <3>1. j \in 1 .. at[n]
      BY <1>2, <2>1
    <3>2. \E i \in 1 .. n : \E k \in 1 .. Len(seqs[i]) : j = at[i - 1] + k
      BY <3>1 DEF Placed
    <3>3. 1 .. n \subseteq 1 .. n + 1
      OBVIOUS
    <3> QED
      BY <3>2, <3>3
  <2>2. CASE ~ (j <= at[n])
    <3>1. j - at[n] \in 1 .. last /\ j = at[n] + (j - at[n])
      BY <1>2, <2>2
    <3>2. n + 1 \in 1 .. n + 1 /\ (n + 1) - 1 = n
      OBVIOUS
    <3> QED
      BY <3>1, <3>2
  <2> QED
    BY <2>1, <2>2
<1>6. Placed(more, at, seqs, n + 1)
  BY <1>1, <1>4, <1>5 DEF Placed
<1> QED
  BY <1>3, <1>6 DEF more

LEMMA FlattenedIs ==
  ASSUME NEW seqs, IsSequence(seqs), \A i \in 1 .. Len(seqs) : IsSequence(seqs[i])
  PROVE  \E at : Ends(at, seqs, Len(seqs)) /\ Placed(FlattenSeq(seqs), at, seqs, Len(seqs))
<1>1. PICK f : /\ f[0] = <<>> /\ f[Len(seqs)] = FlattenSeq(seqs)
               /\ \A i \in 1 .. Len(seqs) : f[i] = f[i - 1] \o seqs[i]
  BY FlattenSeqIs
<1> DEFINE N == Len(seqs)
           at == [i \in 0 .. N |-> Len(f[i])]
           S == {i \in 0 .. N : Ends(at, seqs, i) /\ Placed(f[i], at, seqs, i)}
<1>2. N \in Nat
  BY SequenceIs
<1>3. \A i \in 0 .. N : at[i] = Len(f[i])
  OBVIOUS
<1>4. 0 \in S
  <2>1. at[0] = 0 /\ Len(f[0]) = 0
    BY <1>1, <1>2
  <2>2. IsSequence(f[0])
    BY <1>1, EmptySeq DEF IsSequence
  <2> HIDE DEF at
  <2>3. Ends(at, seqs, 0)
    BY <2>1 DEF Ends
  <2>4. Placed(f[0], at, seqs, 0)
    BY <2>1, <2>2 DEF Placed
  <2> QED
    BY <1>2, <2>3, <2>4
<1> HIDE DEF at
<1>5. ASSUME NEW i \in 0 .. N - 1, i \in S PROVE i + 1 \in S
  <2>1. i \in Nat /\ i + 1 \in 1 .. N /\ i + 1 \in 0 .. N /\ (i + 1) - 1 = i
    BY <1>2
  <2>2. f[i + 1] = f[i] \o seqs[i + 1]
    BY <1>1, <2>1
  <2>3. IsSequence(seqs[i + 1]) /\ IsSequence(f[i]) /\ Len(f[i]) = at[i]
    BY <1>5, <2>1 DEF Placed
  <2>4. at[i + 1] = at[i] + Len(seqs[i + 1])
    <3>1. at[i + 1] = Len(f[i + 1])
      BY <1>3, <2>1
    <3>2. Len(f[i] \o seqs[i + 1]) = at[i] + Len(seqs[i + 1])
      BY <2>3, JoinLen
    <3> QED
      BY <3>1, <3>2, <2>2, <2>3
  <2>5. \A k \in 1 .. i : Len(seqs[k]) \in Nat
    BY <1>2, <2>1, SequenceIs
  <2>6. Ends(at, seqs, i + 1) /\ Placed(f[i] \o seqs[i + 1], at, seqs, i + 1)
    BY <1>5, <2>1, <2>3, <2>4, <2>5, PlacedNext
  <2> QED
    BY <2>1, <2>2, <2>6
<1> HIDE DEF S
<1>6. N \in S
  <2> HIDE DEF N
  <2>1. 0 .. N \subseteq S
    BY <1>2, <1>4, <1>5, InductUpTo
  <2> QED
    BY <1>2, <2>1
<1> QED
  BY <1>1, <1>6 DEF S

-----------------------------------------------------------------------------
(* Names.  A table of names is good when every reference has one name and  *)
(* a name with a digest stands for the reference of the digest.            *)
GoodNames(names) ==
  /\ \A m, n \in DOMAIN names : names[m] = names[n] => m = n
  /\ \A n \in DOMAIN names : n.digest # {} => n.digest = {names[n]}
Widens(names, more) ==
  /\ DOMAIN names \subseteq DOMAIN more
  /\ \A n \in DOMAIN names : more[n] = names[n]

LEMMA NameIsNew ==
  ASSUME NEW names, GoodNames(names), NEW ref, ref \notin Range(names)
  PROVE  /\ build_internal_mcp_tool_name(ref, names) \notin DOMAIN names
         /\ LET n == build_internal_mcp_tool_name(ref, names) IN n.digest # {} => n.digest = {ref}
<1> DEFINE base == sanitize_internal_tool_name(HostedPrefix \o ref.server \o <<"_", "_">> \o ref.tool)
           free == Plain(base) \in DOMAIN names => names[Plain(base)] = ref
           new == build_internal_mcp_tool_name(ref, names)
<1>1. \A n \in DOMAIN names : names[n] # ref
  BY DEF Range
<1>2. new = IF free THEN Plain(base) ELSE [text |-> Cut(base, MaxToolNameLen - 1), digest |-> {ref}]
  BY DEF build_internal_mcp_tool_name
<1> HIDE DEF base, new
<1>3. CASE free
  <2>1. new = Plain(base) /\ Plain(base) \notin DOMAIN names
    BY <1>1, <1>2, <1>3
  <2>2. Plain(base).digest = {}
    BY DEF Plain
  <2> QED
    BY <2>1, <2>2 DEF new
<1>4. CASE ~ free
  <2>1. new.digest = {ref}
    BY <1>2, <1>4
  <2>2. new \notin DOMAIN names
    BY <2>1, <1>1 DEF GoodNames
  <2> QED
    BY <2>1, <2>2 DEF new
<1> QED
  BY <1>3, <1>4

LEMMA Registered ==
  ASSUME NEW names, GoodNames(names), NEW ref, NEW more,
         more = register_internal_mcp_tool_name(names, ref)
  PROVE  /\ GoodNames(more) /\ Widens(names, more)
         /\ ref \in Range(more) /\ Range(more) \subseteq Range(names) \cup {ref}
<1>1. CASE ref \in Range(names)
  BY <1>1 DEF register_internal_mcp_tool_name, Widens
<1>2. CASE ref \notin Range(names)
  <2> DEFINE new == build_internal_mcp_tool_name(ref, names)
  <2>1. new \notin DOMAIN names /\ (new.digest # {} => new.digest = {ref})
    BY <1>2, NameIsNew
  <2>2. more = [n \in DOMAIN names \cup {new} |-> IF n = new THEN ref ELSE names[n]]
    BY <1>2 DEF register_internal_mcp_tool_name
  <2> HIDE DEF new
  <2>3. /\ DOMAIN more = DOMAIN names \cup {new} /\ more[new] = ref
        /\ \A n \in DOMAIN names : more[n] = names[n]
    BY <2>1, <2>2
  <2>4. \A n \in DOMAIN names : names[n] # ref
    BY <1>2 DEF Range
  <2>5. GoodNames(more)
    BY <2>1, <2>3, <2>4 DEF GoodNames
  <2>6. ref \in Range(more) /\ Range(more) \subseteq Range(names) \cup {ref}
    BY <2>3 DEF Range
  <2> QED
    BY <2>3, <2>5, <2>6 DEF Widens
<1> QED
  BY <1>1, <1>2

(* RegisterAll goes through RefOrder.                                      *)
Go(names, pairs, mode, n, before) ==
  IF RefOrder[n] \in pairs
  THEN register_internal_mcp_tool_name(before, McpToolRef(RefOrder[n], mode[RefOrder[n][1]]))
  ELSE before
RegisteredUpTo(f, names, pairs, mode, n) ==
  f = [i \in 0 .. n |-> IF i = 0 THEN names ELSE Go(names, pairs, mode, i, f[i - 1])]

LEMMA RegisteredExists ==
  ASSUME NEW names, NEW pairs, NEW mode, NEW n \in Nat
  PROVE  \E f : RegisteredUpTo(f, names, pairs, mode, n)
<1> DEFINE S == {m \in Nat : \E f : RegisteredUpTo(f, names, pairs, mode, m)}
<1>1. 0 \in S
  <2> DEFINE f == [i \in 0 .. 0 |-> names]
  <2>1. RegisteredUpTo(f, names, pairs, mode, 0)
    BY DEF RegisteredUpTo
  <2> QED
    BY <2>1
<1>2. ASSUME NEW m \in Nat, m \in S
      PROVE  m + 1 \in S
  <2>1. PICK f : RegisteredUpTo(f, names, pairs, mode, m)
    BY <1>2
  <2> DEFINE g == [i \in 0 .. m + 1 |-> IF i = m + 1 THEN Go(names, pairs, mode, m + 1, f[m]) ELSE f[i]]
  <2>2. /\ DOMAIN g = 0 .. m + 1
        /\ g = [i \in DOMAIN g |-> g[i]]
        /\ g[m + 1] = Go(names, pairs, mode, m + 1, f[m]) /\ \A i \in 0 .. m : g[i] = f[i]
    OBVIOUS
  <2>3. \A i \in 0 .. m : f[i] = IF i = 0 THEN names ELSE Go(names, pairs, mode, i, f[i - 1])
    BY <2>1 DEF RegisteredUpTo
  <2> HIDE DEF g
  <2>4. ASSUME NEW i \in 0 .. m + 1
        PROVE  g[i] = IF i = 0 THEN names ELSE Go(names, pairs, mode, i, g[i - 1])
    <3>1. CASE i = m + 1
      BY <3>1, <2>2
    <3>2. CASE i # m + 1
      <4>1. i \in 0 .. m /\ (i # 0 => i - 1 \in 0 .. m)
        BY <3>2
      <4> QED
        BY <4>1, <2>2, <2>3
    <3> QED
      BY <3>1, <3>2
  <2>5. RegisteredUpTo(g, names, pairs, mode, m + 1)
    BY <2>2, <2>4 DEF RegisteredUpTo
  <2> QED
    BY <2>5
<1> HIDE DEF S
<1>3. n \in S
  BY <1>1, <1>2, InductUpTo
<1> QED
  BY <1>3 DEF S

LEMMA RegisterAllIs ==
  ASSUME NEW names, NEW pairs, NEW mode
  PROVE  \E f : /\ f[0] = names /\ RegisterAll(names, pairs, mode) = f[Len(RefOrder)]
                /\ \A i \in 1 .. Len(RefOrder) : f[i] = Go(names, pairs, mode, i, f[i - 1])
<1> DEFINE n == Len(RefOrder)
           f == CHOOSE g : RegisteredUpTo(g, names, pairs, mode, n)
<1>1. n \in Nat
  BY NamesAssumption, LenProperties
<1>2. RegisteredUpTo(f, names, pairs, mode, n)
  BY <1>1, RegisteredExists
<1>3. RegisterAll(names, pairs, mode) = f[n]
  BY DEF RegisterAll, RegisteredUpTo, Go
<1> HIDE DEF f
<1>4. \A i \in 0 .. n : f[i] = IF i = 0 THEN names ELSE Go(names, pairs, mode, i, f[i - 1])
  BY <1>2 DEF RegisteredUpTo
<1> QED
  BY <1>1, <1>3, <1>4

LEMMA AllRegistered ==
  ASSUME NEW names, GoodNames(names), NEW pairs, NEW mode,
         NEW more, more = RegisterAll(names, pairs, mode)
  PROVE  /\ GoodNames(more) /\ Widens(names, more)
         /\ \A p \in pairs \cap Range(RefOrder) : McpToolRef(p, mode[p[1]]) \in Range(more)
         /\ \A ref \in Range(more) \ Range(names) :
              \E p \in pairs \cap Range(RefOrder) : ref = McpToolRef(p, mode[p[1]])
<1>1. PICK f : /\ f[0] = names /\ more = f[Len(RefOrder)]
               /\ \A i \in 1 .. Len(RefOrder) : f[i] = Go(names, pairs, mode, i, f[i - 1])
  BY RegisterAllIs
<1> DEFINE N == Len(RefOrder)
           Good(g, i) ==
             /\ GoodNames(g) /\ Widens(names, g)
             /\ \A k \in 1 .. i : RefOrder[k] \in pairs =>
                  McpToolRef(RefOrder[k], mode[RefOrder[k][1]]) \in Range(g)
             /\ \A ref \in Range(g) \ Range(names) :
                  \E p \in pairs \cap Range(RefOrder) : ref = McpToolRef(p, mode[p[1]])
           S == {i \in 0 .. N : Good(f[i], i)}
<1>2. N \in Nat /\ DOMAIN RefOrder = 1 .. N
  BY NamesAssumption, LenProperties
<1>3. 0 \in S
  BY <1>1, <1>2 DEF Widens
<1>4. ASSUME NEW i \in 0 .. N - 1, i \in S
      PROVE  i + 1 \in S
  <2> DEFINE p == RefOrder[i + 1]
             ref == McpToolRef(p, mode[p[1]])
  <2>1. i + 1 \in 1 .. N /\ (i + 1) - 1 = i /\ Good(f[i], i)
    BY <1>2, <1>4
  <2>2. f[i + 1] = Go(names, pairs, mode, i + 1, f[i])
    BY <1>1, <2>1
  <2>3. p \in Range(RefOrder)
    BY <1>2, <2>1 DEF Range
  <2>4. \A k \in 1 .. i + 1 : k \in 1 .. i \/ k = i + 1
    BY <1>2
  <2>5. CASE p \in pairs
    <3>1. f[i + 1] = register_internal_mcp_tool_name(f[i], ref)
      BY <2>2, <2>5 DEF Go
    <3>2. /\ GoodNames(f[i + 1]) /\ Widens(f[i], f[i + 1])
          /\ ref \in Range(f[i + 1]) /\ Range(f[i + 1]) \subseteq Range(f[i]) \cup {ref}
      BY <2>1, <3>1, Registered
    <3>3. Widens(names, f[i + 1]) /\ Range(f[i]) \subseteq Range(f[i + 1])
      BY <2>1, <3>2 DEF Widens, Range
    <3>4. \A k \in 1 .. i + 1 : RefOrder[k] \in pairs =>
            McpToolRef(RefOrder[k], mode[RefOrder[k][1]]) \in Range(f[i + 1])
      BY <2>1, <2>4, <3>2, <3>3
    <3>5. \A r \in Range(f[i + 1]) \ Range(names) :
            \E q \in pairs \cap Range(RefOrder) : r = McpToolRef(q, mode[q[1]])
      BY <2>1, <2>3, <2>5, <3>2
    <3> QED
      BY <2>1, <3>2, <3>3, <3>4, <3>5
  <2>6. CASE p \notin pairs
    <3>1. f[i + 1] = f[i]
      BY <2>2, <2>6 DEF Go
    <3> QED
      BY <2>1, <2>4, <2>6, <3>1
  <2> QED
    BY <2>5, <2>6
<1> HIDE DEF S
<1>5. N \in S
  <2>1. \A i \in 0 .. N - 1 : i \in S => i + 1 \in S
    BY <1>4
  <2> HIDE DEF N
  <2>2. 0 .. N \subseteq S
    BY <1>2, <1>3, <2>1, InductUpTo
  <2> QED
    BY <1>2, <2>2
<1>6. Good(more, N)
  BY <1>1, <1>5 DEF S
<1>7. \A p \in pairs \cap Range(RefOrder) : McpToolRef(p, mode[p[1]]) \in Range(more)
  <2> SUFFICES ASSUME NEW p \in pairs \cap Range(RefOrder)
               PROVE  McpToolRef(p, mode[p[1]]) \in Range(more)
    OBVIOUS
  <2>1. PICK k \in 1 .. N : RefOrder[k] = p
    BY <1>2 DEF Range
  <2> QED
    BY <1>6, <2>1
<1> QED
  BY <1>6, <1>7

(* The name of a reference.                                                *)
LEMMA NameOfIs ==
  ASSUME NEW names, NEW ref, ref \in Range(names)
  PROVE  NameOf(ref, names) \in DOMAIN names /\ names[NameOf(ref, names)] = ref
BY DEF NameOf, Range

LEMMA NoNames == GoodNames(<<>>) /\ Range(<<>>) = {}
<1>1. DOMAIN <<>> = {}
  OBVIOUS
<1> QED
  BY <1>1 DEF GoodNames, Range

-----------------------------------------------------------------------------
RequestFields == {"input", "tools", "tool_choice", "instructions", "harmony", "format", "upstream"}

(* What was converted is what the request says, and the request is not one *)
(* that is refused.                                                        *)
ConvertedInv == Converted => settings = as_run_settings(request) /\ ~ IsRefused(request)
ChoiceInv == DOMAIN request = RequestFields /\ AskedWell(request.tools, request.tool_choice)

LEMMA PendingIsNot == ~ (Pending.phase = "ready") /\ ~ (Refused.phase = "ready")
BY DEF Pending, Refused

LEMMA TheFields ==
  ASSUME NEW req
  PROVE  /\ as_run_settings(req).history = History(req.input, Reserve(req.input))
         /\ as_run_settings(req).offered = Choose(req.tool_choice, ProcessTools(req.tools))
         /\ as_run_settings(req).names =
              build_mcp_toolset_for_request(Choose(req.tool_choice, ProcessTools(req.tools)),
                                            req.tools, Reserve(req.input))
         /\ as_run_settings(req).upstream = IF req.upstream = "responses"
                                            THEN as_openai_responses_settings(req)
                                            ELSE as_openai_chat_settings(req)
BY DEF as_run_settings

LEMMA ConvertedInit == SettingsInit => ConvertedInv /\ ChoiceInv
BY PendingIsNot, RequestsAssumption DEF SettingsInit, ConvertedInv, Converted, ChoiceInv, RequestFields

LEMMA ConvertedStep == ConvertedInv /\ [SettingsNext]_settingsVars => ConvertedInv'
<1> SUFFICES ASSUME ConvertedInv, [SettingsNext]_settingsVars PROVE ConvertedInv'
  OBVIOUS
<1>1. CASE Convert
  <2>1. request' = request /\ settings' = IF IsRefused(request) THEN Refused ELSE as_run_settings(request)
    BY <1>1 DEF Convert
  <2> QED
    BY <2>1, PendingIsNot DEF ConvertedInv, Converted
<1>2. ASSUME NEW n, ModelCalls(n) PROVE ConvertedInv'
  BY <1>2, PendingIsNot DEF ModelCalls, ConvertedInv, Converted
<1>3. CASE UNCHANGED settingsVars
  BY <1>3 DEF settingsVars, ConvertedInv, Converted
<1> QED
  BY <1>1, <1>2, <1>3 DEF SettingsNext

LEMMA ChoiceStep == ChoiceInv /\ [SettingsNext]_settingsVars => ChoiceInv'
<1> SUFFICES ASSUME ChoiceInv, [SettingsNext]_settingsVars PROVE ChoiceInv'
  OBVIOUS
<1>1. CASE UNCHANGED request
  BY <1>1 DEF ChoiceInv
<1>2. ASSUME NEW n, ModelCalls(n) PROVE ChoiceInv'
  <2> DEFINE input == request.input \o Answer(CallItem(n, settings, request, -turn))
  <2>1. PICK o \in Offers :
          request' = [request EXCEPT !.input = input, !.tools = o.tools, !.tool_choice = o.tool_choice]
    BY <1>2, Zenon DEF ModelCalls
  <2> HIDE DEF input
  <2>2. DOMAIN request' = RequestFields /\ request'.tools = o.tools /\ request'.tool_choice = o.tool_choice
    BY <2>1 DEF ChoiceInv, RequestFields
  <2> QED
    BY <2>2, RequestsAssumption DEF ChoiceInv
<1> QED
  BY <1>1, <1>2 DEF SettingsNext, Convert, settingsVars

-----------------------------------------------------------------------------
(* The upstream.                                                           *)
LEMMA FormatField ==
  ASSUME NEW choice, NEW format PROVE [tool_choice |-> choice, format |-> format].format = format
OBVIOUS

LEMMA UpstreamSettings ==
  ASSUME NEW req, ~ IsRefused(req), NEW u, u = as_run_settings(req).upstream
  PROVE  /\ u.tool_choice # <<>> =>
              /\ Forced(req.tool_choice)
              /\ (_has_effective_custom_function_tools(req) => ~ u.format /\ ~ req.harmony)
         /\ u.tool_choice \notin {<<>>, <<"required">>} =>
              u.tool_choice \in as_run_settings(req).offered.deferred
         /\ req.format => u.format
<1> DEFINE c == req.tool_choice
<1>1. CASE req.upstream = "responses"
  <2>1. u.tool_choice = _as_openai_responses_transport_tool_choice(req)
        /\ (u.format <=> req.format /\ ~ _is_non_auto_custom_function_tool_choice(req))
    <3>1. u = as_openai_responses_settings(req)
      BY <1>1, TheFields
    <3>2. u.tool_choice = _as_openai_responses_transport_tool_choice(req)
      BY <3>1 DEF as_openai_responses_settings
    <3>3. u.format = (req.format /\ ~ _is_non_auto_custom_function_tool_choice(req))
      <4>1. u = [tool_choice |-> _as_openai_responses_transport_tool_choice(req),
                 format |-> req.format /\ ~ _is_non_auto_custom_function_tool_choice(req)]
        BY <3>1, Zenon DEF as_openai_responses_settings
      <4> QED
        BY <4>1, FormatField, Zenon
    <3> QED
      BY <3>2, <3>3
  <2>2. _is_non_auto_custom_function_tool_choice(req) => ~ req.harmony /\ ~ req.format
    BY <1>1, Zenon DEF IsRefused, as_openai_responses_settings_fails
  <2>3. CASE c.type = "function"
    <3>1. u.tool_choice \in {<<>>, c.name}
      BY <2>1, <2>3 DEF _as_openai_responses_transport_tool_choice
    <3>2. Forced(c)
      BY <2>3 DEF Forced
    <3>3. Choose(c, ProcessTools(req.tools)) = [NoTools EXCEPT !.deferred = {c.name}]
      BY <2>3, Zenon DEF Choose
    <3>4. as_run_settings(req).offered.deferred = {c.name}
      BY <3>3, TheFields DEF NoTools
    <3>5. _has_effective_custom_function_tools(req) => _is_non_auto_custom_function_tool_choice(req)
      BY <2>3 DEF _is_non_auto_custom_function_tool_choice
    <3> QED
      BY <2>1, <2>2, <3>1, <3>2, <3>4, <3>5
  <2>4. CASE c.type # "function"
    <3>1. u.tool_choice \in {<<>>, <<"required">>}
      BY <2>1, <2>4 DEF _as_openai_responses_transport_tool_choice
    <3>2. u.tool_choice # <<>> =>
            \/ c.type = "required"
            \/ /\ c.type = "allowed_tools" /\ c.mode = "required"
               /\ \E e \in c.tools : e.type = "function"
      BY <2>1, <2>4 DEF _as_openai_responses_transport_tool_choice
    <3>3. u.tool_choice # <<>> =>
            Forced(c) /\ (_has_effective_custom_function_tools(req) =>
                            _is_non_auto_custom_function_tool_choice(req))
      BY <3>2 DEF Forced, _is_non_auto_custom_function_tool_choice
    <3> QED
      BY <2>1, <2>2, <3>1, <3>3
  <2> QED
    BY <2>3, <2>4
<1>2. CASE req.upstream # "responses"
  <2>1. u = as_openai_chat_settings(req)
    BY <1>2, TheFields
  <2>2. u.tool_choice = <<>> /\ u.format = req.format
    BY <2>1 DEF as_openai_chat_settings
  <2> QED
    BY <2>2
<1> QED
  BY <1>1, <1>2

(* Whatever a request declares and chooses: what is forced on the upstream *)
(* is what the choice forces and the model is offered, and no text format  *)
(* is lost (UpstreamAgrees).                                               *)
THEOREM TheUpstreamIsToldTheSame == SettingsSpec => []UpstreamAgrees
<1>1. ConvertedInv => UpstreamAgrees
  <2> SUFFICES ASSUME ConvertedInv, Converted
               PROVE  LET u == settings.upstream
                      IN /\ u.tool_choice # <<>> => /\ Forced(request.tool_choice)
                              /\ (_has_effective_custom_function_tools(request) => ~u.format /\ ~request.harmony)
                         /\ u.tool_choice \notin {<<>>, <<"required">>} => u.tool_choice \in settings.offered.deferred
                         /\ request.format => u.format
    BY DEF UpstreamAgrees
  <2>1. settings = as_run_settings(request) /\ ~ IsRefused(request)
    BY DEF ConvertedInv
  <2> QED
    BY <2>1, UpstreamSettings
<1> QED
  BY <1>1, ConvertedInit, ConvertedStep, PTL DEF SettingsSpec

-----------------------------------------------------------------------------
(* What each type of choice permits and selects.                           *)
Types == {"auto", "none", "required", "allowed_tools", "hosted", "function", "mcp"}

LEMMA CoversIs ==
  ASSUME NEW e, NEW l, NEW n
  PROVE  /\ Covers(e, "hosted", l, n) <=> e.type = "hosted" /\ Normal(e) = n
         /\ Covers(e, "function", l, n) <=> e.type = "function" /\ e.name = n
         /\ Covers(e, "mcp", l, n) <=> e.type = "mcp" /\ e.label = l /\ e.name \in {<<>>, n}
BY DEF Covers, Normal

LEMMA PermitsIs ==
  ASSUME NEW c, NEW type, NEW l, NEW n
  PROVE  /\ c.type \in {"auto", "required"} => Permits(c, type, l, n)
         /\ c.type = "none" => ~ Permits(c, type, l, n)
         /\ c.type = "allowed_tools" => (Permits(c, type, l, n) <=> \E e \in c.tools : Covers(e, type, l, n))
         /\ c.type \in {"hosted", "function", "mcp"} => (Permits(c, type, l, n) <=> Covers(c, type, l, n))
<1>1. c.type \in {"auto", "required"} => Permits(c, type, l, n)
  BY Zenon DEF Permits
<1>2. c.type = "none" => ~ Permits(c, type, l, n)
  BY Zenon DEF Permits
<1>3. c.type = "allowed_tools" => (Permits(c, type, l, n) <=> \E e \in c.tools : Covers(e, type, l, n))
  BY Zenon DEF Permits
<1>4. c.type \in {"hosted", "function", "mcp"} => (Permits(c, type, l, n) <=> Covers(c, type, l, n))
  BY Zenon DEF Permits
<1> QED
  BY <1>1, <1>2, <1>3, <1>4

LEMMA PresentIs ==
  ASSUME NEW c, NEW o, ~ IsAbsent(c, o)
  PROVE  /\ c.type = "hosted" => Normal(c) \in o.builtin
         /\ c.type = "function" => c.name \in o.deferred
         /\ c.type = "mcp" => c.label \in DOMAIN o.mcp /\ (c.name # <<>> => c.name \in o.mcp[c.label])
<1>1. c.type = "hosted" => Normal(c) \in o.builtin
  BY Zenon DEF IsAbsent
<1>2. c.type = "function" => c.name \in o.deferred
  BY Zenon DEF IsAbsent
<1>3. c.type = "mcp" => c.label \in DOMAIN o.mcp /\ (c.name # <<>> => c.name \in o.mcp[c.label])
  BY Zenon DEF IsAbsent
<1> QED
  BY <1>1, <1>2, <1>3

LEMMA GoodChoice ==
  ASSUME NEW c, NEW o, ~ ChoiceIsBad(c, o)
  PROVE  /\ c.type = "required" => Some(o)
         /\ c.type = "allowed_tools" =>
              /\ \A e \in c.tools : ~ IsAbsent(e, o)
              /\ c.mode = "required" => c.tools # {}
         /\ c.type \in {"hosted", "function", "mcp"} => ~ IsAbsent(c, o)
<1>1. c.type = "required" => Some(o)
  BY Zenon DEF ChoiceIsBad
<1>2. c.type = "allowed_tools" =>
              /\ \A e \in c.tools : ~ IsAbsent(e, o)
              /\ c.mode = "required" => c.tools # {}
  BY Zenon DEF ChoiceIsBad
<1>3. c.type \in {"hosted", "function", "mcp"} => ~ IsAbsent(c, o)
  BY Zenon DEF ChoiceIsBad
<1> QED
  BY <1>1, <1>2, <1>3

LEMMA ChosenIs ==
  ASSUME NEW c, NEW o
  PROVE  /\ c.type \in {"auto", "required"} => Choose(c, o) = o
         /\ c.type = "none" => Choose(c, o) = NoTools
         /\ c.type = "allowed_tools" => Choose(c, o) = _apply_allowed_tools_choice(c, o)
         /\ c.type = "hosted" => Choose(c, o) = [NoTools EXCEPT !.builtin = {Normal(c)}]
         /\ c.type = "function" => Choose(c, o) = [NoTools EXCEPT !.deferred = {c.name}]
<1>1. c.type \in {"auto", "required"} => Choose(c, o) = o
  BY Zenon DEF Choose
<1>2. c.type = "none" => Choose(c, o) = NoTools
  BY Zenon DEF Choose
<1>3. c.type = "allowed_tools" => Choose(c, o) = _apply_allowed_tools_choice(c, o)
  BY Zenon DEF Choose
<1>4. c.type = "hosted" => Choose(c, o) = [NoTools EXCEPT !.builtin = {Normal(c)}]
  BY Zenon DEF Choose
<1>5. c.type = "function" => Choose(c, o) = [NoTools EXCEPT !.deferred = {c.name}]
  BY Zenon DEF Choose
<1> QED
  BY <1>1, <1>2, <1>3, <1>4, <1>5

(* What is left of what was declared, part by part.                        *)
LEMMA LeftIs ==
  ASSUME NEW c, NEW o, c.type \in Types
  PROVE  /\ c.type \in {"auto", "required"} => Choose(c, o) = o
         /\ c.type = "none" => /\ Choose(c, o).builtin = {} /\ Choose(c, o).deferred = {}
                               /\ DOMAIN Choose(c, o).mcp = {}
         /\ c.type = "allowed_tools" =>
              /\ Choose(c, o).builtin = o.builtin \cap NamesOf(c.tools, "hosted")
              /\ Choose(c, o).deferred = o.deferred \cap NamesOf(c.tools, "function")
              /\ DOMAIN Choose(c, o).mcp = {e.label : e \in {f \in c.tools : f.type = "mcp"}}
              /\ \A l \in DOMAIN Choose(c, o).mcp : Choose(c, o).mcp[l] = AllowedOn(l, c.tools, o)
         /\ c.type = "hosted" => /\ Choose(c, o).builtin = {Normal(c)} /\ Choose(c, o).deferred = {}
                                 /\ DOMAIN Choose(c, o).mcp = {}
         /\ c.type = "function" => /\ Choose(c, o).builtin = {} /\ Choose(c, o).deferred = {c.name}
                                   /\ DOMAIN Choose(c, o).mcp = {}
         /\ c.type = "mcp" =>
              /\ Choose(c, o).builtin = {} /\ Choose(c, o).deferred = {}
              /\ DOMAIN Choose(c, o).mcp = {c.label}
              /\ Choose(c, o).mcp[c.label] = IF c.name = <<>> THEN o.mcp[c.label] ELSE {c.name}
<1> DEFINE chosen == Choose(c, o)
<1>0. DOMAIN <<>> = {}
  OBVIOUS
<1>1. CASE c.type \in {"auto", "required"}
  BY <1>1, ChosenIs
<1>2. CASE c.type = "none"
  <2>1. chosen = NoTools
    BY <1>2, ChosenIs
  <2> QED
    BY <1>0, <1>2, <2>1 DEF NoTools
<1>3. CASE c.type = "allowed_tools"
  <2>1. chosen = _apply_allowed_tools_choice(c, o)
    BY <1>3, ChosenIs
  <2> QED
    BY <1>3, <2>1 DEF _apply_allowed_tools_choice
<1>4. CASE c.type = "hosted"
  <2>1. chosen = [NoTools EXCEPT !.builtin = {Normal(c)}]
    BY <1>4, ChosenIs
  <2> QED
    BY <1>0, <1>4, <2>1 DEF NoTools
<1>5. CASE c.type = "function"
  <2>1. chosen = [NoTools EXCEPT !.deferred = {c.name}]
    BY <1>5, ChosenIs
  <2> QED
    BY <1>0, <1>5, <2>1 DEF NoTools
<1>6. CASE c.type = "mcp"
  <2> DEFINE only == [l \in {c.label} |-> IF c.name = <<>> THEN o.mcp[l] ELSE {c.name}]
  <2>1. DOMAIN only = {c.label} /\ only[c.label] = IF c.name = <<>> THEN o.mcp[c.label] ELSE {c.name}
    OBVIOUS
  <2>2. chosen = [NoTools EXCEPT !.mcp = only]
    <3>1. c.type = "mcp" => chosen = [NoTools EXCEPT !.mcp =
              [l \in {c.label} |-> IF c.name = <<>> THEN o.mcp[l] ELSE {c.name}]]
      BY Zenon DEF Choose
    <3> QED
      BY <1>6, <3>1
  <2> HIDE DEF only
  <2>3. chosen.builtin = {} /\ chosen.deferred = {} /\ chosen.mcp = only
    BY <2>2 DEF NoTools
  <2> QED
    BY <1>6, <2>1, <2>3
<1> QED
  BY <1>1, <1>2, <1>3, <1>4, <1>5, <1>6 DEF Types

LEMMA OfferedIsPermitted ==
  ASSUME NEW c, NEW o, c.type \in Types, ~ ChoiceIsBad(c, o)
  PROVE  /\ Choose(c, o).builtin = {n \in o.builtin : Permits(c, "hosted", <<>>, n)}
         /\ Choose(c, o).deferred = {n \in o.deferred : Permits(c, "function", <<>>, n)}
         /\ \A l \in DOMAIN o.mcp :
              {t \in o.mcp[l] : Permits(c, "mcp", l, t)} =
                IF l \in DOMAIN Choose(c, o).mcp THEN Choose(c, o).mcp[l] ELSE {}
         /\ \A l \in DOMAIN Choose(c, o).mcp : l \in DOMAIN o.mcp /\ Choose(c, o).mcp[l] \subseteq o.mcp[l]
<1> DEFINE chosen == Choose(c, o)
<1>1. CASE c.type \in {"auto", "required"}
  BY <1>1, LeftIs, PermitsIs
<1>2. CASE c.type = "none"
  BY <1>2, LeftIs, PermitsIs
<1>3. CASE c.type = "allowed_tools"
  <2>1. /\ chosen.builtin = o.builtin \cap NamesOf(c.tools, "hosted")
        /\ chosen.deferred = o.deferred \cap NamesOf(c.tools, "function")
        /\ DOMAIN chosen.mcp = {e.label : e \in {f \in c.tools : f.type = "mcp"}}
        /\ \A l \in DOMAIN chosen.mcp : chosen.mcp[l] = AllowedOn(l, c.tools, o)
    BY <1>3, LeftIs
  <2>2. \A e \in c.tools : ~ IsAbsent(e, o)
    BY <1>3, GoodChoice
  <2>3. \A type, l, n : Permits(c, type, l, n) <=> \E e \in c.tools : Covers(e, type, l, n)
    BY <1>3, PermitsIs
  <2>4. chosen.builtin = {n \in o.builtin : Permits(c, "hosted", <<>>, n)}
    BY <2>1, <2>3, CoversIs DEF NamesOf
  <2>5. chosen.deferred = {n \in o.deferred : Permits(c, "function", <<>>, n)}
    <3>1. \A e : e.type = "function" => Normal(e) = e.name
      BY DEF Normal
    <3> QED
      BY <2>1, <2>3, <3>1, CoversIs DEF NamesOf
  <2>6. \A l, t : Permits(c, "mcp", l, t) <=>
                   \E e \in c.tools : e.type = "mcp" /\ e.label = l /\ e.name \in {<<>>, t}
    BY <2>3, CoversIs
  <2>7. \A e \in c.tools : e.type = "mcp" =>
          e.label \in DOMAIN o.mcp /\ (e.name # <<>> => e.name \in o.mcp[e.label])
    BY <2>2, PresentIs
  <2>8. ASSUME NEW l \in DOMAIN o.mcp, l \in DOMAIN chosen.mcp
        PROVE  {t \in o.mcp[l] : Permits(c, "mcp", l, t)} = chosen.mcp[l]
    <3> DEFINE ours == {e \in c.tools : e.type = "mcp" /\ e.label = l}
    <3>1. chosen.mcp[l] = IF \E e \in ours : e.name = <<>> THEN o.mcp[l] ELSE {e.name : e \in ours}
      BY <2>1, <2>8 DEF AllowedOn
    <3>2. \A t : Permits(c, "mcp", l, t) <=> \E e \in ours : e.name \in {<<>>, t}
      BY <2>6
    <3>3. \A e \in ours : e.name # <<>> => e.name \in o.mcp[l]
      BY <2>7
    <3> QED
      BY <3>1, <3>2, <3>3
  <2>9. ASSUME NEW l \in DOMAIN o.mcp, l \notin DOMAIN chosen.mcp, NEW t
        PROVE  ~ Permits(c, "mcp", l, t)
    BY <2>1, <2>6, <2>9
  <2>10. \A l \in DOMAIN chosen.mcp : l \in DOMAIN o.mcp
    BY <2>1, <2>7
  <2> QED
    BY <2>4, <2>5, <2>8, <2>9, <2>10
<1>4. CASE c.type = "hosted"
  <2>1. Normal(c) \in o.builtin
    BY <1>4, GoodChoice, PresentIs
  <2>2. chosen.builtin = {Normal(c)} /\ chosen.deferred = {} /\ DOMAIN chosen.mcp = {}
    BY <1>4, LeftIs
  <2>3. \A l, n : /\ Permits(c, "hosted", l, n) <=> Normal(c) = n
                  /\ ~ Permits(c, "function", l, n) /\ ~ Permits(c, "mcp", l, n)
    BY <1>4, PermitsIs, CoversIs
  <2> QED
    BY <2>1, <2>2, <2>3
<1>5. CASE c.type = "function"
  <2>1. c.name \in o.deferred
    BY <1>5, GoodChoice, PresentIs
  <2>2. chosen.builtin = {} /\ chosen.deferred = {c.name} /\ DOMAIN chosen.mcp = {}
    BY <1>5, LeftIs
  <2>3. \A l, n : /\ Permits(c, "function", l, n) <=> c.name = n
                  /\ ~ Permits(c, "hosted", l, n) /\ ~ Permits(c, "mcp", l, n)
    BY <1>5, PermitsIs, CoversIs
  <2> QED
    BY <2>1, <2>2, <2>3
<1>6. CASE c.type = "mcp"
  <2>1. c.label \in DOMAIN o.mcp /\ (c.name # <<>> => c.name \in o.mcp[c.label])
    BY <1>6, GoodChoice, PresentIs
  <2>2. /\ chosen.builtin = {} /\ chosen.deferred = {} /\ DOMAIN chosen.mcp = {c.label}
        /\ chosen.mcp[c.label] = IF c.name = <<>> THEN o.mcp[c.label] ELSE {c.name}
    BY <1>6, LeftIs
  <2>3. \A l, n : /\ Permits(c, "mcp", l, n) <=> c.label = l /\ c.name \in {<<>>, n}
                  /\ ~ Permits(c, "hosted", l, n) /\ ~ Permits(c, "function", l, n)
    BY <1>6, PermitsIs, CoversIs
  <2> QED
    BY <2>1, <2>2, <2>3
<1> QED
  BY <1>1, <1>2, <1>3, <1>4, <1>5, <1>6 DEF Types

-----------------------------------------------------------------------------
LEMMA FunctionIsSeq ==
  ASSUME NEW n \in Nat, NEW S, NEW s \in [1 .. n -> S]
  PROVE  s \in Seq(S) /\ Len(s) = n
OBVIOUS

LEMMA OneIsSeq ==
  ASSUME NEW S, NEW x \in S
  PROVE  <<x>> \in Seq(S) /\ Len(<<x>>) = 1 /\ <<x>>[1] = x
OBVIOUS

(* A forced choice says so in one instruction more.                        *)
LEMMA ForcedSaysSo ==
  ASSUME NEW c, c.type \in Types
  PROVE  IF Forced(c) THEN \E word : _build_required_tool_choice_instruction(c) = <<word>>
         ELSE _build_required_tool_choice_instruction(c) = <<>>
<1>1. CASE c.type = "required"
  <2>1. _build_required_tool_choice_instruction(c) = <<"any">>
    BY <1>1, Zenon DEF _build_required_tool_choice_instruction
  <2> QED
    BY <1>1, <2>1 DEF Forced
<1>2. CASE c.type = "allowed_tools"
  <2>1. _build_required_tool_choice_instruction(c) =
          IF c.mode = "required" THEN <<"allowed">> ELSE <<>>
    BY <1>2, Zenon DEF _build_required_tool_choice_instruction
  <2> QED
    BY <1>2, <2>1 DEF Forced
<1>3. CASE c.type \in {"hosted", "function", "mcp"}
  <2>1. _build_required_tool_choice_instruction(c) = <<c.type>>
    BY <1>3, Zenon DEF _build_required_tool_choice_instruction
  <2> QED
    BY <1>3, <2>1 DEF Forced
<1>4. CASE c.type \in {"auto", "none"}
  <2>1. _build_required_tool_choice_instruction(c) = <<>>
    BY <1>4, Zenon DEF _build_required_tool_choice_instruction
  <2> QED
    BY <1>4, <2>1 DEF Forced
<1> QED
  BY <1>1, <1>2, <1>3, <1>4 DEF Types

LEMMA ForcedIsTold ==
  ASSUME NEW req, DOMAIN req = RequestFields, req.tool_choice.type \in Types,
         IsFiniteSet(DOMAIN req.input)
  PROVE  Forced(req.tool_choice) <=>
           Len(Instructions(req)) >
             Len(Instructions([req EXCEPT !.tool_choice = [type |-> "auto"]]))
<1> DEFINE Words == {"instructions", "input"}
           auto == [req EXCEPT !.tool_choice = [type |-> "auto"]]
           systems == {j \in DOMAIN req.input : IsSystem(req.input[j])}
           own == IF req.instructions THEN <<"instructions">> ELSE <<>>
           system == [i \in 1 .. Cardinality(systems) |-> "input"]
           both == own \o system
           c == req.tool_choice
           built == _build_required_tool_choice_instruction(c)
<1>1. auto.instructions = req.instructions /\ auto.input = req.input /\ auto.tool_choice = [type |-> "auto"]
  BY DEF RequestFields
<1>2. Cardinality(systems) \in Nat
  <2>1. IsFiniteSet(systems)
    BY FS_Subset
  <2> QED
    BY <2>1, FS_CardinalityType
<1>3. own \in Seq(Words)
  <2>1. <<>> \in Seq(Words)
    BY EmptySeq
  <2>2. "instructions" \in Words
    OBVIOUS
  <2> HIDE DEF Words
  <2>3. <<"instructions">> \in Seq(Words)
    BY <2>2, OneIsSeq
  <2> QED
    BY <2>1, <2>3
<1>4. system \in Seq(Words)
  <2>1. "input" \in Words
    OBVIOUS
  <2>2. system \in [1 .. Cardinality(systems) -> Words]
    BY <2>1
  <2> HIDE DEF system
  <2> QED
    BY <1>2, <2>2, FunctionIsSeq
<1>5. both \in Seq(Words)
  <2> HIDE DEF own, system
  <2> QED
    BY <1>3, <1>4
<1>6. Instructions(req) = both \o built
  BY DEF Instructions
<1>7. Instructions(auto) = both \o _build_required_tool_choice_instruction([type |-> "auto"])
  <2> HIDE DEF auto
  <2> QED
    BY <1>1 DEF Instructions
<1>8. _build_required_tool_choice_instruction([type |-> "auto"]) = <<>>
  <2> DEFINE plain == [type |-> "auto"]
  <2>1. plain.type = "auto"
    OBVIOUS
  <2> HIDE DEF plain
  <2>2. _build_required_tool_choice_instruction(plain) = <<>>
    BY <2>1, Zenon DEF _build_required_tool_choice_instruction
  <2> QED
    BY <2>2 DEF plain
<1> HIDE DEF auto, both, built
<1>9. Len(Instructions(auto)) = Len(both) /\ Len(both) \in Nat
  BY <1>5, <1>7, <1>8
<1>10. CASE Forced(c)
  <2>1. PICK word : built = <<word>>
    BY <1>10, ForcedSaysSo DEF built
  <2>2. Len(Instructions(req)) = Len(both) + 1
    <3> DEFINE X == Words \cup {word}
    <3>1. both \in Seq(X) /\ built \in Seq(X) /\ Len(built) = 1
      BY <1>5, <2>1, OneIsSeq, SeqMonotonic
    <3> HIDE DEF X
    <3> QED
      BY <1>6, <3>1, ConcatProperties
  <2> QED
    BY <1>9, <1>10, <2>2 DEF auto
<1>11. CASE ~ Forced(c)
  <2>1. built = <<>>
    BY <1>11, ForcedSaysSo DEF built
  <2>2. Len(Instructions(req)) = Len(both)
    BY <1>5, <1>6, <2>1
  <2> QED
    BY <1>9, <1>11, <2>2 DEF auto
<1> QED
  BY <1>10, <1>11

(* What a declaration stands for, when it is not refused.                  *)
LEMMA DeclaredIs ==
  ASSUME NEW tools
  PROVE  /\ DOMAIN ProcessTools(tools).mcp = {d.label : d \in Of(tools, "mcp")}
         /\ \A l \in DOMAIN ProcessTools(tools).mcp : \E d \in Of(tools, "mcp") :
              d.label = l /\ ProcessTools(tools).mcp[l] = Listed(d)
<1> DEFINE labels == {d.label : d \in Of(tools, "mcp")}
           mine(l) == CHOOSE d \in Of(tools, "mcp") : d.label = l
<1>1. ProcessTools(tools).mcp = [l \in labels |-> Listed(mine(l))]
  BY DEF ProcessTools
<1>2. \A l \in labels : mine(l) \in Of(tools, "mcp") /\ mine(l).label = l
  OBVIOUS
<1> HIDE DEF mine
<1> QED
  BY <1>1, <1>2

LEMMA AskedIs ==
  ASSUME NEW tools, NEW c, AskedWell(tools, c)
  PROVE  /\ c.type \in Types
         /\ c.type = "allowed_tools" => \A e \in c.tools : e.type \in {"hosted", "function", "mcp"}
BY DEF AskedWell, Types

LEMMA ForcedLeavesOne ==
  ASSUME NEW c, NEW o, c.type \in Types, ~ ChoiceIsBad(c, o), Forced(c),
         c.type = "allowed_tools" => \A e \in c.tools : e.type \in {"hosted", "function", "mcp"},
         \A l \in DOMAIN o.mcp : o.mcp[l] # {}
  PROVE  \/ Choose(c, o).builtin # {} \/ Choose(c, o).deferred # {}
         \/ \E l \in DOMAIN Choose(c, o).mcp : Choose(c, o).mcp[l] # {}
<1> DEFINE chosen == Choose(c, o)
<1>1. CASE c.type = "required"
  <2>1. Some(o)
    BY <1>1, GoodChoice
  <2>2. chosen = o
    BY <1>1, LeftIs
  <2> QED
    BY <2>1, <2>2 DEF Some
<1>2. CASE c.type = "allowed_tools"
  <2>1. c.tools # {} /\ \A e \in c.tools : ~ IsAbsent(e, o)
    BY <1>2, GoodChoice DEF Forced
  <2>2. PICK e \in c.tools : ~ IsAbsent(e, o)
    BY <2>1
  <2>3. /\ chosen.builtin = o.builtin \cap NamesOf(c.tools, "hosted")
        /\ chosen.deferred = o.deferred \cap NamesOf(c.tools, "function")
        /\ DOMAIN chosen.mcp = {f.label : f \in {g \in c.tools : g.type = "mcp"}}
        /\ \A l \in DOMAIN chosen.mcp : chosen.mcp[l] = AllowedOn(l, c.tools, o)
    BY <1>2, LeftIs
  <2>4. CASE e.type = "hosted"
    <3>1. Normal(e) \in o.builtin
      BY <2>2, <2>4, PresentIs
    <3> QED
      BY <2>3, <2>4, <3>1 DEF NamesOf
  <2>5. CASE e.type = "function"
    <3>1. e.name \in o.deferred /\ Normal(e) = e.name
      BY <2>2, <2>5, PresentIs DEF Normal
    <3>2. e.name \in NamesOf(c.tools, "function")
      BY <2>5, <3>1 DEF NamesOf
    <3> QED
      BY <2>3, <3>1, <3>2
  <2>6. CASE e.type = "mcp"
    <3>1. e.label \in DOMAIN o.mcp
      BY <2>2, <2>6, PresentIs
    <3>2. e.label \in DOMAIN chosen.mcp
      BY <2>3, <2>6
    <3>3. AllowedOn(e.label, c.tools, o) # {}
      BY <2>6, <3>1 DEF AllowedOn
    <3> QED
      BY <2>3, <3>2, <3>3
  <2> QED
    BY <1>2, <2>4, <2>5, <2>6
<1>3. CASE c.type = "hosted"
  <2>1. chosen.builtin = {Normal(c)}
    BY <1>3, LeftIs
  <2> QED
    BY <2>1
<1>4. CASE c.type = "function"
  <2>1. chosen.deferred = {c.name}
    BY <1>4, LeftIs
  <2> QED
    BY <2>1
<1>5. CASE c.type = "mcp"
  <2>1. c.label \in DOMAIN o.mcp
    BY <1>5, GoodChoice, PresentIs
  <2>2. /\ DOMAIN chosen.mcp = {c.label}
        /\ chosen.mcp[c.label] = IF c.name = <<>> THEN o.mcp[c.label] ELSE {c.name}
    BY <1>5, LeftIs
  <2> QED
    BY <2>1, <2>2
<1> QED
  BY <1>1, <1>2, <1>3, <1>4, <1>5 DEF Forced

LEMMA ForcedHasOne ==
  ASSUME NEW req, ~ IsRefused(req), AskedWell(req.tools, req.tool_choice), Forced(req.tool_choice),
         NEW s, s.offered = Choose(req.tool_choice, ProcessTools(req.tools))
  PROVE  NamesOffered(s, req) # {}
<1> DEFINE chosen == s.offered
<1>1. /\ ~ ChoiceIsBad(req.tool_choice, ProcessTools(req.tools))
      /\ \A d \in Of(req.tools, "mcp") : ~ resolve_mcp_declaration_fails(d)
  BY Zenon DEF IsRefused
<1>2. \A l \in DOMAIN ProcessTools(req.tools).mcp : ProcessTools(req.tools).mcp[l] # {}
  BY <1>1, DeclaredIs DEF resolve_mcp_declaration_fails
<1>3. \/ chosen.builtin # {} \/ chosen.deferred # {}
      \/ \E l \in DOMAIN chosen.mcp : chosen.mcp[l] # {}
  BY <1>1, <1>2, AskedIs, ForcedLeavesOne
<1>4. CASE chosen.builtin # {} \/ chosen.deferred # {}
  BY <1>4 DEF NamesOffered
<1>5. CASE \E l \in DOMAIN chosen.mcp : chosen.mcp[l] # {}
  <2>1. PICK l \in DOMAIN chosen.mcp : chosen.mcp[l] # {}
    BY <1>5
  <2>4. PICK t \in chosen.mcp[l] : TRUE
    BY <2>1
  <2>2. <<l, t>> \in Selected(chosen)
    BY <2>1 DEF Selected
  <2>3. McpNamesOffered(s, req) # {}
    BY <2>2 DEF McpNamesOffered
  <2> QED
    BY <2>3 DEF NamesOffered
<1> QED
  BY <1>3, <1>4, <1>5

-----------------------------------------------------------------------------
(* What each item is replayed as.                                          *)
LEMMA TwoIsSequence ==
  ASSUME NEW a, NEW b
  PROVE  IsSequence(<<a, b>>) /\ Len(<<a, b>>) = 2 /\ <<a, b>>[1] = a /\ <<a, b>>[2] = b
<1>1. <<a, b>> \in Seq({a, b}) /\ Len(<<a, b>>) = 2 /\ <<a, b>>[1] = a /\ <<a, b>>[2] = b
  OBVIOUS
<1> QED
  BY <1>1, OfSetIsSequence

LEMMA OneIsSequence ==
  ASSUME NEW a
  PROVE  IsSequence(<<a>>) /\ Len(<<a>>) = 1 /\ <<a>>[1] = a
<1>1. <<a>> \in Seq({a}) /\ Len(<<a>>) = 1 /\ <<a>>[1] = a
  BY OneIsSeq
<1> QED
  BY <1>1, OfSetIsSequence

LEMMA NoneIsSequence == IsSequence(<<>>) /\ Len(<<>>) = 0
BY EmptySeq DEF IsSequence

(* One part, or none, or a pair of the gateway's own parts.                *)
Single(s, part) == IsSequence(s) /\ Len(s) = 1 /\ s[1] = part
Mute(s) == IsSequence(s) /\ \A k \in 1 .. Len(s) : s[k].part \in {"text", "thinking", "call"}
Paired(s, name, id) ==
  /\ IsSequence(s) /\ Len(s) = 2
  /\ s[1].part = "builtin_call" /\ s[1].name = name /\ s[1].id = id
  /\ s[2].part = "builtin_return"

LEMMA CallIs == ASSUME NEW name, NEW id
                PROVE  /\ Call(name, id).part = "call" /\ Call(name, id).name = name /\ Call(name, id).id = id
                       /\ Single(<<Call(name, id)>>, Call(name, id)) /\ Mute(<<Call(name, id)>>)
<1>1. Call(name, id).part = "call" /\ Call(name, id).name = name /\ Call(name, id).id = id
  BY DEF Call
<1>2. Single(<<Call(name, id)>>, Call(name, id))
  BY OneIsSequence DEF Single
<1>3. Mute(<<Call(name, id)>>)
  BY <1>1, <1>2 DEF Single, Mute
<1> QED
  BY <1>1, <1>2, <1>3
LEMMA ReturnIs == ASSUME NEW name, NEW id
                  PROVE  /\ Return(name, id).part = "return" /\ Return(name, id).name = name
                         /\ Return(name, id).id = id
                         /\ Single(<<Return(name, id)>>, Return(name, id))
<1>1. Return(name, id).part = "return" /\ Return(name, id).name = name /\ Return(name, id).id = id
  BY DEF Return
<1>2. Single(<<Return(name, id)>>, Return(name, id))
  BY OneIsSequence DEF Single
<1> QED
  BY <1>1, <1>2
LEMMA MuteOne == ASSUME NEW x, x.part \in {"text", "thinking", "call"} PROVE Mute(<<x>>)
<1>1. Single(<<x>>, x)
  BY OneIsSequence DEF Single
<1> QED
  BY <1>1 DEF Single, Mute
LEMMA TextIs == ASSUME NEW by PROVE Text(by).part = "text" /\ Mute(<<Text(by)>>)
<1>1. Text(by).part = "text"
  BY DEF Text
<1> QED
  BY <1>1, MuteOne
LEMMA PairIs == ASSUME NEW name, NEW id PROVE Paired(BuiltinPair(name, id), name, id)
<1> DEFINE a == [by |-> "model", part |-> "builtin_call", name |-> name, id |-> id]
           b == [by |-> "model", part |-> "builtin_return", name |-> name, id |-> id]
<1>1. a.part = "builtin_call" /\ a.name = name /\ a.id = id /\ b.part = "builtin_return"
  OBVIOUS
<1>2. BuiltinPair(name, id) = <<a, b>>
  BY DEF BuiltinPair
<1> HIDE DEF a, b
<1> QED
  BY <1>1, <1>2, TwoIsSequence DEF Paired

LEMMA ReplayedAs ==
  ASSUME NEW m, NEW input, NEW names
  PROVE  /\ m.kind = "message" => Replay(m, input, names) = FoldMessage(m)
         /\ m.kind = "output_item" => Replay(m, input, names) = ReplayOutputItem(m)
         /\ m.kind = "reasoning" => Replay(m, input, names) = ReplayReasoning(m)
         /\ m.kind = "function_call" => Replay(m, input, names) = ReplayFunctionCall(m)
         /\ m.kind = "function_call_output" => Replay(m, input, names) = ReplayFunctionOutput(m, input)
         /\ m.kind \in {"custom_tool_call", "custom_tool_call_output"} =>
              Replay(m, input, names) = ReplayCustom(m)
         /\ m.kind = "tool_search_call" => Replay(m, input, names) = ReplayToolSearchCall(m)
         /\ m.kind = "tool_search_output" => Replay(m, input, names) = ReplayToolSearchOutput(m)
         /\ m.kind = "local_shell_call" => Replay(m, input, names) = ReplayLocalShell(m)
         /\ m.kind = "code_interpreter_call" => Replay(m, input, names) = ReplayCode(m)
         /\ m.kind = "web_search_call" => Replay(m, input, names) = ReplayWebSearch(m)
         /\ m.kind = "mcp_call" => Replay(m, input, names) = ReplayMcp(m, names)
<1>1. m.kind = "message" => Replay(m, input, names) = FoldMessage(m)
  BY Zenon DEF Replay
<1>2. m.kind = "output_item" => Replay(m, input, names) = ReplayOutputItem(m)
  BY Zenon DEF Replay
<1>3. m.kind = "reasoning" => Replay(m, input, names) = ReplayReasoning(m)
  BY Zenon DEF Replay
<1>4. m.kind = "function_call" => Replay(m, input, names) = ReplayFunctionCall(m)
  BY Zenon DEF Replay
<1>5. m.kind = "function_call_output" => Replay(m, input, names) = ReplayFunctionOutput(m, input)
  BY Zenon DEF Replay
<1>6. m.kind \in {"custom_tool_call", "custom_tool_call_output"} =>
              Replay(m, input, names) = ReplayCustom(m)
  BY Zenon DEF Replay
<1>7. m.kind = "tool_search_call" => Replay(m, input, names) = ReplayToolSearchCall(m)
  BY Zenon DEF Replay
<1>8. m.kind = "tool_search_output" => Replay(m, input, names) = ReplayToolSearchOutput(m)
  BY Zenon DEF Replay
<1>9. m.kind = "local_shell_call" => Replay(m, input, names) = ReplayLocalShell(m)
  BY Zenon DEF Replay
<1>10. m.kind = "code_interpreter_call" => Replay(m, input, names) = ReplayCode(m)
  BY Zenon DEF Replay
<1>11. m.kind = "web_search_call" => Replay(m, input, names) = ReplayWebSearch(m)
  BY Zenon DEF Replay
<1>12. m.kind = "mcp_call" => Replay(m, input, names) = ReplayMcp(m, names)
  BY Zenon DEF Replay
<1> QED
  BY <1>1, <1>2, <1>3, <1>4, <1>5, <1>6, <1>7, <1>8, <1>9, <1>10, <1>11, <1>12

(* Calls, outputs, the gateway's own calls, and the rest.                  *)
CallKinds == {"function_call", "local_shell_call", "tool_search_call"}
IsCall(m) == \/ m.kind = "function_call"
             \/ m.kind = "local_shell_call" /\ m.call_id # 0
             \/ m.kind = "tool_search_call" /\ Searched(m)
IsOutput(m) == m.kind = "function_call_output" \/ (m.kind = "tool_search_output" /\ Searched(m))
CalledName(m) == IF m.kind = "function_call" THEN _codex_function_call_tool_name(m)
                 ELSE IF m.kind = "local_shell_call" THEN ExecCommand ELSE ToolSearch
AnsweredName(m, input) == IF m.kind = "function_call_output" THEN CallNames(input, m.call_id) ELSE ToolSearch
OwnName(m, names) ==
  IF m.kind = "mcp_call" THEN NameOf(McpToolRef(<<m.server, m.name>>, "hosted"), names)
  ELSE IF m.kind = "web_search_call" THEN Plain(WebSearch) ELSE Plain(CodeExecution)

LEMMA ReplayIs ==
  ASSUME NEW m, m.kind \in Kinds, m.kind = "output_item" => m.content \in Seq(Range(m.content)),
         NEW input, NEW names
  PROVE  /\ IsCall(m) => Single(Replay(m, input, names), Call(CalledName(m), m.call_id))
         /\ IsOutput(m) => Single(Replay(m, input, names), Return(AnsweredName(m, input), m.call_id))
         /\ m.kind \in BuiltinKinds => Paired(Replay(m, input, names), OwnName(m, names), m.id)
         /\ ~ IsOutput(m) /\ m.kind \notin BuiltinKinds => Mute(Replay(m, input, names))
<1> DEFINE R == Replay(m, input, names)
<1>1. CASE m.kind = "message"
  <2>1. R = FoldMessage(m)
    BY <1>1, ReplayedAs
  <2>2. Mute(<<>>)
    BY NoneIsSequence DEF Mute
  <2>3. Mute(R)
    BY <2>1, <2>2, TextIs DEF FoldMessage
  <2> QED
    BY <1>1, <2>3 DEF IsCall, IsOutput, BuiltinKinds
<1>2. CASE m.kind = "output_item"
  <2>1. R = [i \in DOMAIN m.content |-> Text("model")]
    BY <1>2, ReplayedAs DEF ReplayOutputItem
  <2>2. Len(m.content) \in Nat /\ DOMAIN m.content = 1 .. Len(m.content)
    BY <1>2, LenProperties
  <2>3. R \in [1 .. Len(m.content) -> {Text("model")}]
    BY <2>1, <2>2
  <2> HIDE DEF R
  <2>4. R \in Seq({Text("model")})
    BY <2>2, <2>3, FunctionIsSeq
  <2>5. IsSequence(R)
    BY <2>4, OfSetIsSequence
  <2>6. \A k \in 1 .. Len(R) : R[k] = Text("model")
    BY <2>4, ElementOfSeq
  <2>7. Mute(R)
    BY <2>5, <2>6, TextIs DEF Mute
  <2> QED
    BY <1>2, <2>7 DEF IsCall, IsOutput, BuiltinKinds, R
<1>3. CASE m.kind = "reasoning"
  <2>1. R = ReplayReasoning(m)
    BY <1>3, ReplayedAs
  <2>2. Mute(<<>>)
    BY NoneIsSequence DEF Mute
  <2> DEFINE thought == [by |-> "model", part |-> "thinking"]
  <2>3. thought.part = "thinking"
    OBVIOUS
  <2>4. R = <<thought>> \/ R = <<>>
    BY <2>1, Zenon DEF ReplayReasoning
  <2> HIDE DEF thought
  <2>5. Mute(<<thought>>)
    BY <2>3, MuteOne
  <2>6. Mute(R)
    BY <2>2, <2>4, <2>5, Zenon
  <2> QED
    BY <1>3, <2>6 DEF IsCall, IsOutput, BuiltinKinds
<1>4. CASE m.kind = "function_call"
  <2>1. R = <<Call(CalledName(m), m.call_id)>>
    BY <1>4, ReplayedAs DEF ReplayFunctionCall, CalledName
  <2> QED
    BY <1>4, <2>1, CallIs DEF IsOutput, BuiltinKinds
<1>5. CASE m.kind = "function_call_output"
  <2>1. R = <<Return(AnsweredName(m, input), m.call_id)>>
    BY <1>5, ReplayedAs DEF ReplayFunctionOutput, AnsweredName
  <2> QED
    BY <1>5, <2>1, ReturnIs DEF IsOutput, BuiltinKinds, IsCall
<1>6. CASE m.kind \in {"custom_tool_call", "custom_tool_call_output"}
  <2>1. R = <<Text("model")>>
    BY <1>6, ReplayedAs DEF ReplayCustom
  <2> QED
    BY <1>6, <2>1, TextIs DEF IsOutput, BuiltinKinds, IsCall
<1>7. CASE m.kind = "tool_search_call"
  <2>1. R = ReplayToolSearchCall(m)
    BY <1>7, ReplayedAs
  <2>2. CASE Searched(m)
    <3>1. R = <<Call(CalledName(m), m.call_id)>>
      BY <1>7, <2>1, <2>2 DEF ReplayToolSearchCall, CalledName
    <3> QED
      BY <1>7, <3>1, CallIs DEF IsOutput, BuiltinKinds
  <2>3. CASE ~ Searched(m)
    <3>1. R = <<Text("model")>>
      BY <2>1, <2>3 DEF ReplayToolSearchCall
    <3> QED
      BY <1>7, <2>3, <3>1, TextIs DEF IsOutput, BuiltinKinds, IsCall
  <2> QED
    BY <2>2, <2>3
<1>8. CASE m.kind = "tool_search_output"
  <2>1. R = ReplayToolSearchOutput(m)
    BY <1>8, ReplayedAs
  <2>2. CASE Searched(m)
    <3>1. R = <<Return(AnsweredName(m, input), m.call_id)>>
      BY <1>8, <2>1, <2>2 DEF ReplayToolSearchOutput, AnsweredName
    <3> QED
      BY <1>8, <2>2, <3>1, ReturnIs DEF IsOutput, BuiltinKinds, IsCall
  <2>3. CASE ~ Searched(m)
    <3>1. R = <<Text("model")>>
      BY <2>1, <2>3 DEF ReplayToolSearchOutput
    <3> QED
      BY <1>8, <2>3, <3>1, TextIs DEF IsOutput, BuiltinKinds, IsCall
  <2> QED
    BY <2>2, <2>3
<1>9. CASE m.kind = "local_shell_call"
  <2>1. R = ReplayLocalShell(m)
    BY <1>9, ReplayedAs
  <2>2. CASE m.call_id # 0
    <3>1. R = <<Call(CalledName(m), m.call_id)>>
      BY <1>9, <2>1, <2>2 DEF ReplayLocalShell, CalledName
    <3> QED
      BY <1>9, <3>1, CallIs DEF IsOutput, BuiltinKinds
  <2>3. CASE m.call_id = 0
    <3>1. R = <<Text("model")>>
      BY <2>1, <2>3 DEF ReplayLocalShell
    <3> QED
      BY <1>9, <2>3, <3>1, TextIs DEF IsOutput, BuiltinKinds, IsCall
  <2> QED
    BY <2>2, <2>3
<1>10. CASE m.kind \in BuiltinKinds
  <2>1. R = BuiltinPair(OwnName(m, names), m.id)
    <3>1. CASE m.kind = "code_interpreter_call"
      BY <3>1, ReplayedAs DEF ReplayCode, OwnName
    <3>2. CASE m.kind = "web_search_call"
      BY <3>2, ReplayedAs DEF ReplayWebSearch, OwnName
    <3>3. CASE m.kind = "mcp_call"
      BY <3>3, ReplayedAs DEF ReplayMcp, OwnName
    <3> QED
      BY <1>10, <3>1, <3>2, <3>3 DEF BuiltinKinds
  <2> QED
    BY <1>10, <2>1, PairIs DEF IsOutput, IsCall, BuiltinKinds
<1> QED
  BY <1>1, <1>2, <1>3, <1>4, <1>5, <1>6, <1>7, <1>8, <1>9, <1>10 DEF Kinds, BuiltinKinds

-----------------------------------------------------------------------------
(* The history as a whole.                                                 *)
LaidOut(at, h, input, names) ==
  /\ \A i \in 0 .. Len(input) : at[i] \in Nat
  /\ \A i, j \in 0 .. Len(input) : i <= j => at[i] <= at[j]
  /\ \A i \in 1 .. Len(input) : at[i] = at[i - 1] + Len(Replay(input[i], input, names))
  /\ DOMAIN h = 1 .. at[Len(input)]
  /\ \A i \in 1 .. Len(input) : \A k \in 1 .. Len(Replay(input[i], input, names)) :
       h[at[i - 1] + k] = Replay(input[i], input, names)[k]
  /\ \A j \in DOMAIN h : \E i \in 1 .. Len(input) :
       \E k \in 1 .. Len(Replay(input[i], input, names)) : j = at[i - 1] + k

LEMMA HistoryIs ==
  ASSUME NEW input, IsHistory(input), NEW names, NEW h, h = History(input, names)
  PROVE  \E at : LaidOut(at, h, input, names)
<1> DEFINE seqs == [i \in DOMAIN input |-> Replay(input[i], input, names)]
           N == Len(input)
<1>1. N \in Nat /\ DOMAIN input = 1 .. N
  BY LenProperties DEF IsHistory
<1>2. seqs \in [1 .. N -> Range(seqs)]
  BY <1>1 DEF Range
<1>3. \A i \in 1 .. N : seqs[i] = Replay(input[i], input, names)
  BY <1>1
<1>4. History(input, names) = FlattenSeq(seqs)
  BY DEF History
<1> HIDE DEF seqs
<1>5. IsSequence(seqs) /\ Len(seqs) = N
  BY <1>1, <1>2, FunctionIsSeq DEF IsSequence
<1>6. \A i \in 1 .. N : IsSequence(seqs[i])
  <2> SUFFICES ASSUME NEW i \in 1 .. N PROVE IsSequence(Replay(input[i], input, names))
    BY <1>3
  <2>1. input[i].kind \in Kinds /\ (input[i].kind = "output_item" => input[i].content \in Seq(Range(input[i].content)))
    BY <1>1 DEF IsHistory
  <2> QED
    BY <2>1, ReplayIs DEF Single, Paired, Mute
<1>7. PICK at : Ends(at, seqs, N) /\ Placed(FlattenSeq(seqs), at, seqs, N)
  BY <1>5, <1>6, FlattenedIs
<1>8. DOMAIN h = 1 .. at[N]
  <2>1. IsSequence(h) /\ Len(h) = at[N]
    BY <1>4, <1>7 DEF Placed
  <2> QED
    BY <2>1, SequenceIs
<1>9. \A i \in 1 .. N : at[i] = at[i - 1] + Len(Replay(input[i], input, names))
  BY <1>3, <1>7 DEF Ends
<1>10. \A i \in 1 .. N : \A k \in 1 .. Len(Replay(input[i], input, names)) :
         h[at[i - 1] + k] = Replay(input[i], input, names)[k]
  BY <1>3, <1>4, <1>7 DEF Placed
<1>11. \A j \in DOMAIN h : \E i \in 1 .. N :
         \E k \in 1 .. Len(Replay(input[i], input, names)) : j = at[i - 1] + k
  BY <1>3, <1>7, <1>8 DEF Placed
<1>12. /\ \A i \in 0 .. N : at[i] \in Nat
       /\ \A i, j \in 0 .. N : i <= j => at[i] <= at[j]
  BY <1>7 DEF Ends
<1> QED
  BY <1>8, <1>9, <1>10, <1>11, <1>12 DEF LaidOut

LEMMA CallOfIs ==
  ASSUME NEW m, NEW out, CallOf(m, out)
  PROVE  /\ m.call_id = out.call_id
         /\ out.kind = "tool_search_output" => m.kind = "tool_search_call" /\ Searched(m)
         /\ out.kind # "tool_search_output" => m.kind \in {"function_call", "local_shell_call"}
<1>1. CASE out.kind = "tool_search_output"
  BY <1>1 DEF CallOf
<1>2. CASE out.kind # "tool_search_output"
  <2>1. m.kind \in {"function_call", "local_shell_call"}
    BY <1>2, Zenon DEF CallOf
  <2> QED
    BY <1>2, <2>1 DEF CallOf
<1> QED
  BY <1>1, <1>2

LEMMA ItemIs ==
  ASSUME NEW input, IsHistory(input), NEW i \in 1 .. Len(input)
  PROVE  /\ i \in DOMAIN input /\ input[i].kind \in Kinds
         /\ (input[i].kind = "output_item" => input[i].content \in Seq(Range(input[i].content)))
         /\ IsOutput(input[i]) =>
              input[i].call_id # 0 /\ \E k \in 1 .. i - 1 : CallOf(input[k], input[i])
<1>1. DOMAIN input = 1 .. Len(input)
  BY LenProperties DEF IsHistory
<1> QED
  BY <1>1 DEF IsHistory, IsOutput

(* The first item with the call_id of an output gives it its name.         *)
LEMMA FirstCall ==
  ASSUME NEW input, IsHistory(input), NEW j \in 1 .. Len(input), input[j].kind = "function_call_output"
  PROVE  \E i \in 1 .. j - 1 : /\ IsCall(input[i]) /\ input[i].call_id = input[j].call_id
                               /\ CalledName(input[i]) = CallNames(input, input[j].call_id)
<1> DEFINE id == input[j].call_id
           ours == {i \in DOMAIN input : input[i].kind \in {"function_call", "local_shell_call"}
                                       /\ input[i].call_id = id}
<1>1. DOMAIN input = 1 .. Len(input) /\ Len(input) \in Nat
  BY LenProperties DEF IsHistory
<1>2. PICK k \in 1 .. j - 1 : CallOf(input[k], input[j])
  BY ItemIs DEF IsOutput
<1>3. id # 0
  BY ItemIs DEF IsOutput
<1>4. k \in ours
  BY <1>1, <1>2, CallOfIs
<1>5. ours \subseteq Nat
  BY <1>1
<1> HIDE DEF ours
<1>6. PICK i \in ours : \A n \in ours : i <= n
  BY <1>4, <1>5, LeastNat
<1>7. Min(ours) \in ours /\ \A n \in ours : Min(ours) <= n
  BY <1>6 DEF Min
<1> DEFINE first == Min(ours)
           m == input[first]
<1> HIDE DEF first
<1>8. first \in 1 .. j - 1
  <2>1. first \in 1 .. Len(input) /\ first <= k
    BY <1>1, <1>4, <1>7 DEF ours, first
  <2> QED
    BY <1>1, <2>1
<1>9. m.kind \in {"function_call", "local_shell_call"} /\ m.call_id = id
  BY <1>7 DEF ours, first
<1>10. CallNames(input, id) = IF m.kind = "function_call" THEN _codex_function_call_tool_name(m) ELSE ExecCommand
  <2>1. CallNames(input, id) = IF ours = {} THEN <<>>
          ELSE IF m.kind = "function_call" THEN _codex_function_call_tool_name(m) ELSE ExecCommand
    BY DEF CallNames, ours, first
  <2> QED
    BY <2>1, <1>4
<1>11. IsCall(m) /\ CalledName(m) = CallNames(input, id)
  BY <1>3, <1>9, <1>10 DEF IsCall, CalledName
<1> QED
  BY <1>8, <1>9, <1>11

LEMMA CallBefore ==
  ASSUME NEW input, IsHistory(input), NEW j \in 1 .. Len(input), IsOutput(input[j])
  PROVE  \E i \in 1 .. j - 1 : /\ IsCall(input[i]) /\ input[i].call_id = input[j].call_id
                               /\ CalledName(input[i]) = AnsweredName(input[j], input)
<1>1. CASE input[j].kind = "function_call_output"
  BY <1>1, FirstCall DEF AnsweredName
<1>2. CASE input[j].kind = "tool_search_output"
  <2>1. PICK i \in 1 .. j - 1 : CallOf(input[i], input[j])
    BY ItemIs
  <2>2. input[i].kind = "tool_search_call" /\ Searched(input[i]) /\ input[i].call_id = input[j].call_id
    BY <1>2, <2>1, CallOfIs
  <2> QED
    BY <1>2, <2>2 DEF IsCall, CalledName, AnsweredName
<1> QED
  BY <1>1, <1>2 DEF IsOutput

(* Where a part of the history comes from.                                 *)
LEMMA PartOf ==
  ASSUME NEW input, IsHistory(input), NEW names, NEW h, NEW at, LaidOut(at, h, input, names),
         NEW j \in DOMAIN h
  PROVE  \E b \in 1 .. Len(input) : \E k \in 1 .. Len(Replay(input[b], input, names)) :
           /\ j = at[b - 1] + k
           /\ h[j] = Replay(input[b], input, names)[k]
<1>1. PICK b \in 1 .. Len(input) : \E k \in 1 .. Len(Replay(input[b], input, names)) : j = at[b - 1] + k
  BY DEF LaidOut
<1>2. PICK k \in 1 .. Len(Replay(input[b], input, names)) : j = at[b - 1] + k
  BY <1>1
<1>3. h[at[b - 1] + k] = Replay(input[b], input, names)[k]
  BY DEF LaidOut
<1>4. h[j] = Replay(input[b], input, names)[k]
  BY <1>2, <1>3
<1> QED
  BY <1>2, <1>4, Zenon

IsPart(input, names, b, R, k) ==
  b \in 1 .. Len(input) /\ R = Replay(input[b], input, names) /\ k \in 1 .. Len(R)

LEMMA ReturnComesFrom ==
  ASSUME NEW input, IsHistory(input), NEW names, NEW b, NEW R, NEW k, IsPart(input, names, b, R, k),
         R[k].part = "return"
  PROVE  /\ IsOutput(input[b]) /\ k = 1
         /\ R[k].id = input[b].call_id /\ R[k].name = AnsweredName(input[b], input)
<1>0. b \in 1 .. Len(input) /\ R = Replay(input[b], input, names) /\ k \in 1 .. Len(R)
  BY DEF IsPart
<1>1. /\ IsOutput(input[b]) => Single(R, Return(AnsweredName(input[b], input), input[b].call_id))
      /\ input[b].kind \in BuiltinKinds => Paired(R, OwnName(input[b], names), input[b].id)
      /\ ~ IsOutput(input[b]) /\ input[b].kind \notin BuiltinKinds => Mute(R)
  BY <1>0, ItemIs, ReplayIs
<1>2. ~ Mute(R)
  BY <1>0 DEF Mute
<1>3. ~ Paired(R, OwnName(input[b], names), input[b].id)
  <2> SUFFICES ASSUME Paired(R, OwnName(input[b], names), input[b].id) PROVE FALSE
    OBVIOUS
  <2>1. k = 1 \/ k = 2
    BY <1>0 DEF Paired
  <2> QED
    BY <2>1 DEF Paired
<1>4. IsOutput(input[b])
  BY <1>1, <1>2, <1>3
<1>5. PICK ret : ret = Return(AnsweredName(input[b], input), input[b].call_id)
  OBVIOUS
<1>6. ret.id = input[b].call_id /\ ret.name = AnsweredName(input[b], input)
  BY <1>5 DEF Return
<1>7. Single(R, ret)
  BY <1>1, <1>4, <1>5
<1>8. k = 1 /\ R[1] = ret
  BY <1>0, <1>7 DEF Single
<1> QED
  BY <1>4, <1>6, <1>8

LEMMA OutputsFollowCalls ==
  ASSUME NEW input, IsHistory(input), NEW names, NEW h, h = History(input, names),
         NEW j \in DOMAIN h, h[j].part = "return"
  PROVE  \E i \in 1 .. j - 1 : h[i].part = "call" /\ h[i].id = h[j].id /\ h[i].name = h[j].name
<1> DEFINE N == Len(input)
<1>1. PICK at : LaidOut(at, h, input, names)
  BY HistoryIs
<1>2. N \in Nat
  BY LenProperties DEF IsHistory
<1>3. PICK b \in 1 .. N : \E k \in 1 .. Len(Replay(input[b], input, names)) :
         j = at[b - 1] + k /\ h[j] = Replay(input[b], input, names)[k]
  BY <1>1, PartOf
<1>4. PICK k \in 1 .. Len(Replay(input[b], input, names)) :
         j = at[b - 1] + k /\ h[j] = Replay(input[b], input, names)[k]
  BY <1>3
<1>5. /\ IsOutput(input[b]) /\ k = 1
      /\ h[j].id = input[b].call_id /\ h[j].name = AnsweredName(input[b], input)
  <2>1. PICK R : R = Replay(input[b], input, names)
    OBVIOUS
  <2>2. k \in 1 .. Len(R) /\ j = at[b - 1] + k /\ h[j] = R[k]
    BY <2>1, <1>4
  <2>3. R[k].part = "return"
    BY <2>2
  <2>4. IsPart(input, names, b, R, k)
    BY <2>1, <2>2 DEF IsPart
  <2>5. /\ IsOutput(input[b]) /\ k = 1
        /\ R[k].id = input[b].call_id /\ R[k].name = AnsweredName(input[b], input)
    BY <2>1, <2>3, <2>4, ReturnComesFrom
  <2> QED
    BY <2>2, <2>5
<1>6. PICK a \in 1 .. b - 1 : /\ IsCall(input[a]) /\ input[a].call_id = input[b].call_id
                               /\ CalledName(input[a]) = AnsweredName(input[b], input)
  BY <1>5, CallBefore
<1>7. a \in 1 .. N /\ a \in 0 .. N /\ a - 1 \in 0 .. N /\ b - 1 \in 0 .. N /\ a <= b - 1
  BY <1>2
<1>8. PICK call : call = Call(CalledName(input[a]), input[a].call_id)
  OBVIOUS
<1>9. call.part = "call" /\ call.id = input[a].call_id /\ call.name = CalledName(input[a])
  BY <1>8 DEF Call
<1>10. Single(Replay(input[a], input, names), call)
  BY <1>6, <1>7, <1>8, ItemIs, ReplayIs
<1>11. Len(Replay(input[a], input, names)) = 1 /\ Replay(input[a], input, names)[1] = call
  BY <1>10 DEF Single
<1>12. h[at[a - 1] + 1] = call
  <2>1. \A k1 \in 1 .. Len(Replay(input[a], input, names)) :
          h[at[a - 1] + k1] = Replay(input[a], input, names)[k1]
    BY <1>1, <1>7 DEF LaidOut
  <2>2. 1 \in 1 .. Len(Replay(input[a], input, names))
    BY <1>11
  <2> QED
    BY <2>1, <2>2, <1>11, Zenon
<1>13. at[a - 1] + 1 \in 1 .. j - 1
  <2>1. at[a] = at[a - 1] + 1
    BY <1>1, <1>7, <1>11 DEF LaidOut
  <2>2. at[a] <= at[b - 1] /\ at[a] \in Nat /\ at[b - 1] \in Nat /\ at[a - 1] \in Nat
    BY <1>1, <1>7 DEF LaidOut
  <2> QED
    BY <2>1, <2>2, <1>4, <1>5
<1> QED
  BY <1>5, <1>6, <1>9, <1>12, <1>13

(* The gateway's own calls keep their ids.                                 *)
LEMMA OwnComesFrom ==
  ASSUME NEW input, IsHistory(input), NEW names, NEW b, NEW R, NEW k, IsPart(input, names, b, R, k),
         R[k].part = "builtin_call"
  PROVE  /\ input[b].kind \in BuiltinKinds
         /\ R[k].id = input[b].id /\ R[k].name = OwnName(input[b], names)
<1>0. b \in 1 .. Len(input) /\ R = Replay(input[b], input, names) /\ k \in 1 .. Len(R)
  BY DEF IsPart
<1>1. /\ IsOutput(input[b]) => Single(R, Return(AnsweredName(input[b], input), input[b].call_id))
      /\ input[b].kind \in BuiltinKinds => Paired(R, OwnName(input[b], names), input[b].id)
      /\ ~ IsOutput(input[b]) /\ input[b].kind \notin BuiltinKinds => Mute(R)
  BY <1>0, ItemIs, ReplayIs
<1>2. ~ Mute(R)
  BY <1>0 DEF Mute
<1>3. ~ IsOutput(input[b])
  <2> SUFFICES ASSUME IsOutput(input[b]) PROVE FALSE
    OBVIOUS
  <2>1. PICK ret : ret = Return(AnsweredName(input[b], input), input[b].call_id)
    OBVIOUS
  <2>2. ret.part = "return"
    BY <2>1 DEF Return
  <2>3. Single(R, ret)
    BY <1>1, <2>1
  <2>4. k = 1 /\ R[1] = ret
    BY <1>0, <2>3 DEF Single
  <2> QED
    BY <2>2, <2>4
<1>4. input[b].kind \in BuiltinKinds /\ Paired(R, OwnName(input[b], names), input[b].id)
  BY <1>1, <1>2, <1>3
<1>5. k = 1
  <2>1. k = 1 \/ k = 2
    BY <1>0, <1>4 DEF Paired
  <2> QED
    BY <2>1, <1>4 DEF Paired
<1> QED
  BY <1>4, <1>5 DEF Paired

LEMMA OwnCallsNamed ==
  ASSUME NEW input, IsHistory(input), NEW names, NEW h, h = History(input, names),
         NEW i \in DOMAIN input, input[i].kind \in BuiltinKinds,
         NEW j \in DOMAIN h, h[j].part = "builtin_call", h[j].id = input[i].id
  PROVE  h[j].name = OwnName(input[i], names)
<1> DEFINE N == Len(input)
<1>1. PICK at : LaidOut(at, h, input, names)
  BY HistoryIs
<1>2. N \in Nat /\ DOMAIN input = 1 .. N
  BY LenProperties DEF IsHistory
<1>3. PICK b \in 1 .. N : \E k \in 1 .. Len(Replay(input[b], input, names)) :
         j = at[b - 1] + k /\ h[j] = Replay(input[b], input, names)[k]
  BY <1>1, PartOf
<1>4. PICK k \in 1 .. Len(Replay(input[b], input, names)) :
         j = at[b - 1] + k /\ h[j] = Replay(input[b], input, names)[k]
  BY <1>3
<1>5. input[b].kind \in BuiltinKinds /\ h[j].id = input[b].id /\ h[j].name = OwnName(input[b], names)
  <2>1. PICK R : R = Replay(input[b], input, names)
    OBVIOUS
  <2>2. k \in 1 .. Len(R) /\ j = at[b - 1] + k /\ h[j] = R[k]
    BY <2>1, <1>4
  <2>3. R[k].part = "builtin_call"
    BY <2>2
  <2>4. IsPart(input, names, b, R, k)
    BY <2>1, <2>2 DEF IsPart
  <2>5. /\ input[b].kind \in BuiltinKinds
        /\ R[k].id = input[b].id /\ R[k].name = OwnName(input[b], names)
    BY <2>1, <2>3, <2>4, OwnComesFrom
  <2> QED
    BY <2>2, <2>5
<1>6. input[b] = input[i]
  BY <1>2, <1>5 DEF IsHistory
<1> QED
  BY <1>5, <1>6

-----------------------------------------------------------------------------
(* A history stays one a client may send.                                  *)
GoodTail(t, input) ==
  /\ IsSequence(t)
  /\ \A k \in 1 .. Len(t) :
       /\ t[k].kind \in Kinds \ {"output_item", "tool_search_output"}
       /\ t[k].kind = "mcp_call" => <<t[k].server, t[k].name>> \in Range(RefOrder)
       /\ t[k].kind \in BuiltinKinds =>
            /\ Len(t) = 1
            /\ \A i \in DOMAIN input : input[i].kind \in BuiltinKinds => input[i].id # t[k].id
       /\ t[k].kind = "function_call_output" =>
            k = 2 /\ t[k].call_id # 0 /\ CallOf(t[1], t[k])

(* What IsHistory says of the item at a place.                             *)
ItemFits(input, j) ==
  /\ input[j].kind \in Kinds
  /\ input[j].kind = "output_item" => input[j].content \in Seq(Range(input[j].content))
  /\ input[j].kind = "mcp_call" => <<input[j].server, input[j].name>> \in Range(RefOrder)
  /\ input[j].kind \in BuiltinKinds =>
       \A i \in DOMAIN input : input[i].kind \in BuiltinKinds /\ input[i].id = input[j].id => input[i] = input[j]
  /\ IsOutput(input[j]) => input[j].call_id # 0 /\ \E i \in 1 .. j - 1 : CallOf(input[i], input[j])

LEMMA HistoryFits ==
  ASSUME NEW input
  PROVE  IsHistory(input) <=> IsSequence(input) /\ \A j \in DOMAIN input : ItemFits(input, j)
BY DEF IsHistory, IsSequence, ItemFits, IsOutput

LEMMA HistoryGrows ==
  ASSUME NEW input, IsHistory(input), NEW t, GoodTail(t, input), NEW more, more = input \o t
  PROVE  IsHistory(more)
<1> DEFINE N == Len(input)
           L == Len(t)
<1>1. IsSequence(input) /\ \A j \in DOMAIN input : ItemFits(input, j)
  BY HistoryFits
<1>2. IsSequence(t)
  BY DEF GoodTail
<1>3. N \in Nat /\ L \in Nat /\ DOMAIN input = 1 .. N
  BY <1>1, <1>2, SequenceIs
<1>4. /\ IsSequence(more) /\ Len(more) = N + L
      /\ \A i \in 1 .. N : more[i] = input[i]
      /\ \A k \in 1 .. L : more[N + k] = t[k]
  BY <1>1, <1>2, JoinIs
<1>5. DOMAIN more = 1 .. N + L
  BY <1>4, SequenceIs
<1> HIDE DEF N, L
<1>6. \A j \in DOMAIN more : j \in 1 .. N \/ \E k \in 1 .. L : j = N + k
  <2> SUFFICES ASSUME NEW j \in 1 .. N + L, j \notin 1 .. N PROVE \E k \in 1 .. L : j = N + k
    BY <1>5
  <2>1. j - N \in 1 .. L /\ j = N + (j - N)
    BY <1>3
  <2> QED
    BY <2>1
<1>7. \A k \in 1 .. L : GoodTail(t, input) /\ N + k \in DOMAIN more
  BY <1>3, <1>5
<1>8. ASSUME NEW j \in 1 .. N PROVE ItemFits(more, j)
  <2>1. more[j] = input[j] /\ ItemFits(input, j)
    BY <1>1, <1>3, <1>4
  <2>2. ASSUME input[j].kind \in BuiltinKinds, NEW i \in DOMAIN more,
               more[i].kind \in BuiltinKinds, more[i].id = input[j].id
        PROVE  more[i] = input[j]
    <3>1. CASE i \in 1 .. N
      <4>1. more[i] = input[i] /\ i \in DOMAIN input
        BY <3>1, <1>3, <1>4
      <4> QED
        BY <4>1, <2>1, <2>2 DEF ItemFits
    <3>2. ASSUME NEW k \in 1 .. L, i = N + k PROVE FALSE
      <4>1. more[i] = t[k] /\ j \in DOMAIN input
        BY <3>2, <1>3, <1>4
      <4>2. t[k].kind \in BuiltinKinds /\ t[k].id = input[j].id
        BY <4>1, <2>2
      <4>3. \A m \in DOMAIN input : input[m].kind \in BuiltinKinds => input[m].id # t[k].id
        BY <4>2 DEF GoodTail, L
      <4> QED
        BY <4>1, <4>2, <4>3, <2>2
    <3> QED
      BY <3>1, <3>2, <1>6
  <2>3. ASSUME IsOutput(input[j])
        PROVE  input[j].call_id # 0 /\ \E i \in 1 .. j - 1 : CallOf(more[i], input[j])
    <3>1. input[j].call_id # 0 /\ \E i \in 1 .. j - 1 : CallOf(input[i], input[j])
      BY <2>1, <2>3 DEF ItemFits
    <3>2. PICK i \in 1 .. j - 1 : CallOf(input[i], input[j])
      BY <3>1
    <3>3. more[i] = input[i]
      BY <1>3, <1>4
    <3> QED
      BY <3>1, <3>2, <3>3
  <2> QED
    BY <2>1, <2>2, <2>3 DEF ItemFits
<1>9. ASSUME NEW k \in 1 .. L PROVE ItemFits(more, N + k)
  <2> DEFINE m == t[k]
  <2>1. more[N + k] = m
    BY <1>4
  <2>2. /\ m.kind \in Kinds \ {"output_item", "tool_search_output"}
        /\ m.kind = "mcp_call" => <<m.server, m.name>> \in Range(RefOrder)
        /\ m.kind \in BuiltinKinds =>
             L = 1 /\ \A i \in DOMAIN input : input[i].kind \in BuiltinKinds => input[i].id # m.id
        /\ m.kind = "function_call_output" => k = 2 /\ m.call_id # 0 /\ CallOf(t[1], m)
    BY DEF GoodTail, L
  <2> HIDE DEF m
  <2>3. ASSUME m.kind \in BuiltinKinds, NEW i \in DOMAIN more,
               more[i].kind \in BuiltinKinds, more[i].id = m.id
        PROVE  more[i] = m
    <3>1. CASE i \in 1 .. N
      BY <3>1, <1>3, <1>4, <2>2, <2>3
    <3>2. ASSUME NEW l \in 1 .. L, i = N + l PROVE more[i] = m
      <4>1. l = k
        BY <2>2, <2>3
      <4> QED
        BY <4>1, <3>2, <2>1
    <3> QED
      BY <3>1, <3>2, <1>6
  <2>4. ASSUME IsOutput(m)
        PROVE  m.call_id # 0 /\ \E i \in 1 .. N + k - 1 : CallOf(more[i], m)
    <3>1. m.kind = "function_call_output"
      BY <2>2, <2>4 DEF IsOutput
    <3>2. 1 \in 1 .. L /\ N + 1 \in 1 .. N + k - 1
      BY <1>3, <2>2, <3>1
    <3>3. more[N + 1] = t[1]
      BY <1>4, <3>2
    <3> QED
      BY <2>2, <3>1, <3>2, <3>3
  <2>5. PICK j : j = N + k
    OBVIOUS
  <2>6. more[j] = m
    BY <2>1, <2>5
  <2>7. \A i \in DOMAIN more : m.kind \in BuiltinKinds /\ more[i].kind \in BuiltinKinds
                                /\ more[i].id = m.id => more[i] = m
    BY <2>3
  <2>9. IsOutput(m) => m.call_id # 0 /\ \E i \in 1 .. j - 1 : CallOf(more[i], m)
    <3> SUFFICES ASSUME IsOutput(m) PROVE m.call_id # 0 /\ \E i \in 1 .. j - 1 : CallOf(more[i], m)
      OBVIOUS
    <3>1. m.call_id # 0 /\ \E i \in 1 .. N + k - 1 : CallOf(more[i], m)
      BY <2>4
    <3>2. PICK i \in 1 .. N + k - 1 : CallOf(more[i], m)
      BY <3>1
    <3>3. i \in 1 .. j - 1
      BY <1>3, <2>5
    <3> QED
      BY <3>1, <3>2, <3>3
  <2>8. ItemFits(more, j)
    BY <2>2, <2>6, <2>7, <2>9 DEF ItemFits
  <2> QED
    BY <2>5, <2>8
<1>10. \A j \in DOMAIN more : ItemFits(more, j)
  BY <1>6, <1>8, <1>9
<1> QED
  BY <1>4, <1>10, HistoryFits

(* What a call comes back as.                                              *)
LEMMA CallItemIs ==
  ASSUME NEW n, NEW s, NEW req, NEW id, NEW m, m = CallItem(n, s, req, id)
  PROVE  \/ /\ n \in DOMAIN s.names /\ m.kind = "mcp_call"
            /\ m.server = s.names[n].server /\ m.name = s.names[n].tool /\ m.id = id
         \/ m.kind \in {"web_search_call", "code_interpreter_call"} /\ m.id = id
         \/ m.kind = "custom_tool_call"
         \/ m.kind = "function_call" /\ m.call_id = id
<1> DEFINE space == {t \in Of(req.tools, "namespace") : n.text \in ToSet(DeferredNames(t))}
<1>1. CASE n \in DOMAIN s.names
  <2>1. m = [kind |-> "mcp_call", server |-> s.names[n].server, name |-> s.names[n].tool, id |-> id]
    BY <1>1, Zenon DEF CallItem
  <2> QED
    BY <1>1, <2>1
<1>2. CASE n \notin DOMAIN s.names /\ n.text \in s.offered.builtin
  <2>1. m = [kind |-> IF n.text = WebSearch THEN "web_search_call" ELSE "code_interpreter_call", id |-> id]
    BY <1>2, Zenon DEF CallItem
  <2> QED
    BY <2>1
<1>3. CASE /\ n \notin DOMAIN s.names /\ n.text \notin s.offered.builtin
           /\ \E t \in Of(req.tools, "custom") : t.name = n.text
  <2>1. m = [kind |-> "custom_tool_call", call_id |-> id]
    BY <1>3, Zenon DEF CallItem
  <2> QED
    BY <2>1
<1>4. CASE /\ n \notin DOMAIN s.names /\ n.text \notin s.offered.builtin
           /\ ~ \E t \in Of(req.tools, "custom") : t.name = n.text
  <2> DEFINE t == CHOOSE t \in space : TRUE
             one == [kind |-> "function_call", namespace |-> t.name, call_id |-> id,
                     name |-> SubSeq(n.text, Len(t.name) + 1, Len(n.text))]
             other == [kind |-> "function_call", namespace |-> <<>>, call_id |-> id, name |-> n.text]
  <2>1. m = IF space # {} THEN one ELSE other
    BY <1>4, Zenon DEF CallItem
  <2>2. one.kind = "function_call" /\ one.call_id = id /\ other.kind = "function_call" /\ other.call_id = id
    OBVIOUS
  <2> HIDE DEF one, other
  <2> QED
    BY <2>1, <2>2
<1> QED
  BY <1>1, <1>2, <1>3, <1>4

(* The items a call adds.                                                  *)
Called(m, id) ==
  \/ m.kind = "mcp_call" /\ <<m.server, m.name>> \in Range(RefOrder) /\ m.id = id
  \/ m.kind \in {"web_search_call", "code_interpreter_call"} /\ m.id = id
  \/ m.kind = "custom_tool_call"
  \/ m.kind = "function_call" /\ m.call_id = id

LEMMA AnswerIsTail ==
  ASSUME NEW m, NEW id, id # 0, NEW input,
         \A i \in DOMAIN input : input[i].kind \in BuiltinKinds => input[i].id # id,
         Called(m, id)
  PROVE  /\ GoodTail(Answer(m), input)
         /\ \A k \in 1 .. Len(Answer(m)) : Answer(m)[k].kind \in BuiltinKinds => Answer(m)[k].id = id
<1>1. CASE m.kind = "function_call"
  <2> DEFINE out == [kind |-> "function_call_output", call_id |-> m.call_id]
  <2>1. out.kind = "function_call_output" /\ out.call_id = m.call_id
    OBVIOUS
  <2>2. Answer(m) = <<m, out>>
    BY <1>1, Zenon DEF Answer
  <2> HIDE DEF out
  <2>3. IsSequence(<<m, out>>) /\ Len(<<m, out>>) = 2 /\ <<m, out>>[1] = m /\ <<m, out>>[2] = out
    BY TwoIsSequence
  <2>4. CallOf(m, out)
    BY <1>1, <2>1 DEF CallOf
  <2>5. m.call_id = id
    BY <1>1 DEF Called
  <2>6. \A k \in 1 .. 2 : k = 1 \/ k = 2
    OBVIOUS
  <2>7. PICK t : t = <<m, out>>
    OBVIOUS
  <2>8. IsSequence(t) /\ Len(t) = 2 /\ t[1] = m /\ t[2] = out /\ Answer(m) = t
    BY <2>2, <2>3, <2>7
  <2>9. GoodTail(t, input)
    BY <1>1, <2>1, <2>4, <2>5, <2>6, <2>8 DEF GoodTail, Kinds, BuiltinKinds
  <2> QED
    BY <1>1, <2>1, <2>6, <2>8, <2>9 DEF BuiltinKinds
<1>2. CASE m.kind = "custom_tool_call"
  <2> DEFINE out == [kind |-> "custom_tool_call_output", call_id |-> m.call_id]
  <2>1. out.kind = "custom_tool_call_output"
    OBVIOUS
  <2>2. Answer(m) = <<m, out>>
    BY <1>2, Zenon DEF Answer
  <2> HIDE DEF out
  <2>3. IsSequence(<<m, out>>) /\ Len(<<m, out>>) = 2 /\ <<m, out>>[1] = m /\ <<m, out>>[2] = out
    BY TwoIsSequence
  <2>6. \A k \in 1 .. 2 : k = 1 \/ k = 2
    OBVIOUS
  <2>7. PICK t : t = <<m, out>>
    OBVIOUS
  <2>8. IsSequence(t) /\ Len(t) = 2 /\ t[1] = m /\ t[2] = out /\ Answer(m) = t
    BY <2>2, <2>3, <2>7
  <2>9. GoodTail(t, input)
    BY <1>2, <2>1, <2>6, <2>8 DEF GoodTail, Kinds, BuiltinKinds
  <2> QED
    BY <1>2, <2>1, <2>6, <2>8, <2>9 DEF BuiltinKinds
<1>3. CASE m.kind \in {"mcp_call", "web_search_call", "code_interpreter_call"}
  <2>1. Answer(m) = <<m>>
    BY <1>3 DEF Answer
  <2>2. IsSequence(<<m>>) /\ Len(<<m>>) = 1 /\ <<m>>[1] = m
    BY OneIsSequence
  <2>3. PICK t : t = <<m>>
    OBVIOUS
  <2>4. IsSequence(t) /\ Len(t) = 1 /\ t[1] = m /\ Answer(m) = t
    BY <2>1, <2>2, <2>3
  <2>5. m.id = id /\ (m.kind = "mcp_call" => <<m.server, m.name>> \in Range(RefOrder))
    BY <1>3 DEF Called
  <2>6. GoodTail(t, input)
    BY <1>3, <2>4, <2>5 DEF GoodTail, Kinds, BuiltinKinds
  <2>7. \A k \in 1 .. Len(t) : t[k].id = id
    <3>1. \A k \in 1 .. 1 : k = 1
      OBVIOUS
    <3> QED
      BY <3>1, <2>4, <2>5
  <2> QED
    BY <2>4, <2>6, <2>7
<1> QED
  BY <1>1, <1>2, <1>3 DEF Called

(* The names given all stand for pairs of RefOrder.                        *)
NamesKnown(names) ==
  \A ref \in Range(names) : \E p \in Range(RefOrder) : \E mode : ref = McpToolRef(p, mode)

LEMMA NamesStayKnown ==
  ASSUME NEW names, GoodNames(names), NamesKnown(names), NEW pairs, NEW mode,
         NEW more, more = RegisterAll(names, pairs, mode)
  PROVE  NamesKnown(more)
<1> SUFFICES ASSUME NEW ref \in Range(more)
             PROVE  \E p \in Range(RefOrder) : \E md : ref = McpToolRef(p, md)
  BY DEF NamesKnown
<1>1. CASE ref \in Range(names)
  BY <1>1 DEF NamesKnown
<1>2. CASE ref \notin Range(names)
  <2>1. ref \in Range(more) \ Range(names)
    BY <1>2
  <2>2. PICK p \in pairs \cap Range(RefOrder) : ref = McpToolRef(p, mode[p[1]])
    BY <2>1, AllRegistered
  <2> QED
    BY <2>2
<1> QED
  BY <1>1, <1>2

LEMMA ReservedIs ==
  ASSUME NEW input, NEW names, names = Reserve(input)
  PROVE  /\ GoodNames(names) /\ NamesKnown(names)
         /\ \A p \in HistoricalRefs(input) \cap Range(RefOrder) : McpToolRef(p, "hosted") \in Range(names)
<1> DEFINE refs == HistoricalRefs(input)
           mode == [l \in {p[1] : p \in refs} |-> "hosted"]
<1>1. names = RegisterAll(<<>>, refs, mode)
  BY DEF Reserve
<1>2. \A p \in refs : mode[p[1]] = "hosted"
  OBVIOUS
<1> HIDE DEF mode
<1>3. NamesKnown(<<>>)
  BY NoNames DEF NamesKnown
<1>4. NamesKnown(names)
  BY <1>1, <1>3, NoNames, NamesStayKnown
<1>5. GoodNames(names) /\ \A p \in refs \cap Range(RefOrder) : McpToolRef(p, mode[p[1]]) \in Range(names)
  BY <1>1, NoNames, AllRegistered
<1> QED
  BY <1>2, <1>4, <1>5

(* The names of a converted request.                                       *)
LEMMA SettingsNames ==
  ASSUME NEW req, NEW s, s = as_run_settings(req)
  PROVE  /\ GoodNames(s.names) /\ NamesKnown(s.names) /\ Widens(Reserve(req.input), s.names)
         /\ \A p \in Selected(s.offered) \cap Range(RefOrder) :
              McpToolRef(p, Modes(req.tools)[p[1]]) \in Range(s.names)
<1> DEFINE reserved == Reserve(req.input)
<1>1. s.names = RegisterAll(reserved, Selected(s.offered), Modes(req.tools))
  BY TheFields DEF build_mcp_toolset_for_request
<1>2. GoodNames(reserved) /\ NamesKnown(reserved)
  BY ReservedIs
<1> HIDE DEF reserved
<1>3. NamesKnown(s.names)
  BY <1>1, <1>2, NamesStayKnown
<1>4. /\ GoodNames(s.names) /\ Widens(reserved, s.names)
      /\ \A p \in Selected(s.offered) \cap Range(RefOrder) :
              McpToolRef(p, Modes(req.tools)[p[1]]) \in Range(s.names)
  BY <1>1, <1>2, AllRegistered
<1> QED
  BY <1>3, <1>4 DEF reserved

(* The items are ones a client may send, and what the gateway called has   *)
(* the ids of the turns before.                                            *)
HistoryInv ==
  /\ IsHistory(request.input) /\ turn \in Nat \ {0}
  /\ \A i \in DOMAIN request.input : request.input[i].kind \in BuiltinKinds =>
       request.input[i].id \in Int /\ request.input[i].id > -turn

LEMMA HistoryInit == SettingsInit => HistoryInv
BY RequestsAssumption DEF SettingsInit, HistoryInv

LEMMA HistoryStep == ConvertedInv /\ ChoiceInv /\ HistoryInv /\ [SettingsNext]_settingsVars => HistoryInv'
<1> SUFFICES ASSUME ConvertedInv, ChoiceInv, HistoryInv, [SettingsNext]_settingsVars PROVE HistoryInv'
  OBVIOUS
<1>1. CASE UNCHANGED <<request, turn>>
  BY <1>1 DEF HistoryInv
<1>2. ASSUME NEW n, ModelCalls(n) PROVE HistoryInv'
  <2> DEFINE m == CallItem(n, settings, request, -turn)
             input == request.input
  <2>1. PICK o \in Offers :
          request' = [request EXCEPT !.input = input \o Answer(m), !.tools = o.tools, !.tool_choice = o.tool_choice]
    BY <1>2, Zenon DEF ModelCalls
  <2>2. Converted /\ turn' = turn + 1 /\ turn \in Nat \ {0}
    BY <1>2 DEF ModelCalls, HistoryInv
  <2>3. request'.input = input \o Answer(m)
    BY <2>1 DEF ChoiceInv, RequestFields
  <2> HIDE DEF m
  <2>4. -turn # 0 /\ -turn \in Int
    BY <2>2
  <2>5. \A i \in DOMAIN input : input[i].kind \in BuiltinKinds => input[i].id # -turn
    BY <2>2 DEF HistoryInv
  <2>6. NamesKnown(settings.names)
    BY <2>2, SettingsNames DEF ConvertedInv
  <2>7. Called(m, -turn)
    <3>1. CASE /\ n \in DOMAIN settings.names /\ m.kind = "mcp_call"
               /\ m.server = settings.names[n].server /\ m.name = settings.names[n].tool /\ m.id = -turn
      <4>1. settings.names[n] \in Range(settings.names)
        BY <3>1 DEF Range
      <4>2. PICK p \in Range(RefOrder) : \E md : settings.names[n] = McpToolRef(p, md)
        BY <2>6, <4>1 DEF NamesKnown
      <4>3. PICK md : settings.names[n] = McpToolRef(p, md)
        BY <4>2
      <4>4. m.server = p[1] /\ m.name = p[2]
        BY <3>1, <4>3 DEF McpToolRef
      <4>5. <<p[1], p[2]>> \in Range(RefOrder)
        BY NamesAssumption
      <4> QED
        BY <3>1, <4>4, <4>5 DEF Called
    <3> QED
      BY <3>1, CallItemIs DEF m, Called
  <2>8. PICK t : t = Answer(m)
    OBVIOUS
  <2>9. GoodTail(t, input) /\ \A k \in 1 .. Len(t) : t[k].kind \in BuiltinKinds => t[k].id = -turn
    <3>1. PICK id : id = -turn
      OBVIOUS
    <3>2. id # 0
      BY <3>1, <2>4
    <3>3. \A i \in DOMAIN input : input[i].kind \in BuiltinKinds => input[i].id # id
      BY <3>1, <2>5
    <3>4. Called(m, id)
      BY <3>1, <2>7
    <3>5. GoodTail(Answer(m), input)
          /\ \A k \in 1 .. Len(Answer(m)) : Answer(m)[k].kind \in BuiltinKinds => Answer(m)[k].id = id
      BY <3>2, <3>3, <3>4, AnswerIsTail
    <3> QED
      BY <3>1, <3>5, <2>8
  <2>10. PICK more : more = input \o t
    OBVIOUS
  <2>11. request'.input = more
    BY <2>3, <2>8, <2>10
  <2>12. IsHistory(more)
    BY <2>9, <2>10, HistoryGrows DEF HistoryInv
  <2>13. IsSequence(input) /\ IsSequence(t) /\ IsSequence(more)
    BY <2>9, <2>12 DEF HistoryInv, GoodTail, IsHistory, IsSequence
  <2>14. ASSUME NEW i \in DOMAIN more, more[i].kind \in BuiltinKinds
         PROVE  more[i].id \in Int /\ more[i].id > -(turn + 1)
    <3>1. /\ Len(input) \in Nat /\ Len(t) \in Nat /\ DOMAIN input = 1 .. Len(input)
          /\ DOMAIN more = 1 .. Len(input) + Len(t)
      BY <2>10, <2>13, SequenceIs, JoinIs
    <3>2. CASE i \in 1 .. Len(input)
      <4>1. more[i] = input[i] /\ i \in DOMAIN input
        BY <3>1, <3>2, <2>10, <2>13, JoinIs
      <4>2. input[i].id \in Int /\ input[i].id > -turn
        BY <4>1, <2>14 DEF HistoryInv
      <4> QED
        BY <4>1, <4>2, <2>2
    <3>3. CASE i \notin 1 .. Len(input)
      <4>1. PICK k : k = i - Len(input)
        OBVIOUS
      <4>2. k \in 1 .. Len(t) /\ i = Len(input) + k
        BY <3>1, <3>3, <4>1
      <4>3. more[i] = t[k]
        BY <4>2, <2>10, <2>13, JoinIs
      <4>4. more[i].id = -turn
        BY <4>2, <4>3, <2>9, <2>14
      <4> QED
        BY <4>4, <2>2
    <3> QED
      BY <3>2, <3>3
  <2>15. turn' \in Nat \ {0}
    BY <2>2
  <2> QED
    BY <2>2, <2>11, <2>12, <2>14, <2>15 DEF HistoryInv
<1> QED
  BY <1>1, <1>2 DEF SettingsNext, Convert, settingsVars

-----------------------------------------------------------------------------
(* A request that is accepted offers the declared tools its tool_choice    *)
(* permits, whatever kinds of tool and entry it mixes; and one that        *)
(* demands a call offers something to call and says so (OffersObeyChoice). *)
THEOREM TheChoiceIsObeyed == SettingsSpec => []OffersObeyChoice
<1>1. ConvertedInv /\ ChoiceInv /\ HistoryInv => OffersObeyChoice
  <2> SUFFICES ASSUME ConvertedInv, ChoiceInv, HistoryInv, Converted PROVE OffersObeyChoice
    BY DEF OffersObeyChoice
  <2> DEFINE c == request.tool_choice
             declared == ProcessTools(request.tools)
             o == settings.offered
  <2>1. settings = as_run_settings(request) /\ ~ IsRefused(request)
    BY DEF ConvertedInv
  <2>2. o = Choose(c, declared)
    BY <2>1, TheFields
  <2>3. ~ ChoiceIsBad(c, declared)
    BY <2>1, Zenon DEF IsRefused
  <2>4. DOMAIN request = RequestFields /\ AskedWell(request.tools, c)
    BY DEF ChoiceInv
  <2>5. c.type \in Types
    BY <2>4, AskedIs
  <2>6. IsFiniteSet(DOMAIN request.input)
    <3>1. DOMAIN request.input = 1 .. Len(request.input) /\ Len(request.input) \in Nat
      BY LenProperties DEF HistoryInv, IsHistory
    <3> QED
      BY <3>1, FS_Interval
  <2>7. Forced(c) <=> Len(Instructions(request)) >
                        Len(Instructions([request EXCEPT !.tool_choice = [type |-> "auto"]]))
    BY <2>4, <2>5, <2>6, ForcedIsTold
  <2>8. Forced(c) => NamesOffered(settings, request) # {}
    BY <2>1, <2>2, <2>4, ForcedHasOne
  <2> HIDE DEF o, declared, c
  <2>9. /\ o.builtin = {n \in declared.builtin : Permits(c, "hosted", <<>>, n)}
        /\ o.deferred = {n \in declared.deferred : Permits(c, "function", <<>>, n)}
        /\ \A l \in DOMAIN declared.mcp :
             {t \in declared.mcp[l] : Permits(c, "mcp", l, t)} =
               IF l \in DOMAIN o.mcp THEN o.mcp[l] ELSE {}
    BY <2>2, <2>3, <2>5, OfferedIsPermitted
  <2> QED
    BY <2>7, <2>8, <2>9, Zenon DEF OffersObeyChoice, o, declared, c
<1> QED
  BY <1>1, ConvertedInit, ConvertedStep, HistoryInit, HistoryStep, ChoiceStep, PTL DEF SettingsSpec

-----------------------------------------------------------------------------
(* The tools that are left are known to the inventory, and finitely many.  *)
LEMMA SelectedKnown ==
  ASSUME NEW req, ~ IsRefused(req), AskedWell(req.tools, req.tool_choice),
         NEW o, o = Choose(req.tool_choice, ProcessTools(req.tools))
  PROVE  Selected(o) \subseteq Range(RefOrder) /\ IsFiniteSet(Selected(o))
<1>1. ~ ChoiceIsBad(req.tool_choice, ProcessTools(req.tools))
  BY Zenon DEF IsRefused
<1> DEFINE declared == ProcessTools(req.tools).mcp
<1>2. \A l \in DOMAIN o.mcp : l \in DOMAIN declared /\ o.mcp[l] \subseteq declared[l]
  BY <1>1, AskedIs, OfferedIsPermitted
<1>3. \A l \in DOMAIN declared : \E d \in Of(req.tools, "mcp") : d.label = l /\ declared[l] = Listed(d)
  BY DeclaredIs
<1> HIDE DEF declared
<1>4. \A d \in Of(req.tools, "mcp") : d.label \in DOMAIN Inventory
  BY DEF Of, AskedWell
<1>5. \A d : Listed(d) \subseteq Inventory[d.label]
  BY DEF Listed
<1>6. \A l \in DOMAIN o.mcp : \A t \in o.mcp[l] : l \in DOMAIN Inventory /\ t \in Inventory[l]
  BY <1>2, <1>3, <1>4, <1>5
<1>7. Selected(o) \subseteq Range(RefOrder)
  <2> SUFFICES ASSUME NEW p \in Selected(o) PROVE p \in Range(RefOrder)
    OBVIOUS
  <2>1. PICK l \in DOMAIN o.mcp : p \in {<<l, t>> : t \in o.mcp[l]}
    BY DEF Selected
  <2>2. PICK t \in o.mcp[l] : p = <<l, t>>
    BY <2>1
  <2> QED
    BY <2>2, <1>6, InventoryAssumption
<1>8. IsFiniteSet(Range(RefOrder))
  <2>1. Len(RefOrder) \in Nat /\ DOMAIN RefOrder = 1 .. Len(RefOrder)
    BY NamesAssumption, LenProperties
  <2>2. RefOrder \in [DOMAIN RefOrder -> Range(RefOrder)]
    BY <2>1, NamesAssumption, LenProperties DEF Range
  <2>3. RefOrder \in Surjection(DOMAIN RefOrder, Range(RefOrder))
    BY <2>2 DEF Surjection, Range
  <2>4. IsFiniteSet(DOMAIN RefOrder)
    BY <2>1, FS_Interval
  <2> QED
    BY <2>3, <2>4, FS_Surjection
<1> QED
  BY <1>7, <1>8, FS_Subset

(* As many names as tools.                                                 *)
LEMMA NamesAreApart ==
  ASSUME NEW req, ~ IsRefused(req), AskedWell(req.tools, req.tool_choice),
         NEW s, s = as_run_settings(req)
  PROVE  Cardinality(McpNamesOffered(s, req)) = Cardinality(Selected(s.offered))
<1> DEFINE T == Selected(s.offered)
           mode == Modes(req.tools)
           F == [p \in T |-> NameOf(McpToolRef(p, mode[p[1]]), s.names)]
<1>1. T \subseteq Range(RefOrder) /\ IsFiniteSet(T)
  BY TheFields, SelectedKnown
<1>2. \A p \in T : McpToolRef(p, mode[p[1]]) \in Range(s.names)
  BY <1>1, SettingsNames
<1> HIDE DEF mode
<1>3. McpNamesOffered(s, req) = {F[p] : p \in T}
  BY DEF McpNamesOffered, mode
<1>4. DOMAIN F = T /\ F \in [T -> McpNamesOffered(s, req)]
  BY <1>3
<1>5. \A p \in T : s.names[F[p]] = McpToolRef(p, mode[p[1]])
  BY <1>2, NameOfIs
<1>6. \A p \in T : p = <<p[1], p[2]>>
  BY <1>1, NamesAssumption
<1> HIDE DEF F, T
<1>7. ASSUME NEW p \in T, NEW q \in T, F[p] = F[q] PROVE p = q
  <2>1. McpToolRef(p, mode[p[1]]) = McpToolRef(q, mode[q[1]])
    BY <1>5, <1>7
  <2>2. p[1] = q[1] /\ p[2] = q[2]
    BY <2>1 DEF McpToolRef
  <2> QED
    BY <2>2, <1>6
<1>8. F \in Injection(T, McpNamesOffered(s, req))
  BY <1>4, <1>7 DEF Injection, IsInjective
<1>9. F \in Surjection(T, McpNamesOffered(s, req))
  BY <1>3, <1>4 DEF Surjection
<1> QED
  BY <1>1, <1>8, <1>9, FS_Surjection DEF T

(* The name under which a call of an earlier turn is replayed.             *)
LEMMA ReplayedName ==
  ASSUME NEW req, IsHistory(req.input), ~ IsRefused(req), AskedWell(req.tools, req.tool_choice),
         NEW s, s = as_run_settings(req),
         NEW i \in DOMAIN req.input, req.input[i].kind = "mcp_call",
         NEW j \in DOMAIN s.history, s.history[j].part = "builtin_call", s.history[j].id = req.input[i].id,
         NEW p, p = <<req.input[i].server, req.input[i].name>>,
         NEW n, n = s.history[j].name
  PROVE  /\ s.names[n] = McpToolRef(p, "hosted")
         /\ p \in Selected(s.offered) /\ Modes(req.tools)[p[1]] = "hosted" => n \in McpNamesOffered(s, req)
<1> DEFINE reserved == Reserve(req.input)
           ref == McpToolRef(p, "hosted")
           m == req.input[i]
<1>1. s.history = History(req.input, reserved)
  BY TheFields
<1>2. n = OwnName(m, reserved)
  <2>1. m.kind \in BuiltinKinds
    BY DEF BuiltinKinds
  <2> HIDE DEF reserved
  <2> QED
    BY <1>1, <2>1, OwnCallsNamed
<1>3. n = NameOf(ref, reserved)
  BY <1>2 DEF OwnName
<1>4. p \in HistoricalRefs(req.input) \cap Range(RefOrder)
  <2>1. m \in Items(req.input, {"mcp_call"})
    BY DEF Items
  <2>2. p \in HistoricalRefs(req.input)
    BY <2>1 DEF HistoricalRefs
  <2>3. p \in Range(RefOrder)
    BY DEF IsHistory
  <2> QED
    BY <2>2, <2>3
<1> HIDE DEF ref
<1>5. ref \in Range(reserved)
  BY <1>4, ReservedIs DEF ref
<1> HIDE DEF reserved
<1>6. n \in DOMAIN reserved /\ reserved[n] = ref
  BY <1>3, <1>5, NameOfIs
<1>7. GoodNames(s.names) /\ Widens(reserved, s.names)
  BY SettingsNames DEF reserved
<1>8. n \in DOMAIN s.names /\ s.names[n] = ref
  BY <1>6, <1>7 DEF Widens
<1>9. ASSUME p \in Selected(s.offered), Modes(req.tools)[p[1]] = "hosted" PROVE n \in McpNamesOffered(s, req)
  <2>1. ref \in Range(s.names)
    BY <1>8 DEF Range
  <2>2. NameOf(ref, s.names) \in DOMAIN s.names /\ s.names[NameOf(ref, s.names)] = ref
    BY <2>1, NameOfIs
  <2>3. NameOf(ref, s.names) = n
    BY <2>2, <1>7, <1>8 DEF GoodNames
  <2>4. ref = McpToolRef(p, Modes(req.tools)[p[1]])
    BY <1>9 DEF ref
  <2> QED
    BY <1>9, <2>3, <2>4 DEF McpNamesOffered
<1> QED
  BY <1>8, <1>9 DEF ref

(* However long a client goes on, its history stays one the model can      *)
(* follow: an output comes after a call of the same id and name; a call of *)
(* an MCP tool is replayed under the name its tool has kept, or has again; *)
(* and no two MCP tools are offered under one name (ReplayIsConsistent).   *)
THEOREM TheHistoryCanBeFollowed == SettingsSpec => []ReplayIsConsistent
<1>1. ConvertedInv /\ ChoiceInv /\ HistoryInv => ReplayIsConsistent
  <2> SUFFICES ASSUME ConvertedInv, ChoiceInv, HistoryInv, Converted PROVE ReplayIsConsistent
    BY DEF ReplayIsConsistent
  <2> DEFINE h == settings.history
             mcp == settings.offered.mcp
             input == request.input
  <2>1. settings = as_run_settings(request) /\ ~ IsRefused(request)
    BY DEF ConvertedInv
  <2>2. IsHistory(input) /\ AskedWell(request.tools, request.tool_choice)
    BY DEF HistoryInv, ChoiceInv
  <2>3. h = History(input, Reserve(input))
    BY <2>1, TheFields
  <2>4. Cardinality(McpNamesOffered(settings, request)) = Cardinality(Selected(settings.offered))
    BY <2>1, <2>2, NamesAreApart
  <2>5. ASSUME NEW i \in DOMAIN input, input[i].kind = "mcp_call",
               NEW j \in DOMAIN h, h[j].part = "builtin_call", h[j].id = input[i].id
        PROVE  LET n == h[j].name
                   m == input[i]
               IN /\ settings.names[n] = McpToolRef(<<m.server, m.name>>, "hosted")
                  /\ m.server \in DOMAIN mcp /\ m.name \in mcp[m.server]
                       /\ Modes(request.tools)[m.server] = "hosted"
                     => n \in McpNamesOffered(settings, request)
    <3> DEFINE n == h[j].name
               m == input[i]
    <3>1. PICK p : p = <<m.server, m.name>>
      OBVIOUS
    <3>2. p[1] = m.server
      BY <3>1
    <3>3. /\ settings.names[n] = McpToolRef(p, "hosted")
          /\ p \in Selected(settings.offered) /\ Modes(request.tools)[p[1]] = "hosted"
               => n \in McpNamesOffered(settings, request)
      BY <2>1, <2>2, <2>5, <3>1, ReplayedName
    <3>4. m.server \in DOMAIN mcp /\ m.name \in mcp[m.server] => p \in Selected(settings.offered)
      BY <3>1 DEF Selected
    <3> HIDE DEF n, m
    <3>5. /\ settings.names[n] = McpToolRef(<<m.server, m.name>>, "hosted")
          /\ m.server \in DOMAIN mcp /\ m.name \in mcp[m.server]
               /\ Modes(request.tools)[m.server] = "hosted"
             => n \in McpNamesOffered(settings, request)
      BY <3>1, <3>2, <3>3, <3>4
    <3> QED
      BY <3>5 DEF n, m
  <2> HIDE DEF h, input
  <2>6. \A j \in DOMAIN h : h[j].part = "return" =>
          \E i \in 1 .. j - 1 : h[i].part = "call" /\ h[i].id = h[j].id /\ h[i].name = h[j].name
    BY <2>2, <2>3, OutputsFollowCalls
  <2>7. \A i \in {k \in DOMAIN input : input[k].kind = "mcp_call"} :
          LET m == input[i]
              own == {h[j].name : j \in {k \in DOMAIN h : h[k].part = "builtin_call" /\ h[k].id = m.id}}
          IN \A n \in own : /\ settings.names[n] = McpToolRef(<<m.server, m.name>>, "hosted")
                            /\ m.server \in DOMAIN mcp /\ m.name \in mcp[m.server]
                                 /\ Modes(request.tools)[m.server] = "hosted"
                               => n \in McpNamesOffered(settings, request)
    <3> SUFFICES ASSUME NEW i \in {k \in DOMAIN input : input[k].kind = "mcp_call"},
                        NEW n \in {h[j].name : j \in {k \in DOMAIN h :
                                      h[k].part = "builtin_call" /\ h[k].id = input[i].id}}
                 PROVE  /\ settings.names[n] = McpToolRef(<<input[i].server, input[i].name>>, "hosted")
                        /\ input[i].server \in DOMAIN mcp /\ input[i].name \in mcp[input[i].server]
                             /\ Modes(request.tools)[input[i].server] = "hosted"
                           => n \in McpNamesOffered(settings, request)
      OBVIOUS
    <3>1. PICK j \in DOMAIN h : n = h[j].name /\ h[j].part = "builtin_call" /\ h[j].id = input[i].id
      OBVIOUS
    <3> QED
      BY <3>1, <2>5
  <2> QED
    BY <2>4, <2>6, <2>7, Zenon DEF ReplayIsConsistent, h, input
<1> QED
  BY <1>1, ConvertedInit, ConvertedStep, HistoryInit, HistoryStep, ChoiceStep, PTL DEF SettingsSpec

-----------------------------------------------------------------------------
(* The web_search tool.                                                    *)
CallFields == {"action", "url", "pattern", "state", "result"}
ShapeInv ==
  /\ DOMAIN calls = Requests
  /\ \A q \in Requests :
       /\ DOMAIN calls[q] = Slots
       /\ \A s \in Slots : DOMAIN calls[q][s] = CallFields
       /\ round[q] \in Nat

(* A page that is being opened is one of an allowed URL.                   *)
OpeningInv ==
  \A q \in Requests, s \in Slots :
    calls[q][s].state = "waiting" /\ calls[q][s].action = "open_page" =>
      calls[q][s].url \in Urls /\ Allowed(q, calls[q][s].url)

OpenedInv ==
  \A q \in Requests : \A o \in opened[q] :
    /\ o.round \in Nat /\ o.round <= round[q]
    /\ o.url \in Keys /\ Allowed(q, o.url)
    /\ o.text # NoText

(* The page cache holds what was opened last.                              *)
CacheIs(cached, seen) ==
  \A key \in Keys :
    IF cached[key] = NoText THEN \A o \in seen : o.url # key
    ELSE \E o \in seen : /\ o.url = key /\ o.text = cached[key]
                         /\ \A p \in seen : p.url = key => p.round <= o.round
PageCacheInv == \A q \in Requests : CacheIs(page_cache[q], opened[q])

(* What FindsWhatWasOpened says of one call.                               *)
FoundFrom(call, seen, n) ==
  LET earlier == {o \in seen : o.round < n /\ o.url = canonicalize_url(call.url)}
      latest == {o \in earlier : \A p \in earlier : p.round <= o.round}
      now == {o \in seen : o.round = n /\ o.url = canonicalize_url(call.url)}
  IN /\ earlier # {} => call.result.ok
     /\ call.result.ok => call.result.text \in {o.text : o \in latest \cup now}
Finds(call) == call.state = "done" /\ call.action = "find_in_page" /\ call.pattern # <<>>
FoundInv == \A q \in Requests, s \in Slots :
  Finds(calls[q][s]) => FoundFrom(calls[q][s], opened[q], round[q])

SearchInv ==
  /\ ShapeInv /\ OpeningInv /\ OpenedInv /\ FoundInv /\ PageCacheInv
  /\ DOMAIN round = Requests /\ DOMAIN opened = Requests
  /\ page_cache \in [Requests -> [Keys -> Texts \cup {NoText, <<>>}]]

LEMMA FoundIsTheProperty == FoundInv => FindsWhatWasOpened
BY DEF FoundInv, Finds, FoundFrom, FindsWhatWasOpened, Done, Before

LEMMA Canonical == ASSUME NEW url PROVE canonicalize_url(canonicalize_url(url)) = canonicalize_url(url)
BY DEF canonicalize_url

LEMMA KeyOfUrl == ASSUME NEW url \in Urls PROVE canonicalize_url(url) \in Keys
BY DEF Keys

LEMMA KeyIsCanonical == ASSUME NEW key \in Keys PROVE canonicalize_url(key) = key
<1>1. PICK url \in Urls : key = canonicalize_url(url)
  BY DEF Keys
<1> QED
  BY <1>1, Canonical

LEMMA NoUrlIsCanonical == canonicalize_url(NoUrl) = NoUrl
BY DEF canonicalize_url, NoUrl

LEMMA AllowedIsOfKeys ==
  ASSUME NEW url, NEW allowed
  PROVE  is_url_allowed(canonicalize_url(url), allowed) <=> is_url_allowed(url, allowed)
<1>1. url_hostname(canonicalize_url(url)) = url_hostname(url)
  BY Canonical DEF url_hostname
<1> QED
  BY <1>1 DEF is_url_allowed

LEMMA IdleShape == DOMAIN Idle = CallFields /\ Idle.state = "idle" /\ Idle.action = "none"
BY DEF Idle, CallFields

LEMMA InitSearch == SearchInit => SearchInv
<1> SUFFICES ASSUME SearchInit PROVE SearchInv
  OBVIOUS
<1>1. \A q \in Requests : /\ round[q] = 1 /\ opened[q] = {}
                          /\ calls[q] = [s \in Slots |-> Idle]
                          /\ page_cache[q] = [key \in Keys |-> NoText]
  BY DEF SearchInit
<1>2. DOMAIN calls = Requests /\ DOMAIN round = Requests /\ DOMAIN opened = Requests
  BY DEF SearchInit
<1>3. page_cache \in [Requests -> [Keys -> Texts \cup {NoText, <<>>}]]
  BY DEF SearchInit
<1>4. ShapeInv
  BY <1>1, <1>2, IdleShape DEF ShapeInv
<1>5. OpeningInv
  BY <1>1, IdleShape DEF OpeningInv
<1>6. OpenedInv
  BY <1>1 DEF OpenedInv
<1>7. FoundInv
  BY <1>1, IdleShape DEF FoundInv, Finds
<1>8. PageCacheInv
  BY <1>1 DEF PageCacheInv, CacheIs
<1> QED
  BY <1>2, <1>3, <1>4, <1>5, <1>6, <1>7, <1>8 DEF SearchInv

-----------------------------------------------------------------------------
(* A step that changes neither the pages nor the rounds, and of the calls  *)
(* one: what has to be said of that call.                                  *)
LEMMA OneCall ==
  ASSUME SearchInv, NEW q \in Requests, NEW s \in Slots, NEW call,
         calls' = [calls EXCEPT ![q][s] = call],
         DOMAIN call = CallFields,
         call.state = "waiting" /\ call.action = "open_page" =>
           call.url \in Urls /\ Allowed(q, call.url),
         Finds(call) => FoundFrom(call, opened[q], round[q]),
         UNCHANGED <<setup, round, page_cache, opened>>
  PROVE  SearchInv'
<1>1. DOMAIN calls' = Requests /\ \A r \in Requests : DOMAIN calls'[r] = Slots
  BY DEF SearchInv, ShapeInv
<1>2. \A r \in Requests, t \in Slots : calls'[r][t] = IF r = q /\ t = s THEN call ELSE calls[r][t]
  BY DEF SearchInv, ShapeInv
<1>3. ShapeInv'
  BY <1>1, <1>2 DEF SearchInv, ShapeInv
<1>4. OpeningInv'
  BY <1>2 DEF SearchInv, OpeningInv, Allowed
<1>5. OpenedInv'
  BY DEF SearchInv, OpenedInv, Allowed
<1>6. FoundInv'
  BY <1>2 DEF SearchInv, FoundInv
<1>7. PageCacheInv'
  BY DEF SearchInv, PageCacheInv
<1> QED
  BY <1>3, <1>4, <1>5, <1>6, <1>7 DEF SearchInv

(* A search in the page cache.                                             *)
LEMMA FindIsFound ==
  ASSUME SearchInv, NEW q \in Requests, NEW url \in Urls \cup {NoUrl}, NEW pattern, NEW call,
         call.url = url, call.pattern = pattern,
         call.result = _find_in_page_result(q, url, pattern), Finds(call)
  PROVE  FoundFrom(call, opened[q], round[q])
<1> DEFINE key == canonicalize_url(url)
           earlier == {o \in opened[q] : o.round < round[q] /\ o.url = key}
           latest == {o \in earlier : \A p \in earlier : p.round <= o.round}
           now == {o \in opened[q] : o.round = round[q] /\ o.url = key}
<1>1. pattern # <<>>
  BY DEF Finds
<1>2. \A o \in opened[q] : o.url \in Keys /\ Allowed(q, o.url)
  BY DEF SearchInv, OpenedInv
<1>3. /\ earlier # {} => call.result.ok
      /\ call.result.ok => call.result.text \in {o.text : o \in latest \cup now}
  <2>1. CASE url = NoUrl
    <3>1. ~ call.result.ok
      BY <2>1 DEF _find_in_page_result, Result
    <3>2. earlier = {}
      BY <1>2, <2>1, NoUrlIsCanonical, UrlsAssumption
    <3> QED
      BY <3>1, <3>2
  <2>2. CASE url # NoUrl /\ ~ Allowed(q, url)
    <3>1. ~ call.result.ok
      BY <2>2 DEF _find_in_page_result, Result
    <3>2. ~ Allowed(q, key)
      BY <2>2, AllowedIsOfKeys DEF Allowed
    <3>3. earlier = {}
      BY <1>2, <3>2
    <3> QED
      BY <3>1, <3>3
  <2>3. CASE url # NoUrl /\ Allowed(q, url)
    <3>1. key \in Keys
      BY <2>3, KeyOfUrl
    <3>2. CacheIs(page_cache[q], opened[q])
      BY DEF SearchInv, PageCacheInv
    <3>3. CASE page_cache[q][key] = NoText
      <4>1. earlier = {}
        BY <3>1, <3>2, <3>3 DEF CacheIs
      <4>2. call.result = [Result EXCEPT !.urls = {key}]
        BY <2>3, <1>1, <3>3 DEF _find_in_page_result, get
      <4>3. ~ call.result.ok
        BY <4>2 DEF Result
      <4> QED
        BY <4>1, <4>3
    <3>4. CASE page_cache[q][key] # NoText
      <4>1. PICK o \in opened[q] : /\ o.url = key /\ o.text = page_cache[q][key]
                                   /\ \A p \in opened[q] : p.url = key => p.round <= o.round
        BY <3>1, <3>2, <3>4 DEF CacheIs
      <4>2. call.result = [Result EXCEPT !.ok = TRUE, !.urls = {key}, !.text = page_cache[q][key],
                                         !.matches = Matches(page_cache[q][key], pattern)]
        BY <2>3, <1>1, <3>4 DEF _find_in_page_result, get
      <4>3. call.result.ok /\ call.result.text = o.text
        BY <4>1, <4>2 DEF Result
      <4>4. o.round \in Nat /\ round[q] \in Nat /\ o.round <= round[q]
        BY DEF SearchInv, OpenedInv, ShapeInv
      <4>5. o \in latest \cup now
        BY <4>1, <4>4
      <4> QED
        BY <4>3, <4>5
    <3> QED
      BY <3>3, <3>4
  <2> QED
    BY <2>1, <2>2, <2>3
<1> QED
  BY <1>3 DEF FoundFrom

LEMMA CallStep ==
  ASSUME SearchInv, NEW q \in Requests, NEW s \in Slots, CallTool(q, s)
  PROVE  SearchInv'
<1>1. PICK url \in Urls \cup {NoUrl}, pattern \in Patterns \cup {<<>>},
           given \in {"none", "search", "open_page", "find_in_page"} :
       LET action == normalize_action_request(given, url, pattern)
           refused == action = "open_page" /\ (url = NoUrl \/ ~Allowed(q, url))
           asked == [Idle EXCEPT !.action = action]
       IN calls' = [calls EXCEPT ![q][s] =
            CASE action = "find_in_page" ->
                   [asked EXCEPT !.url = url, !.pattern = pattern, !.state = "done",
                                 !.result = _find_in_page_result(q, url, pattern)]
              [] refused -> [asked EXCEPT !.url = url, !.state = "done"]
              [] action = "open_page" /\ ~refused -> [asked EXCEPT !.url = url, !.state = "waiting"]
              [] action = "search" -> [asked EXCEPT !.state = "waiting"]]
  BY DEF CallTool
<1> DEFINE action == normalize_action_request(given, url, pattern)
           refused == action = "open_page" /\ (url = NoUrl \/ ~Allowed(q, url))
           asked == [Idle EXCEPT !.action = action]
<1>2. action \in {"search", "open_page", "find_in_page"}
  BY Zenon DEF normalize_action_request
<1>3. UNCHANGED <<setup, round, page_cache, opened>>
  BY DEF CallTool
<1>4. CASE action = "find_in_page"
  <2> DEFINE call == [asked EXCEPT !.url = url, !.pattern = pattern, !.state = "done",
                                   !.result = _find_in_page_result(q, url, pattern)]
  <2>1. calls' = [calls EXCEPT ![q][s] = call]
    BY <1>1, <1>4, Zenon
  <2>2. DOMAIN call = CallFields /\ call.state = "done" /\ call.url = url /\ call.pattern = pattern
        /\ call.result = _find_in_page_result(q, url, pattern)
    BY DEF Idle, CallFields
  <2> HIDE DEF call
  <2> QED
    BY <2>1, <2>2, <1>3, OneCall, FindIsFound
<1>5. CASE refused
  <2> DEFINE call == [asked EXCEPT !.url = url, !.state = "done"]
  <2>1. calls' = [calls EXCEPT ![q][s] = call]
    BY <1>1, <1>5, Zenon
  <2>2. DOMAIN call = CallFields /\ call.state = "done" /\ call.action = "open_page"
    BY <1>5 DEF Idle, CallFields
  <2> HIDE DEF call
  <2> QED
    BY <2>1, <2>2, <1>3, OneCall DEF Finds
<1>6. CASE action = "open_page" /\ ~ refused
  <2> DEFINE call == [asked EXCEPT !.url = url, !.state = "waiting"]
  <2>1. calls' = [calls EXCEPT ![q][s] = call]
    BY <1>1, <1>6, Zenon
  <2>2. DOMAIN call = CallFields /\ call.state = "waiting" /\ call.url = url
    BY <1>6 DEF Idle, CallFields
  <2>3. url \in Urls /\ Allowed(q, url)
    BY <1>6
  <2> HIDE DEF call
  <2> QED
    BY <2>1, <2>2, <2>3, <1>3, OneCall DEF Finds
<1>7. CASE action = "search"
  <2> DEFINE call == [asked EXCEPT !.state = "waiting"]
  <2>1. calls' = [calls EXCEPT ![q][s] = call]
    BY <1>1, <1>7, Zenon
  <2>2. DOMAIN call = CallFields /\ call.state = "waiting" /\ call.action = "search"
    BY <1>7 DEF Idle, CallFields
  <2> HIDE DEF call
  <2> QED
    BY <2>1, <2>2, <1>3, OneCall DEF Finds
<1> QED
  BY <1>2, <1>4, <1>5, <1>6, <1>7

-----------------------------------------------------------------------------
(* An answer leaves the question as it is.                                 *)
LEMMA AnsweredCall ==
  ASSUME SearchInv, NEW q \in Requests, NEW s \in Slots, NEW result, AnswerCall(q, s, result)
  PROVE  \E call : /\ calls' = [calls EXCEPT ![q][s] = call]
                   /\ DOMAIN call = CallFields
                   /\ call.state = "done" /\ call.action = calls[q][s].action
<1> DEFINE call == [calls[q][s] EXCEPT !.state = "done", !.result = result]
<1>1. DOMAIN calls[q][s] = CallFields /\ DOMAIN calls = Requests /\ DOMAIN calls[q] = Slots
  BY DEF SearchInv, ShapeInv
<1>2. DOMAIN call = CallFields /\ call.state = "done" /\ call.action = calls[q][s].action
  BY <1>1 DEF CallFields
<1>3. calls' = [calls EXCEPT ![q][s] = call]
  BY <1>1 DEF AnswerCall
<1> QED
  BY <1>2, <1>3

LEMMA SearchAnswersStep ==
  ASSUME SearchInv, NEW q \in Requests, NEW s \in Slots, SearchAnswers(q, s)
  PROVE  SearchInv'
<1>1. PICK result : AnswerCall(q, s, result)
  BY DEF SearchAnswers
<1>2. PICK call : /\ calls' = [calls EXCEPT ![q][s] = call]
                  /\ DOMAIN call = CallFields
                  /\ call.state = "done" /\ call.action = calls[q][s].action
  BY <1>1, AnsweredCall
<1>3. calls[q][s].action = "search"
  BY DEF SearchAnswers, Waiting
<1>4. UNCHANGED <<setup, round, page_cache, opened>>
  BY DEF SearchAnswers
<1> QED
  BY <1>2, <1>3, <1>4, OneCall DEF Finds

(* A page that is opened now is the latest of its URL; what was found      *)
(* before stays found.                                                     *)
LEMMA CacheAfterPut ==
  ASSUME NEW cached, NEW seen, NEW key \in Keys, NEW text, text # NoText, NEW n \in Nat,
         CacheIs(cached, seen), DOMAIN cached = Keys,
         \A o \in seen : o.round \in Nat /\ o.round <= n
  PROVE  CacheIs([cached EXCEPT ![key] = text],
                 seen \cup {[round |-> n, url |-> key, text |-> text]})
<1> DEFINE new == [round |-> n, url |-> key, text |-> text]
           after == [cached EXCEPT ![key] = text]
<1>1. new.round = n /\ new.url = key /\ new.text = text
  OBVIOUS
<1>2. \A k \in Keys : after[k] = IF k = key THEN text ELSE cached[k]
  OBVIOUS
<1> HIDE DEF new, after
<1>3. CacheIs(after, seen \cup {new})
  <2> SUFFICES ASSUME NEW k \in Keys
               PROVE  IF after[k] = NoText THEN \A o \in seen \cup {new} : o.url # k
                      ELSE \E o \in seen \cup {new} :
                             /\ o.url = k /\ o.text = after[k]
                             /\ \A p \in seen \cup {new} : p.url = k => p.round <= o.round
    BY DEF CacheIs
  <2>1. CASE k = key
    <3>1. \A p \in seen \cup {new} : p.round <= new.round
      BY <1>1
    <3>2. after[k] = text /\ new \in seen \cup {new}
      BY <2>1, <1>2
    <3> QED
      BY <2>1, <1>1, <3>1, <3>2
  <2>2. CASE k # key
    <3>1. after[k] = cached[k] /\ new.url # k
      BY <2>2, <1>1, <1>2
    <3>2. CASE cached[k] = NoText
      BY <3>1, <3>2 DEF CacheIs
    <3>3. CASE cached[k] # NoText
      <4>1. PICK o \in seen : /\ o.url = k /\ o.text = cached[k]
                              /\ \A p \in seen : p.url = k => p.round <= o.round
        BY <3>3 DEF CacheIs
      <4> QED
        BY <3>1, <3>3, <4>1
    <3> QED
      BY <3>2, <3>3
  <2> QED
    BY <2>1, <2>2
<1> QED
  BY <1>3 DEF new, after

LEMMA FoundAfterPut ==
  ASSUME NEW call, NEW seen, NEW n \in Nat, NEW key, NEW text, FoundFrom(call, seen, n)
  PROVE  FoundFrom(call, seen \cup {[round |-> n, url |-> key, text |-> text]}, n)
<1> DEFINE new == [round |-> n, url |-> key, text |-> text]
           mine == canonicalize_url(call.url)
<1>1. new.round = n
  OBVIOUS
<1> HIDE DEF new
<1> DEFINE earlier == {o \in seen : o.round < n /\ o.url = mine}
           earlierNew == {o \in seen \cup {new} : o.round < n /\ o.url = mine}
           latest == {o \in earlier : \A p \in earlier : p.round <= o.round}
           now == {o \in seen : o.round = n /\ o.url = mine}
           nowNew == {o \in seen \cup {new} : o.round = n /\ o.url = mine}
<1>2. earlierNew = earlier
  BY <1>1
<1>3. now \subseteq nowNew
  OBVIOUS
<1>4. /\ earlier # {} => call.result.ok
      /\ call.result.ok => call.result.text \in {o.text : o \in latest \cup now}
  BY DEF FoundFrom
<1> HIDE DEF earlier, earlierNew, latest, now, nowNew
<1>5. call.result.ok => call.result.text \in {o.text : o \in latest \cup nowNew}
  BY <1>3, <1>4
<1>6. FoundFrom(call, seen \cup {new}, n)
  <2>1. latest = {o \in earlierNew : \A p \in earlierNew : p.round <= o.round}
    BY <1>2 DEF latest
  <2> QED
    BY <1>2, <1>4, <1>5, <2>1 DEF FoundFrom, earlierNew, nowNew
<1> QED
  BY <1>6 DEF new

LEMMA PageAnswersStep ==
  ASSUME SearchInv, NEW q \in Requests, NEW s \in Slots, PageAnswers(q, s)
  PROVE  SearchInv'
<1> DEFINE url == canonicalize_url(calls[q][s].url)
<1>1. calls[q][s].action = "open_page" /\ calls[q][s].state = "waiting" /\ UNCHANGED <<setup, round>>
  BY DEF PageAnswers, Waiting
<1>2. PICK result : AnswerCall(q, s, result)
  BY DEF PageAnswers
<1>3. PICK call : /\ calls' = [calls EXCEPT ![q][s] = call]
                  /\ DOMAIN call = CallFields
                  /\ call.state = "done" /\ call.action = calls[q][s].action
  BY <1>2, AnsweredCall
<1>4. CASE UNCHANGED <<page_cache, opened>>
  BY <1>1, <1>3, <1>4, OneCall DEF Finds
<1>5. CASE \E text \in Texts :
             LET shown == PageText(q, text) IN
             /\ shown # NoText
             /\ put(q, url, shown)
             /\ opened' = [opened EXCEPT ![q] =
                             @ \cup {[round |-> round[q], url |-> url, text |-> shown]}]
  <2>1. PICK shown \in Texts \cup {NoText, <<>>} :
             /\ shown # NoText
             /\ put(q, url, shown)
             /\ opened' = [opened EXCEPT ![q] =
                             @ \cup {[round |-> round[q], url |-> url, text |-> shown]}]
    BY <1>5 DEF PageText
  <2> DEFINE new == [round |-> round[q], url |-> url, text |-> shown]
  <2>2. round[q] \in Nat
    BY DEF SearchInv, ShapeInv
  <2>3. new.round = round[q] /\ new.url = url /\ new.text = shown
    OBVIOUS
  <2>4. url \in Keys /\ Allowed(q, url)
    <3>1. calls[q][s].url \in Urls /\ Allowed(q, calls[q][s].url)
      BY <1>1 DEF SearchInv, OpeningInv
    <3> QED
      BY <3>1, KeyOfUrl, AllowedIsOfKeys DEF Allowed
  <2>5. canonicalize_url(url) = url
    BY Canonical
  <2>6. page_cache' = [page_cache EXCEPT ![q] = [page_cache[q] EXCEPT ![url] = shown]]
    BY <2>1, <2>5 DEF put
  <2>7. \A r \in Requests : opened'[r] = IF r = q THEN opened[q] \cup {new} ELSE opened[r]
    BY <2>1 DEF SearchInv
  <2>8. DOMAIN opened' = Requests /\ DOMAIN round' = Requests
    BY <2>1, <1>1 DEF SearchInv
  <2> HIDE DEF url
  <2>9. page_cache[q] \in [Keys -> Texts \cup {NoText, <<>>}]
    BY DEF SearchInv
  <2>10. page_cache' \in [Requests -> [Keys -> Texts \cup {NoText, <<>>}]]
    <3>1. [page_cache[q] EXCEPT ![url] = shown] \in [Keys -> Texts \cup {NoText, <<>>}]
      BY <2>9
    <3> QED
      BY <3>1, <2>6 DEF SearchInv
  <2>11. \A r \in Requests : page_cache'[r] = IF r = q THEN [page_cache[q] EXCEPT ![url] = shown]
                                                     ELSE page_cache[r]
    BY <2>6 DEF SearchInv
  <2>12. \A r \in Requests, t \in Slots : calls'[r][t] = IF r = q /\ t = s THEN call ELSE calls[r][t]
    BY <1>3 DEF SearchInv, ShapeInv
  <2>13. ShapeInv'
    <3>1. DOMAIN calls' = Requests /\ \A r \in Requests : DOMAIN calls'[r] = Slots
      BY <1>3 DEF SearchInv, ShapeInv
    <3> QED
      BY <3>1, <1>1, <1>3, <2>12 DEF SearchInv, ShapeInv
  <2>14. OpeningInv'
    BY <1>1, <1>3, <2>12 DEF SearchInv, OpeningInv, Allowed
  <2>15. OpenedInv'
    <3> SUFFICES ASSUME NEW r \in Requests, NEW o \in opened'[r]
                 PROVE  /\ o.round \in Nat /\ o.round <= round[r]
                        /\ o.url \in Keys /\ Allowed(r, o.url)
                        /\ o.text # NoText
      BY <1>1 DEF OpenedInv, Allowed
    <3> HIDE DEF new
    <3>1. CASE o \in opened[r]
      BY <3>1 DEF SearchInv, OpenedInv
    <3>2. CASE r = q /\ o = new
      BY <3>2, <2>1, <2>2, <2>3, <2>4
    <3> QED
      BY <3>1, <3>2, <2>7
  <2>16. PageCacheInv'
    <3>1. CacheIs([page_cache[q] EXCEPT ![url] = shown], opened[q] \cup {new})
      <4>1. \A o \in opened[q] : o.round \in Nat /\ o.round <= round[q]
        BY DEF SearchInv, OpenedInv
      <4>2. CacheIs(page_cache[q], opened[q])
        BY DEF SearchInv, PageCacheInv
      <4> QED
        BY <2>1, <2>2, <2>4, <2>9, <4>1, <4>2, CacheAfterPut
    <3> HIDE DEF new
    <3> SUFFICES ASSUME NEW r \in Requests PROVE CacheIs(page_cache'[r], opened'[r])
      BY DEF PageCacheInv
    <3> QED
      BY <3>1, <2>7, <2>11 DEF SearchInv, PageCacheInv
  <2>17. FoundInv'
    <3> SUFFICES ASSUME NEW r \in Requests, NEW t \in Slots, Finds(calls'[r][t])
                 PROVE  FoundFrom(calls'[r][t], opened'[r], round[r])
      BY <1>1 DEF FoundInv
    <3>1. calls'[r][t] = calls[r][t]
      BY <1>1, <1>3, <2>12 DEF Finds
    <3>2. FoundFrom(calls[r][t], opened[r], round[r])
      BY <3>1 DEF SearchInv, FoundInv
    <3>3. CASE r = q
      <4>1. FoundFrom(calls[r][t], opened[q] \cup {new}, round[q])
        BY <2>2, <3>2, <3>3, FoundAfterPut
      <4> HIDE DEF new
      <4> QED
        BY <4>1, <3>1, <3>3, <2>7
    <3>4. CASE r # q
      BY <3>1, <3>2, <3>4, <2>7
    <3> QED
      BY <3>3, <3>4
  <2> QED
    BY <2>8, <2>10, <2>13, <2>14, <2>15, <2>16, <2>17 DEF SearchInv
<1> QED
  BY <1>4, <1>5 DEF PageAnswers

(* In a new round nothing is called yet and the pages are those there were.*)
LEMMA NextRoundStep ==
  ASSUME SearchInv, NEW q \in Requests, NextRound(q)
  PROVE  SearchInv'
<1>1. UNCHANGED <<setup, page_cache, opened>>
  BY DEF NextRound
<1>2. round' = [round EXCEPT ![q] = round[q] + 1] /\ calls' = [calls EXCEPT ![q] = [s \in Slots |-> Idle]]
  BY DEF NextRound
<1>3. \A r \in Requests : round'[r] = IF r = q THEN round[q] + 1 ELSE round[r]
  BY <1>2 DEF SearchInv
<1>4. \A r \in Requests : calls'[r] = IF r = q THEN [s \in Slots |-> Idle] ELSE calls[r]
  BY <1>2 DEF SearchInv, ShapeInv
<1>5. DOMAIN calls' = Requests /\ DOMAIN round' = Requests
  BY <1>2 DEF SearchInv, ShapeInv
<1>6. \A r \in Requests : round[r] \in Nat
  BY DEF SearchInv, ShapeInv
<1>7. ShapeInv'
  BY <1>3, <1>4, <1>5, <1>6, IdleShape DEF SearchInv, ShapeInv
<1>8. OpeningInv'
  BY <1>1, <1>4, IdleShape DEF SearchInv, OpeningInv, Allowed
<1>9. OpenedInv'
  <2> SUFFICES ASSUME NEW r \in Requests, NEW o \in opened[r]
               PROVE  /\ o.round \in Nat /\ o.round <= round'[r]
                      /\ o.url \in Keys /\ Allowed(r, o.url)
                      /\ o.text # NoText
    BY <1>1 DEF OpenedInv, Allowed
  <2>1. /\ o.round \in Nat /\ o.round <= round[r]
        /\ o.url \in Keys /\ Allowed(r, o.url) /\ o.text # NoText
    BY DEF SearchInv, OpenedInv
  <2> QED
    BY <2>1, <1>3, <1>6
<1>10. FoundInv'
  <2> SUFFICES ASSUME NEW r \in Requests, NEW t \in Slots, Finds(calls'[r][t])
               PROVE  FoundFrom(calls'[r][t], opened[r], round'[r])
    BY <1>1 DEF FoundInv
  <2>1. r # q
    BY <1>4, IdleShape DEF Finds
  <2> QED
    BY <2>1, <1>3, <1>4 DEF SearchInv, FoundInv
<1>11. PageCacheInv'
  BY <1>1 DEF SearchInv, PageCacheInv
<1> QED
  BY <1>1, <1>5, <1>7, <1>8, <1>9, <1>10, <1>11 DEF SearchInv

LEMMA SearchUnchanged ==
  ASSUME SearchInv, UNCHANGED <<setup, round, calls, page_cache, opened>>
  PROVE  SearchInv'
<1>1. ShapeInv' /\ FoundInv' /\ PageCacheInv'
  BY DEF SearchInv, ShapeInv, FoundInv, PageCacheInv
<1>2. OpeningInv' /\ OpenedInv'
  BY DEF SearchInv, OpeningInv, OpenedInv, Allowed
<1> QED
  BY <1>1, <1>2 DEF SearchInv

LEMMA SearchStep == SearchInv /\ [SearchNext]_searchVars => SearchInv'
<1> SUFFICES ASSUME SearchInv, [SearchNext]_searchVars PROVE SearchInv'
  OBVIOUS
<1>1. ASSUME NEW q \in Requests, Begin(q) PROVE SearchInv'
  BY <1>1, SearchUnchanged DEF Begin
<1>2. ASSUME NEW q \in Requests, NEW s \in Slots, ToolRaises(q, s) PROVE SearchInv'
  BY <1>2, SearchUnchanged DEF ToolRaises
<1>3. CASE UNCHANGED searchVars
  BY <1>3, SearchUnchanged DEF searchVars
<1> QED
  BY <1>1, <1>2, <1>3, CallStep, SearchAnswersStep, PageAnswersStep, NextRoundStep DEF SearchNext

(* Whatever the model asks for in parallel, a page opened in an earlier    *)
(* round of the request is found again under any spelling of its URL       *)
(* (FindsWhatWasOpened), with the text of the latest round that opened it  *)
(* or one of this round: the page cache follows the answers.               *)
THEOREM WhatWasOpenedIsFound == SearchSpec => []FindsWhatWasOpened
<1>1. SearchInv => FindsWhatWasOpened
  BY FoundIsTheProperty DEF SearchInv
<1> QED
  BY <1>1, InitSearch, SearchStep, PTL DEF SearchSpec

-----------------------------------------------------------------------------
(* Folding a text.                                                         *)
Fold(c) == IF c = "A" THEN "a" ELSE c
Piece(c) == CASE c = "A" -> <<"a">> [] c = "sz" -> <<"s", "s">> [] OTHER -> <<c>>

LEMMA PieceIs ==
  ASSUME NEW c
  PROVE  /\ IsSequence(Piece(c)) /\ Len(Piece(c)) \in {1, 2}
         /\ c = "sz" => Len(Piece(c)) = 2
         /\ c # "sz" => Len(Piece(c)) = 1 /\ Piece(c)[1] = Fold(c)
<1>1. CASE c = "A"
  <2>1. Piece(c) = <<"a">>
    BY <1>1, Zenon DEF Piece
  <2> QED
    BY <1>1, <2>1, OneIsSequence DEF Fold
<1>2. CASE c = "sz"
  <2>1. Piece(c) = <<"s", "s">>
    BY <1>2, Zenon DEF Piece
  <2> QED
    BY <1>2, <2>1, TwoIsSequence
<1>3. CASE c # "A" /\ c # "sz"
  <2>1. Piece(c) = <<c>>
    BY <1>3, Zenon DEF Piece
  <2> QED
    BY <1>3, <2>1, OneIsSequence DEF Fold
<1> QED
  BY <1>1, <1>2, <1>3

(* Folded(at, text, folded): piece i of the folded text begins after at[i - 1]. *)
Folded(at, text, folded) ==
  /\ at[0] = 0 /\ at[Len(text)] = Len(folded)
  /\ \A i \in 0 .. Len(text) : at[i] \in Nat
  /\ \A i \in 1 .. Len(text) : at[i] = at[i - 1] + Len(Piece(text[i]))
  /\ \A i \in 1 .. Len(text) : text[i] # "sz" => folded[at[i - 1] + 1] = Fold(text[i])

LEMMA FoldLaid ==
  ASSUME NEW text, IsSequence(text)
  PROVE  IsSequence(casefold(text)) /\ \E at : Folded(at, text, casefold(text))
<1> DEFINE seqs == [i \in DOMAIN text |-> Piece(text[i])]
           N == Len(text)
<1>1. casefold(text) = FlattenSeq(seqs)
  BY DEF casefold, Piece
<1>2. N \in Nat /\ DOMAIN text = 1 .. N
  BY SequenceIs
<1>3. seqs \in [1 .. N -> Range(seqs)]
  BY <1>2 DEF Range
<1>4. \A i \in 1 .. N : seqs[i] = Piece(text[i])
  BY <1>2
<1> HIDE DEF seqs
<1>5. IsSequence(seqs) /\ Len(seqs) = N
  BY <1>2, <1>3, FunctionIsSeq DEF IsSequence
<1>6. \A i \in 1 .. N : IsSequence(seqs[i])
  BY <1>4, PieceIs
<1>7. PICK at : Ends(at, seqs, N) /\ Placed(FlattenSeq(seqs), at, seqs, N)
  BY <1>5, <1>6, FlattenedIs
<1>8. IsSequence(casefold(text)) /\ Len(casefold(text)) = at[N]
  BY <1>1, <1>7 DEF Placed
<1>9. \A i \in 1 .. N : text[i] # "sz" => casefold(text)[at[i - 1] + 1] = Fold(text[i])
  <2> SUFFICES ASSUME NEW i \in 1 .. N, text[i] # "sz" PROVE casefold(text)[at[i - 1] + 1] = Fold(text[i])
    OBVIOUS
  <2>1. Len(seqs[i]) = 1 /\ seqs[i][1] = Fold(text[i])
    BY <1>4, PieceIs
  <2>2. \A k \in 1 .. Len(seqs[i]) : casefold(text)[at[i - 1] + k] = seqs[i][k]
    BY <1>1, <1>7 DEF Placed
  <2> QED
    BY <2>1, <2>2
<1>10. /\ at[0] = 0 /\ \A i \in 0 .. N : at[i] \in Nat
       /\ \A i \in 1 .. N : at[i] = at[i - 1] + Len(Piece(text[i]))
  BY <1>4, <1>7 DEF Ends
<1>11. Folded(at, text, casefold(text))
  BY <1>8, <1>9, <1>10 DEF Folded
<1> QED
  BY <1>8, <1>11

(* A text without the letter that folds to two keeps its length.           *)
LEMMA FoldPlain ==
  ASSUME NEW text, IsSequence(text), \A i \in 1 .. Len(text) : text[i] # "sz"
  PROVE  /\ Len(casefold(text)) = Len(text)
         /\ \A i \in 1 .. Len(text) : casefold(text)[i] = Fold(text[i])
<1> DEFINE N == Len(text)
<1>1. N \in Nat
  BY SequenceIs
<1>2. PICK at : Folded(at, text, casefold(text))
  BY FoldLaid
<1> DEFINE S == {i \in 0 .. N : at[i] = i}
<1>3. 0 \in S
  BY <1>1, <1>2 DEF Folded
<1>4. ASSUME NEW i \in 0 .. N - 1, i \in S PROVE i + 1 \in S
  <2>1. i + 1 \in 1 .. N /\ i + 1 \in 0 .. N /\ (i + 1) - 1 = i /\ i \in Nat
    BY <1>1
  <2>2. at[i + 1] = at[i] + Len(Piece(text[i + 1]))
    BY <1>2, <2>1 DEF Folded
  <2>3. Len(Piece(text[i + 1])) = 1
    BY <2>1, PieceIs
  <2>4. at[i] = i
    BY <1>4
  <2> QED
    BY <2>1, <2>2, <2>3, <2>4
<1> HIDE DEF S
<1>5. \A i \in 0 .. N : at[i] = i
  <2>1. \A i \in 0 .. N - 1 : i \in S => i + 1 \in S
    BY <1>4
  <2> HIDE DEF N
  <2>2. 0 .. N \subseteq S
    BY <1>1, <1>3, <2>1, InductUpTo
  <2> QED
    BY <2>2 DEF S
<1>6. Len(casefold(text)) = N
  BY <1>1, <1>2, <1>5 DEF Folded
<1>7. ASSUME NEW i \in 1 .. N PROVE casefold(text)[i] = Fold(text[i])
  <2>1. casefold(text)[at[i - 1] + 1] = Fold(text[i])
    BY <1>2 DEF Folded
  <2>2. at[i - 1] = i - 1
    BY <1>1, <1>5
  <2>3. (i - 1) + 1 = i
    OBVIOUS
  <2> QED
    BY <2>1, <2>2, <2>3
<1> QED
  BY <1>6, <1>7

(* And only such a text does.                                              *)
LEMMA FoldKeeps ==
  ASSUME NEW text, IsSequence(text), Len(casefold(text)) = Len(text)
  PROVE  \A i \in 1 .. Len(text) : text[i] # "sz"
<1> DEFINE N == Len(text)
<1>1. N \in Nat
  BY SequenceIs
<1>2. PICK at : Folded(at, text, casefold(text))
  BY FoldLaid
<1> SUFFICES ASSUME NEW j \in 1 .. N, text[j] = "sz" PROVE FALSE
  OBVIOUS
<1> DEFINE S == {i \in 0 .. N : at[i] >= i /\ (i >= j => at[i] >= i + 1)}
<1>3. 0 \in S
  BY <1>1, <1>2 DEF Folded
<1>4. ASSUME NEW i \in 0 .. N - 1, i \in S PROVE i + 1 \in S
  <2>1. i + 1 \in 1 .. N /\ i + 1 \in 0 .. N /\ (i + 1) - 1 = i /\ i \in Nat /\ i \in 0 .. N
    BY <1>1
  <2>2. at[i + 1] = at[i] + Len(Piece(text[i + 1])) /\ at[i] \in Nat
    BY <1>2, <2>1 DEF Folded
  <2>3. Len(Piece(text[i + 1])) \in {1, 2} /\ (i + 1 = j => Len(Piece(text[i + 1])) = 2)
    BY PieceIs
  <2>4. at[i] >= i /\ (i >= j => at[i] >= i + 1)
    BY <1>4
  <2>5. at[i + 1] >= i + 1 /\ (i + 1 >= j => at[i + 1] >= (i + 1) + 1)
    <3>1. PICK l : l = Len(Piece(text[i + 1]))
      OBVIOUS
    <3>2. PICK b : b = at[i + 1]
      OBVIOUS
    <3>3. l \in {1, 2} /\ (i + 1 = j => l = 2) /\ b = at[i] + l /\ at[i] \in Nat
      BY <2>2, <2>3, <3>1, <3>2
    <3>4. b >= i + 1 /\ (i + 1 >= j => b >= (i + 1) + 1)
      BY <1>1, <2>1, <2>4, <3>3
    <3> QED
      BY <3>2, <3>4
  <2> QED
    BY <2>1, <2>5
<1> HIDE DEF S
<1>5. N \in S
  <2>1. \A i \in 0 .. N - 1 : i \in S => i + 1 \in S
    BY <1>4
  <2> HIDE DEF N
  <2>2. 0 .. N \subseteq S
    BY <1>1, <1>3, <2>1, InductUpTo
  <2> QED
    BY <1>1, <2>2
<1>6. at[N] >= N + 1
  BY <1>5 DEF S
<1>7. at[N] = N
  BY <1>2 DEF Folded
<1> QED
  BY <1>1, <1>6, <1>7

-----------------------------------------------------------------------------
(* The search from a position on.                                          *)
Hits(haystack, needle, i) ==
  {p \in i..(Len(haystack) - Len(needle)) : SubSeq(haystack, p + 1, p + Len(needle)) = needle}
Hit(text, pattern, pos) ==
  [start |-> pos, end |-> pos + Len(pattern), text |-> Snippet(text, pos, pos + Len(pattern))]
FromHere(f, text, pattern, i) ==
  IF Hits(casefold(text), casefold(pattern), i) = {} THEN <<>>
  ELSE LET pos == Min(Hits(casefold(text), casefold(pattern), i))
           end == pos + Len(pattern)
       IN <<[start |-> pos, end |-> end, text |-> Snippet(text, pos, end)]>> \o f[Resume(pos, pattern)]
Top(text, pattern) == Len(casefold(text)) + Len(pattern) + 1
SearchedFrom(f, text, pattern, low) ==
  f = [i \in low .. Top(text, pattern) |-> FromHere(f, text, pattern, i)]

(* What the statement below supposes of a text and a pattern.              *)
KeepsLength(text, pattern) ==
  /\ IsSequence(text) /\ Len(casefold(text)) = Len(text)
  /\ IsSequence(pattern) /\ Len(casefold(pattern)) = Len(pattern) /\ pattern # <<>>

LEMMA LeastHit ==
  ASSUME NEW text, NEW pattern, KeepsLength(text, pattern), NEW i \in Nat,
         NEW hits, hits = Hits(casefold(text), casefold(pattern), i), hits # {}
  PROVE  /\ Min(hits) \in hits /\ \A p \in hits : Min(hits) <= p
         /\ Min(hits) \in i .. Len(text) - Len(pattern)
         /\ Resume(Min(hits), pattern) = Min(hits) + Len(pattern)
         /\ Resume(Min(hits), pattern) \in i + 1 .. Top(text, pattern)
<1>1. Len(text) \in Nat /\ Len(pattern) \in Nat /\ Len(pattern) # 0
  BY SequenceIs DEF KeepsLength
<1>2. hits \subseteq i .. Len(text) - Len(pattern)
  BY DEF Hits, KeepsLength
<1>3. hits \subseteq Nat
  BY <1>1, <1>2
<1>4. PICK n \in hits : \A m \in hits : n <= m
  BY <1>3, LeastNat
<1>5. Min(hits) \in hits /\ \A p \in hits : Min(hits) <= p
  BY <1>4 DEF Min
<1>6. Resume(Min(hits), pattern) = Min(hits) + Len(pattern)
  BY DEF Resume
<1>7. Top(text, pattern) = Len(text) + Len(pattern) + 1
  BY DEF Top, KeepsLength
<1>8. Resume(Min(hits), pattern) \in i + 1 .. Top(text, pattern)
  <2>1. PICK m : m = Min(hits)
    OBVIOUS
  <2>2. m \in i .. Len(text) - Len(pattern)
    BY <1>2, <1>5, <2>1
  <2>3. m + Len(pattern) \in i + 1 .. Len(text) + Len(pattern) + 1
    BY <1>1, <2>2
  <2> QED
    BY <1>6, <1>7, <2>1, <2>3
<1> QED
  BY <1>2, <1>5, <1>6, <1>8

LEMMA SameFromHere ==
  ASSUME NEW text, NEW pattern, KeepsLength(text, pattern), NEW i \in Nat, NEW f, NEW g,
         \A k \in i + 1 .. Top(text, pattern) : f[k] = g[k]
  PROVE  FromHere(f, text, pattern, i) = FromHere(g, text, pattern, i)
<1> DEFINE hits == Hits(casefold(text), casefold(pattern), i)
<1>1. CASE hits = {}
  BY <1>1 DEF FromHere
<1>2. CASE hits # {}
  <2>1. Resume(Min(hits), pattern) \in i + 1 .. Top(text, pattern)
    BY <1>2, LeastHit
  <2>2. f[Resume(Min(hits), pattern)] = g[Resume(Min(hits), pattern)]
    BY <2>1
  <2> QED
    BY <1>2, <2>2 DEF FromHere
<1> QED
  BY <1>1, <1>2

LEMMA SearchExists ==
  ASSUME NEW text, NEW pattern, KeepsLength(text, pattern)
  PROVE  \E f : SearchedFrom(f, text, pattern, 0)
<1> DEFINE M == Top(text, pattern)
           S == {k \in 0 .. M : \E f : SearchedFrom(f, text, pattern, M - k)}
<1>1. M \in Nat
  BY SequenceIs DEF KeepsLength, Top
<1>2. ASSUME NEW low \in 0 .. M, NEW f, NEW rest,
             rest = (low + 1 .. M), f = [i \in rest |-> FromHere(f, text, pattern, i)]
      PROVE  \E g : SearchedFrom(g, text, pattern, low)
  <2> DEFINE g == [i \in low .. M |-> IF i = low THEN FromHere(f, text, pattern, low) ELSE f[i]]
  <2>1. DOMAIN g = low .. M /\ g = [i \in DOMAIN g |-> g[i]]
    OBVIOUS
  <2>2. g[low] = FromHere(f, text, pattern, low)
    BY <1>1
  <2>3. \A i \in rest : g[i] = f[i] /\ f[i] = FromHere(f, text, pattern, i)
    BY <1>1, <1>2
  <2> HIDE DEF g
  <2>4. ASSUME NEW i \in low .. M PROVE g[i] = FromHere(g, text, pattern, i)
    <3>1. i \in Nat /\ (i # low => i \in rest) /\ \A k \in i + 1 .. M : k \in rest
      BY <1>1, <1>2
    <3>2. \A k \in i + 1 .. M : f[k] = g[k]
      BY <2>3, <3>1
    <3>3. FromHere(f, text, pattern, i) = FromHere(g, text, pattern, i)
      BY <3>1, <3>2, SameFromHere
    <3> QED
      BY <2>2, <2>3, <3>1, <3>3
  <2>5. g = [i \in low .. M |-> FromHere(g, text, pattern, i)]
    BY <2>1, <2>4
  <2> QED
    BY <2>5 DEF SearchedFrom
<1>3. 0 \in S
  <2> DEFINE f == [i \in {} |-> FromHere(<<>>, text, pattern, i)]
  <2>1. PICK rest : rest = (M + 1 .. M)
    OBVIOUS
  <2>2. rest = {}
    BY <1>1, <2>1
  <2>3. f = [i \in rest |-> FromHere(f, text, pattern, i)]
    BY <2>2
  <2> HIDE DEF f
  <2>4. M \in 0 .. M
    BY <1>1
  <2> HIDE DEF M
  <2>5. \E g : SearchedFrom(g, text, pattern, M)
    BY <1>2, <2>1, <2>3, <2>4
  <2>6. M - 0 = M /\ 0 \in 0 .. M
    BY <1>1
  <2> QED
    BY <2>5, <2>6
<1>4. ASSUME NEW k \in 0 .. M - 1, k \in S PROVE k + 1 \in S
  <2> HIDE DEF M
  <2>1. PICK low : low = M - (k + 1)
    OBVIOUS
  <2>2. low \in 0 .. M /\ low + 1 = M - k /\ k + 1 \in 0 .. M
    BY <1>1, <2>1
  <2>3. PICK f : SearchedFrom(f, text, pattern, M - k)
    BY <1>4
  <2>4. PICK rest : rest = (low + 1 .. M)
    OBVIOUS
  <2>5. f = [i \in rest |-> FromHere(f, text, pattern, i)]
    BY <2>2, <2>3, <2>4 DEF SearchedFrom, M
  <2>6. \E g : SearchedFrom(g, text, pattern, low)
    BY <1>2, <2>2, <2>4, <2>5
  <2> QED
    BY <2>1, <2>2, <2>6
<1> HIDE DEF S
<1>5. M \in S
  <2>1. \A k \in 0 .. M - 1 : k \in S => k + 1 \in S
    BY <1>4
  <2> HIDE DEF M
  <2>2. 0 .. M \subseteq S
    BY <1>1, <1>3, <2>1, InductUpTo
  <2> QED
    BY <1>1, <2>2
<1>6. \E f : SearchedFrom(f, text, pattern, M - M)
  BY <1>5 DEF S
<1> QED
  BY <1>1, <1>6

LEMMA MatchesIs ==
  ASSUME NEW text, NEW pattern, KeepsLength(text, pattern)
  PROVE  \E f : /\ Matches(text, pattern) = f[0]
               /\ \A i \in 0 .. Top(text, pattern) : f[i] = FromHere(f, text, pattern, i)
<1> DEFINE f == CHOOSE g : SearchedFrom(g, text, pattern, 0)
<1>1. SearchedFrom(f, text, pattern, 0)
  BY SearchExists
<1>2. Matches(text, pattern) = f[0]
  BY DEF Matches, SearchedFrom, FromHere, Hits, Top
<1> HIDE DEF f
<1>3. \A i \in 0 .. Top(text, pattern) : f[i] = FromHere(f, text, pattern, i)
  BY <1>1 DEF SearchedFrom
<1> QED
  BY <1>2, <1>3

-----------------------------------------------------------------------------
(* What is reported from a position on: occurrences, in order, that leave  *)
(* no occurrence untouched.                                                *)
Occurs(text, pattern, i) == SubSeq(casefold(text), i + 1, i + Len(pattern)) = casefold(pattern)
IsHit(m, text, pattern, i) ==
  /\ m.start \in Nat /\ m.start >= i /\ m.start <= Len(text) - Len(pattern)
  /\ m.end = m.start + Len(pattern) /\ m.text = Snippet(text, m.start, m.end)
  /\ Occurs(text, pattern, m.start)
Reports(found, text, pattern, i) ==
  /\ IsSequence(found)
  /\ \A k \in 1 .. Len(found) : IsHit(found[k], text, pattern, i)
  /\ \A j, k \in 1 .. Len(found) : j < k => found[j].end <= found[k].start
  /\ \A p \in i .. Len(text) - Len(pattern) : Occurs(text, pattern, p) =>
       \E k \in 1 .. Len(found) : p < found[k].end /\ found[k].start < p + Len(pattern)

LEMMA NoneReported ==
  ASSUME NEW text, NEW pattern, KeepsLength(text, pattern), NEW i,
         Hits(casefold(text), casefold(pattern), i) = {}
  PROVE  Reports(<<>>, text, pattern, i)
<1>1. IsSequence(<<>>) /\ Len(<<>>) = 0
  BY NoneIsSequence
<1>2. PICK found : found = <<>>
  OBVIOUS
<1>3. IsSequence(found) /\ Len(found) = 0
  BY <1>1, <1>2
<1>4. \A p \in i .. Len(text) - Len(pattern) : ~ Occurs(text, pattern, p)
  BY DEF Hits, Occurs, KeepsLength
<1>5. Reports(found, text, pattern, i)
  BY <1>3, <1>4 DEF Reports
<1> QED
  BY <1>2, <1>5

LEMMA OneMore ==
  ASSUME NEW text, NEW pattern, KeepsLength(text, pattern), NEW i \in Nat,
         NEW pos \in i .. Len(text) - Len(pattern), Occurs(text, pattern, pos),
         \A p \in i .. Len(text) - Len(pattern) : Occurs(text, pattern, p) => pos <= p,
         NEW rest, Reports(rest, text, pattern, pos + Len(pattern)),
         NEW m, m = Hit(text, pattern, pos), NEW found, found = <<m>> \o rest
  PROVE  Reports(found, text, pattern, i)
<1> DEFINE L == Len(pattern)
           K == Len(rest)
<1>1. Len(text) \in Nat /\ L \in Nat /\ pos \in Nat
  BY SequenceIs DEF KeepsLength
<1>2. m.start = pos /\ m.end = pos + L /\ m.text = Snippet(text, pos, pos + L)
  BY DEF Hit
<1>3. IsHit(m, text, pattern, i)
  BY <1>1, <1>2 DEF IsHit
<1>4. IsSequence(rest) /\ IsSequence(<<m>>) /\ Len(<<m>>) = 1 /\ <<m>>[1] = m
  BY OneIsSequence DEF Reports
<1>5. PICK one : one = <<m>>
  OBVIOUS
<1>6. IsSequence(one) /\ Len(one) = 1 /\ one[1] = m /\ found = one \o rest
  BY <1>4, <1>5
<1>7. K \in Nat
  BY <1>4, SequenceIs
<1>8. IsSequence(found) /\ Len(found) = 1 + K
  BY <1>4, <1>6, JoinIs
<1>9. found[1] = m /\ \A k \in 1 .. K : found[1 + k] = rest[k]
  BY <1>4, <1>6, JoinIs
<1> HIDE DEF K, L
<1>10. \A k \in 1 .. 1 + K : k = 1 \/ (k - 1 \in 1 .. K /\ found[k] = rest[k - 1])
  <2> SUFFICES ASSUME NEW k \in 1 .. 1 + K, k # 1 PROVE k - 1 \in 1 .. K /\ found[k] = rest[k - 1]
    OBVIOUS
  <2>1. k - 1 \in 1 .. K /\ 1 + (k - 1) = k
    BY <1>7
  <2>2. found[1 + (k - 1)] = rest[k - 1]
    BY <1>9, <2>1
  <2> QED
    BY <2>1, <2>2
<1>11. \A k \in 1 .. K : IsHit(rest[k], text, pattern, pos + L)
  BY DEF Reports, K, L
<1>12. \A k \in 1 .. K : rest[k].start \in Nat /\ rest[k].start >= pos + L
  BY <1>11 DEF IsHit
<1>13. \A k \in 1 .. K : IsHit(rest[k], text, pattern, i)
  <2> SUFFICES ASSUME NEW k \in 1 .. K PROVE IsHit(rest[k], text, pattern, i)
    OBVIOUS
  <2>1. IsHit(rest[k], text, pattern, pos + L) /\ rest[k].start \in Nat /\ rest[k].start >= pos + L
    BY <1>11, <1>12
  <2>2. rest[k].start >= i
    BY <1>1, <2>1
  <2> QED
    BY <2>1, <2>2 DEF IsHit
<1>14. \A k \in 1 .. Len(found) : IsHit(found[k], text, pattern, i)
  BY <1>3, <1>8, <1>9, <1>10, <1>13
<1>15. ASSUME NEW j \in 1 .. 1 + K, NEW k \in 1 .. 1 + K, j < k PROVE found[j].end <= found[k].start
  <2>1. k # 1
    BY <1>7, <1>15
  <2>2. k - 1 \in 1 .. K /\ found[k] = rest[k - 1]
    BY <1>10, <2>1
  <2>3. CASE j = 1
    <3>1. rest[k - 1].start >= pos + L /\ rest[k - 1].start \in Nat
      BY <1>12, <2>2
    <3>2. found[j].end = pos + L
      BY <1>2, <1>9, <2>3 DEF L
    <3> QED
      BY <1>1, <2>2, <3>1, <3>2
  <2>4. CASE j # 1
    <3>1. j - 1 \in 1 .. K /\ found[j] = rest[j - 1]
      BY <1>10, <2>4
    <3>2. j - 1 < k - 1
      BY <1>15
    <3>3. \A a, b \in 1 .. K : a < b => rest[a].end <= rest[b].start
      BY DEF Reports, K
    <3>4. rest[j - 1].end <= rest[k - 1].start
      BY <2>2, <3>1, <3>2, <3>3
    <3> QED
      BY <2>2, <3>1, <3>4
  <2> QED
    BY <2>3, <2>4
<1>16. ASSUME NEW p \in i .. Len(text) - L, Occurs(text, pattern, p)
       PROVE  \E k \in 1 .. 1 + K : p < found[k].end /\ found[k].start < p + L
  <2>1. pos <= p
    BY <1>16 DEF L
  <2>2. CASE p < pos + L
    <3>1. found[1].end = pos + L /\ found[1].start = pos
      BY <1>2, <1>9 DEF L
    <3>2. pos < p + L
      <4>1. L # 0
        BY SequenceIs DEF KeepsLength, L
      <4> QED
        BY <4>1, <1>1, <2>1
    <3>3. 1 \in 1 .. 1 + K
      BY <1>7
    <3> QED
      BY <2>2, <3>1, <3>2, <3>3
  <2>3. CASE ~ (p < pos + L)
    <3>1. p \in pos + L .. Len(text) - L
      BY <1>1, <2>3
    <3>2. \E k \in 1 .. K : p < rest[k].end /\ rest[k].start < p + L
      BY <1>16, <3>1 DEF Reports, K, L
    <3>3. PICK k \in 1 .. K : p < rest[k].end /\ rest[k].start < p + L
      BY <3>2
    <3>4. 1 + k \in 1 .. 1 + K
      BY <1>7
    <3>5. found[1 + k] = rest[k]
      BY <1>9
    <3> QED
      BY <3>3, <3>4, <3>5
  <2> QED
    BY <2>2, <2>3
<1> QED
  BY <1>8, <1>14, <1>15, <1>16 DEF Reports, L

LEMMA ReportsStep ==
  ASSUME NEW text, NEW pattern, KeepsLength(text, pattern), NEW i \in 0 .. Top(text, pattern), NEW f,
         f[i] = FromHere(f, text, pattern, i),
         \A l \in i + 1 .. Top(text, pattern) : Reports(f[l], text, pattern, l)
  PROVE  Reports(f[i], text, pattern, i)
<1> DEFINE hits == Hits(casefold(text), casefold(pattern), i)
           pos == Min(hits)
<1>0. i \in Nat
  BY SequenceIs DEF KeepsLength, Top
<1>1. CASE hits = {}
  <2>1. f[i] = <<>>
    BY <1>1 DEF FromHere
  <2> QED
    BY <1>1, <2>1, NoneReported
<1>2. CASE hits # {}
  <2>1. /\ pos \in hits /\ \A p \in hits : pos <= p
        /\ pos \in i .. Len(text) - Len(pattern)
        /\ Resume(pos, pattern) = pos + Len(pattern)
        /\ Resume(pos, pattern) \in i + 1 .. Top(text, pattern)
    BY <1>0, <1>2, LeastHit
  <2>2. \A p : p \in hits <=> p \in i .. Len(text) - Len(pattern) /\ Occurs(text, pattern, p)
    BY DEF Hits, Occurs, KeepsLength
  <2>3. f[i] = <<Hit(text, pattern, pos)>> \o f[pos + Len(pattern)]
    BY <1>2, <2>1 DEF FromHere, Hit
  <2> HIDE DEF hits, pos
  <2>4. Reports(f[pos + Len(pattern)], text, pattern, pos + Len(pattern))
    BY <2>1
  <2>5. Occurs(text, pattern, pos)
        /\ \A p \in i .. Len(text) - Len(pattern) : Occurs(text, pattern, p) => pos <= p
    BY <2>1, <2>2
  <2> QED
    BY <1>0, <2>1, <2>3, <2>4, <2>5, OneMore
<1> QED
  BY <1>1, <1>2

LEMMA MatchesReport ==
  ASSUME NEW text, NEW pattern, KeepsLength(text, pattern)
  PROVE  Reports(Matches(text, pattern), text, pattern, 0)
<1>1. PICK f : /\ Matches(text, pattern) = f[0]
               /\ \A i \in 0 .. Top(text, pattern) : f[i] = FromHere(f, text, pattern, i)
  BY MatchesIs
<1> DEFINE M == Top(text, pattern)
           S == {k \in 0 .. M + 1 : \A l \in (M + 1) - k .. M : Reports(f[l], text, pattern, l)}
<1>2. M \in Nat
  BY SequenceIs DEF KeepsLength, Top
<1> HIDE DEF M
<1>3. 0 \in S
  BY <1>2
<1>4. ASSUME NEW k \in 0 .. M, k \in S PROVE k + 1 \in S
  <2>1. PICK i : i = M - k
    OBVIOUS
  <2>2. i \in 0 .. M /\ (M + 1) - k = i + 1 /\ (M + 1) - (k + 1) = i /\ k + 1 \in 0 .. M + 1
    BY <1>2, <2>1
  <2>3. \A l \in i + 1 .. M : Reports(f[l], text, pattern, l)
    BY <1>4, <2>2
  <2>4. Reports(f[i], text, pattern, i)
    BY <1>1, <2>2, <2>3, ReportsStep DEF M
  <2>5. \A l \in i .. M : l = i \/ l \in i + 1 .. M
    BY <1>2, <2>2
  <2>6. \A l \in i .. M : Reports(f[l], text, pattern, l)
    BY <2>3, <2>4, <2>5
  <2> QED
    BY <2>2, <2>6
<1> HIDE DEF S
<1>5. M + 1 \in S
  <2>1. PICK n : n = M + 1
    OBVIOUS
  <2>2. n \in Nat /\ 0 .. n - 1 = 0 .. M
    BY <1>2, <2>1
  <2>3. \A k \in 0 .. n - 1 : k \in S => k + 1 \in S
    BY <1>4, <2>2
  <2>4. 0 .. n \subseteq S
    BY <1>3, <2>2, <2>3, InductUpTo
  <2> QED
    BY <2>1, <2>2, <2>4
<1>6. \A l \in (M + 1) - (M + 1) .. M : Reports(f[l], text, pattern, l)
  BY <1>5 DEF S
<1>7. 0 \in (M + 1) - (M + 1) .. M
  BY <1>2
<1> QED
  BY <1>1, <1>6, <1>7

(* The text shown with a match holds the match.                            *)
ShownAround(m, text, pattern, pos) ==
  /\ pos \in 0 .. Len(text) - Len(pattern) /\ Occurs(text, pattern, pos)
  /\ m = Snippet(text, pos, pos + Len(pattern))
Shows(m, pattern) ==
  \E i \in 0 .. Len(m) : SubSeq(casefold(m), i + 1, i + Len(pattern)) = casefold(pattern)

LEMMA SnippetShows ==
  ASSUME NEW text, NEW pattern, KeepsLength(text, pattern),
         NEW pos, NEW m, ShownAround(m, text, pattern, pos)
  PROVE  Shows(m, pattern)
<1>0. /\ pos \in 0 .. Len(text) - Len(pattern) /\ Occurs(text, pattern, pos)
      /\ m = Snippet(text, pos, pos + Len(pattern))
  BY DEF ShownAround
<1> DEFINE L == Len(pattern)
           low == IF pos < CONTEXT THEN 0 ELSE pos - CONTEXT
           high == Least(Len(text), pos + L + CONTEXT)
           whole == casefold(text)
<1>1. Len(text) \in Nat /\ L \in Nat /\ pos \in Nat /\ CONTEXT \in Nat /\ pos + L <= Len(text)
  BY <1>0, SequenceIs, TextsAssumption DEF KeepsLength
<1>2. m = SubSeq(text, low + 1, high)
  BY <1>0 DEF Snippet
<1>3. low \in Nat /\ low <= pos /\ high \in Nat /\ pos + L <= high /\ high <= Len(text)
  BY <1>1 DEF Least
<1> HIDE DEF low, high, L
<1>4. DOMAIN text = 1 .. Len(text) /\ \A k \in low + 1 .. high : text[k] \in Range(text)
  <2>1. DOMAIN text = 1 .. Len(text)
    BY SequenceIs DEF KeepsLength
  <2>2. \A k \in low + 1 .. high : k \in 1 .. Len(text)
    BY <1>1, <1>3
  <2> QED
    BY <2>1, <2>2 DEF Range
<1>5. /\ m \in Seq(Range(text)) /\ Len(m) = high - low
      /\ \A k \in 1 .. high - low : m[k] = text[low + k]
  <2>1. low + 1 \in Int /\ high \in Int
    BY <1>3
  <2>2. PICK a : a = low + 1
    OBVIOUS
  <2>3. /\ SubSeq(text, a, high) \in Seq(Range(text))
        /\ Len(SubSeq(text, a, high)) = IF a <= high THEN high - a + 1 ELSE 0
        /\ \A k \in 1 .. high - a + 1 : SubSeq(text, a, high)[k] = text[a + k - 1]
    BY <1>4, <2>1, <2>2, SubSeqProperties
  <2>4. m = SubSeq(text, a, high)
    BY <1>2, <2>2
  <2>5. high - a + 1 = high - low /\ (IF a <= high THEN high - a + 1 ELSE 0) = high - low
    BY <1>1, <1>3, <2>2
  <2>6. \A k \in 1 .. high - low : a + k - 1 = low + k
    BY <1>3, <2>2
  <2> QED
    BY <2>3, <2>4, <2>5, <2>6
<1>6. IsSequence(m)
  BY <1>5, OfSetIsSequence
<1>7. \A k \in 1 .. Len(m) : low + k \in 1 .. Len(text) /\ m[k] = text[low + k]
  BY <1>1, <1>3, <1>5
<1>8. \A k \in 1 .. Len(text) : text[k] # "sz" /\ whole[k] = Fold(text[k])
  BY FoldKeeps, FoldPlain DEF KeepsLength
<1>9. \A k \in 1 .. Len(m) : m[k] # "sz"
  BY <1>7, <1>8
<1>10. Len(casefold(m)) = Len(m) /\ \A k \in 1 .. Len(m) : casefold(m)[k] = whole[low + k]
  <2>1. Len(casefold(m)) = Len(m) /\ \A k \in 1 .. Len(m) : casefold(m)[k] = Fold(m[k])
    BY <1>6, <1>9, FoldPlain
  <2> HIDE DEF whole
  <2> QED
    BY <2>1, <1>7, <1>8
<1> HIDE DEF whole
<1> DEFINE i == pos - low
<1>11. i \in Nat /\ i \in 0 .. Len(m) /\ i + L <= Len(m) /\ low + i = pos
  BY <1>1, <1>3, <1>5
<1> HIDE DEF i
<1>12. PICK small : small = casefold(m)
  OBVIOUS
<1>13. \A k \in 1 .. L : small[i + k] = whole[pos + k]
  <2> SUFFICES ASSUME NEW k \in 1 .. L PROVE small[i + k] = whole[pos + k]
    OBVIOUS
  <2>1. i + k \in 1 .. Len(m) /\ low + (i + k) = pos + k
    BY <1>1, <1>3, <1>5, <1>11
  <2> QED
    BY <1>10, <1>12, <2>1
<1>14. SubSeq(small, i + 1, i + L) = SubSeq(whole, pos + 1, pos + L)
  <2> DEFINE X == {small[k] : k \in i + 1 .. i + L}
  <2>1. PICK a : a = i + 1
    OBVIOUS
  <2>2. PICK b : b = i + L
    OBVIOUS
  <2>3. a \in Int /\ b \in Int /\ b - a + 1 = L /\ (IF a <= b THEN b - a + 1 ELSE 0) = L
    BY <1>1, <1>11, <2>1, <2>2
  <2>4. \A k \in a .. b : small[k] \in X
    BY <2>1, <2>2
  <2> HIDE DEF X
  <2>5. /\ SubSeq(small, a, b) \in Seq(X) /\ Len(SubSeq(small, a, b)) = L
        /\ \A k \in 1 .. L : SubSeq(small, a, b)[k] = small[a + k - 1]
    <3>1. /\ SubSeq(small, a, b) \in Seq(X)
          /\ Len(SubSeq(small, a, b)) = IF a <= b THEN b - a + 1 ELSE 0
          /\ \A k \in 1 .. b - a + 1 : SubSeq(small, a, b)[k] = small[a + k - 1]
      BY <2>3, <2>4, SubSeqProperties
    <3> QED
      BY <2>3, <3>1
  <2> DEFINE Y == {whole[k] : k \in pos + 1 .. pos + L}
  <2>6. PICK c : c = pos + 1
    OBVIOUS
  <2>7. PICK d : d = pos + L
    OBVIOUS
  <2>8. c \in Int /\ d \in Int /\ d - c + 1 = L /\ (IF c <= d THEN d - c + 1 ELSE 0) = L
    BY <1>1, <2>6, <2>7
  <2>9. \A k \in c .. d : whole[k] \in Y
    BY <2>6, <2>7
  <2> HIDE DEF Y
  <2>10. /\ SubSeq(whole, c, d) \in Seq(Y) /\ Len(SubSeq(whole, c, d)) = L
         /\ \A k \in 1 .. L : SubSeq(whole, c, d)[k] = whole[c + k - 1]
    <3>1. /\ SubSeq(whole, c, d) \in Seq(Y)
          /\ Len(SubSeq(whole, c, d)) = IF c <= d THEN d - c + 1 ELSE 0
          /\ \A k \in 1 .. d - c + 1 : SubSeq(whole, c, d)[k] = whole[c + k - 1]
      BY <2>8, <2>9, SubSeqProperties
    <3> QED
      BY <2>8, <3>1
  <2>11. \A k \in 1 .. L : a + k - 1 = i + k /\ c + k - 1 = pos + k
    BY <1>1, <1>11, <2>1, <2>6
  <2>12. \A k \in 1 .. L : SubSeq(small, a, b)[k] = SubSeq(whole, c, d)[k]
    BY <1>13, <2>5, <2>10, <2>11
  <2>13. PICK s : s = SubSeq(small, a, b)
    OBVIOUS
  <2>14. PICK t : t = SubSeq(whole, c, d)
    OBVIOUS
  <2>15. s \in Seq(X) /\ t \in Seq(Y) /\ Len(s) = Len(t) /\ \A k \in 1 .. Len(s) : s[k] = t[k]
    BY <2>5, <2>10, <2>12, <2>13, <2>14
  <2>16. s \in Seq(X \cup Y) /\ t \in Seq(X \cup Y)
    BY <2>15, SeqMonotonic
  <2>17. s = t
    BY <2>15, <2>16, SeqEqual
  <2> QED
    BY <2>1, <2>2, <2>6, <2>7, <2>13, <2>14, <2>17
<1>15. SubSeq(whole, pos + 1, pos + L) = casefold(pattern)
  BY <1>0 DEF Occurs, whole, L
<1> QED
  BY <1>11, <1>12, <1>14, <1>15 DEF L, Shows

-----------------------------------------------------------------------------
(* What a call in a page that was found reports are its matches.           *)
Reported(call) ==
  call.action = "find_in_page" /\ call.result.ok =>
    /\ IsSequence(call.result.text) /\ IsSequence(call.pattern) /\ call.pattern # <<>>
    /\ call.result.matches = Matches(call.result.text, call.pattern)
MatchInv == \A q \in Requests, s \in Slots : Reported(calls[q][s])

LEMMA MatchInit == SearchInit => MatchInv
BY IdleShape DEF SearchInit, MatchInv, Reported

LEMMA OneReported ==
  ASSUME SearchInv, MatchInv, NEW q \in Requests, NEW s \in Slots, NEW call,
         calls' = [calls EXCEPT ![q][s] = call], Reported(call)
  PROVE  MatchInv'
<1>1. \A r \in Requests, t \in Slots : calls'[r][t] = IF r = q /\ t = s THEN call ELSE calls[r][t]
  BY DEF SearchInv, ShapeInv
<1> QED
  BY <1>1 DEF MatchInv

(* A search in the page cache reports the matches of the page.             *)
LEMMA FindIsReported ==
  ASSUME SearchInv, NEW q \in Requests, NEW url \in Urls \cup {NoUrl},
         NEW pattern \in Patterns \cup {<<>>}, NEW call,
         call.pattern = pattern, call.result = _find_in_page_result(q, url, pattern)
  PROVE  Reported(call)
<1> SUFFICES ASSUME call.result.ok PROVE Reported(call)
  BY DEF Reported
<1> DEFINE key == canonicalize_url(url)
           text == get(q, url)
<1>1. url # NoUrl /\ pattern # <<>> /\ Allowed(q, url) /\ text # NoText
  BY DEF _find_in_page_result, Result
<1>2. call.result = [Result EXCEPT !.ok = TRUE, !.urls = {key}, !.text = text,
                                   !.matches = Matches(text, pattern)]
  BY <1>1 DEF _find_in_page_result
<1>3. text \in Texts \cup {<<>>}
  <2>1. key \in Keys
    BY <1>1, KeyOfUrl
  <2>2. page_cache[q] \in [Keys -> Texts \cup {NoText, <<>>}]
    BY DEF SearchInv
  <2> QED
    BY <1>1, <2>1, <2>2 DEF get
<1>4. IsSequence(text)
  BY <1>3, NoneIsSequence, TextsAssumption DEF IsSequence
<1>5. IsSequence(pattern)
  BY <1>1, TextsAssumption DEF IsSequence
<1> HIDE DEF text
<1>6. call.result.text = text /\ call.result.matches = Matches(text, pattern)
  BY <1>2 DEF Result
<1> QED
  BY <1>1, <1>4, <1>5, <1>6 DEF Reported

LEMMA CallReported ==
  ASSUME SearchInv, MatchInv, NEW q \in Requests, NEW s \in Slots, CallTool(q, s)
  PROVE  MatchInv'
<1>1. PICK url \in Urls \cup {NoUrl}, pattern \in Patterns \cup {<<>>},
           given \in {"none", "search", "open_page", "find_in_page"} :
       LET action == normalize_action_request(given, url, pattern)
           refused == action = "open_page" /\ (url = NoUrl \/ ~Allowed(q, url))
           asked == [Idle EXCEPT !.action = action]
       IN calls' = [calls EXCEPT ![q][s] =
            CASE action = "find_in_page" ->
                   [asked EXCEPT !.url = url, !.pattern = pattern, !.state = "done",
                                 !.result = _find_in_page_result(q, url, pattern)]
              [] refused -> [asked EXCEPT !.url = url, !.state = "done"]
              [] action = "open_page" /\ ~refused -> [asked EXCEPT !.url = url, !.state = "waiting"]
              [] action = "search" -> [asked EXCEPT !.state = "waiting"]]
  BY DEF CallTool
<1> DEFINE action == normalize_action_request(given, url, pattern)
           refused == action = "open_page" /\ (url = NoUrl \/ ~Allowed(q, url))
           asked == [Idle EXCEPT !.action = action]
<1>2. action \in {"search", "open_page", "find_in_page"}
  BY Zenon DEF normalize_action_request
<1>3. CASE action = "find_in_page"
  <2> DEFINE call == [asked EXCEPT !.url = url, !.pattern = pattern, !.state = "done",
                                   !.result = _find_in_page_result(q, url, pattern)]
  <2>1. calls' = [calls EXCEPT ![q][s] = call]
    BY <1>1, <1>3, Zenon
  <2>2. call.pattern = pattern /\ call.result = _find_in_page_result(q, url, pattern)
    BY DEF Idle
  <2> HIDE DEF call
  <2> QED
    BY <2>1, <2>2, OneReported, FindIsReported
<1>4. CASE refused
  <2> DEFINE call == [asked EXCEPT !.url = url, !.state = "done"]
  <2>1. calls' = [calls EXCEPT ![q][s] = call]
    BY <1>1, <1>4, Zenon
  <2>2. call.action = "open_page"
    BY <1>4 DEF Idle
  <2> HIDE DEF call
  <2> QED
    BY <2>1, <2>2, OneReported DEF Reported
<1>5. CASE action = "open_page" /\ ~ refused
  <2> DEFINE call == [asked EXCEPT !.url = url, !.state = "waiting"]
  <2>1. calls' = [calls EXCEPT ![q][s] = call]
    BY <1>1, <1>5, Zenon
  <2>2. call.action = "open_page"
    BY <1>5 DEF Idle
  <2> HIDE DEF call
  <2> QED
    BY <2>1, <2>2, OneReported DEF Reported
<1>6. CASE action = "search"
  <2> DEFINE call == [asked EXCEPT !.state = "waiting"]
  <2>1. calls' = [calls EXCEPT ![q][s] = call]
    BY <1>1, <1>6, Zenon
  <2>2. call.action = "search"
    BY <1>6 DEF Idle
  <2> HIDE DEF call
  <2> QED
    BY <2>1, <2>2, OneReported DEF Reported
<1> QED
  BY <1>2, <1>3, <1>4, <1>5, <1>6

LEMMA AnswerReported ==
  ASSUME SearchInv, MatchInv, NEW q \in Requests, NEW s \in Slots, NEW result,
         AnswerCall(q, s, result), calls[q][s].action # "find_in_page"
  PROVE  MatchInv'
<1>1. PICK call : /\ calls' = [calls EXCEPT ![q][s] = call]
                  /\ call.action = calls[q][s].action
  BY AnsweredCall
<1> QED
  BY <1>1, OneReported DEF Reported

LEMMA MatchStep == SearchInv /\ MatchInv /\ [SearchNext]_searchVars => MatchInv'
<1> SUFFICES ASSUME SearchInv, MatchInv, [SearchNext]_searchVars PROVE MatchInv'
  OBVIOUS
<1>1. CASE UNCHANGED calls
  BY <1>1 DEF MatchInv
<1>2. ASSUME NEW q \in Requests, NEW s \in Slots, SearchAnswers(q, s) PROVE MatchInv'
  <2>1. calls[q][s].action = "search" /\ \E result : AnswerCall(q, s, result)
    BY <1>2 DEF SearchAnswers, Waiting
  <2>2. PICK result : AnswerCall(q, s, result)
    BY <2>1
  <2> QED
    BY <2>1, <2>2, AnswerReported
<1>3. ASSUME NEW q \in Requests, NEW s \in Slots, PageAnswers(q, s) PROVE MatchInv'
  <2>1. calls[q][s].action = "open_page" /\ \E result : AnswerCall(q, s, result)
    BY <1>3 DEF PageAnswers, Waiting
  <2>2. PICK result : AnswerCall(q, s, result)
    BY <2>1
  <2> QED
    BY <2>1, <2>2, AnswerReported
<1>4. ASSUME NEW q \in Requests, NextRound(q) PROVE MatchInv'
  <2>1. calls' = [calls EXCEPT ![q] = [s \in Slots |-> Idle]]
    BY <1>4 DEF NextRound
  <2>2. \A r \in Requests : calls'[r] = IF r = q THEN [s \in Slots |-> Idle] ELSE calls[r]
    BY <2>1 DEF SearchInv, ShapeInv
  <2> QED
    BY <2>2, IdleShape DEF MatchInv, Reported
<1>5. ASSUME NEW q \in Requests, NEW s \in Slots, CallTool(q, s) PROVE MatchInv'
  BY <1>5, CallReported
<1> QED
  BY <1>1, <1>2, <1>3, <1>4, <1>5 DEF SearchNext, Begin, ToolRaises, searchVars

(* What find_in_page says of one text.                                     *)
LEMMA FindsAll ==
  ASSUME NEW text, NEW pattern, KeepsLength(text, pattern), NEW found, found = Matches(text, pattern)
  PROVE  /\ \A m \in ToSet(found) :
              /\ Occurs(text, pattern, m.start)
              /\ \E i \in 0..Len(m.text) :
                   SubSeq(casefold(m.text), i + 1, i + Len(pattern)) = casefold(pattern)
         /\ \A i, j \in DOMAIN found : i < j => found[i].end <= found[j].start
         /\ \A i \in 0..(Len(text) - Len(pattern)) :
              Occurs(text, pattern, i) => \E m \in ToSet(found) : i < m.end /\ m.start < i + Len(pattern)
<1>1. Reports(found, text, pattern, 0)
  BY MatchesReport
<1>2. DOMAIN found = 1 .. Len(found)
  BY <1>1, SequenceIs DEF Reports
<1>3. ToSet(found) = {found[k] : k \in 1 .. Len(found)}
  BY <1>2 DEF ToSet
<1>4. ASSUME NEW m \in ToSet(found)
      PROVE  /\ Occurs(text, pattern, m.start)
             /\ \E i \in 0..Len(m.text) :
                  SubSeq(casefold(m.text), i + 1, i + Len(pattern)) = casefold(pattern)
  <2>1. IsHit(m, text, pattern, 0)
    BY <1>1, <1>3 DEF Reports
  <2>2. m.start \in 0 .. Len(text) - Len(pattern) /\ Occurs(text, pattern, m.start)
    <3>1. Len(text) \in Nat /\ Len(pattern) \in Nat
      BY SequenceIs DEF KeepsLength
    <3> QED
      BY <2>1, <3>1 DEF IsHit
  <2>3. m.text = Snippet(text, m.start, m.start + Len(pattern))
    BY <2>1 DEF IsHit
  <2>4. ShownAround(m.text, text, pattern, m.start)
    BY <2>2, <2>3, Zenon DEF ShownAround
  <2>5. Shows(m.text, pattern)
    BY <2>4, SnippetShows, Zenon
  <2>6. \E i \in 0..Len(m.text) : SubSeq(casefold(m.text), i + 1, i + Len(pattern)) = casefold(pattern)
    BY <2>5, Zenon DEF Shows
  <2> QED
    BY <2>2, <2>6
<1>5. ASSUME NEW i \in 0..(Len(text) - Len(pattern)), Occurs(text, pattern, i)
      PROVE  \E m \in ToSet(found) : i < m.end /\ m.start < i + Len(pattern)
  <2>1. PICK k \in 1 .. Len(found) : i < found[k].end /\ found[k].start < i + Len(pattern)
    BY <1>1, <1>5 DEF Reports
  <2>2. found[k] \in ToSet(found)
    BY <1>3
  <2> QED
    BY <2>1, <2>2
<1>6. \A i, j \in DOMAIN found : i < j => found[i].end <= found[j].start
  BY <1>1, <1>2 DEF Reports
<1> QED
  BY <1>4, <1>5, <1>6

(* A search in a page misses nothing: what it reports are occurrences of   *)
(* the pattern in the folded text, shown with the text around them, in     *)
(* order and apart, and every occurrence overlaps one of them              *)
(* (FindsEveryMatch), in texts and for patterns whose folding keeps their  *)
(* length: only for those do positions of the folded text fit the text.    *)
THEOREM NoMatchIsMissed == SearchSpec => []FindsEveryMatch
<1>1. MatchInv => FindsEveryMatch
  <2> SUFFICES ASSUME MatchInv, NEW q \in Requests, NEW s \in Slots,
                      Done(q, s), calls[q][s].action = "find_in_page", calls[q][s].result.ok,
                      Len(casefold(calls[q][s].result.text)) = Len(calls[q][s].result.text),
                      Len(casefold(calls[q][s].pattern)) = Len(calls[q][s].pattern)
               PROVE  LET found == calls[q][s].result.matches
                          text == calls[q][s].result.text
                          pattern == calls[q][s].pattern
                          occurs(i) == SubSeq(casefold(text), i + 1, i + Len(pattern)) = casefold(pattern)
                      IN /\ \A m \in ToSet(found) :
                              occurs(m.start) /\ \E i \in 0..Len(m.text) :
                                SubSeq(casefold(m.text), i + 1, i + Len(pattern)) = casefold(pattern)
                         /\ \A i, j \in DOMAIN found : i < j => found[i].end <= found[j].start
                         /\ \A i \in 0..(Len(text) - Len(pattern)) :
                              occurs(i) => \E m \in ToSet(found) : i < m.end /\ m.start < i + Len(pattern)
    BY Zenon DEF FindsEveryMatch
  <2>1. PICK text : text = calls[q][s].result.text
    OBVIOUS
  <2>2. PICK pattern : pattern = calls[q][s].pattern
    OBVIOUS
  <2>3. PICK found : found = calls[q][s].result.matches
    OBVIOUS
  <2>4. KeepsLength(text, pattern) /\ found = Matches(text, pattern)
    BY <2>1, <2>2, <2>3 DEF MatchInv, Reported, KeepsLength
  <2>5. /\ \A m \in ToSet(found) :
              /\ Occurs(text, pattern, m.start)
              /\ \E i \in 0..Len(m.text) :
                   SubSeq(casefold(m.text), i + 1, i + Len(pattern)) = casefold(pattern)
        /\ \A i, j \in DOMAIN found : i < j => found[i].end <= found[j].start
        /\ \A i \in 0..(Len(text) - Len(pattern)) :
              Occurs(text, pattern, i) => \E m \in ToSet(found) : i < m.end /\ m.start < i + Len(pattern)
    BY <2>4, FindsAll
  <2> QED
    BY <2>1, <2>2, <2>3, <2>5 DEF Occurs
<1> QED
  BY <1>1, InitSearch, SearchStep, MatchInit, MatchStep, PTL DEF SearchSpec

-----------------------------------------------------------------------------
(* The cache of the interpreter: a half extracted one is never used unless *)
(* a live lock was removed, for any number of processes and crashes.       *)
Complete == cache.dir /\ cache.files = "all" /\ cache.marker = "current"

Caches == [dir : BOOLEAN, files : {"none", "some", "all"},
           marker : {"none", "old", "current"}, tarball : BOOLEAN]

(* Whoever is at work under the lock is the one who created it.            *)
HolderInv == \A p \in Server : pc[p] \in Inside => lock = p

(* A marker of this version stands in a complete directory only, and what  *)
(* the process at work has in hand is what its place says.                 *)
Building == {"tar", "download", "unpack", "extracting", "mark"}
WorkInv ==
  /\ cache.marker = "current" => Complete
  /\ \A p \in Server :
       /\ pc[p] \in Building => cache.marker # "current"
       /\ pc[p] \in Building \ {"tar"} => cache.dir
       /\ At(p, "extracting") => cache.files = "some"
       /\ At(p, "mark") => cache.files = "all"
       /\ At(p, "done") => Complete

(* Processes that use the cache.  With this the cache is not rebuilt under *)
(* them: whoever checks it finds the marker.                               *)
UseInv == \A p \in Server : pc[p] \in {"load", "running"} => Complete

CacheInv == TypeOK /\ (~stolen => HolderInv /\ WorkInv /\ UseInv)

LEMMA InitCache == Init => CacheInv
<1> SUFFICES ASSUME Init PROVE CacheInv
  OBVIOUS
<1> USE CacheAssumption
<1>1. TypeOK
  <2> USE DEF CacheAssumption
  <2>1. {NoCache, Old, Half} \subseteq Caches
    BY DEF NoCache, Old, Half, Caches
  <2>2. pc \in [Server -> Inside \cup {"locking", "steal", "load", "running", "failed", "crashed"}]
    BY DEF Init
  <2>3. cache \in Caches
    BY <2>1 DEF Init
  <2>4. crashes \in 0 .. MaxCrashes
    BY DEF Init
  <2> QED
    BY <2>2, <2>3, <2>4 DEF Init, TypeOK, Caches
<1>2. HolderInv /\ WorkInv /\ UseInv
  BY DEF Init, HolderInv, WorkInv, UseInv, At, Inside, Building, Complete, NoCache, Old, Half
<1> QED
  BY <1>1, <1>2 DEF CacheInv

LEMMA StepType == TypeOK /\ [Next]_vars => TypeOK'
<1> SUFFICES ASSUME TypeOK, [Next]_vars PROVE TypeOK'
  OBVIOUS
<1> USE CacheAssumption DEF TypeOK, At, To, Frame, Inside
<1>1. CASE \E p \in Server : CreateLock(p) \/ SeeStale(p) \/ RemoveStale(p) \/ ReleaseSetupLock(p)
  BY <1>1 DEF CreateLock, SeeStale, RemoveStale, ReleaseSetupLock
<1>2. ASSUME NEW p \in Server, CheckCache(p) \/ CheckTar(p) \/ Download(p) PROVE TypeOK'
  <2>1. NoCache \in Caches
    BY DEF NoCache, Caches
  <2>2. cache \in Caches
    BY DEF Caches
  <2>3. cache' \in Caches
    BY <1>2, <2>1, <2>2 DEF CheckCache, CheckTar, Download, Caches
  <2> QED
    BY <1>2, <2>3 DEF CheckCache, CheckTar, Download, Caches
<1>3. ASSUME NEW p \in Server,
             BeginExtract(p) \/ EndExtract(p) \/ WriteMarker(p) \/ LoadPyodide(p)
      PROVE  TypeOK'
  <2>1. cache \in Caches
    BY DEF Caches
  <2>2. cache' \in Caches
    BY <1>3, <2>1 DEF BeginExtract, EndExtract, WriteMarker, LoadPyodide, Caches
  <2> QED
    BY <1>3, <2>2 DEF BeginExtract, EndExtract, WriteMarker, LoadPyodide, Caches
<1>4. ASSUME NEW p \in Server, Crash(p) \/ Restart(p) PROVE TypeOK'
  <2>1. pc' \in [Server -> Inside \cup {"locking", "steal", "load", "running", "failed", "crashed"}]
    BY <1>4 DEF Crash, Restart
  <2>2. crashes \in 0 .. MaxCrashes
    OBVIOUS
  <2>3. crashes' \in 0 .. MaxCrashes
    <3> HIDE DEF TypeOK
    <3>1. crashes' = crashes \/ (crashes < MaxCrashes /\ crashes' = crashes + 1)
      BY <1>4 DEF Crash, Restart
    <3> QED
      BY <2>2, <3>1 DEF CacheAssumption
  <2> QED
    BY <1>4, <2>1, <2>3 DEF Crash, Restart
<1>6. CASE Age
  BY <1>6 DEF Age
<1>5. CASE UNCHANGED vars
  BY <1>5 DEF vars
<1> QED
  BY <1>1, <1>2, <1>3, <1>4, <1>5, <1>6 DEF Next, Step

(* The lock changes hands: nobody who is at work loses it unnoticed.       *)
LEMMA LockStep ==
  ASSUME TypeOK, HolderInv, WorkInv, UseInv, NEW p \in Server,
         CreateLock(p) \/ SeeStale(p) \/ RemoveStale(p) \/ ReleaseSetupLock(p), ~stolen'
  PROVE  HolderInv' /\ WorkInv' /\ UseInv'
<1> USE CacheAssumption DEF TypeOK, At, To, Inside
<1>1. HolderInv'
  BY ZenonT(60) DEF HolderInv, CreateLock, SeeStale, RemoveStale, ReleaseSetupLock
<1>2. cache' = cache
  BY DEF CreateLock, SeeStale, RemoveStale, ReleaseSetupLock
<1>3. WorkInv'
  BY <1>2, ZenonT(60) DEF WorkInv, Building, Complete, CreateLock, SeeStale, RemoveStale, ReleaseSetupLock
<1>4. UseInv'
  BY <1>2 DEF UseInv, WorkInv, Complete, CreateLock, SeeStale, RemoveStale, ReleaseSetupLock
<1> QED
  BY <1>1, <1>3, <1>4

(* The holder works on the directory; everybody else is outside.           *)
LEMMA WorkStep ==
  ASSUME TypeOK, HolderInv, WorkInv, UseInv, NEW p \in Server,
         \/ CheckCache(p) \/ CheckTar(p) \/ Download(p)
         \/ BeginExtract(p) \/ EndExtract(p) \/ WriteMarker(p)
  PROVE  HolderInv' /\ WorkInv' /\ UseInv'
<1> USE CacheAssumption DEF TypeOK, At, To, Frame, Inside
<1>1. pc[p] \in Inside /\ pc'[p] \in Inside /\ lock' = lock
  BY DEF CheckCache, CheckTar, Download, BeginExtract, EndExtract, WriteMarker
<1>2. \A q \in Server : q # p => pc'[q] = pc[q] /\ pc[q] \notin Inside
  BY <1>1 DEF HolderInv, CheckCache, CheckTar, Download, BeginExtract, EndExtract, WriteMarker
<1>3. HolderInv'
  BY <1>1, <1>2 DEF HolderInv
<1>4. ASSUME CheckCache(p) PROVE WorkInv' /\ (Complete => UNCHANGED cache)
  <2>1. CASE cache.dir /\ cache.marker = "current"
    BY <1>2, <1>4, <2>1 DEF CheckCache, WorkInv, Building, Complete
  <2>2. CASE ~(cache.dir /\ cache.marker = "current")
    <3>1. cache'.marker = "none" /\ At(p, "tar")' /\ ~Complete
      <4>1. cache' = NoCache /\ pc'[p] = "tar"
        BY <1>4, <2>2 DEF CheckCache
      <4>2. NoCache.marker = "none"
        BY DEF NoCache
      <4> QED
        BY <2>2, <4>1, <4>2 DEF Complete
    <3> QED
      BY <1>2, <3>1 DEF WorkInv, Building
  <2> QED
    BY <2>1, <2>2
<1>5. ASSUME CheckTar(p) \/ Download(p) PROVE WorkInv' /\ ~Complete
  BY <1>2, <1>5, ZenonT(60) DEF CheckTar, Download, WorkInv, Building, Complete
<1>6. ASSUME BeginExtract(p) \/ EndExtract(p) PROVE WorkInv' /\ ~Complete
  BY <1>2, <1>6, ZenonT(60) DEF BeginExtract, EndExtract, WorkInv, Building, Complete
<1>7. ASSUME WriteMarker(p) PROVE WorkInv' /\ ~Complete
  BY <1>2, <1>7, ZenonT(60) DEF WriteMarker, WorkInv, Building, Complete
<1>8. WorkInv' /\ (Complete => UNCHANGED cache)
  BY <1>4, <1>5, <1>6, <1>7
<1>9. UseInv'
  BY <1>1, <1>2, <1>8 DEF UseInv, Complete
<1> QED
  BY <1>3, <1>8, <1>9

LEMMA StepCache == CacheInv /\ [Next]_vars => CacheInv'
<1> SUFFICES ASSUME CacheInv, [Next]_vars PROVE CacheInv'
  OBVIOUS
<1>1. TypeOK'
  BY StepType DEF CacheInv
<1> SUFFICES ASSUME ~stolen' PROVE HolderInv' /\ WorkInv' /\ UseInv'
  BY <1>1 DEF CacheInv
<1>2. ~stolen
  BY DEF Next, Step, vars, CreateLock, SeeStale, RemoveStale, ReleaseSetupLock, CheckCache, CheckTar,
         Download, BeginExtract, EndExtract, WriteMarker, LoadPyodide, Crash, Restart, Age, Frame
<1> USE <1>2 DEF CacheInv
<1>3. ASSUME NEW p \in Server,
             CreateLock(p) \/ SeeStale(p) \/ RemoveStale(p) \/ ReleaseSetupLock(p)
      PROVE  HolderInv' /\ WorkInv' /\ UseInv'
  BY <1>3, LockStep
<1>4. ASSUME NEW p \in Server,
             \/ CheckCache(p) \/ CheckTar(p) \/ Download(p)
             \/ BeginExtract(p) \/ EndExtract(p) \/ WriteMarker(p)
      PROVE  HolderInv' /\ WorkInv' /\ UseInv'
  BY <1>4, WorkStep
<1>5. ASSUME NEW p \in Server, LoadPyodide(p) \/ Crash(p) \/ Restart(p)
      PROVE  HolderInv' /\ WorkInv' /\ UseInv'
  BY <1>5, ZenonT(60) DEF LoadPyodide, Crash, Restart, Frame, HolderInv, WorkInv, UseInv, TypeOK, At, To,
              Inside, Building, Complete
<1>6. ASSUME Age \/ UNCHANGED vars PROVE HolderInv' /\ WorkInv' /\ UseInv'
  BY <1>6 DEF Age, vars, HolderInv, WorkInv, UseInv, At, Complete
<1> QED
  BY <1>3, <1>4, <1>5, <1>6 DEF Next, Step

LEMMA CacheInvariant == Spec => []CacheInv
  BY InitCache, StepCache, PTL DEF Spec

(* Every state of any number of interpreter processes is well formed.      *)
THEOREM TypeCorrect == Spec => []TypeOK
<1>1. CacheInv => TypeOK
  BY DEF CacheInv
<1> QED
  BY <1>1, CacheInvariant, PTL

(* setupPyodideCache never lets a process load a half extracted or         *)
(* outdated cache while the locks of live processes are left alone.        *)
THEOREM CompleteCacheUsed == Spec => []UsedCacheIsComplete
<1>1. CacheInv => UsedCacheIsComplete
  BY DEF CacheInv, UseInv, Complete, UsedCacheIsComplete
<1> QED
  BY <1>1, CacheInvariant, PTL
=============================================================================
