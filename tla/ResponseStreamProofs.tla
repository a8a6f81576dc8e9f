------------------------ MODULE ResponseStreamProofs ------------------------
(***************************************************************************)
(* What holds of ResponseStream for every number of parts, turns, chunks,  *)
(* tools and calls: its type, the durability of terminal responses, the    *)
(* agreement of the normaliser's keys with the composer's items, the output*)
(* that lists every item once, the deltas that add up to the final text,   *)
(* and the contract of the stream.                                         *)
(***************************************************************************)
EXTENDS ResponseStream, SequenceTheorems, FiniteSetTheorems, TLAPS

(* The composer numbers items as it announces them.                        *)
Indexed ==
  /\ Len(client) = nextIndex
  /\ \A k \in Keys : items[k] < nextIndex
  /\ reasoningItem < nextIndex

ToolPart == part # NoPart /\ part.type = "tool" => part.call \in CallIds

TypeInv == TypeOK /\ Indexed /\ ToolPart

(* What a handler of the normaliser returns: events of one item and one    *)
(* call, of which only the first may start the item.                       *)
Batch(p, k, c) ==
  /\ p \in Seq(StreamEvent)
  /\ \A i \in 1 .. Len(p) :
       /\ p[i].type \in ItemEventTypes
       /\ p[i].key = k /\ p[i].call = c
       /\ i > 1 => p[i].type \notin StartTypes
       /\ p[i].type = "ReasoningStarted" => c = NoCall

Starting(p) == p # <<>> /\ Head(p).type \in StartTypes

PendingInv ==
  \/ Len(pending) = 1 /\ Terminal(Head(pending))
  \/ \E k \in Keys \cup {NoKey}, c \in CallIds \cup {NoCall} : Batch(pending, k, c)

(* The item registered for a key, which the next event may be about to     *)
(* start, and the call it was started for.                                 *)
Opening(k) == Starting(pending) /\ Head(pending).key = k

HasItem(k) == items[k] # NoItem \/ Opening(k)

ItemOfCall(k, c) ==
  IF Opening(k) THEN Head(pending).call = c
  ELSE items[k] # NoItem /\ client[items[k] + 1].call = c

PROBE == "text_tool_call_probe"

(* The open part has its item, or its text is held back; its key is        *)
(* registered for its own call and for no other call of the turn.          *)
PartInv ==
  part # NoPart =>
    /\ HasItem(part.index) \/ (part.type = "text" /\ itemKind[part.index] = PROBE)
    /\ part.index < nextPart
    /\ agent \in {"model", "failed", "broken"}
    /\ part.type = "tool" => calls[part.call].state = "named" /\ keyOf[part.call] = part.index

(* Calls whose events are still to come, all of them of the current turn.  *)
Active(c) == calls[c].state \in {"named", "issued"}

CallsInv ==
  \A c \in CallIds :
    /\ keyOf[c] # NoKey => HasItem(keyOf[c])
    /\ Active(c) => keyOf[c] \in 0 .. nextPart - 1 /\ ItemOfCall(keyOf[c], c)
    /\ Active(c) /\ part # NoPart /\ part.type # "tool" => keyOf[c] # part.index

KeyInv == PendingInv /\ NoKeyError /\ FramesReachTheirCall /\ PartInv /\ CallsInv

-----------------------------------------------------------------------------
(* Lemmas about events and batches.                                        *)

LEMMA StartTypesListed ==
  StartTypes = { "MessageStarted", "ReasoningStarted", "FunctionCallStarted",
                 "CustomToolCallStarted", "CodeInterpreterCallStarted",
                 "WebSearchCallStarted", "McpCallStarted" }
  BY DEF StartTypes, StartedKind

LEMMA StartedKindType == \A t \in StartTypes : StartedKind[t] \in ItemKinds
  BY DEF StartTypes, StartedKind, ItemKinds

LEMMA StartTypeType ==
  \A kind : StartType(kind) \in StartTypes /\ StartType(kind) # "ReasoningStarted"
  BY StartTypesListed DEF StartType

LEMMA LaterTypes ==
  /\ StartTypes \subseteq ItemEventTypes
  /\ DeltaTypes \cup NoticeTypes \cup FinishTypes \cup {"ReasoningDone"} \subseteq ItemEventTypes
  /\ (DeltaTypes \cup NoticeTypes \cup FinishTypes \cup {"ReasoningDone"}) \cap StartTypes = {}
  BY StartTypesListed DEF ItemEventTypes, DeltaTypes, NoticeTypes, FinishTypes

LEMMA NotTerminal == \A e : e.type \in ItemEventTypes => ~Terminal(e)
  BY StartTypesListed DEF Terminal, ItemEventTypes, DeltaTypes, NoticeTypes, FinishTypes

LEMMA EventType ==
  ASSUME NEW t \in ItemEventTypes, NEW k \in Keys, NEW c \in CallIds \cup {NoCall}, NEW n \in Nat
  PROVE  /\ Event(t, k, c, n) \in StreamEvent
         /\ Event(t, k, c, n).type = t
         /\ Event(t, k, c, n).key = k
         /\ Event(t, k, c, n).call = c
  BY DEF Event, StreamEvent

LEMMA EmptyBatch == \A k, c : Batch(<<>>, k, c) /\ ~Starting(<<>>)
  BY DEF Batch, Starting

LEMMA OneEvent ==
  ASSUME NEW k \in Keys, NEW c \in CallIds \cup {NoCall}, NEW n \in Nat,
         NEW t \in ItemEventTypes, t = "ReasoningStarted" => c = NoCall
  PROVE  /\ Batch(<<Event(t, k, c, n)>>, k, c)
         /\ Starting(<<Event(t, k, c, n)>>) <=> t \in StartTypes
  BY EventType DEF Batch, Starting

LEMMA TwoEvents ==
  ASSUME NEW k \in Keys, NEW c \in CallIds \cup {NoCall}, NEW n \in Nat, NEW m \in Nat,
         NEW t \in ItemEventTypes, t = "ReasoningStarted" => c = NoCall,
         NEW u \in ItemEventTypes, u \notin StartTypes
  PROVE  /\ Batch(<<Event(t, k, c, n), Event(u, k, c, m)>>, k, c)
         /\ Starting(<<Event(t, k, c, n), Event(u, k, c, m)>>) <=> t \in StartTypes
  <1>1. u # "ReasoningStarted"
    BY StartTypesListed
  <1>2. /\ Event(t, k, c, n) \in StreamEvent /\ Event(t, k, c, n).type = t
        /\ Event(t, k, c, n).key = k /\ Event(t, k, c, n).call = c
        /\ Event(u, k, c, m) \in StreamEvent /\ Event(u, k, c, m).type = u
        /\ Event(u, k, c, m).key = k /\ Event(u, k, c, m).call = c
    BY EventType
  <1> QED
    BY <1>1, <1>2 DEF Batch, Starting

LEMMA ThreeEvents ==
  ASSUME NEW k \in Keys, NEW c \in CallIds \cup {NoCall},
         NEW n \in Nat, NEW m \in Nat, NEW l \in Nat,
         NEW t \in ItemEventTypes, t = "ReasoningStarted" => c = NoCall,
         NEW u \in ItemEventTypes, u \notin StartTypes,
         NEW v \in ItemEventTypes, v \notin StartTypes
  PROVE  /\ Batch(<<Event(t, k, c, n), Event(u, k, c, m), Event(v, k, c, l)>>, k, c)
         /\ Starting(<<Event(t, k, c, n), Event(u, k, c, m), Event(v, k, c, l)>>)
              <=> t \in StartTypes
  <1>1. u # "ReasoningStarted" /\ v # "ReasoningStarted"
    BY StartTypesListed
  <1>2. /\ Event(t, k, c, n) \in StreamEvent /\ Event(t, k, c, n).type = t
        /\ Event(t, k, c, n).key = k /\ Event(t, k, c, n).call = c
        /\ Event(u, k, c, m) \in StreamEvent /\ Event(u, k, c, m).type = u
        /\ Event(u, k, c, m).key = k /\ Event(u, k, c, m).call = c
        /\ Event(v, k, c, l) \in StreamEvent /\ Event(v, k, c, l).type = v
        /\ Event(v, k, c, l).key = k /\ Event(v, k, c, l).call = c
    BY EventType
  <1> QED
    BY <1>1, <1>2 DEF Batch, Starting

-----------------------------------------------------------------------------
(* Lemmas about raw text.                                                  *)

(* The characters of a sequence of chunks are finitely many.               *)
LEMMA FiniteRows ==
  ASSUME NEW m \in Nat, NEW lo \in [1 .. m -> Nat], NEW hi \in [1 .. m -> Nat]
  PROVE  IsFiniteSet(UNION {{i} \X (lo[i] + 1 .. hi[i]) : i \in 1 .. m})
  <1>1. PICK f : f = [i \in 1 .. m |-> {i} \X (lo[i] + 1 .. hi[i])]
    OBVIOUS
  <1>2. PICK Rows : Rows = {{i} \X (lo[i] + 1 .. hi[i]) : i \in 1 .. m}
    OBVIOUS
  <1>3. f \in Surjection(1 .. m, Rows)
    <2>1. \A i \in 1 .. m : f[i] \in Rows
      BY <1>1, <1>2
    <2>2. f \in [1 .. m -> Rows]
      BY <1>1, <2>1
    <2>3. \A t \in Rows : \E i \in 1 .. m : f[i] = t
      BY <1>1, <1>2
    <2> QED
      BY <2>2, <2>3 DEF Surjection
  <1>4. IsFiniteSet(1 .. m)
    BY FS_Interval
  <1>5. IsFiniteSet(Rows)
    BY <1>3, <1>4, FS_Surjection
  <1>6. \A t \in Rows : IsFiniteSet(t)
    <2> SUFFICES ASSUME NEW i \in 1 .. m PROVE IsFiniteSet({i} \X (lo[i] + 1 .. hi[i]))
      BY <1>2
    <2>1. lo[i] + 1 \in Int /\ hi[i] \in Int
      OBVIOUS
    <2>2. PICK row : row = lo[i] + 1 .. hi[i]
      OBVIOUS
    <2>3. IsFiniteSet({i}) /\ IsFiniteSet(row)
      BY <2>1, <2>2, FS_Singleton, FS_Interval
    <2>4. IsFiniteSet({i} \X row)
      BY <2>3, FS_Product
    <2> QED
      BY <2>2, <2>4
  <1> QED
    BY <1>2, <1>5, <1>6, FS_UNION

(* How much a raw text is, and how much of it is new, are numbers.         *)
LEMMA RawNumbers ==
  ASSUME NEW t \in Seq(RawChunk), NEW u \in Seq(RawChunk)
  PROVE  /\ IsFiniteSet(Characters(t)) /\ Size(t) \in Nat /\ RawDiff(t, u) \in Nat
         /\ \A i \in DOMAIN u : Kept(t, u, i) \in Nat /\ u[i].len \in Nat
         /\ \A i \in DOMAIN t : t[i].len \in Nat
  <1>1. /\ \A i \in DOMAIN t : t[i].len \in Nat
        /\ \A i \in DOMAIN u : u[i].len \in Nat
    <2>1. \A c \in RawChunk : c.len \in Nat
      BY DEF RawChunk
    <2> QED
      BY <2>1
  <1>2. \A i \in DOMAIN u : Kept(t, u, i) \in Nat
    BY <1>1 DEF Kept
  <1>3. IsFiniteSet(Characters(t))
    <2>1. PICK m \in Nat : DOMAIN t = 1 .. m
      OBVIOUS
    <2>2. PICK lo : lo = [i \in 1 .. m |-> 0]
      OBVIOUS
    <2>3. PICK hi : hi = [i \in 1 .. m |-> t[i].len]
      OBVIOUS
    <2>4. lo \in [1 .. m -> Nat] /\ hi \in [1 .. m -> Nat]
      BY <1>1, <2>1, <2>2, <2>3
    <2>5. \A i \in 1 .. m : lo[i] + 1 = 1 /\ hi[i] = t[i].len
      BY <2>2, <2>3
    <2>6. {{i} \X (lo[i] + 1 .. hi[i]) : i \in 1 .. m} = {{i} \X (1 .. t[i].len) : i \in 1 .. m}
      BY <2>5, Zenon
    <2>7. IsFiniteSet(UNION {{i} \X (lo[i] + 1 .. hi[i]) : i \in 1 .. m})
      BY <2>4, FiniteRows
    <2> QED
      BY <2>1, <2>6, <2>7 DEF Characters
  <1>4. IsFiniteSet(UNION {{i} \X (Kept(t, u, i) + 1 .. u[i].len) : i \in DOMAIN u})
    <2>1. PICK m \in Nat : DOMAIN u = 1 .. m
      OBVIOUS
    <2>2. PICK lo : lo = [i \in 1 .. m |-> Kept(t, u, i)]
      OBVIOUS
    <2>3. PICK hi : hi = [i \in 1 .. m |-> u[i].len]
      OBVIOUS
    <2>4. lo \in [1 .. m -> Nat] /\ hi \in [1 .. m -> Nat]
      BY <1>1, <1>2, <2>1, <2>2, <2>3
    <2>5. {{i} \X (lo[i] + 1 .. hi[i]) : i \in 1 .. m}
            = {{i} \X (Kept(t, u, i) + 1 .. u[i].len) : i \in DOMAIN u}
      BY <2>1, <2>2, <2>3
    <2>6. IsFiniteSet(UNION {{i} \X (lo[i] + 1 .. hi[i]) : i \in 1 .. m})
      BY <2>4, FiniteRows
    <2> QED
      BY <2>5, <2>6
  <1> QED
    BY <1>1, <1>2, <1>3, <1>4, FS_CardinalityType DEF Size, RawDiff

(* What is new of a raw text that grew at its end is what it grew by.      *)
LEMMA RawGrows ==
  ASSUME NEW t \in Seq(RawChunk), NEW u \in Seq(RawChunk), GrowsAtEnd(t, u)
  PROVE  Size(u) = Size(t) + RawDiff(t, u)
  <1> DEFINE New == UNION {{i} \X (Kept(t, u, i) + 1 .. u[i].len) : i \in DOMAIN u}
  <1>1. /\ IsFiniteSet(Characters(t)) /\ IsFiniteSet(Characters(u))
        /\ \A i \in DOMAIN u : u[i].len \in Nat
        /\ \A i \in DOMAIN t : t[i].len \in Nat
    BY RawNumbers
  <1>2. /\ \A p : p \in Characters(t) <=> \E i \in DOMAIN t : \E j \in 1 .. t[i].len : p = <<i, j>>
        /\ \A p : p \in Characters(u) <=> \E i \in DOMAIN u : \E j \in 1 .. u[i].len : p = <<i, j>>
        /\ \A p : p \in New <=>
             \E i \in DOMAIN u : \E j \in Kept(t, u, i) + 1 .. u[i].len : p = <<i, j>>
    BY DEF Characters
  <1>3. \A i \in DOMAIN t : /\ i \in DOMAIN u /\ StartsWith(u[i], t[i])
                            /\ Kept(t, u, i) = t[i].len /\ t[i].len <= u[i].len
    BY <1>1 DEF GrowsAtEnd, StartsWith, Kept
  <1>4. \A i \in DOMAIN u : i \notin DOMAIN t => Kept(t, u, i) = 0
    BY DEF Kept
  <1>5. Characters(t) \subseteq Characters(u)
    BY <1>1, <1>2, <1>3
  <1>6. New = Characters(u) \ Characters(t)
    <2>1. ASSUME NEW p \in New PROVE p \in Characters(u) \ Characters(t)
      <3>1. PICK i \in DOMAIN u : \E j \in Kept(t, u, i) + 1 .. u[i].len : p = <<i, j>>
        BY <1>2
      <3>0. PICK j \in Kept(t, u, i) + 1 .. u[i].len : p = <<i, j>>
        BY <3>1
      <3>2. Kept(t, u, i) \in Nat /\ j \in 1 .. u[i].len
        BY <1>1, <1>3, <1>4
      <3>3. p \in Characters(u)
        BY <1>2, <3>0, <3>2
      <3>4. ASSUME NEW a \in DOMAIN t, NEW b \in 1 .. t[a].len, p = <<a, b>> PROVE FALSE
        BY <1>1, <1>3, <3>0, <3>4
      <3> QED
        BY <1>2, <3>3, <3>4
    <2>2. ASSUME NEW p \in Characters(u), p \notin Characters(t) PROVE p \in New
      <3>1. PICK i \in DOMAIN u : \E j \in 1 .. u[i].len : p = <<i, j>>
        BY <1>2
      <3>0. PICK j \in 1 .. u[i].len : p = <<i, j>>
        BY <3>1
      <3>2. i \in DOMAIN t => j \notin 1 .. t[i].len
        BY <1>2, <2>2, <3>0
      <3>3. j \in Kept(t, u, i) + 1 .. u[i].len
        BY <1>1, <1>3, <1>4, <3>2
      <3> QED
        BY <1>2, <3>0, <3>3
    <2> QED
      BY <2>1, <2>2
  <1>7. Characters(u) \cap Characters(t) = Characters(t)
    BY <1>5
  <1>8. Cardinality(New) = Cardinality(Characters(u)) - Cardinality(Characters(t))
    BY <1>1, <1>6, <1>7, FS_Difference
  <1>9. Cardinality(Characters(u)) \in Nat /\ Cardinality(Characters(t)) \in Nat
    BY <1>1, FS_CardinalityType
  <1> QED
    BY <1>8, <1>9 DEF Size, RawDiff

(* Raw text that comes first is new as a whole.                            *)
LEMMA RawFirst ==
  ASSUME NEW u \in Seq(RawChunk)
  PROVE  RawDiff(<<>>, u) = Size(u) /\ Size(<<>>) = 0 /\ Size(u) \in Nat
  <1>1. <<>> \in Seq(RawChunk) /\ GrowsAtEnd(<<>>, u)
    BY DEF GrowsAtEnd
  <1>2. Size(<<>>) = 0
    <2>1. Characters(<<>>) = {}
      BY DEF Characters
    <2> QED
      BY <2>1, FS_EmptySet DEF Size
  <1>3. Size(u) = Size(<<>>) + RawDiff(<<>>, u) /\ RawDiff(<<>>, u) \in Nat
    BY <1>1, RawGrows, RawNumbers
  <1> QED
    BY <1>2, <1>3

(* How much of the thoughts of a part there is.                            *)
Thoughts(key, n) == IF key \in DOMAIN raw THEN Size(raw[key]) ELSE n

RawTypeOK == DOMAIN raw \subseteq Keys /\ raw \in [DOMAIN raw -> RawContents]

LEMMA RawTypes ==
  ASSUME RawTypeOK, NEW k
  PROVE  /\ \A d \in Details : /\ d.text \in Seq(RawChunk)
                               /\ d.kind = "raw" => d.text \in RawContents
                               /\ d.kind \in {"none", "other", "raw"}
         /\ RawOf(k) \in Seq(RawChunk)
         /\ k \in DOMAIN raw => RawOf(k) = raw[k] /\ raw[k] \in RawContents
         /\ k \notin DOMAIN raw => RawOf(k) = <<>>
         /\ \A n \in Nat : Thoughts(k, n) \in Nat
  <1>1. \A t \in RawContents : t \in Seq(RawChunk)
    BY RawAssumption
  <1>2. \A d \in Details : /\ d.text \in Seq(RawChunk)
                           /\ d.kind = "raw" => d.text \in RawContents
                           /\ d.kind \in {"none", "other", "raw"}
    <2>1. <<>> \in Seq(RawChunk)
      OBVIOUS
    <2>2. ASSUME NEW d \in [kind : {"none", "other"}, text : {<<>>}]
          PROVE  d.text = <<>> /\ d.kind \in {"none", "other"}
      OBVIOUS
    <2>3. ASSUME NEW d \in [kind : {"raw"}, text : RawContents]
          PROVE  d.text \in RawContents /\ d.kind = "raw"
      OBVIOUS
    <2> QED
      BY <1>1, <2>1, <2>2, <2>3 DEF Details
  <1>3. k \in DOMAIN raw => raw[k] \in RawContents
    BY DEF RawTypeOK
  <1>4. RawOf(k) \in Seq(RawChunk)
    BY <1>1, <1>3 DEF RawOf
  <1>5. \A n \in Nat : Thoughts(k, n) \in Nat
    BY <1>1, <1>3, RawNumbers DEF Thoughts
  <1> QED
    BY <1>2, <1>3, <1>4, <1>5 DEF RawOf

LEMMA RawPut ==
  ASSUME RawTypeOK, NEW k \in Keys, NEW t \in RawContents, PutRaw(k, t)
  PROVE  /\ RawTypeOK' /\ DOMAIN raw' = DOMAIN raw \cup {k}
         /\ k \in DOMAIN raw' /\ raw'[k] = t
  BY DEF RawTypeOK, PutRaw

(* A thinking part starts with its raw text or with its content.           *)
LEMMA ThinkingStarted ==
  ASSUME RawTypeOK, NEW k \in Keys, NEW n \in Nat, NEW details \in Details,
         OnThinkingStart(k, n, details)
  PROVE  /\ RawTypeOK' /\ DOMAIN raw' \subseteq DOMAIN raw \cup {k}
         /\ \E m \in Nat :
              /\ \/ pending' = <<Event("ReasoningStarted", k, NoCall, 0)>> /\ m = 0
                 \/ pending' = <<Event("ReasoningStarted", k, NoCall, 0),
                                 Event("ReasoningDelta", k, NoCall, m)>>
              /\ k \notin DOMAIN raw => m = (Thoughts(k, n))'
  <1>1. PICK m : m = IF details.kind = "raw" THEN Size(details.text) ELSE n
    OBVIOUS
  <1>2. /\ m \in Nat
        /\ details.kind = "raw" => details.text \in RawContents
    BY <1>1, RawTypes, RawNumbers
  <1>3. /\ \/ pending' = <<Event("ReasoningStarted", k, NoCall, 0)>> /\ m = 0
           \/ pending' = <<Event("ReasoningStarted", k, NoCall, 0),
                           Event("ReasoningDelta", k, NoCall, m)>>
        /\ details.kind = "raw" => PutRaw(k, details.text)
        /\ details.kind # "raw" => raw' = raw
    BY <1>1, <1>2 DEF OnThinkingStart
  <1>4. CASE details.kind = "raw"
    BY <1>1, <1>2, <1>3, <1>4, RawPut DEF Thoughts
  <1>5. CASE details.kind # "raw"
    BY <1>1, <1>2, <1>3, <1>5 DEF Thoughts, RawTypeOK
  <1> QED
    BY <1>4, <1>5

(* A delta that appends sends what the thoughts get longer by.             *)
LEMMA ThinkingSaid ==
  ASSUME RawTypeOK, NEW k \in Keys, NEW n \in Nat, NEW sent \in Nat, NEW details \in Details,
         OnThinkingDelta(k, n, details)
  PROVE  /\ RawTypeOK' /\ DOMAIN raw' \subseteq DOMAIN raw \cup {k}
         /\ \E m \in Nat :
              /\ \/ pending' = <<>> /\ m = 0
                 \/ pending' = <<Event("ReasoningDelta", k, NoCall, m)>>
              /\ Appends(k, sent, n, details) => (Thoughts(k, sent + n))' = Thoughts(k, sent) + m
  <1> DEFINE patched == details.kind = "raw" \/ (details.kind = "other" /\ k \in DOMAIN raw)
  <1>1. PICK current : current = IF details.kind = "raw" THEN details.text ELSE RawOf(k)
    OBVIOUS
  <1>2. PICK m : m = IF patched THEN RawDiff(RawOf(k), current) ELSE n
    OBVIOUS
  <1>3. /\ RawOf(k) \in Seq(RawChunk) /\ current \in Seq(RawChunk) /\ m \in Nat
        /\ patched => current \in RawContents
        /\ details.kind \in {"none", "other", "raw"}
    BY <1>1, <1>2, RawTypes, RawNumbers
  <1>4. /\ \/ pending' = <<>> /\ m = 0
           \/ pending' = <<Event("ReasoningDelta", k, NoCall, m)>>
        /\ patched => PutRaw(k, current)
        /\ ~patched => raw' = raw
    BY <1>1, <1>2, <1>3 DEF OnThinkingDelta
  <1>5. RawTypeOK' /\ DOMAIN raw' \subseteq DOMAIN raw \cup {k}
    <2>1. CASE patched
      BY <1>3, <1>4, <2>1, RawPut
    <2>2. CASE ~patched
      BY <1>4, <2>2 DEF RawTypeOK
    <2> QED
      BY <2>1, <2>2
  <1>6. ASSUME Appends(k, sent, n, details)
        PROVE  (Thoughts(k, sent + n))' = Thoughts(k, sent) + m
    <2>1. CASE details.kind = "raw"
      <3>1. current = details.text /\ (Thoughts(k, sent + n))' = Size(current)
        BY <1>1, <1>3, <1>4, <2>1, RawPut DEF Thoughts
      <3>2. CASE k \in DOMAIN raw
        <4>1. GrowsAtEnd(raw[k], current) /\ RawOf(k) = raw[k]
          BY <1>6, <2>1, <3>1, <3>2 DEF Appends, RawOf
        <4> QED
          BY <1>2, <1>3, <2>1, <3>1, <3>2, <4>1, RawGrows DEF Thoughts
      <3>3. CASE k \notin DOMAIN raw
        <4>1. sent = 0 /\ RawOf(k) = <<>> /\ Thoughts(k, sent) = 0
          BY <1>6, <2>1, <3>3 DEF Appends, RawOf, Thoughts
        <4> QED
          BY <1>2, <1>3, <2>1, <3>1, <4>1, RawFirst
      <3> QED
        BY <3>2, <3>3
    <2>2. CASE details.kind = "other" /\ k \in DOMAIN raw
      <3>1. current = raw[k] /\ RawOf(k) = raw[k] /\ (Thoughts(k, sent + n))' = Size(current)
        BY <1>1, <1>3, <1>4, <2>2, RawPut DEF Thoughts, RawOf
      <3>2. GrowsAtEnd(current, current)
        <4>1. \A i \in DOMAIN current : current[i].len \in Nat
          BY <1>3, RawNumbers
        <4> QED
          BY <4>1 DEF GrowsAtEnd, StartsWith
      <3> QED
        BY <1>2, <1>3, <2>2, <3>1, <3>2, RawGrows DEF Thoughts
    <2>3. CASE details.kind = "other" /\ k \notin DOMAIN raw
      <3>1. raw' = raw /\ m = n
        BY <1>2, <1>4, <2>3
      <3> QED
        BY <2>3, <3>1 DEF Thoughts
    <2>4. CASE details.kind = "none"
      <3>1. raw' = raw /\ m = n /\ (k \in DOMAIN raw => n = 0)
        BY <1>2, <1>4, <1>6, <2>4 DEF Appends
      <3>2. Thoughts(k, sent) \in Nat
        BY RawTypes
      <3> QED
        BY <3>1, <3>2 DEF Thoughts
    <2> QED
      BY <1>3, <2>1, <2>2, <2>3, <2>4
  <1> QED
    BY <1>3, <1>4, <1>5, <1>6

LEMMA ThinkingEnded ==
  ASSUME RawTypeOK, NEW k \in Keys, NEW n \in Nat, OnThinkingEnd(k, n)
  PROVE  /\ RawTypeOK' /\ DOMAIN raw' = DOMAIN raw \ {k}
         /\ Thoughts(k, n) \in Nat
         /\ pending' = <<Event("ReasoningDone", k, NoCall, Thoughts(k, n))>>
  BY RawTypes DEF OnThinkingEnd, RawTypeOK, Thoughts

-----------------------------------------------------------------------------
(* Lemmas about the handlers of the normaliser.                            *)

LEMMA NormalizerKept ==
  ASSUME NormalizerTypeOK, UNCHANGED <<keyOf, itemKind, buffer, raw>> PROVE NormalizerTypeOK'
  BY DEF NormalizerTypeOK

LEMMA TextStart ==
  ASSUME NormalizerTypeOK, NEW k \in Keys, NEW n \in Nat, OnTextStart(k, n)
  PROVE  /\ NormalizerTypeOK'
         /\ Batch(pending', k, NoCall)
         /\ keyOf' = keyOf
         /\ Starting(pending') \/ (pending' = <<>> /\ itemKind'[k] = PROBE)
  <1>1. CASE probe
    <2>1. /\ itemKind' = [itemKind EXCEPT ![k] = PROBE] /\ buffer' = [buffer EXCEPT ![k] = n]
          /\ pending' = <<>> /\ keyOf' = keyOf /\ raw' = raw
      BY <1>1 DEF OnTextStart, PROBE
    <2>2. PROBE \in NormalizerKinds
      BY DEF PROBE, NormalizerKinds
    <2>3. NormalizerTypeOK' /\ itemKind'[k] = PROBE
      BY <2>1, <2>2 DEF NormalizerTypeOK
    <2> QED
      BY <2>1, <2>3, EmptyBatch
  <1>2. CASE ~probe
    <2>1. Batch(pending', k, NoCall) /\ Starting(pending')
      <3>1. \/ pending' = <<Event("MessageStarted", k, NoCall, 0)>>
            \/ pending' = <<Event("MessageStarted", k, NoCall, 0),
                            Event("MessageDelta", k, NoCall, n)>>
        BY <1>2 DEF OnTextStart
      <3> QED
        BY <3>1, OneEvent, TwoEvents, LaterTypes, StartTypesListed DEF DeltaTypes
    <2> QED
      BY <1>2, <2>1 DEF OnTextStart, NormalizerTypeOK, NormalizerKinds, ItemKinds
  <1> QED
    BY <1>1, <1>2

LEMMA ThinkingStart ==
  ASSUME NormalizerTypeOK, NEW k \in Keys, NEW n \in Nat,
         \E details \in Details : OnThinkingStart(k, n, details)
  PROVE  /\ NormalizerTypeOK'
         /\ Batch(pending', k, NoCall)
         /\ keyOf' = keyOf
         /\ Starting(pending')
  <1>1. PICK details \in Details : OnThinkingStart(k, n, details)
    OBVIOUS
  <1>2. RawTypeOK
    BY DEF NormalizerTypeOK, RawTypeOK
  <1>3. /\ RawTypeOK'
        /\ \E m \in Nat :
             \/ pending' = <<Event("ReasoningStarted", k, NoCall, 0)>>
             \/ pending' = <<Event("ReasoningStarted", k, NoCall, 0),
                             Event("ReasoningDelta", k, NoCall, m)>>
    BY <1>1, <1>2, ThinkingStarted
  <1>4. Batch(pending', k, NoCall) /\ Starting(pending')
    BY <1>3, OneEvent, TwoEvents, LaterTypes, StartTypesListed DEF DeltaTypes
  <1>5. /\ keyOf' = keyOf /\ buffer' = buffer
        /\ itemKind' = [itemKind EXCEPT ![k] = "reasoning"]
    BY <1>1 DEF OnThinkingStart
  <1> QED
    BY <1>3, <1>4, <1>5 DEF NormalizerTypeOK, NormalizerKinds, ItemKinds, RawTypeOK

LEMMA ToolStart ==
  ASSUME NormalizerTypeOK, NEW k \in Keys, NEW tool, NEW c \in CallIds, NEW n \in Nat,
         OnToolStart(k, tool, c, n)
  PROVE  /\ NormalizerTypeOK'
         /\ Batch(pending', k, c)
         /\ keyOf' = [keyOf EXCEPT ![c] = k]
         /\ Starting(pending')
  <1> DEFINE kind == CallKind(tool)
             initial == IF kind = "code_interpreter_call" THEN n ELSE ArgsAsJson(n)
  <1>1. kind \in NormalizerKinds
    BY DEF CallKind, NormalizerKinds, ItemKinds
  <1>2. initial \in Nat
    BY DEF ArgsAsJson
  <1>3. StartType(kind) \in ItemEventTypes /\ StartType(kind) \in StartTypes
        /\ StartType(kind) # "ReasoningStarted"
    BY StartTypeType, LaterTypes
  <1>4. DeltaType(kind) \in ItemEventTypes /\ DeltaType(kind) \notin StartTypes
    BY LaterTypes DEF DeltaType, DeltaTypes
  <1>5. Batch(pending', k, c) /\ Starting(pending')
    <2>1. \/ pending' = <<Event(StartType(kind), k, c, 0)>>
          \/ pending' = <<Event(StartType(kind), k, c, 0), Event(DeltaType(kind), k, c, initial)>>
      BY DEF OnToolStart
    <2> QED
      BY <1>2, <1>3, <1>4, <2>1, OneEvent, TwoEvents
  <1>6. NormalizerTypeOK' /\ keyOf' = [keyOf EXCEPT ![c] = k]
    BY <1>1 DEF OnToolStart, NormalizerTypeOK
  <1> QED
    BY <1>5, <1>6

LEMMA TextDelta ==
  ASSUME NormalizerTypeOK, NEW k \in Keys, NEW n \in Nat, OnTextDelta(k, n)
  PROVE  /\ NormalizerTypeOK'
         /\ Batch(pending', k, NoCall)
         /\ keyOf' = keyOf /\ itemKind' = itemKind
         /\ ~Starting(pending')
         /\ itemKind[k] = PROBE => pending' = <<>>
  <1>1. NormalizerTypeOK' /\ keyOf' = keyOf /\ itemKind' = itemKind
    BY DEF OnTextDelta, NormalizerTypeOK
  <1>2. itemKind[k] = PROBE => pending' = <<>>
    BY DEF OnTextDelta, PROBE
  <1>3. Batch(pending', k, NoCall) /\ ~Starting(pending')
    <2>1. pending' = <<>> \/ pending' = <<Event("MessageDelta", k, NoCall, n)>>
      BY DEF OnTextDelta
    <2>2. "MessageDelta" \in ItemEventTypes \ StartTypes
      BY LaterTypes DEF DeltaTypes
    <2>3. CASE pending' = <<Event("MessageDelta", k, NoCall, n)>>
      BY <2>2, <2>3, OneEvent
    <2> QED
      BY <2>1, <2>3, EmptyBatch
  <1> QED
    BY <1>1, <1>2, <1>3

LEMMA ThinkingDelta ==
  ASSUME NormalizerTypeOK, NEW k \in Keys, NEW n \in Nat,
         \E details \in Details : OnThinkingDelta(k, n, details)
  PROVE  /\ NormalizerTypeOK'
         /\ Batch(pending', k, NoCall)
         /\ keyOf' = keyOf /\ itemKind' = itemKind
         /\ ~Starting(pending')
  <1>1. PICK details \in Details : OnThinkingDelta(k, n, details)
    OBVIOUS
  <1>2. RawTypeOK
    BY DEF NormalizerTypeOK, RawTypeOK
  <1>3. /\ RawTypeOK'
        /\ \E m \in Nat :
             pending' = <<>> \/ pending' = <<Event("ReasoningDelta", k, NoCall, m)>>
    BY <1>1, <1>2, ThinkingSaid
  <1>4. Batch(pending', k, NoCall) /\ ~Starting(pending')
    BY <1>3, EmptyBatch, OneEvent, LaterTypes DEF DeltaTypes
  <1>5. UNCHANGED <<keyOf, itemKind, buffer>>
    BY <1>1 DEF OnThinkingDelta
  <1> QED
    BY <1>3, <1>4, <1>5 DEF NormalizerTypeOK, RawTypeOK

LEMMA ToolDelta ==
  ASSUME NormalizerTypeOK, NEW k \in Keys, NEW c \in CallIds, NEW n \in Nat,
         OnToolDelta(k, c, n)
  PROVE  /\ NormalizerTypeOK'
         /\ Batch(pending', KeyOfCall(c, k), c)
         /\ keyOf' = keyOf /\ itemKind' = itemKind
         /\ ~Starting(pending')
  <1>1. KeyOfCall(c, k) \in Keys
    BY DEF KeyOfCall, NormalizerTypeOK
  <1>2. \A kind : DeltaType(kind) \in ItemEventTypes /\ DeltaType(kind) \notin StartTypes
                  /\ DeltaType(kind) # "ReasoningStarted"
    BY LaterTypes DEF DeltaType, DeltaTypes
  <1>3. Batch(pending', KeyOfCall(c, k), c) /\ ~Starting(pending')
    BY <1>1, <1>2, EmptyBatch, OneEvent DEF OnToolDelta
  <1> QED
    BY <1>3 DEF OnToolDelta, NormalizerTypeOK

LEMMA TextEnd ==
  ASSUME NormalizerTypeOK, NEW k \in Keys, NEW n \in Nat, OnTextEnd(k, n)
  PROVE  /\ NormalizerTypeOK'
         /\ Batch(pending', k, NoCall)
         /\ keyOf' = keyOf
         /\ itemKind[k] = PROBE <=> Starting(pending')
  <1> DEFINE text == IF buffer[k] > 0 THEN buffer[k] ELSE n
  <1>1. text \in Nat
    BY DEF NormalizerTypeOK
  <1>2. {"MessageStarted", "CustomToolCallStarted", "FunctionCallStarted"} \subseteq StartTypes
    BY StartTypesListed
  <1>3. {"MessageDelta", "MessageDone", "CustomToolCallDone", "FunctionCallDone"}
          \subseteq ItemEventTypes \ StartTypes
    BY LaterTypes DEF DeltaTypes, FinishTypes
  <1>4. CASE itemKind[k] # PROBE
    BY <1>3, <1>4, OneEvent DEF OnTextEnd, PROBE, NormalizerTypeOK
  <1>5. CASE itemKind[k] = PROBE
    <2>1. NormalizerTypeOK' /\ keyOf' = keyOf
      BY <1>5 DEF OnTextEnd, PROBE, NormalizerTypeOK, NormalizerKinds, ItemKinds
    <2>2. \/ pending' = <<Event("MessageStarted", k, NoCall, 0),
                          Event("MessageDelta", k, NoCall, text),
                          Event("MessageDone", k, NoCall, text)>>
          \/ pending' = <<Event("MessageStarted", k, NoCall, 0),
                          Event("MessageDone", k, NoCall, text)>>
          \/ pending' = <<Event("CustomToolCallStarted", k, NoCall, 0),
                          Event("CustomToolCallDone", k, NoCall, text)>>
          \/ pending' = <<Event("FunctionCallStarted", k, NoCall, 0),
                          Event("FunctionCallDone", k, NoCall, text)>>
      BY <1>5 DEF OnTextEnd, PROBE
    <2>3. Batch(pending', k, NoCall) /\ Starting(pending')
      BY <1>1, <1>2, <1>3, <2>2, LaterTypes, TwoEvents, ThreeEvents
    <2> QED
      BY <1>5, <2>1, <2>3
  <1> QED
    BY <1>4, <1>5

LEMMA ThinkingEnd ==
  ASSUME NormalizerTypeOK, NEW k \in Keys, NEW n \in Nat, OnThinkingEnd(k, n)
  PROVE  /\ NormalizerTypeOK'
         /\ Batch(pending', k, NoCall)
         /\ keyOf' = keyOf /\ itemKind' = itemKind
         /\ ~Starting(pending')
  <1>1. RawTypeOK
    BY DEF NormalizerTypeOK, RawTypeOK
  <1>2. /\ RawTypeOK'
        /\ \E m \in Nat : pending' = <<Event("ReasoningDone", k, NoCall, m)>>
    BY <1>1, ThinkingEnded
  <1>3. Batch(pending', k, NoCall) /\ ~Starting(pending')
    BY <1>2, OneEvent, LaterTypes
  <1>4. UNCHANGED <<keyOf, itemKind, buffer>>
    BY DEF OnThinkingEnd
  <1> QED
    BY <1>2, <1>3, <1>4 DEF NormalizerTypeOK, RawTypeOK

LEMMA ToolEnd ==
  ASSUME NormalizerTypeOK, NEW k \in Keys, NEW c \in CallIds, NEW n \in Nat,
         OnToolEnd(k, c, n)
  PROVE  /\ NormalizerTypeOK'
         /\ Batch(pending', KeyOfCall(c, k), c)
         /\ keyOf' = keyOf /\ itemKind' = itemKind
         /\ ~Starting(pending')
  <1>1. KeyOfCall(c, k) \in Keys
    BY DEF KeyOfCall, NormalizerTypeOK
  <1>2. {"CodeInterpreterCallCodeDone", "McpCallArgumentsDone", "CustomToolCallDone",
         "FunctionCallDone"} \subseteq ItemEventTypes \ StartTypes
    BY LaterTypes DEF NoticeTypes, FinishTypes
  <1>3. \/ pending' = <<>>
        \/ \E t \in {"CodeInterpreterCallCodeDone", "McpCallArgumentsDone",
                     "CustomToolCallDone", "FunctionCallDone"} :
             pending' = <<Event(t, KeyOfCall(c, k), c, n)>>
    BY DEF OnToolEnd
  <1>4. Batch(pending', KeyOfCall(c, k), c) /\ ~Starting(pending')
    BY <1>1, <1>2, <1>3, EmptyBatch, OneEvent
  <1> QED
    BY <1>4 DEF OnToolEnd, NormalizerTypeOK

LEMMA ToolCalled ==
  ASSUME NormalizerTypeOK, NEW c \in CallIds, NEW tool, OnFunctionToolCall(c, tool)
  PROVE  /\ NormalizerTypeOK'
         /\ Batch(pending', keyOf[c], c)
         /\ keyOf' = keyOf /\ itemKind' = itemKind
         /\ ~Starting(pending')
         /\ keyOf[c] = NoKey => pending' = <<>>
  <1>1. {"CodeInterpreterCallInterpreting", "WebSearchCallSearching"}
          \subseteq ItemEventTypes \ StartTypes
    BY LaterTypes DEF NoticeTypes
  <1>2. \/ pending' = <<>>
        \/ keyOf[c] # NoKey
           /\ \E t \in {"CodeInterpreterCallInterpreting", "WebSearchCallSearching"} :
                pending' = <<Event(t, keyOf[c], c, 0)>>
    BY DEF OnFunctionToolCall, Registered
  <1>3. Batch(pending', keyOf[c], c) /\ ~Starting(pending')
    <2>1. ASSUME NEW t \in ItemEventTypes \ StartTypes, keyOf[c] # NoKey,
                 pending' = <<Event(t, keyOf[c], c, 0)>>
          PROVE  Batch(pending', keyOf[c], c) /\ ~Starting(pending')
      <3>1. keyOf[c] \in Keys /\ t # "ReasoningStarted" /\ 0 \in Nat
        BY <2>1, StartTypesListed DEF NormalizerTypeOK
      <3> QED
        BY <2>1, <3>1, OneEvent
    <2> QED
      BY <1>1, <1>2, <2>1, EmptyBatch
  <1>4. UNCHANGED <<keyOf, itemKind, buffer, raw>>
    BY DEF OnFunctionToolCall
  <1> QED
    BY <1>2, <1>3, <1>4, NormalizerKept

LEMMA ToolAnswered ==
  ASSUME NormalizerTypeOK, NEW c \in CallIds, NEW tool, NEW result,
         OnFunctionToolResult(c, tool, result)
  PROVE  /\ NormalizerTypeOK'
         /\ Batch(pending', keyOf[c], c)
         /\ keyOf' = keyOf /\ itemKind' = itemKind
         /\ ~Starting(pending')
         /\ keyOf[c] = NoKey => pending' = <<>>
  <1>1. {"McpCallCompleted", "McpCallFailed", "WebSearchCallCompleted",
         "CodeInterpreterCallCompleted"} \subseteq ItemEventTypes \ StartTypes
    BY LaterTypes DEF FinishTypes
  <1>2. \/ pending' = <<>>
        \/ keyOf[c] # NoKey
           /\ \E t \in {"McpCallCompleted", "McpCallFailed", "WebSearchCallCompleted",
                        "CodeInterpreterCallCompleted"} :
                pending' = <<Event(t, keyOf[c], c, 0)>>
    BY DEF OnFunctionToolResult, Registered
  <1>3. Batch(pending', keyOf[c], c) /\ ~Starting(pending')
    <2>1. ASSUME NEW t \in ItemEventTypes \ StartTypes, keyOf[c] # NoKey,
                 pending' = <<Event(t, keyOf[c], c, 0)>>
          PROVE  Batch(pending', keyOf[c], c) /\ ~Starting(pending')
      <3>1. keyOf[c] \in Keys /\ t # "ReasoningStarted" /\ 0 \in Nat
        BY <2>1, StartTypesListed DEF NormalizerTypeOK
      <3> QED
        BY <2>1, <3>1, OneEvent
    <2> QED
      BY <1>1, <1>2, <2>1, EmptyBatch
  <1>4. UNCHANGED <<keyOf, itemKind, buffer, raw>>
    BY DEF OnFunctionToolResult
  <1> QED
    BY <1>2, <1>3, <1>4, NormalizerKept

-----------------------------------------------------------------------------
(* What feeding one event does to the composer.                            *)

LEMMA ItemUpdated ==
  ASSUME ComposerTypeOK, Indexed, NEW e \in ItemEvent, items[e.key] # NoItem,
         NEW r \in ClientItem, r.call = client[Slot(e)].call,
         client' = [client EXCEPT ![Slot(e)] = r]
  PROVE  /\ client' \in Seq(ClientItem)
         /\ Len(client') = Len(client)
         /\ \A i \in 1 .. Len(client) : client'[i].call = client[i].call
  <1>1. Slot(e) \in 1 .. Len(client)
    BY DEF ComposerTypeOK, Indexed, ItemEvent, Slot, NoItem
  <1>2. client \in Seq(ClientItem)
    BY DEF ComposerTypeOK
  <1> QED
    BY <1>1, <1>2, ExceptSeq

LEMMA RecordUpdate ==
  ASSUME NEW it \in ClientItem, NEW x \in Nat, NEW y \in Nat
  PROVE  /\ it.sent \in Nat /\ it.text \in Nat /\ it.dones \in Nat
         /\ [it EXCEPT !.sent = x] \in ClientItem
         /\ [it EXCEPT !.sent = x].call = it.call
         /\ [it EXCEPT !.text = x] \in ClientItem
         /\ [it EXCEPT !.text = x].call = it.call
         /\ [it EXCEPT !.text = x, !.dones = y] \in ClientItem
         /\ [it EXCEPT !.text = x, !.dones = y].call = it.call
  BY DEF ClientItem

LEMMA UpdatedItem ==
  ASSUME NEW it \in ClientItem, NEW e \in ItemEvent,
         NEW r \in {Streamed(it, e), Noticed(it, e), Finished(it, e), Segment(it, e)}
  PROVE  r \in ClientItem /\ r.call = it.call
  <1> DEFINE t == Touched(it)
  <1>1. t \in ClientItem /\ t.call = it.call
    BY DEF Touched, ClientItem
  <1>2. it.sent + e.text \in Nat /\ it.text + e.text \in Nat /\ it.dones + 1 \in Nat
        /\ it.text \in Nat /\ it.dones \in Nat /\ FinalText(it, e) \in Nat
    BY DEF ClientItem, ItemEvent, FinalText
  <1> HIDE DEF t
  <1>3. CASE r = Streamed(it, e)
    <2>1. r = [t EXCEPT !.sent = it.sent + e.text]
      BY <1>3 DEF Streamed, t
    <2> QED
      BY <1>1, <1>2, <2>1, RecordUpdate
  <1>4. CASE r = Noticed(it, e)
    <2>1. r = [t EXCEPT !.text = FinalText(it, e)]
      BY <1>4 DEF Noticed, t
    <2> QED
      BY <1>1, <1>2, <2>1, RecordUpdate
  <1>5. CASE r = Finished(it, e)
    <2> DEFINE x == FinalText(it, e)
               y == it.dones + 1
    <2>1. r = [t EXCEPT !.text = x, !.dones = y]
      BY <1>5 DEF Finished, t
    <2>2. x \in Nat /\ y \in Nat
      BY <1>2
    <2> HIDE DEF x, y
    <2>3. [t EXCEPT !.text = x, !.dones = y] \in ClientItem
          /\ [t EXCEPT !.text = x, !.dones = y].call = t.call
      BY <1>1, <2>2 DEF ClientItem
    <2> QED
      BY <1>1, <2>1, <2>3
  <1>6. CASE r = Segment(it, e)
    <2> DEFINE x == IF OwnSegment(e) THEN it.text + e.text ELSE it.text
               y == IF OwnSegment(e) /\ ~reasoningDone THEN it.dones + 1 ELSE it.dones
    <2>1. r = [t EXCEPT !.text = x, !.dones = y]
      BY <1>6 DEF Segment, t
    <2>2. x \in Nat /\ y \in Nat
      BY <1>2
    <2> HIDE DEF x, y
    <2>3. [t EXCEPT !.text = x, !.dones = y] \in ClientItem
          /\ [t EXCEPT !.text = x, !.dones = y].call = t.call
      BY <1>1, <2>2 DEF ClientItem
    <2> QED
      BY <1>1, <2>1, <2>3
  <1> QED
    BY <1>3, <1>4, <1>5, <1>6

LEMMA ItemAdded ==
  ASSUME ComposerTypeOK, Indexed, NEW e \in ItemEvent, NEW kind \in ItemKinds, AddItem(e, kind)
  PROVE  /\ items' \in [Keys -> Nat \cup {NoItem}]
         /\ nextIndex' = nextIndex + 1
         /\ client' \in Seq(ClientItem) /\ Len(client') = nextIndex'
         /\ items'[e.key] = nextIndex
         /\ \A k \in Keys : k # e.key => items'[k] = items[k]
         /\ \A i \in 1 .. nextIndex : client'[i] = client[i]
         /\ client'[nextIndex + 1].call = e.call
  <1>1. /\ items \in [Keys -> Nat \cup {NoItem}] /\ nextIndex \in Nat
        /\ client \in Seq(ClientItem) /\ Len(client) = nextIndex /\ e.key \in Keys
    BY DEF ComposerTypeOK, Indexed, ItemEvent
  <1>2. AddedItem(kind, e.call) \in ClientItem /\ AddedItem(kind, e.call).call = e.call
    BY DEF AddedItem, ClientItem, ItemEvent
  <1>3. client' = Append(client, AddedItem(kind, e.call))
    BY DEF AddItem
  <1>4. /\ client' \in Seq(ClientItem) /\ Len(client') = nextIndex + 1
        /\ \A i \in 1 .. nextIndex : client'[i] = client[i]
        /\ client'[nextIndex + 1] = AddedItem(kind, e.call)
    BY <1>1, <1>2, <1>3, AppendProperties
  <1> QED
    BY <1>1, <1>2, <1>4 DEF AddItem

LEMMA FeedEffect ==
  ASSUME ComposerTypeOK, Indexed, NEW e \in ItemEvent, Feed(e)
  PROVE  /\ ComposerTypeOK' /\ Indexed'
         /\ nextIndex' >= nextIndex
         /\ items'[e.key] # NoItem
         /\ \A k \in Keys : k # e.key \/ e.type \notin StartTypes => items'[k] = items[k]
         /\ \A i \in 1 .. nextIndex : client'[i].call = client[i].call
         /\ e.type \in StartTypes /\ e.type # "ReasoningStarted"
              => items'[e.key] = nextIndex /\ client'[nextIndex + 1].call = e.call
  <1> DEFINE Changed ==
         /\ items' \in [Keys -> Nat \cup {NoItem}] /\ nextIndex' \in Nat
         /\ client' \in Seq(ClientItem) /\ Len(client') = nextIndex'
         /\ nextIndex' >= nextIndex
         /\ \A k \in Keys : items'[k] < nextIndex'
         /\ items'[e.key] # NoItem
         /\ \A k \in Keys : k # e.key \/ e.type \notin StartTypes => items'[k] = items[k]
         /\ \A i \in 1 .. nextIndex : client'[i].call = client[i].call
  <1>0. /\ items \in [Keys -> Nat \cup {NoItem}] /\ nextIndex \in Nat
        /\ outputItems \in Seq(Nat) /\ reasoningItem \in Nat \cup {NoItem}
        /\ reasoningDone \in BOOLEAN /\ client \in Seq(ClientItem)
        /\ Len(client) = nextIndex /\ reasoningItem < nextIndex
        /\ \A k \in Keys : items[k] < nextIndex
    BY DEF ComposerTypeOK, Indexed
  <1>1. e.type \notin StartTypes => items[e.key] # NoItem
    BY DEF Feed, Known
  <1>2. e.key \in Keys /\ e.text \in Nat
    BY DEF ItemEvent
  <1>3. ASSUME NEW kind \in ItemKinds, AddItem(e, kind), e.type \in StartTypes
        PROVE  Changed /\ items'[e.key] = nextIndex /\ client'[nextIndex + 1].call = e.call
               /\ nextIndex' = nextIndex + 1
    <2>1. /\ items' \in [Keys -> Nat \cup {NoItem}]
          /\ nextIndex' = nextIndex + 1
          /\ client' \in Seq(ClientItem) /\ Len(client') = nextIndex'
          /\ items'[e.key] = nextIndex
          /\ \A k \in Keys : k # e.key => items'[k] = items[k]
          /\ \A i \in 1 .. nextIndex : client'[i] = client[i]
          /\ client'[nextIndex + 1].call = e.call
      BY <1>3, ItemAdded
    <2>2. \A k \in Keys : items'[k] < nextIndex'
      <3> TAKE k \in Keys
      <3>1. k = e.key \/ items'[k] = items[k]
        BY <2>1
      <3>2. items[k] \in Nat \cup {NoItem} /\ items[k] < nextIndex
        BY <1>0
      <3> QED
        BY <1>0, <2>1, <3>1, <3>2 DEF NoItem
    <2>3. items'[e.key] # NoItem /\ nextIndex' \in Nat /\ nextIndex' >= nextIndex
      BY <1>0, <2>1 DEF NoItem
    <2>4. \A i \in 1 .. nextIndex : client'[i].call = client[i].call
      BY <2>1
    <2> QED
      BY <1>3, <2>1, <2>2, <2>3, <2>4
  <1>4. CASE StartItem(e)
    <2>1. e.type \in StartTypes /\ StartedKind[e.type] \in ItemKinds
      BY <1>4, StartedKindType DEF StartItem
    <2>2. AddItem(e, StartedKind[e.type])
          /\ UNCHANGED <<outputItems, reasoningItem, reasoningDone>>
      BY <1>4 DEF StartItem
    <2>3. Changed /\ items'[e.key] = nextIndex /\ client'[nextIndex + 1].call = e.call
      BY <1>3, <2>1, <2>2
    <2>4. ComposerTypeOK'
      BY <1>0, <2>2, <2>3 DEF ComposerTypeOK
    <2>5. Indexed'
      BY <1>0, <2>2, <2>3 DEF Indexed, NoItem
    <2> QED
      BY <2>3, <2>4, <2>5
  <1>5. CASE StartReasoning(e)
    <2>1. "reasoning" \in ItemKinds
      BY DEF ItemKinds
    <2>2. e.type = "ReasoningStarted" /\ e.type \in StartTypes
      BY <1>5, StartTypesListed DEF StartReasoning
    <2>3. CASE reasoningItem # NoItem
      <3>1. /\ items' = [items EXCEPT ![e.key] = reasoningItem]
            /\ UNCHANGED <<nextIndex, outputItems, reasoningItem, reasoningDone, client>>
        BY <1>5, <2>3 DEF StartReasoning
      <3>2. Changed
        BY <1>0, <1>2, <2>2, <2>3, <3>1
      <3> QED
        BY <1>0, <2>2, <3>1, <3>2 DEF ComposerTypeOK, Indexed
    <2>4. CASE reasoningItem = NoItem
      <3>1. /\ AddItem(e, "reasoning") /\ reasoningItem' = nextIndex
            /\ outputItems' = Append(outputItems, nextIndex)
            /\ reasoningDone' = reasoningDone
        BY <1>5, <2>4 DEF StartReasoning
      <3>2. Changed /\ nextIndex' = nextIndex + 1
        BY <1>3, <2>1, <2>2, <3>1
      <3>3. outputItems' \in Seq(Nat)
        BY <1>0, <3>1, AppendProperties
      <3> QED
        BY <1>0, <2>2, <3>1, <3>2, <3>3 DEF ComposerTypeOK, Indexed
    <2> QED
      BY <2>3, <2>4
  <1>6. CASE ItemDelta(e) \/ ItemNotice(e) \/ FinishItem(e) \/ FinishReasoning(e)
    <2>1. e.type \notin StartTypes /\ items[e.key] # NoItem
      BY <1>1, <1>6, LaterTypes DEF ItemDelta, ItemNotice, FinishItem, FinishReasoning
    <2>2. client[Slot(e)] \in ClientItem
      BY <1>0, <1>2, <2>1 DEF Slot, NoItem
    <2>5. \E r \in ClientItem : /\ r.call = client[Slot(e)].call
                                /\ client' = [client EXCEPT ![Slot(e)] = r]
      <3> DEFINE it == client[Slot(e)]
      <3>1. \E r \in {Streamed(it, e), Noticed(it, e), Finished(it, e), Segment(it, e)} :
               client' = [client EXCEPT ![Slot(e)] = r]
        BY <1>6 DEF ItemDelta, ItemNotice, FinishItem, FinishReasoning
      <3> QED
        BY <2>2, <3>1, UpdatedItem
    <2>6. /\ client' \in Seq(ClientItem) /\ Len(client') = Len(client)
          /\ \A i \in 1 .. Len(client) : client'[i].call = client[i].call
      BY <2>1, <2>5, ItemUpdated
    <2>7. UNCHANGED <<items, nextIndex, reasoningItem>>
      BY <1>6 DEF ItemDelta, ItemNotice, FinishItem, FinishReasoning
    <2>8. outputItems' \in Seq(Nat)
      <3> DEFINE o == items[e.key]
      <3>1. o \in Nat
        BY <1>0, <1>2, <2>1
      <3>2. outputItems' = outputItems \/ outputItems' = Append(outputItems, o)
        BY <1>6 DEF ItemDelta, ItemNotice, FinishItem, FinishReasoning
      <3>3. outputItems \in Seq(Nat)
        BY <1>0
      <3> HIDE DEF o
      <3>4. Append(outputItems, o) \in Seq(Nat)
        BY <3>1, <3>3
      <3> QED
        BY <3>2, <3>3, <3>4
    <2>9. reasoningDone' \in BOOLEAN
      BY <1>0, <1>6 DEF ItemDelta, ItemNotice, FinishItem, FinishReasoning
    <2>10. Changed
      BY <1>0, <1>2, <2>1, <2>6, <2>7
    <2> QED
      BY <1>0, <2>1, <2>7, <2>8, <2>9, <2>10 DEF ComposerTypeOK, Indexed
  <1> QED
    BY <1>4, <1>5, <1>6 DEF Feed

-----------------------------------------------------------------------------
(* Type correctness.                                                       *)

LEMMA TypeInit ==
  ASSUME Init PROVE TypeInv
  <1>1. ComposerTypeOK
    <2>1. /\ items = [k \in Keys |-> NoItem] /\ nextIndex = 0 /\ outputItems = <<>>
          /\ reasoningItem = NoItem /\ reasoningDone = FALSE /\ client = <<>>
      BY DEF Init, ComposerInit
    <2>2. items \in [Keys -> Nat \cup {NoItem}] /\ reasoningItem \in Nat \cup {NoItem}
      BY <2>1
    <2>3. nextIndex \in Nat /\ outputItems \in Seq(Nat) /\ client \in Seq(ClientItem)
      BY <2>1
    <2> QED
      BY <2>1, <2>2, <2>3 DEF ComposerTypeOK
  <1>2. NormalizerTypeOK
    <2>1. DOMAIN raw = {} /\ raw \in [DOMAIN raw -> RawContents]
      BY DEF Init, NormalizerInit
    <2> QED
      BY <2>1 DEF Init, NormalizerInit, NormalizerTypeOK, NormalizerKinds
  <1>3. AgentTypeOK /\ pending \in Seq(StreamEvent)
    BY MaxPartsAssumption, BoundsAssumption
    DEF Init, NormalizerInit, AgentTypeOK, Call, CallStates
  <1>4. EngineTypeOK
    BY DEF Init, EngineTypeOK, Statuses, NotStored
  <1>5. Indexed
    BY DEF Init, ComposerInit, Indexed, NoItem
  <1>6. ToolPart
    BY DEF Init, ToolPart
  <1> QED
    BY <1>1, <1>2, <1>3, <1>4, <1>5, <1>6 DEF TypeInv, TypeOK

LEMMA PartType ==
  ASSUME AgentTypeOK, ToolPart, part # NoPart
  PROVE  /\ part \in Part
         /\ part.index \in Keys /\ part.chunks \in Nat
         /\ part.chunks \in 0 .. MaxChunks
         /\ part.type \in PartTypes
         /\ part.type = "tool" => part.call \in CallIds
  BY BoundsAssumption DEF AgentTypeOK, ToolPart, Part

LEMMA PartStartType ==
  ASSUME TypeInv, PartStart
  PROVE  NormalizerTypeOK' /\ pending' \in Seq(StreamEvent) /\ AgentTypeOK' /\ ToolPart'
  <1>1. NormalizerTypeOK /\ AgentTypeOK /\ nextPart \in Keys /\ nextPart' = nextPart + 1
        /\ UNCHANGED <<agent, turn, rewrites>>
    BY DEF TypeInv, TypeOK, PartStart
  <1>2. PICK n \in 0 .. MaxChunks :
       \/ /\ OnTextStart(nextPart, n)
          /\ part' = [NoPart EXCEPT !.type = "text", !.index = nextPart, !.chunks = n]
          /\ UNCHANGED calls
       \/ /\ \E details \in Details : OnThinkingStart(nextPart, n, details)
          /\ part' = [NoPart EXCEPT !.type = "thinking", !.index = nextPart, !.chunks = n]
          /\ UNCHANGED calls
       \/ \E tool \in ToolNames, c \in CallIds :
            /\ calls[c].state = "unused"
            /\ OnToolStart(nextPart, tool, c, n)
            /\ part' = [type |-> "tool", index |-> nextPart, tool |-> tool,
                        call |-> c, chunks |-> n]
            /\ calls' = [calls EXCEPT ![c] = [state |-> "named", tool |-> tool]]
    BY DEF PartStart
  <1>3. n \in Nat
    BY BoundsAssumption
  <1>4. (nextPart + 1) \in 0 .. MaxParts
    BY <1>1, MaxPartsAssumption DEF Keys
  <1>5. NormalizerTypeOK' /\ pending' \in Seq(StreamEvent)
    BY <1>1, <1>2, <1>3, TextStart, ThinkingStart, ToolStart DEF Batch
  <1>6. part' \in Part /\ calls' \in [CallIds -> Call] /\ ToolPart'
    <2>1. calls \in [CallIds -> Call]
      BY <1>1 DEF AgentTypeOK
    <2>2. CASE \E tool \in ToolNames, c \in CallIds :
                 /\ part' = [type |-> "tool", index |-> nextPart, tool |-> tool,
                             call |-> c, chunks |-> n]
                 /\ calls' = [calls EXCEPT ![c] = [state |-> "named", tool |-> tool]]
      <3>1. part' \in Part
        BY <1>1, <2>2 DEF Part, PartTypes
      <3>2. calls' \in [CallIds -> Call]
        BY <2>1, <2>2 DEF Call, CallStates
      <3>3. ToolPart'
        BY <2>2 DEF ToolPart
      <3> QED
        BY <3>1, <3>2, <3>3
    <2>3. CASE /\ \E t \in {"text", "thinking"} :
                    part' = [NoPart EXCEPT !.type = t, !.index = nextPart, !.chunks = n]
               /\ UNCHANGED calls
      <3>1. part' \in Part
        BY <1>1, <2>3 DEF Part, PartTypes, NoPart
      <3>2. ToolPart'
        BY <2>3 DEF ToolPart, NoPart
      <3> QED
        BY <2>1, <2>3, <3>1, <3>2
    <2> QED
      BY <1>2, <2>2, <2>3
  <1> QED
    BY <1>1, <1>4, <1>5, <1>6 DEF AgentTypeOK

LEMMA PartStepType ==
  ASSUME TypeInv, PartDelta \/ PartEnd
  PROVE  NormalizerTypeOK' /\ pending' \in Seq(StreamEvent) /\ AgentTypeOK' /\ ToolPart'
  <1>1. /\ part # NoPart /\ NormalizerTypeOK /\ AgentTypeOK /\ ToolPart
        /\ UNCHANGED <<agent, turn, nextPart, calls>>
    BY DEF TypeInv, TypeOK, PartDelta, PartEnd
  <1>2. /\ part \in Part /\ part.index \in Keys /\ part.chunks \in Nat
        /\ part.type = "tool" => part.call \in CallIds
    BY <1>1, PartType
  <1>3. CASE PartDelta
    <2>1. PICK n \in 0 .. MaxChunks - part.chunks :
            /\ part' = [part EXCEPT !.chunks = part.chunks + n]
            /\ \/ part.type = "text" /\ OnTextDelta(part.index, n)
               \/ part.type = "thinking" /\ \E details \in Details : OnThinkingDelta(part.index, n, details)
               \/ part.type = "tool" /\ OnToolDelta(part.index, part.call, n)
            /\ rewrites' = rewrites \/ (rewrites < MaxRewrites /\ rewrites' = rewrites + 1)
      BY <1>3, Zenon DEF PartDelta
    <2>5. rewrites' \in 0 .. MaxRewrites
      BY <1>1, <2>1, BoundsAssumption DEF AgentTypeOK
    <2>2. n \in Nat /\ part.chunks + n \in 0 .. MaxChunks
      BY <1>2, BoundsAssumption
    <2>3. part' \in Part /\ ToolPart'
      BY <1>1, <1>2, <2>1, <2>2 DEF Part, ToolPart
    <2>4. NormalizerTypeOK' /\ pending' \in Seq(StreamEvent)
      BY <1>1, <1>2, <2>1, <2>2, TextDelta, ThinkingDelta, ToolDelta DEF Batch
    <2> QED
      BY <1>1, <2>3, <2>4, <2>5 DEF AgentTypeOK
  <1>4. CASE PartEnd
    <2>1. /\ part' = NoPart /\ rewrites' = rewrites
          /\ \/ part.type = "text" /\ OnTextEnd(part.index, part.chunks)
             \/ part.type = "thinking" /\ OnThinkingEnd(part.index, part.chunks)
             \/ part.type = "tool" /\ OnToolEnd(part.index, part.call, part.chunks)
      BY <1>4 DEF PartEnd
    <2>2. NormalizerTypeOK' /\ pending' \in Seq(StreamEvent)
      BY <1>1, <1>2, <2>1, TextEnd, ThinkingEnd, ToolEnd DEF Batch
    <2> QED
      BY <1>1, <2>1, <2>2 DEF AgentTypeOK, ToolPart
  <1> QED
    BY <1>3, <1>4, <1>1 DEF TypeInv

LEMMA ToolStepType ==
  ASSUME TypeInv, NEW c \in CallIds, ToolCall(c) \/ \E result \in Results : ToolResult(c, result)
  PROVE  NormalizerTypeOK' /\ pending' \in Seq(StreamEvent) /\ AgentTypeOK' /\ ToolPart'
  <1>1. /\ NormalizerTypeOK /\ AgentTypeOK /\ ToolPart
        /\ UNCHANGED <<agent, turn, nextPart, part, rewrites>>
    BY DEF TypeInv, TypeOK, ToolCall, ToolResult
  <1>2. \E s \in CallStates : calls' = [calls EXCEPT ![c].state = s]
    BY DEF ToolCall, ToolResult, CallStates
  <1>3. calls' \in [CallIds -> Call]
    BY <1>1, <1>2 DEF AgentTypeOK, Call
  <1>4. NormalizerTypeOK' /\ pending' \in Seq(StreamEvent)
    BY <1>1, ToolCalled, ToolAnswered DEF ToolCall, ToolResult, Batch
  <1> QED
    BY <1>1, <1>3, <1>4 DEF AgentTypeOK, ToolPart

LEMMA ComposerKept ==
  ASSUME ComposerTypeOK, Indexed, UNCHANGED composerVars
  PROVE  ComposerTypeOK' /\ Indexed'
  BY DEF ComposerTypeOK, Indexed, composerVars

LEMMA EngineKept ==
  ASSUME EngineTypeOK, UNCHANGED engineVars PROVE EngineTypeOK'
  BY DEF EngineTypeOK, engineVars

LEMMA AgentKept ==
  ASSUME AgentTypeOK, ToolPart, UNCHANGED agentVars PROVE AgentTypeOK' /\ ToolPart'
  BY DEF AgentTypeOK, ToolPart, agentVars

(* The head of `pending` is an item event when it does not end the run.    *)
LEMMA HeadEvent ==
  ASSUME pending \in Seq(StreamEvent), pending # <<>>
  PROVE  /\ Head(pending) \in StreamEvent
         /\ Tail(pending) \in Seq(StreamEvent)
         /\ ~Terminal(Head(pending)) => Head(pending) \in ItemEvent
  <1>1. Head(pending) \in StreamEvent /\ Tail(pending) \in Seq(StreamEvent)
    OBVIOUS
  <1>2. ASSUME NEW e \in StreamEvent, ~Terminal(e) PROVE e \in ItemEvent
    BY <1>2 DEF StreamEvent, ItemEvent, Terminal
  <1> QED
    BY <1>1, <1>2

LifecycleFrames ==
  {"created", "in_progress", "completed", "incomplete", "error", "failed", "[DONE]"}

(* The actions of the engine change its own variables only, but for the    *)
(* event CompleteResponse consumes.                                        *)
LEMMA EngineStepType ==
  ASSUME TypeInv,
         \/ Build \/ CompleteResponse \/ Persist \/ PersistRaises
         \/ FailResponse \/ BreakStream \/ Close \/ Disconnect
  PROVE  EngineTypeOK' /\ pending' \in Seq(StreamEvent)
  <1>1. /\ mode \in {"stream", "json"} /\ store \in BOOLEAN /\ probe \in BOOLEAN
        /\ engine \in {"building", "running", "persisting", "closing"} \cup Ended
        /\ status \in Statuses /\ output \in Seq(Nat)
        /\ stored \in [status : Statuses, output : Seq(Nat)]
        /\ lifecycle \in Seq(LifecycleFrames)
        /\ pending \in Seq(StreamEvent) /\ outputItems \in Seq(Nat)
    BY DEF TypeInv, TypeOK, EngineTypeOK, ComposerTypeOK, LifecycleFrames
  <1>2. UNCHANGED <<mode, store, probe>>
    BY DEF Build, CompleteResponse, Persist, PersistRaises, FailResponse, BreakStream, Close, Disconnect
  <1>3. engine' \in {"building", "running", "persisting", "closing"} \cup Ended
    BY DEF Build, CompleteResponse, Persist, PersistRaises, FailResponse, BreakStream, Close,
           Disconnect, Breakdown, Ended
  <1>4. status' \in Statuses
    BY <1>1 DEF Build, CompleteResponse, Persist, PersistRaises, FailResponse, BreakStream, Close,
                Disconnect, Statuses
  <1>5. output' \in Seq(Nat)
    BY <1>1 DEF Build, CompleteResponse, Persist, PersistRaises, FailResponse, BreakStream, Close,
                Disconnect
  <1>6. stored' \in [status : Statuses, output : Seq(Nat)]
    <2>1. Row \in [status : Statuses, output : Seq(Nat)]
      BY <1>1 DEF Row
    <2>2. stored' \in {stored, Row}
      BY DEF Build, CompleteResponse, Persist, PersistRaises, FailResponse, BreakStream, Close,
             Disconnect, Row
    <2> QED
      BY <1>1, <2>1, <2>2
  <1>7. lifecycle' \in Seq(LifecycleFrames)
    <2>1. ASSUME NEW f \in LifecycleFrames, NEW g \in LifecycleFrames, NEW h \in LifecycleFrames
          PROVE  /\ <<f>> \in Seq(LifecycleFrames) /\ <<f, g>> \in Seq(LifecycleFrames)
                 /\ <<f, g, h>> \in Seq(LifecycleFrames)
      OBVIOUS
    <2>2. \/ lifecycle' = lifecycle
          \/ lifecycle' = <<>>
          \/ lifecycle' = <<"created", "in_progress">>
          \/ lifecycle' = lifecycle \o <<"completed", "[DONE]">>
          \/ lifecycle' = lifecycle \o <<"incomplete">>
          \/ lifecycle' = lifecycle \o <<"error", "failed", "[DONE]">>
          \/ lifecycle' = Append(lifecycle, "[DONE]")
      BY DEF Build, CompleteResponse, Persist, PersistRaises, FailResponse, BreakStream, Close,
             Disconnect
    <2>3. /\ <<"created", "in_progress">> \in Seq(LifecycleFrames)
          /\ <<"completed", "[DONE]">> \in Seq(LifecycleFrames)
          /\ <<"incomplete">> \in Seq(LifecycleFrames)
          /\ <<"error", "failed", "[DONE]">> \in Seq(LifecycleFrames)
          /\ "[DONE]" \in LifecycleFrames
      BY <2>1 DEF LifecycleFrames
    <2>4. ASSUME NEW s \in Seq(LifecycleFrames)
          PROVE  lifecycle \o s \in Seq(LifecycleFrames)
      BY <1>1, <2>4
    <2>5. Append(lifecycle, "[DONE]") \in Seq(LifecycleFrames)
      BY <1>1, <2>3
    <2>6. <<>> \in Seq(LifecycleFrames)
      OBVIOUS
    <2> QED
      BY <1>1, <2>2, <2>3, <2>4, <2>5, <2>6
  <1>8. pending' = pending \/ (pending # <<>> /\ pending' = Tail(pending))
    BY DEF Build, CompleteResponse, Persist, PersistRaises, FailResponse, BreakStream, Close,
           Disconnect, normalizerVars
  <1>9. pending' \in Seq(StreamEvent)
    BY <1>1, <1>8, HeadEvent
  <1> QED
    BY <1>1, <1>2, <1>3, <1>4, <1>5, <1>6, <1>7, <1>9 DEF EngineTypeOK, LifecycleFrames

LEMMA TypeStep ==
  ASSUME TypeInv, [Next]_vars
  PROVE  TypeInv'
  <1>1. /\ ComposerTypeOK /\ NormalizerTypeOK /\ pending \in Seq(StreamEvent)
        /\ AgentTypeOK /\ EngineTypeOK /\ Indexed /\ ToolPart
    BY DEF TypeInv, TypeOK
  <1>2. CASE PartStart \/ PartDelta \/ PartEnd \/ \E c \in CallIds :
               ToolCall(c) \/ \E result \in Results : ToolResult(c, result)
    <2>1. NormalizerTypeOK' /\ pending' \in Seq(StreamEvent) /\ AgentTypeOK' /\ ToolPart'
      BY <1>2, PartStartType, PartStepType, ToolStepType
    <2>2. UNCHANGED <<composerVars, engineVars>>
      BY <1>2 DEF PartStart, PartDelta, PartEnd, ToolCall, ToolResult
    <2> QED
      BY <1>1, <2>1, <2>2, ComposerKept, EngineKept DEF TypeInv, TypeOK
  <1>3. CASE TurnEnd \/ NextTurn \/ RunRaises
    <2>1. AgentTypeOK' /\ ToolPart'
      <3>1. CASE TurnEnd
        BY <1>1, <3>1 DEF AgentTypeOK, ToolPart, TurnEnd
      <3>2. CASE NextTurn
        <4>1. /\ agent' = "model" /\ turn' = turn + 1 /\ turn < MaxTurns /\ nextPart' = 0
              /\ UNCHANGED <<part, calls, rewrites>>
          BY <3>2 DEF NextTurn
        <4>2. turn' \in 1 .. MaxTurns /\ nextPart' \in 0 .. MaxParts
          BY <1>1, <4>1, MaxPartsAssumption, BoundsAssumption DEF AgentTypeOK
        <4> QED
          BY <1>1, <4>1, <4>2 DEF AgentTypeOK, ToolPart
      <3>3. CASE RunRaises
        BY <1>1, <3>3 DEF AgentTypeOK, ToolPart, RunRaises
      <3> QED
        BY <1>3, <3>1, <3>2, <3>3
    <2>2. UNCHANGED <<composerVars, normalizerVars, engineVars>>
      BY <1>3 DEF TurnEnd, NextTurn, RunRaises
    <2> QED
      BY <1>1, <2>1, <2>2, ComposerKept, EngineKept, NormalizerKept
      DEF TypeInv, TypeOK, normalizerVars
  <1>4. CASE RunResult
    <2>1. AgentTypeOK' /\ ToolPart'
      BY <1>1, <1>4 DEF AgentTypeOK, ToolPart, RunResult
    <2>2. pending' \in Seq(StreamEvent)
      <3>1. 0 \in Keys
        BY MaxPartsAssumption DEF Keys
      <3>2. \A t \in {"UsageFinal", "UsageFinalIncomplete"} : Event(t, 0, NoCall, 0) \in StreamEvent
        BY <3>1 DEF Event, StreamEvent
      <3> QED
        BY <1>4, <3>2 DEF RunResult
    <2>3. UNCHANGED <<composerVars, keyOf, itemKind, buffer, raw, engineVars>>
      BY <1>4 DEF RunResult
    <2> QED
      BY <1>1, <2>1, <2>2, <2>3, ComposerKept, EngineKept, NormalizerKept DEF TypeInv, TypeOK
  <1>5. CASE FeedPending
    <2>1. /\ pending # <<>> /\ ~Terminal(Head(pending)) /\ Feed(Head(pending))
          /\ pending' = Tail(pending)
          /\ UNCHANGED <<keyOf, itemKind, buffer, raw, agentVars, engineVars>>
      BY <1>5 DEF FeedPending
    <2>2. Head(pending) \in ItemEvent /\ Tail(pending) \in Seq(StreamEvent)
      BY <1>1, <2>1, HeadEvent
    <2>3. ComposerTypeOK' /\ Indexed'
      BY <1>1, <2>1, <2>2, FeedEffect
    <2> QED
      BY <1>1, <2>1, <2>2, <2>3, AgentKept, EngineKept, NormalizerKept DEF TypeInv, TypeOK
  <1>6. CASE \/ Build \/ CompleteResponse \/ Persist \/ PersistRaises
             \/ FailResponse \/ BreakStream \/ Close \/ Disconnect
    <2>1. EngineTypeOK' /\ pending' \in Seq(StreamEvent)
      BY <1>6, EngineStepType
    <2>2. UNCHANGED <<composerVars, keyOf, itemKind, buffer, raw, agentVars>>
      BY <1>6 DEF Build, CompleteResponse, Persist, PersistRaises, FailResponse, BreakStream,
                  Close, Disconnect, normalizerVars
    <2> QED
      BY <1>1, <2>1, <2>2, ComposerKept, AgentKept, NormalizerKept DEF TypeInv, TypeOK
  <1>7. CASE Over \/ UNCHANGED vars
    <2>1. UNCHANGED <<composerVars, normalizerVars, agentVars, engineVars>>
      BY <1>7 DEF Over, vars
    <2> QED
      BY <1>1, <2>1, ComposerKept, EngineKept, AgentKept, NormalizerKept
      DEF TypeInv, TypeOK, normalizerVars
  <1> QED
    BY <1>2, <1>3, <1>4, <1>5, <1>6, <1>7 DEF Next

(* The program's variables keep their types whatever the run does: item    *)
(* keys, output indexes and event types stay those the composer and the    *)
(* normaliser dispatch on.                                                 *)
THEOREM TypeCorrect == Spec => []TypeOK
  <1>1. Init => TypeInv
    BY TypeInit
  <1>2. TypeInv /\ [Next]_vars => TypeInv'
    BY TypeStep
  <1>3. TypeInv => TypeOK
    BY DEF TypeInv
  <1> QED
    BY <1>1, <1>2, <1>3, PTL DEF Spec

-----------------------------------------------------------------------------
(* Durability of terminal responses.                                       *)

Settled == engine \in {"closing", "closed", "disconnected"}

AtEnd == engine \in {"closing"} \cup Ended

(* A row exists, and the terminal frame is sent, only once the response is *)
(* persisted; what they say of it does not change afterwards.              *)
DurableInv ==
  /\ engine = "persisting" => status \in {"completed", "incomplete"}
  /\ stored # NotStored =>
       AtEnd /\ store /\ status \in {"completed", "incomplete"} /\ stored = Row
  /\ \A i \in 1 .. Len(lifecycle) :
       lifecycle[i] \in {"completed", "incomplete"}
         => Settled /\ status = lifecycle[i] /\ (store => stored = Row)

LEMMA DurableStep ==
  ASSUME TypeInv, DurableInv, [Next]_vars
  PROVE  DurableInv'
  <1>0. /\ lifecycle \in Seq(LifecycleFrames) /\ store \in BOOLEAN
        /\ engine = "persisting" => status \in {"completed", "incomplete"}
        /\ stored # NotStored =>
             AtEnd /\ store /\ status \in {"completed", "incomplete"} /\ stored = Row
        /\ \A i \in 1 .. Len(lifecycle) :
             lifecycle[i] \in {"completed", "incomplete"}
               => Settled /\ status = lifecycle[i] /\ (store => stored = Row)
    BY DEF TypeInv, TypeOK, EngineTypeOK, LifecycleFrames, DurableInv
  <1>1. CASE UNCHANGED engineVars
    BY <1>1 DEF DurableInv, engineVars, Settled, AtEnd, Row
  <1>2. CASE Build
    <2>1. \A i \in 1 .. Len(lifecycle') : lifecycle'[i] \notin {"completed", "incomplete"}
      BY <1>0, <1>2 DEF Build, Settled
    <2>2. stored = NotStored /\ UNCHANGED stored /\ engine' # "persisting"
      BY <1>0, <1>2 DEF Build, AtEnd, Ended
    <2> QED
      BY <2>1, <2>2 DEF DurableInv, NotStored
  <1>3. CASE CompleteResponse
    <2>1. stored = NotStored
          /\ \A i \in 1 .. Len(lifecycle) : lifecycle[i] \notin {"completed", "incomplete"}
      BY <1>0, <1>3 DEF CompleteResponse, Settled, AtEnd, Ended
    <2> QED
      BY <1>3, <2>1 DEF CompleteResponse, DurableInv, NotStored
  <1>4. CASE Persist
    <2>1. /\ status \in {"completed", "incomplete"} /\ stored = NotStored
          /\ \A i \in 1 .. Len(lifecycle) : lifecycle[i] \notin {"completed", "incomplete"}
          /\ engine' = "closing" /\ UNCHANGED <<store, status, output>>
          /\ stored' = IF store THEN Row ELSE stored
          /\ \/ lifecycle' = lifecycle
             \/ status = "completed" /\ lifecycle' = lifecycle \o <<"completed", "[DONE]">>
             \/ status = "incomplete" /\ lifecycle' = lifecycle \o <<"incomplete">>
      BY <1>0, <1>4 DEF Persist, Settled, AtEnd, Ended, Row
    <2>2. \A i \in 1 .. Len(lifecycle') :
            lifecycle'[i] \in {"completed", "incomplete"} => status = lifecycle'[i]
      BY <1>0, <2>1
    <2>3. stored' # NotStored => store
      BY <2>1 DEF NotStored
    <2> QED
      BY <2>1, <2>2, <2>3 DEF DurableInv, Settled, AtEnd, Row, NotStored
  <1>5. CASE PersistRaises \/ BreakStream
    <2>1. /\ stored = NotStored
          /\ \A i \in 1 .. Len(lifecycle) : lifecycle[i] \notin {"completed", "incomplete"}
          /\ engine' # "persisting" /\ UNCHANGED <<store, status, output, lifecycle>>
          /\ AtEnd'
      BY <1>0, <1>5 DEF PersistRaises, BreakStream, Breakdown, Settled, AtEnd, Ended
    <2>2. /\ stored' = stored \/ stored' = Row
          /\ stored' # stored => store /\ status \in {"completed", "incomplete"}
      BY <1>0, <1>5 DEF PersistRaises, BreakStream
    <2> QED
      BY <2>1, <2>2 DEF DurableInv, Row, NotStored
  <1>6. CASE FailResponse
    <2>1. /\ stored = NotStored
          /\ \A i \in 1 .. Len(lifecycle) : lifecycle[i] \notin {"completed", "incomplete"}
          /\ engine' # "persisting" /\ UNCHANGED <<store, output, stored>>
          /\ \/ lifecycle' = lifecycle
             \/ lifecycle' = lifecycle \o <<"error", "failed", "[DONE]">>
      BY <1>0, <1>6 DEF FailResponse, Settled, AtEnd, Ended
    <2>2. \A i \in 1 .. Len(lifecycle') : lifecycle'[i] \notin {"completed", "incomplete"}
      BY <1>0, <2>1
    <2> QED
      BY <2>1, <2>2 DEF DurableInv, NotStored
  <1>7. CASE Close
    <2>1. /\ Settled /\ Settled' /\ AtEnd' /\ engine' # "persisting"
          /\ UNCHANGED <<store, status, output, stored>>
          /\ lifecycle' = lifecycle \/ lifecycle' = Append(lifecycle, "[DONE]")
      BY <1>7 DEF Close, Settled, AtEnd, Ended
    <2>2. \A i \in 1 .. Len(lifecycle') :
            lifecycle'[i] \in {"completed", "incomplete"}
              => i \in 1 .. Len(lifecycle) /\ lifecycle'[i] = lifecycle[i]
      BY <1>0, <2>1
    <2> QED
      BY <1>0, <2>1, <2>2 DEF DurableInv, Row, NotStored
  <1>8. CASE Disconnect
    <2>1. /\ Settled' /\ AtEnd' /\ engine' # "persisting"
          /\ UNCHANGED <<store, status, output, lifecycle>>
          /\ stored' = stored \/ (engine = "persisting" /\ store /\ stored' = Row)
      BY <1>8 DEF Disconnect, Settled, AtEnd, Ended
    <2>2. engine = "persisting" => ~Settled
      BY DEF Settled
    <2>3. ASSUME NEW i \in 1 .. Len(lifecycle), lifecycle[i] \in {"completed", "incomplete"}, store
          PROVE  stored' = Row
      BY <1>0, <2>1, <2>2, <2>3
    <2>4. stored' # NotStored => store /\ status \in {"completed", "incomplete"} /\ stored' = Row
      BY <1>0, <2>1
    <2> QED
      BY <1>0, <2>1, <2>3, <2>4 DEF DurableInv, Row, NotStored
  <1>9. \/ UNCHANGED engineVars
        \/ Build \/ CompleteResponse \/ Persist \/ PersistRaises
        \/ FailResponse \/ BreakStream \/ Close \/ Disconnect
    BY DEF Next, vars, PartStart, PartDelta, PartEnd, TurnEnd, ToolCall, ToolResult, NextTurn,
           RunResult, RunRaises, FeedPending, Over
  <1> QED
    BY <1>1, <1>2, <1>3, <1>4, <1>5, <1>6, <1>7, <1>8, <1>9

(* A reader who is told that a stored response is completed or incomplete  *)
(* can continue from it: its row is already written, with that status and  *)
(* that output (lm.py _tap_events holds the terminal event until           *)
(* put_completed returns); and whatever fails or breaks off, a write whose *)
(* commit raised included, a row is only there of a response that was      *)
(* complete and to be stored.                                              *)
THEOREM Durability == Spec => []TerminalIsDurable
  <1>1. Init => TypeInv /\ DurableInv
    <2> SUFFICES ASSUME Init PROVE TypeInv /\ DurableInv
      OBVIOUS
    <2> QED
      BY TypeInit DEF Init, DurableInv
  <1>2. TypeInv /\ DurableInv /\ [Next]_vars => TypeInv' /\ DurableInv'
    BY TypeStep, DurableStep
  <1>3. TypeInv /\ DurableInv => TerminalIsDurable
    <2> SUFFICES ASSUME TypeInv, DurableInv PROVE TerminalIsDurable
      OBVIOUS
    <2>1. DOMAIN lifecycle = 1 .. Len(lifecycle)
      BY DEF TypeInv, TypeOK, EngineTypeOK
    <2>2. ASSUME NEW i \in DOMAIN lifecycle, lifecycle[i] \in {"completed", "incomplete"}, store
          PROVE  stored = [status |-> lifecycle[i], output |-> output]
      BY <2>1, <2>2 DEF DurableInv, Row
    <2>3. stored # NotStored =>
            store /\ stored = Row /\ status \in {"completed", "incomplete"}
      BY DEF DurableInv
    <2> QED
      BY <2>2, <2>3 DEF TerminalIsDurable
  <1> QED
    BY <1>1, <1>2, <1>3, PTL DEF Spec

-----------------------------------------------------------------------------
(* Agreement of the normaliser's keys with the composer's items.           *)

(* A batch about an item that is there, or that it starts, can be fed.     *)
LEMMA BatchKnown ==
  ASSUME NEW k \in Keys \cup {NoKey}, NEW c \in CallIds \cup {NoCall}, Batch(pending, k, c),
         Starting(pending) \/ pending = <<>> \/ items[k] # NoItem,
         Starting(pending) \/ pending = <<>> \/ c = NoCall \/ client[items[k] + 1].call = c
  PROVE  PendingInv /\ NoKeyError /\ FramesReachTheirCall
  <1>1. PendingInv
    BY DEF PendingInv
  <1>2. pending # <<>> => Head(pending).key = k /\ Head(pending).call = c
    BY DEF Batch
  <1>3. NoKeyError
    BY <1>2 DEF NoKeyError, Known, Starting
  <1>4. FramesReachTheirCall
    BY <1>2 DEF FramesReachTheirCall, Slot, Starting
  <1> QED
    BY <1>1, <1>3, <1>4

(* Nothing changes for the keys while no event, item or call does.         *)
LEMMA KeyKept ==
  ASSUME KeyInv, UNCHANGED <<items, client, keyOf, itemKind, pending, nextPart, part, calls>>,
         agent' = agent \/ part = NoPart \/ agent' \in {"failed", "broken"}
  PROVE  KeyInv'
  <1>1. PendingInv' /\ NoKeyError' /\ FramesReachTheirCall'
    BY DEF KeyInv, PendingInv, NoKeyError, FramesReachTheirCall, Known, Slot
  <1>2. PartInv'
    BY DEF KeyInv, PartInv, HasItem, Opening
  <1>3. CallsInv'
    BY DEF KeyInv, CallsInv, HasItem, Opening, ItemOfCall, Active
  <1> QED
    BY <1>1, <1>2, <1>3 DEF KeyInv

LEMMA KeyInit ==
  ASSUME Init PROVE KeyInv
  <1>1. pending = <<>> /\ part = NoPart
    BY DEF Init, NormalizerInit
  <1>2. PendingInv
    <2>1. NoCall \in CallIds \cup {NoCall} /\ NoKey \in Keys \cup {NoKey}
      OBVIOUS
    <2> QED
      BY <1>1, <2>1, EmptyBatch DEF PendingInv
  <1>3. NoKeyError /\ FramesReachTheirCall
    BY <1>1 DEF NoKeyError, FramesReachTheirCall
  <1>4. PartInv
    BY <1>1 DEF PartInv
  <1>5. CallsInv
    BY <1>1 DEF Init, NormalizerInit, CallsInv, Active
  <1> QED
    BY <1>2, <1>3, <1>4, <1>5 DEF KeyInv

LEMMA PartStartKeys ==
  ASSUME TypeInv, KeyInv, PartStart
  PROVE  KeyInv'
  <1>1. /\ pending = <<>> /\ part = NoPart /\ agent = "model" /\ nextPart \in Keys
        /\ nextPart' = nextPart + 1 /\ UNCHANGED <<items, client, agent>>
    BY DEF PartStart, Asked, composerVars
  <1>2. /\ NormalizerTypeOK /\ keyOf \in [CallIds -> Keys \cup {NoKey}]
        /\ calls \in [CallIds -> Call] /\ nextPart \in Nat
    BY <1>1 DEF TypeInv, TypeOK, NormalizerTypeOK, AgentTypeOK, Keys
  <1>3. /\ \A c \in CallIds : keyOf[c] # NoKey => items[keyOf[c]] # NoItem
        /\ \A c \in CallIds : Active(c) =>
             /\ keyOf[c] \in 0 .. nextPart - 1 /\ items[keyOf[c]] # NoItem
             /\ client[items[keyOf[c]] + 1].call = c
    BY <1>1 DEF KeyInv, CallsInv, HasItem, ItemOfCall, Opening, Starting
  <1>4. PICK n \in 0 .. MaxChunks :
       \/ /\ OnTextStart(nextPart, n)
          /\ part' = [NoPart EXCEPT !.type = "text", !.index = nextPart, !.chunks = n]
          /\ UNCHANGED calls
       \/ /\ \E details \in Details : OnThinkingStart(nextPart, n, details)
          /\ part' = [NoPart EXCEPT !.type = "thinking", !.index = nextPart, !.chunks = n]
          /\ UNCHANGED calls
       \/ \E tool \in ToolNames, c \in CallIds :
            /\ calls[c].state = "unused"
            /\ OnToolStart(nextPart, tool, c, n)
            /\ part' = [type |-> "tool", index |-> nextPart, tool |-> tool,
                        call |-> c, chunks |-> n]
            /\ calls' = [calls EXCEPT ![c] = [state |-> "named", tool |-> tool]]
    BY DEF PartStart
  <1>5. n \in Nat
    BY BoundsAssumption
  <1>6. CASE /\ Batch(pending', nextPart, NoCall) /\ keyOf' = keyOf /\ calls' = calls
             /\ part'.index = nextPart /\ part'.type # "tool"
             /\ \/ Starting(pending')
                \/ pending' = <<>> /\ itemKind'[nextPart] = PROBE /\ part'.type = "text"
    <2>1. pending' # <<>> => Head(pending').key = nextPart
      BY <1>6 DEF Batch
    <2>2. PendingInv' /\ NoKeyError' /\ FramesReachTheirCall'
      <3>1. NoCall \in CallIds \cup {NoCall} /\ nextPart \in Keys \cup {NoKey}
        BY <1>1
      <3>2. PendingInv'
        BY <1>6, <3>1 DEF PendingInv
      <3> QED
        BY <1>6, <3>2 DEF NoKeyError, FramesReachTheirCall, Known, Starting
    <2>3. PartInv'
      <3>1. Starting(pending') => Opening(part.index)'
        BY <1>6, <2>1 DEF Opening, Starting
      <3>2. HasItem(part.index)' \/ (part'.type = "text" /\ itemKind'[part'.index] = PROBE)
        BY <1>6, <3>1 DEF HasItem
      <3>3. part'.index < nextPart' /\ agent' = "model" /\ part'.type # "tool"
        BY <1>1, <1>2, <1>6
      <3> QED
        BY <3>2, <3>3 DEF PartInv
    <2>4. CallsInv'
      <3> SUFFICES ASSUME NEW c \in CallIds
                   PROVE  /\ keyOf[c] # NoKey => HasItem(keyOf[c])'
                          /\ Active(c)' => keyOf[c] \in 0 .. nextPart /\ ItemOfCall(keyOf[c], c)'
                          /\ Active(c)' => keyOf[c] # nextPart
        BY <1>1, <1>2, <1>6 DEF CallsInv, HasItem, ItemOfCall, Opening
      <3>1. Active(c)' <=> Active(c)
        BY <1>6 DEF Active
      <3>2. Active(c) => keyOf[c] # nextPart /\ keyOf[c] \in 0 .. nextPart
        BY <1>2, <1>3
      <3>3. keyOf[c] # nextPart => ~Opening(keyOf[c])'
        BY <1>6, <2>1 DEF Opening, Starting
      <3> QED
        BY <1>1, <1>3, <1>6, <3>1, <3>2, <3>3 DEF HasItem, ItemOfCall
    <2> QED
      BY <2>2, <2>3, <2>4 DEF KeyInv
  <1>7. ASSUME NEW tool \in ToolNames, NEW d \in CallIds, calls[d].state = "unused",
               OnToolStart(nextPart, tool, d, n),
               part' = [type |-> "tool", index |-> nextPart, tool |-> tool,
                        call |-> d, chunks |-> n],
               calls' = [calls EXCEPT ![d] = [state |-> "named", tool |-> tool]]
        PROVE  KeyInv'
    <2>1. Batch(pending', nextPart, d) /\ Starting(pending') /\ keyOf' = [keyOf EXCEPT ![d] = nextPart]
      BY <1>1, <1>2, <1>5, <1>7, ToolStart
    <2>2. Head(pending').key = nextPart /\ Head(pending').call = d
      BY <2>1 DEF Batch, Starting
    <2>3. PendingInv' /\ NoKeyError' /\ FramesReachTheirCall'
      <3>1. d \in CallIds \cup {NoCall} /\ nextPart \in Keys \cup {NoKey}
        BY <1>1
      <3>2. PendingInv'
        BY <2>1, <3>1 DEF PendingInv
      <3> QED
        BY <2>1, <3>2 DEF NoKeyError, FramesReachTheirCall, Known, Starting
    <2>4. part'.type = "tool" /\ part'.index = nextPart /\ part'.call = d
          /\ calls'[d].state = "named" /\ keyOf'[d] = nextPart
      BY <1>2, <1>7, <2>1
    <2>5. PartInv'
      BY <1>1, <1>2, <2>1, <2>2, <2>4 DEF PartInv, HasItem, Opening
    <2>6. CallsInv'
      <3> SUFFICES ASSUME NEW c \in CallIds
                   PROVE  /\ keyOf'[c] # NoKey => HasItem(keyOf[c])'
                          /\ Active(c)' => keyOf'[c] \in 0 .. nextPart /\ ItemOfCall(keyOf[c], c)'
        BY <1>1, <1>2, <2>4 DEF CallsInv
      <3>1. CASE c = d
        BY <1>2, <2>1, <2>2, <2>4, <3>1 DEF HasItem, ItemOfCall, Opening
      <3>2. CASE c # d
        <4>1. keyOf'[c] = keyOf[c] /\ (Active(c)' <=> Active(c))
          BY <1>2, <1>7, <2>1, <3>2 DEF Active
        <4>2. Active(c) => keyOf[c] # nextPart /\ keyOf[c] \in 0 .. nextPart
          BY <1>2, <1>3
        <4>3. keyOf'[c] # nextPart => ~Opening(keyOf[c])'
          BY <2>2 DEF Opening
        <4> QED
          BY <1>1, <1>3, <4>1, <4>2, <4>3 DEF HasItem, ItemOfCall
      <3> QED
        BY <3>1, <3>2
    <2> QED
      BY <2>3, <2>5, <2>6 DEF KeyInv
  <1>8. CASE /\ OnTextStart(nextPart, n)
             /\ part' = [NoPart EXCEPT !.type = "text", !.index = nextPart, !.chunks = n]
             /\ UNCHANGED calls
    <2>1. /\ Batch(pending', nextPart, NoCall) /\ keyOf' = keyOf
          /\ Starting(pending') \/ (pending' = <<>> /\ itemKind'[nextPart] = PROBE)
      BY <1>1, <1>2, <1>5, <1>8, TextStart
    <2>2. part'.index = nextPart /\ part'.type = "text"
      BY <1>8 DEF NoPart
    <2> QED
      BY <1>6, <1>8, <2>1, <2>2
  <1>9. CASE /\ \E details \in Details : OnThinkingStart(nextPart, n, details)
             /\ part' = [NoPart EXCEPT !.type = "thinking", !.index = nextPart, !.chunks = n]
             /\ UNCHANGED calls
    <2>1. Batch(pending', nextPart, NoCall) /\ keyOf' = keyOf /\ Starting(pending')
      BY <1>1, <1>2, <1>5, <1>9, ThinkingStart
    <2>2. part'.index = nextPart /\ part'.type = "thinking"
      BY <1>9 DEF NoPart
    <2> QED
      BY <1>6, <1>9, <2>1, <2>2
  <1> QED
    BY <1>4, <1>7, <1>8, <1>9

LEMMA PartStepKeys ==
  ASSUME TypeInv, KeyInv, PartDelta \/ PartEnd
  PROVE  KeyInv'
  <1>1. /\ pending = <<>> /\ part # NoPart /\ agent = "model"
        /\ UNCHANGED <<items, client, agent, nextPart, calls>>
    BY DEF PartDelta, PartEnd, Asked, composerVars
  <1>2. /\ NormalizerTypeOK /\ keyOf \in [CallIds -> Keys \cup {NoKey}]
        /\ calls \in [CallIds -> Call]
        /\ part \in Part /\ part.index \in Keys /\ part.chunks \in Nat
        /\ part.type = "tool" => part.call \in CallIds
    BY <1>1, PartType DEF TypeInv, TypeOK, NormalizerTypeOK, AgentTypeOK
  <1>3. /\ \A c \in CallIds : keyOf[c] # NoKey => items[keyOf[c]] # NoItem
        /\ \A c \in CallIds : Active(c) =>
             /\ keyOf[c] \in 0 .. nextPart - 1 /\ items[keyOf[c]] # NoItem
             /\ client[items[keyOf[c]] + 1].call = c
             /\ part.type # "tool" => keyOf[c] # part.index
    BY <1>1 DEF KeyInv, CallsInv, HasItem, ItemOfCall, Opening, Starting
  <1>4. /\ items[part.index] # NoItem \/ (part.type = "text" /\ itemKind[part.index] = PROBE)
        /\ part.index < nextPart
        /\ part.type = "tool" => calls[part.call].state = "named" /\ keyOf[part.call] = part.index
    BY <1>1 DEF KeyInv, PartInv, HasItem, Opening, Starting
  <1>5. part' = NoPart \/ (part'.type = part.type /\ part'.index = part.index /\ part'.call = part.call)
    BY <1>2 DEF PartDelta, PartEnd, Part
  (* What the handler leaves: events of the part's item, or nothing.       *)
  <1> DEFINE call == IF part.type = "tool" THEN part.call ELSE NoCall
  <1>6. /\ Batch(pending', part.index, call)
        /\ keyOf' = keyOf
        /\ Starting(pending') => part.type = "text"
        /\ Starting(pending') \/ pending' = <<>> \/ items[part.index] # NoItem
        /\ part' # NoPart => itemKind' = itemKind /\ ~Starting(pending')
    <2>1. CASE PartDelta
      <3>1. PICK n \in 0 .. MaxChunks - part.chunks :
              \/ part.type = "text" /\ OnTextDelta(part.index, n)
              \/ part.type = "thinking" /\ \E details \in Details : OnThinkingDelta(part.index, n, details)
              \/ part.type = "tool" /\ OnToolDelta(part.index, part.call, n)
        BY <2>1 DEF PartDelta
      <3>2. n \in Nat
        BY <1>2, BoundsAssumption
      <3>3. CASE part.type = "text" /\ OnTextDelta(part.index, n)
        BY <1>2, <1>4, <3>2, <3>3, TextDelta
      <3>4. CASE part.type = "thinking" /\ \E details \in Details : OnThinkingDelta(part.index, n, details)
        BY <1>2, <1>4, <3>2, <3>4, ThinkingDelta
      <3>5. CASE part.type = "tool" /\ OnToolDelta(part.index, part.call, n)
        <4>1. KeyOfCall(part.call, part.index) = part.index
          BY <1>4, <3>5 DEF KeyOfCall
        <4> QED
          BY <1>2, <1>4, <3>2, <3>5, <4>1, ToolDelta
      <3> QED
        BY <3>1, <3>3, <3>4, <3>5
    <2>2. CASE PartEnd
      <3>1. /\ part' = NoPart
            /\ \/ part.type = "text" /\ OnTextEnd(part.index, part.chunks)
               \/ part.type = "thinking" /\ OnThinkingEnd(part.index, part.chunks)
               \/ part.type = "tool" /\ OnToolEnd(part.index, part.call, part.chunks)
        BY <2>2 DEF PartEnd
      <3>2. CASE part.type = "text" /\ OnTextEnd(part.index, part.chunks)
        BY <1>2, <1>4, <3>1, <3>2, TextEnd
      <3>3. CASE part.type = "thinking" /\ OnThinkingEnd(part.index, part.chunks)
        BY <1>2, <1>4, <3>1, <3>3, ThinkingEnd
      <3>4. CASE part.type = "tool" /\ OnToolEnd(part.index, part.call, part.chunks)
        <4>1. KeyOfCall(part.call, part.index) = part.index
          BY <1>4, <3>4 DEF KeyOfCall
        <4> QED
          BY <1>2, <1>4, <3>1, <3>4, <4>1, ToolEnd
      <3> QED
        BY <3>1, <3>2, <3>3, <3>4
    <2> QED
      BY <2>1, <2>2
  <1>7. pending' # <<>> => Head(pending').key = part.index /\ Head(pending').call = call
    BY <1>6 DEF Batch
  <1>8. call \in CallIds \cup {NoCall} /\ part.index \in Keys \cup {NoKey}
    BY <1>2
  <1>9. call = NoCall \/ (call \in CallIds /\ part.type = "tool" /\ client[items[part.index] + 1].call = call)
    BY <1>2, <1>3, <1>4 DEF Active
  <1> HIDE DEF call
  <1>10. PendingInv' /\ NoKeyError' /\ FramesReachTheirCall'
    <2>1. PendingInv'
      BY <1>6, <1>8 DEF PendingInv
    <2>2. NoKeyError'
      BY <1>1, <1>6, <1>7 DEF NoKeyError, Known, Starting
    <2>3. FramesReachTheirCall'
      BY <1>1, <1>7, <1>9 DEF FramesReachTheirCall, Slot
    <2> QED
      BY <2>1, <2>2, <2>3
  <1>11. PartInv'
    <2> SUFFICES ASSUME part' # NoPart PROVE PartInv'
      BY DEF PartInv
    <2>1. /\ part'.type = part.type /\ part'.index = part.index /\ part'.call = part.call
          /\ itemKind' = itemKind /\ keyOf' = keyOf
      BY <1>5, <1>6
    <2>2. HasItem(part.index)' \/ (part'.type = "text" /\ itemKind'[part'.index] = PROBE)
      BY <1>1, <1>4, <2>1 DEF HasItem
    <2> QED
      BY <1>1, <1>4, <2>1, <2>2 DEF PartInv
  <1>12. CallsInv'
    <2> SUFFICES ASSUME NEW c \in CallIds
                 PROVE  /\ keyOf[c] # NoKey => HasItem(keyOf[c])'
                        /\ Active(c) => keyOf[c] \in 0 .. nextPart - 1 /\ ItemOfCall(keyOf[c], c)'
                        /\ Active(c) /\ part' # NoPart /\ part'.type # "tool"
                             => keyOf[c] # part'.index
      BY <1>1, <1>6 DEF CallsInv, HasItem, ItemOfCall, Opening, Active
    <2>1. keyOf[c] # NoKey => HasItem(keyOf[c])'
      BY <1>1, <1>3, <1>6 DEF HasItem
    <2>2. Active(c) => ~Opening(keyOf[c])'
      BY <1>3, <1>6, <1>7 DEF Opening, Starting
    <2>3. Active(c) => keyOf[c] \in 0 .. nextPart - 1 /\ ItemOfCall(keyOf[c], c)'
      BY <1>1, <1>3, <1>6, <2>2 DEF ItemOfCall
    <2>4. Active(c) /\ part' # NoPart /\ part'.type # "tool" => keyOf[c] # part'.index
      BY <1>3, <1>5
    <2> QED
      BY <2>1, <2>3, <2>4
  <1> QED
    BY <1>10, <1>11, <1>12 DEF KeyInv

LEMMA ToolStepKeys ==
  ASSUME TypeInv, KeyInv, NEW d \in CallIds,
         ToolCall(d) \/ \E result \in Results : ToolResult(d, result)
  PROVE  KeyInv'
  <1>1. /\ pending = <<>> /\ agent = "tools" /\ Active(d)
        /\ UNCHANGED <<items, client, agent, nextPart, part>>
    BY DEF ToolCall, ToolResult, Asked, composerVars, Active
  <1>2. /\ NormalizerTypeOK /\ keyOf \in [CallIds -> Keys \cup {NoKey}]
        /\ calls \in [CallIds -> Call]
    BY DEF TypeInv, TypeOK, NormalizerTypeOK, AgentTypeOK
  <1>3. part = NoPart
    BY <1>1 DEF KeyInv, PartInv
  <1>4. /\ \A c \in CallIds : keyOf[c] # NoKey => items[keyOf[c]] # NoItem
        /\ \A c \in CallIds : Active(c) =>
             /\ keyOf[c] \in 0 .. nextPart - 1 /\ items[keyOf[c]] # NoItem
             /\ client[items[keyOf[c]] + 1].call = c
    BY <1>1 DEF KeyInv, CallsInv, HasItem, ItemOfCall, Opening, Starting
  <1>5. /\ Batch(pending', keyOf[d], d) /\ keyOf' = keyOf /\ ~Starting(pending')
        /\ keyOf[d] = NoKey => pending' = <<>>
    BY <1>2, ToolCalled, ToolAnswered DEF ToolCall, ToolResult
  <1>6. pending' # <<>> => Head(pending').key = keyOf[d] /\ Head(pending').call = d
    BY <1>5 DEF Batch
  <1>7. \A c \in CallIds : Active(c)' => Active(c)
    BY <1>1, <1>2 DEF Active, ToolCall, ToolResult
  <1>8. PendingInv' /\ NoKeyError' /\ FramesReachTheirCall'
    <2>1. d \in CallIds \cup {NoCall} /\ keyOf[d] \in Keys \cup {NoKey}
      BY <1>2
    <2>2. PendingInv'
      BY <1>5, <2>1 DEF PendingInv
    <2>3. NoKeyError'
      BY <1>1, <1>4, <1>6 DEF NoKeyError, Known
    <2>4. FramesReachTheirCall'
      BY <1>1, <1>4, <1>6 DEF FramesReachTheirCall, Slot
    <2> QED
      BY <2>2, <2>3, <2>4
  <1>9. PartInv'
    BY <1>1, <1>3 DEF PartInv
  <1>10. CallsInv'
    BY <1>1, <1>3, <1>4, <1>5, <1>7 DEF CallsInv, HasItem, ItemOfCall, Opening
  <1> QED
    BY <1>8, <1>9, <1>10 DEF KeyInv

(* Feeding the head leaves the rest of its batch, about the item the head  *)
(* was about.                                                              *)
LEMMA FeedKeys ==
  ASSUME TypeInv, KeyInv, FeedPending
  PROVE  KeyInv'
  <1> DEFINE e == Head(pending)
             k == e.key
             d == e.call
  <1>1. /\ pending # <<>> /\ ~Terminal(e) /\ Feed(e) /\ pending' = Tail(pending)
        /\ UNCHANGED <<keyOf, itemKind, agent, nextPart, part, calls>>
    BY DEF FeedPending, agentVars
  <1>2. /\ ComposerTypeOK /\ Indexed /\ pending \in Seq(StreamEvent)
        /\ keyOf \in [CallIds -> Keys \cup {NoKey}]
        /\ part # NoPart => part.index \in Keys
    BY PartType DEF TypeInv, TypeOK, NormalizerTypeOK
  <1>3. e \in ItemEvent /\ Tail(pending) \in Seq(StreamEvent)
    BY <1>1, <1>2, HeadEvent
  <1>4. k \in Keys /\ d \in CallIds \cup {NoCall}
    BY <1>3 DEF ItemEvent
  <1>5. Batch(pending, k, d)
    <2>1. PICK j \in Keys \cup {NoKey}, b \in CallIds \cup {NoCall} : Batch(pending, j, b)
      BY <1>1 DEF KeyInv, PendingInv
    <2>2. j = k /\ b = d
      BY <1>1, <2>1 DEF Batch
    <2> QED
      BY <2>1, <2>2
  <1>6. e.type = "ReasoningStarted" => d = NoCall
    BY <1>1, <1>5 DEF Batch
  <1>7. /\ items'[k] # NoItem
        /\ \A j \in Keys : j # k \/ e.type \notin StartTypes => items'[j] = items[j]
        /\ \A i \in 1 .. nextIndex : client'[i].call = client[i].call
        /\ e.type \in StartTypes /\ e.type # "ReasoningStarted"
             => items'[k] = nextIndex /\ client'[nextIndex + 1].call = d
    BY <1>1, <1>2, <1>3, FeedEffect
  <1>8. \A j \in Keys : items[j] # NoItem => items[j] + 1 \in 1 .. nextIndex
    BY <1>2 DEF ComposerTypeOK, Indexed, NoItem
  <1>9. Opening(k) <=> e.type \in StartTypes
    BY <1>1 DEF Opening, Starting
  <1>10. e.type \notin StartTypes => items[k] # NoItem
    BY <1>1 DEF Feed, Known
  <1> HIDE DEF e, k, d
  (* The rest of the batch.                                                *)
  <1>11. Batch(pending', k, d) /\ ~Starting(pending')
    <2> DEFINE p == Tail(pending)
    <2>1. Len(p) = Len(pending) - 1 /\ \A i \in 1 .. Len(p) : p[i] = pending[i + 1]
      BY <1>1, <1>2, HeadTailProperties
    <2>2. \A i \in 1 .. Len(p) :
            /\ p[i].type \in ItemEventTypes /\ p[i].key = k /\ p[i].call = d
            /\ p[i].type \notin StartTypes
            /\ p[i].type = "ReasoningStarted" => d = NoCall
      <3> TAKE i \in 1 .. Len(p)
      <3>1. i + 1 \in 1 .. Len(pending) /\ i + 1 > 1 /\ p[i] = pending[i + 1]
        BY <1>2, <2>1
      <3> QED
        BY <1>5, <3>1 DEF Batch
    <2>3. p # <<>> => Head(p).type \notin StartTypes
      BY <1>3, <2>2
    <2> QED
      BY <1>1, <1>3, <2>2, <2>3 DEF Batch, Starting
  (* The item at k is that of d.                                           *)
  <1>12. d # NoCall => client'[items'[k] + 1].call = d
    <2>1. CASE e.type \in StartTypes
      BY <1>6, <1>7, <2>1
    <2>2. CASE e.type \notin StartTypes
      <3>1. d # NoCall => client[items[k] + 1].call = d
        BY <1>1, <2>2 DEF KeyInv, FramesReachTheirCall, Slot, e, k, d
      <3>2. items'[k] = items[k] /\ items[k] + 1 \in 1 .. nextIndex
        BY <1>4, <1>7, <1>8, <1>10, <2>2
      <3> QED
        BY <1>7, <3>1, <3>2
    <2> QED
      BY <2>1, <2>2
  (* No item disappears and no item changes its call.                      *)
  <1>13. \A j \in Keys : HasItem(j) => items'[j] # NoItem
    <2> SUFFICES ASSUME NEW j \in Keys, HasItem(j) PROVE items'[j] # NoItem
      OBVIOUS
    <2>1. CASE j = k
      BY <1>7, <2>1
    <2>2. CASE j # k
      BY <1>1, <1>7, <2>2 DEF HasItem, Opening, e, k
    <2> QED
      BY <2>1, <2>2
  <1>14. ASSUME NEW j \in Keys, NEW c \in CallIds, ItemOfCall(j, c)
         PROVE  items'[j] # NoItem /\ client'[items'[j] + 1].call = c
    <2>1. CASE Opening(j)
      <3>1. j = k /\ d = c /\ d # NoCall
        BY <1>14, <2>1, CallIdsAssumption DEF ItemOfCall, Opening, e, k, d
      <3> QED
        BY <1>7, <1>12, <3>1
    <2>2. CASE ~Opening(j)
      <3>1. items[j] # NoItem /\ client[items[j] + 1].call = c
        BY <1>14, <2>2 DEF ItemOfCall
      <3>2. items'[j] = items[j]
        BY <1>7, <1>9, <2>2
      <3> QED
        BY <1>7, <1>8, <3>1, <3>2
    <2> QED
      BY <2>1, <2>2
  <1>15. \A j : ~Opening(j)'
    BY <1>11 DEF Opening
  <1>16. PendingInv' /\ NoKeyError' /\ FramesReachTheirCall'
    <2>1. pending' # <<>> => Head(pending').key = k /\ Head(pending').call = d
      BY <1>11 DEF Batch
    <2>2. PendingInv'
      BY <1>4, <1>11 DEF PendingInv
    <2>3. NoKeyError'
      BY <1>7, <2>1 DEF NoKeyError, Known
    <2>4. FramesReachTheirCall'
      BY <1>12, <2>1 DEF FramesReachTheirCall, Slot
    <2> QED
      BY <2>2, <2>3, <2>4
  <1>17. PartInv'
    BY <1>1, <1>2, <1>13 DEF KeyInv, PartInv, HasItem
  <1>18. CallsInv'
    <2> SUFFICES ASSUME NEW c \in CallIds
                 PROVE  /\ keyOf[c] # NoKey => HasItem(keyOf[c])'
                        /\ Active(c) => keyOf[c] \in 0 .. nextPart - 1 /\ ItemOfCall(keyOf[c], c)'
                        /\ Active(c) /\ part # NoPart /\ part.type # "tool"
                             => keyOf[c] # part.index
      BY <1>1 DEF CallsInv, HasItem, ItemOfCall, Opening, Active
    <2>1. /\ keyOf[c] # NoKey => HasItem(keyOf[c])
          /\ Active(c) => keyOf[c] \in 0 .. nextPart - 1 /\ ItemOfCall(keyOf[c], c)
          /\ Active(c) /\ part # NoPart /\ part.type # "tool" => keyOf[c] # part.index
      BY DEF KeyInv, CallsInv
    <2>2. keyOf[c] # NoKey => keyOf[c] \in Keys /\ HasItem(keyOf[c])'
      BY <1>1, <1>2, <1>13, <2>1 DEF HasItem
    <2>3. Active(c) => ItemOfCall(keyOf[c], c)'
      <3> SUFFICES ASSUME Active(c) PROVE ItemOfCall(keyOf[c], c)'
        OBVIOUS
      <3>1. keyOf[c] \in Keys
        BY <1>2, <2>1 DEF NoKey
      <3> QED
        BY <1>1, <1>14, <1>15, <2>1, <3>1 DEF ItemOfCall
    <2> QED
      BY <2>1, <2>2, <2>3
  <1> QED
    BY <1>16, <1>17, <1>18 DEF KeyInv

(* The end of the run: its terminal event, and then no event at all.       *)
LEMMA EndKeys ==
  ASSUME TypeInv, KeyInv, RunResult \/ CompleteResponse
  PROVE  KeyInv'
  <1>1. /\ UNCHANGED <<items, client, keyOf, itemKind, nextPart, part, calls>>
        /\ pending \in Seq(StreamEvent)
    BY DEF RunResult, CompleteResponse, composerVars, agentVars, TypeInv, TypeOK
  <1>2. /\ \/ pending' = <<>>
           \/ /\ Len(pending') = 1 /\ pending' # <<>>
              /\ Terminal(Head(pending')) /\ Head(pending').call = NoCall
        /\ ~Starting(pending)
        /\ agent' = agent \/ part = NoPart
    <2>1. CASE RunResult
      <3>1. PICK t \in {"UsageFinal", "UsageFinalIncomplete"} :
              pending' = <<Event(t, 0, NoCall, 0)>>
        BY <2>1 DEF RunResult
      <3> QED
        BY <2>1, <3>1 DEF RunResult, Asked, Starting, Terminal, Event
    <2>2. CASE CompleteResponse
      <3>1. pending # <<>> /\ Terminal(Head(pending)) /\ pending' = Tail(pending)
        BY <2>2 DEF CompleteResponse
      <3>2. Len(pending) = 1
        <4>1. ASSUME NEW k, NEW c, Batch(pending, k, c) PROVE FALSE
          BY <1>1, <3>1, <4>1, NotTerminal DEF Batch
        <4> QED
          BY <4>1 DEF KeyInv, PendingInv
      <3>3. Head(pending).type \notin StartTypes
        BY <3>1, StartTypesListed DEF Terminal
      <3> QED
        BY <1>1, <2>2, <3>1, <3>2, <3>3 DEF CompleteResponse, Starting, agentVars
    <2> QED
      BY <2>1, <2>2
  <1>3. ~Starting(pending')
    BY <1>2, StartTypesListed DEF Starting, Terminal
  <1>4. PendingInv'
    <2>1. NoCall \in CallIds \cup {NoCall} /\ NoKey \in Keys \cup {NoKey}
      OBVIOUS
    <2> QED
      BY <1>2, <2>1, EmptyBatch DEF PendingInv
  <1>5. NoKeyError'
    BY <1>2 DEF NoKeyError
  <1>6. FramesReachTheirCall'
    BY <1>2 DEF FramesReachTheirCall
  <1>7. PartInv'
    BY <1>1, <1>2 DEF KeyInv, PartInv, HasItem, Opening
  <1>8. CallsInv'
    BY <1>1, <1>2, <1>3 DEF KeyInv, CallsInv, HasItem, ItemOfCall, Opening, Active
  <1> QED
    BY <1>4, <1>5, <1>6, <1>7, <1>8 DEF KeyInv

LEMMA NextTurnKeys ==
  ASSUME KeyInv, NextTurn
  PROVE  KeyInv'
  <1>1. /\ UNCHANGED <<items, client, keyOf, itemKind, pending, part, calls>>
        /\ pending = <<>> /\ agent = "tools" /\ \A c \in CallIds : ~Active(c)
    BY DEF NextTurn, composerVars, normalizerVars, Asked, AllAnswered, InState, Active
  <1>2. part = NoPart
    BY <1>1 DEF KeyInv, PartInv
  <1>3. PendingInv' /\ NoKeyError' /\ FramesReachTheirCall'
    BY <1>1 DEF KeyInv, PendingInv, NoKeyError, FramesReachTheirCall
  <1>4. PartInv'
    BY <1>1, <1>2 DEF PartInv
  <1>5. CallsInv'
    BY <1>1, <1>2 DEF KeyInv, CallsInv, HasItem, Opening, Active
  <1> QED
    BY <1>3, <1>4, <1>5 DEF KeyInv

LEMMA KeyStep ==
  ASSUME TypeInv, KeyInv, [Next]_vars
  PROVE  KeyInv'
  <1>1. CASE \/ TurnEnd \/ RunRaises \/ Build \/ Persist \/ PersistRaises \/ FailResponse
             \/ BreakStream \/ Close \/ Disconnect \/ Over \/ UNCHANGED vars
    <2>1. /\ UNCHANGED <<items, client, keyOf, itemKind, pending, nextPart, part, calls>>
          /\ agent' = agent \/ part = NoPart \/ agent' \in {"failed", "broken"}
      BY <1>1 DEF TurnEnd, RunRaises, Build, Persist, PersistRaises, FailResponse, BreakStream,
                  Close, Disconnect, Over, vars, composerVars, normalizerVars, agentVars
    <2> QED
      BY <2>1, KeyKept
  <1>2. CASE \/ PartStart \/ PartDelta \/ PartEnd
             \/ \E c \in CallIds : ToolCall(c) \/ \E result \in Results : ToolResult(c, result)
    BY <1>2, PartStartKeys, PartStepKeys, ToolStepKeys
  <1>3. CASE NextTurn \/ RunResult \/ CompleteResponse \/ FeedPending
    BY <1>3, NextTurnKeys, EndKeys, FeedKeys
  <1> QED
    BY <1>1, <1>2, <1>3 DEF Next

(* The composer never raises KeyError, and every frame a tool call causes  *)
(* carries the output_index of the item announced for that call, however   *)
(* many turns reuse the part keys, whatever the order in which tool        *)
(* results arrive and whether or not text is held back for inspection.     *)
THEOREM KeysAgree == Spec => [](NoKeyError /\ FramesReachTheirCall)
  <1>1. Init => TypeInv /\ KeyInv
    BY TypeInit, KeyInit
  <1>2. TypeInv /\ KeyInv /\ [Next]_vars => TypeInv' /\ KeyInv'
    BY TypeStep, KeyStep
  <1>3. KeyInv => NoKeyError /\ FramesReachTheirCall
    BY DEF KeyInv
  <1> QED
    BY <1>1, <1>2, <1>3, PTL DEF Spec

(* The composer knows the item of every key an event names: none of its    *)
(* look-ups raises KeyError (composer.py feed).                            *)
THEOREM NoKeyErrors == Spec => []NoKeyError
  BY KeysAgree, PTL

-----------------------------------------------------------------------------
(* Every announced item is finished, once, before the response is.         *)

(* The two built-ins are enabled whenever the model may name them, and the *)
(* run does not answer a web search with a retry prompt: without the first *)
(* a call is finished twice, without the second never.                     *)
BuiltinsAnswer ==
  /\ {CI, WebSearch} \cap ToolNames \subseteq BuiltinTools
  /\ WebSearch \notin RetriedTools

ClosingTypes == FinishTypes \cup {"ReasoningDone"}
ReasonTypes == {"ReasoningStarted", "ReasoningDelta", "ReasoningDone"}

(* The batch finishes its item.                                            *)
Closing(p) == p # <<>> /\ p[Len(p)].type \in ClosingTypes

(* Only the last event of a batch finishes the item, and all of them are   *)
(* about reasoning or none is.                                             *)
Shape(p) ==
  \A i \in 1 .. Len(p) :
    /\ p[i].type \in ClosingTypes => i = Len(p)
    /\ p[i].type \in ReasonTypes <=> p[1].type \in ReasonTypes

(* The kinds of call whose items stay open until their result arrives.     *)
AwaitedKinds == {"mcp_call", "code_interpreter_call", "web_search_call"}

OwnPart(c) == part # NoPart /\ part.type = "tool" /\ part.call = c

(* The item of call c is finished later, by the end of its part or by its  *)
(* result.                                                                 *)
StillOpen(c) == Active(c) /\ (OwnPart(c) \/ CallKind(calls[c].tool) \in AwaitedKinds)

(* A text or thinking part is open whose item is announced.                *)
Speaking ==
  /\ part # NoPart /\ part.type # "tool"
  /\ ~(part.type = "text" /\ itemKind[part.index] = PROBE)

(* What an item belongs to: a tool call, or the text of the model.         *)
Sources == CallIds \cup {NoCall}

Awaits(w) ==
  \/ w = NoCall /\ Speaking
  \/ w \in CallIds /\ StillOpen(w)

Finishes(w) == Closing(pending) /\ Head(pending).call = w

(* An item of w is announced or about to be, and will still be finished.   *)
Owes(w) == Awaits(w) \/ Finishes(w)

DutyKey(w) ==
  IF w \in CallIds THEN keyOf[w]
  ELSE IF part # NoPart THEN part.index
  ELSE Head(pending).key

Thinks(w) ==
  /\ w = NoCall
  /\ IF part # NoPart THEN part.type = "thinking"
     ELSE pending # <<>> /\ Head(pending).type \in ReasonTypes

(* The item that w still has to finish is there, and is open; that of the  *)
(* model's thoughts may have been finished by an earlier segment.          *)
DutyInv ==
  \A w \in Sources : Owes(w) =>
    IF Opening(DutyKey(w))
    THEN Head(pending).call = w /\ (Thinks(w) <=> Head(pending).type = "ReasoningStarted")
    ELSE /\ items[DutyKey(w)] # NoItem
         /\ client[items[DutyKey(w)] + 1].call = w
         /\ Thinks(w) => items[DutyKey(w)] = reasoningItem
         /\ ~Thinks(w) => /\ client[items[DutyKey(w)] + 1].dones = 0
                          /\ items[DutyKey(w)] # reasoningItem

OwedBy(w, i) == Owes(w) /\ ~Opening(DutyKey(w)) /\ items[DutyKey(w)] + 1 = i

(* Whatever is open has somebody to finish it.                             *)
OpenInv == \A i \in 1 .. Len(client) : client[i].dones = 0 => \E w \in Sources : OwedBy(w, i)

(* Events are about items that are owed; the last of them frees the item.  *)
EventsInv ==
  /\ pending # <<>> /\ ~Terminal(Head(pending)) =>
       /\ Shape(pending)
       /\ Owes(Head(pending).call)
       /\ Head(pending).key = DutyKey(Head(pending).call)
       /\ Head(pending).type \in ReasonTypes => Head(pending).call = NoCall
  /\ Closing(pending) => part = NoPart /\ ~Awaits(Head(pending).call)

KindInv ==
  /\ \A c \in CallIds : Active(c) => itemKind[keyOf[c]] = CallKind(calls[c].tool)
  /\ agent = "model" => \A c \in CallIds : calls[c].state # "issued"

(* What the reader has of an item: it is finished at most once, and heard  *)
(* of no more, but for the reasoning item.                                 *)
ItemInv ==
  /\ \A i \in 1 .. Len(client) :
       /\ client[i].dones \in {0, 1}
       /\ client[i].late => client[i].kind = "reasoning" /\ client[i].dones = 1
       /\ client[i].kind = "reasoning" <=> reasoningItem = i - 1
       /\ client[i].kind = "reasoning" => client[i].call = NoCall
  /\ reasoningItem # NoItem => (reasoningDone <=> client[reasoningItem + 1].dones = 1)
  /\ reasoningDone => reasoningItem # NoItem

Listed(i) == client[i].dones = 1 \/ client[i].kind = "reasoning"

(* The output lists the finished items, each once, and the reasoning item. *)
ListedInv ==
  /\ \A n, m \in 1 .. Len(outputItems) : outputItems[n] = outputItems[m] => n = m
  /\ \A n \in 1 .. Len(outputItems) :
       outputItems[n] < Len(client) /\ Listed(outputItems[n] + 1)
  /\ \A i \in 1 .. Len(client) : Listed(i) => \E n \in 1 .. Len(outputItems) : outputItems[n] = i - 1

Finale == status \in {"completed", "incomplete"}

FinalInv ==
  /\ pending # <<>> /\ Terminal(Head(pending)) => \A w \in Sources : ~Owes(w)
  /\ Finale => /\ engine \notin {"building", "running"} /\ output = outputItems
               /\ \A w \in Sources : ~Owes(w)

FinishInv == DutyInv /\ OpenInv /\ EventsInv /\ KindInv /\ ItemInv /\ ListedInv /\ FinalInv

-----------------------------------------------------------------------------
(* The shape of what the handlers return.                                  *)

(* The events that finish an item.                                         *)
LEMMA ClosingListed ==
  ClosingTypes = { "MessageDone", "FunctionCallDone", "CustomToolCallDone",
                   "CodeInterpreterCallCompleted", "WebSearchCallCompleted",
                   "McpCallCompleted", "McpCallFailed", "ReasoningDone" }
  BY DEF ClosingTypes, FinishTypes

(* No event starts or adds to an item and finishes it.                     *)
LEMMA NotClosing ==
  (StartTypes \cup DeltaTypes \cup NoticeTypes) \cap ClosingTypes = {}
  BY StartTypesListed, ClosingListed DEF DeltaTypes, NoticeTypes

(* Batches of up to three events.                                          *)
LEMMA ShapeNone == Shape(<<>>) /\ ~Closing(<<>>)
  BY DEF Shape, Closing

LEMMA ShapeOne ==
  ASSUME NEW e
  PROVE  /\ Shape(<<e>>) /\ <<e>> # <<>> /\ Head(<<e>>) = e
         /\ Closing(<<e>>) <=> e.type \in ClosingTypes
  BY DEF Shape, Closing

LEMMA ShapeTwo ==
  ASSUME NEW e, NEW f, e.type \notin ClosingTypes,
         e.type \in ReasonTypes <=> f.type \in ReasonTypes
  PROVE  /\ Shape(<<e, f>>) /\ <<e, f>> # <<>> /\ Head(<<e, f>>) = e
         /\ Closing(<<e, f>>) <=> f.type \in ClosingTypes
  BY DEF Shape, Closing

LEMMA ShapeThree ==
  ASSUME NEW e, NEW f, NEW g, e.type \notin ClosingTypes, f.type \notin ClosingTypes,
         e.type \in ReasonTypes <=> f.type \in ReasonTypes,
         e.type \in ReasonTypes <=> g.type \in ReasonTypes
  PROVE  /\ Shape(<<e, f, g>>) /\ <<e, f, g>> # <<>> /\ Head(<<e, f, g>>) = e
         /\ Closing(<<e, f, g>>) <=> g.type \in ClosingTypes
  BY DEF Shape, Closing

(* The fields of an event a handler builds.                                *)
LEMMA EventFields ==
  ASSUME NEW t, NEW k, NEW c, NEW n
  PROVE  /\ Event(t, k, c, n).type = t /\ Event(t, k, c, n).key = k
         /\ Event(t, k, c, n).call = c /\ Event(t, k, c, n).text = n
  BY DEF Event

(* A batch that opens an item and leaves it open.                          *)
Opener(p) == Starting(p) /\ Shape(p) /\ ~Closing(p)

(* What on_part_start returns for a text opens its item, unless the text is*)
(* held back, and never finishes it; the same for thoughts and tool calls. *)
LEMMA TextStartShape ==
  ASSUME NEW k \in Keys, NEW n \in Nat, OnTextStart(k, n), itemKind \in [Keys -> NormalizerKinds]
  PROVE  /\ \/ pending' = <<>> /\ itemKind'[k] = PROBE
            \/ /\ Opener(pending') /\ itemKind'[k] # PROBE
               /\ Head(pending').type = "MessageStarted" /\ Head(pending').key = k
               /\ Head(pending').call = NoCall
         /\ \A j \in Keys \ {k} : itemKind'[j] = itemKind[j]
  <1>1. CASE probe
    BY <1>1 DEF OnTextStart, PROBE
  <1>2. CASE ~probe
    <2> DEFINE e == Event("MessageStarted", k, NoCall, 0)
               f == Event("MessageDelta", k, NoCall, n)
    <2>1. pending' = <<e>> \/ pending' = <<e, f>>
      BY <1>2 DEF OnTextStart
    <2>2. e.type = "MessageStarted" /\ e.key = k /\ e.call = NoCall /\ f.type = "MessageDelta"
      BY EventFields
    <2> HIDE DEF e, f
    <2>3. /\ e.type \in StartTypes /\ e.type \notin ClosingTypes /\ e.type \notin ReasonTypes
          /\ f.type \notin ClosingTypes /\ f.type \notin ReasonTypes
      BY <2>2, StartTypesListed, ClosingListed DEF ReasonTypes
    <2>4. Opener(pending') /\ Head(pending') = e
      BY <2>1, <2>3, ShapeOne, ShapeTwo DEF Opener, Starting
    <2> QED
      BY <1>2, <2>2, <2>4 DEF OnTextStart, PROBE
  <1> QED
    BY <1>1, <1>2

LEMMA ThinkingStartShape ==
  ASSUME NEW k \in Keys, NEW n \in Nat, itemKind \in [Keys -> NormalizerKinds],
         \E details \in Details : OnThinkingStart(k, n, details)
  PROVE  /\ Opener(pending') /\ itemKind'[k] # PROBE
         /\ Head(pending').type = "ReasoningStarted" /\ Head(pending').key = k
         /\ Head(pending').call = NoCall
         /\ \A j \in Keys \ {k} : itemKind'[j] = itemKind[j]
  <1>0. PICK details \in Details : OnThinkingStart(k, n, details)
    OBVIOUS
  <1> DEFINE e == Event("ReasoningStarted", k, NoCall, 0)
             f == Event("ReasoningDelta", k, NoCall,
                        IF details.kind = "raw" THEN Size(details.text) ELSE n)
  <1>1. pending' = <<e>> \/ pending' = <<e, f>>
    BY <1>0 DEF OnThinkingStart
  <1>2. e.type = "ReasoningStarted" /\ e.key = k /\ e.call = NoCall /\ f.type = "ReasoningDelta"
    BY EventFields
  <1> HIDE DEF e, f
  <1>3. /\ e.type \in StartTypes /\ e.type \notin ClosingTypes /\ e.type \in ReasonTypes
        /\ f.type \notin ClosingTypes /\ f.type \in ReasonTypes
    BY <1>2, StartTypesListed, ClosingListed DEF ReasonTypes
  <1>4. Opener(pending') /\ Head(pending') = e
    BY <1>1, <1>3, ShapeOne, ShapeTwo DEF Opener, Starting
  <1> QED
    BY <1>0, <1>2, <1>4 DEF OnThinkingStart, PROBE

LEMMA ToolStartShape ==
  ASSUME NEW k \in Keys, NEW tool, NEW c, NEW n \in Nat, OnToolStart(k, tool, c, n),
         itemKind \in [Keys -> NormalizerKinds]
  PROVE  /\ Opener(pending') /\ itemKind'[k] = CallKind(tool)
         /\ Head(pending').type \notin ReasonTypes /\ Head(pending').key = k
         /\ Head(pending').call = c
         /\ \A j \in Keys \ {k} : itemKind'[j] = itemKind[j]
  <1> DEFINE kind == CallKind(tool)
             initial == IF kind = "code_interpreter_call" THEN n ELSE ArgsAsJson(n)
             e == Event(StartType(kind), k, c, 0)
             f == Event(DeltaType(kind), k, c, initial)
  <1>1. pending' = <<e>> \/ pending' = <<e, f>>
    BY DEF OnToolStart
  <1>2. e.type = StartType(kind) /\ e.key = k /\ e.call = c /\ f.type = DeltaType(kind)
    BY EventFields
  <1>3. itemKind' = [itemKind EXCEPT ![k] = kind]
    BY DEF OnToolStart
  <1> HIDE DEF e, f
  <1>4. /\ e.type \in StartTypes /\ e.type \notin ClosingTypes /\ e.type \notin ReasonTypes
        /\ f.type \notin ClosingTypes /\ f.type \notin ReasonTypes
    BY <1>2, StartTypesListed, ClosingListed DEF ReasonTypes, StartType, DeltaType
  <1>5. Opener(pending') /\ Head(pending') = e
    BY <1>1, <1>4, ShapeOne, ShapeTwo DEF Opener, Starting
  <1> QED
    BY <1>2, <1>3, <1>4, <1>5

(* A batch that adds to an item, and one that finishes it.                 *)
Adder(p) == p # <<>> => Shape(p) /\ ~Closing(p) /\ ~Starting(p) /\ Head(p).type \notin ReasonTypes
Closer(p) == p # <<>> /\ Shape(p) /\ Closing(p)

LEMMA AddsOne ==
  ASSUME NEW t \in (DeltaTypes \cup NoticeTypes) \ ReasonTypes, NEW k, NEW c, NEW n
  PROVE  Adder(<<Event(t, k, c, n)>>)
  <1> DEFINE e == Event(t, k, c, n)
  <1>1. e.type = t
    BY EventFields
  <1> HIDE DEF e
  <1>2. e.type \notin ClosingTypes /\ e.type \notin StartTypes /\ e.type \notin ReasonTypes
    BY <1>1, NotClosing, LaterTypes
  <1>3. Adder(<<e>>)
    BY <1>2, ShapeOne DEF Adder, Starting
  <1> QED
    BY <1>3 DEF e

LEMMA ClosesOne ==
  ASSUME NEW t \in ClosingTypes, NEW k, NEW c, NEW n
  PROVE  /\ Closer(<<Event(t, k, c, n)>>) /\ ~Starting(<<Event(t, k, c, n)>>)
         /\ Head(<<Event(t, k, c, n)>>).type = t
  <1> DEFINE e == Event(t, k, c, n)
  <1>1. e.type = t
    BY EventFields
  <1> HIDE DEF e
  <1>2. e.type \in ClosingTypes /\ e.type \notin StartTypes
    BY <1>1, NotClosing
  <1>3. Closer(<<e>>) /\ ~Starting(<<e>>) /\ Head(<<e>>).type = t
    BY <1>1, <1>2, ShapeOne DEF Closer, Starting
  <1> QED
    BY <1>3 DEF e

(* What the handlers of deltas return adds to the item; what those of part *)
(* ends, tool calls and results return finishes it or says nothing.        *)
LEMMA TextDeltaShape ==
  ASSUME NEW k, NEW n, OnTextDelta(k, n)
  PROVE  Adder(pending') /\ (pending' # <<>> => itemKind[k] # PROBE)
  BY AddsOne DEF OnTextDelta, PROBE, Adder, DeltaTypes, ReasonTypes

LEMMA ThinkingDeltaShape ==
  ASSUME NEW k, NEW n, \E details \in Details : OnThinkingDelta(k, n, details)
  PROVE  pending' # <<>> => /\ Shape(pending') /\ ~Closing(pending') /\ ~Starting(pending')
                            /\ Head(pending').type \in ReasonTypes
  <1>0. PICK m : pending' = <<>> \/ pending' = <<Event("ReasoningDelta", k, NoCall, m)>>
    BY DEF OnThinkingDelta
  <1> DEFINE e == Event("ReasoningDelta", k, NoCall, m)
  <1>1. e.type = "ReasoningDelta"
    BY EventFields
  <1>2. pending' = <<>> \/ pending' = <<e>>
    BY <1>0
  <1> HIDE DEF e
  <1> QED
    BY <1>1, <1>2, ShapeOne, ClosingListed, StartTypesListed DEF Starting, ReasonTypes

LEMMA ToolDeltaShape ==
  ASSUME NEW k, NEW c, NEW n, OnToolDelta(k, c, n)
  PROVE  Adder(pending')
  <1>1. \A kind : DeltaType(kind) \in DeltaTypes \ ReasonTypes
    BY DEF DeltaType, DeltaTypes, ReasonTypes
  <1>2. \/ pending' = <<>>
        \/ \E j, kind : pending' = <<Event(DeltaType(kind), j, c, n)>>
    BY DEF OnToolDelta
  <1> QED
    BY <1>1, <1>2, AddsOne DEF Adder

LEMMA TextEndShape ==
  ASSUME NEW k \in Keys, NEW n, OnTextEnd(k, n), itemKind \in [Keys -> NormalizerKinds]
  PROVE  /\ Closer(pending') /\ Head(pending').type \notin ReasonTypes
         /\ \A j \in Keys \ {k} : itemKind'[j] = itemKind[j]
  <1> DEFINE text == IF buffer[k] > 0 THEN buffer[k] ELSE n
             m == Event("MessageStarted", k, NoCall, 0)
             d == Event("MessageDelta", k, NoCall, text)
             f == Event("MessageDone", k, NoCall, text)
  <1>1. CASE itemKind[k] # PROBE
    <2>1. pending' = <<Event("MessageDone", k, NoCall, n)>> /\ itemKind' = itemKind
      BY <1>1 DEF OnTextEnd, PROBE
    <2> QED
      BY <2>1, ClosesOne, ClosingListed DEF ReasonTypes
  <1>2. CASE itemKind[k] = PROBE
    <2>1. \/ pending' = <<m, d, f>>
          \/ pending' = <<m, f>>
          \/ pending' = <<Event("CustomToolCallStarted", k, NoCall, 0),
                          Event("CustomToolCallDone", k, NoCall, text)>>
          \/ pending' = <<Event("FunctionCallStarted", k, NoCall, 0),
                          Event("FunctionCallDone", k, NoCall, text)>>
      BY <1>2 DEF OnTextEnd, PROBE
    <2>2. m.type = "MessageStarted" /\ d.type = "MessageDelta" /\ f.type = "MessageDone"
      BY EventFields
    <2>3. \A j \in Keys \ {k} : itemKind'[j] = itemKind[j]
      BY <1>2 DEF OnTextEnd, PROBE
    <2>4. ASSUME NEW e, NEW g, e.type \notin ClosingTypes, e.type \notin ReasonTypes,
                 g.type \in ClosingTypes, g.type \notin ReasonTypes
          PROVE  Closer(<<e, g>>) /\ Head(<<e, g>>).type \notin ReasonTypes
      BY <2>4, ShapeTwo DEF Closer
    <2>5. ASSUME NEW t, NEW u, t \in {"MessageStarted", "CustomToolCallStarted", "FunctionCallStarted"},
                 u \in {"MessageDone", "CustomToolCallDone", "FunctionCallDone"}
          PROVE  LET e == Event(t, k, NoCall, 0)
                     g == Event(u, k, NoCall, text)
                 IN Closer(<<e, g>>) /\ Head(<<e, g>>).type \notin ReasonTypes
      <3> DEFINE e == Event(t, k, NoCall, 0)
                 g == Event(u, k, NoCall, text)
      <3>1. e.type = t /\ g.type = u
        BY EventFields
      <3> HIDE DEF e, g
      <3>2. /\ e.type \notin ClosingTypes /\ e.type \notin ReasonTypes
            /\ g.type \in ClosingTypes /\ g.type \notin ReasonTypes
        BY <2>5, <3>1, ClosingListed DEF ReasonTypes
      <3>3. Closer(<<e, g>>) /\ Head(<<e, g>>).type \notin ReasonTypes
        BY <2>4, <3>2
      <3> QED
        BY <3>3 DEF e, g
    <2>6. Closer(<<m, d, f>>) /\ Head(<<m, d, f>>).type \notin ReasonTypes
      <3> HIDE DEF m, d, f
      <3>1. /\ m.type \notin ClosingTypes /\ d.type \notin ClosingTypes /\ f.type \in ClosingTypes
            /\ m.type \notin ReasonTypes /\ d.type \notin ReasonTypes /\ f.type \notin ReasonTypes
        BY <2>2, ClosingListed DEF ReasonTypes
      <3> QED
        BY <3>1, ShapeThree DEF Closer
    <2> QED
      BY <2>1, <2>3, <2>5, <2>6
  <1> QED
    BY <1>1, <1>2

LEMMA ThinkingEndShape ==
  ASSUME NEW k, NEW n, OnThinkingEnd(k, n)
  PROVE  /\ Closer(pending') /\ ~Starting(pending') /\ Head(pending').type \in ReasonTypes
         /\ itemKind' = itemKind
  BY ClosesOne, ClosingListed DEF OnThinkingEnd, ReasonTypes

LEMMA ToolEndShape ==
  ASSUME NEW k, NEW c, NEW n, OnToolEnd(k, c, n)
  PROVE  IF itemKind[KeyOfCall(c, k)] \in AwaitedKinds THEN Adder(pending')
         ELSE /\ Closer(pending') /\ ~Starting(pending')
              /\ Head(pending').type \notin ReasonTypes
  <1> DEFINE j == KeyOfCall(c, k)
  <1>1. CASE itemKind[j] = "web_search_call"
    BY <1>1 DEF OnToolEnd, AwaitedKinds, Adder
  <1>2. CASE itemKind[j] = "code_interpreter_call"
    BY <1>2, AddsOne DEF OnToolEnd, AwaitedKinds, NoticeTypes, ReasonTypes
  <1>3. CASE itemKind[j] = "mcp_call"
    BY <1>3, AddsOne DEF OnToolEnd, AwaitedKinds, NoticeTypes, ReasonTypes
  <1>4. CASE itemKind[j] \notin AwaitedKinds
    <2>1. \E t \in {"CustomToolCallDone", "FunctionCallDone"} : pending' = <<Event(t, j, c, n)>>
      BY <1>4 DEF OnToolEnd, AwaitedKinds
    <2> QED
      BY <1>4, <2>1, ClosesOne, ClosingListed DEF ReasonTypes
  <1> QED
    BY <1>1, <1>2, <1>3, <1>4 DEF AwaitedKinds

LEMMA ToolCalledShape ==
  ASSUME NEW c, NEW tool, OnFunctionToolCall(c, tool)
  PROVE  Adder(pending') /\ (pending' # <<>> => tool \in {CI, WebSearch})
  BY AddsOne DEF OnFunctionToolCall, NoticeTypes, ReasonTypes, Adder

LEMMA ToolAnsweredShape ==
  ASSUME NEW c, NEW tool, NEW result, OnFunctionToolResult(c, tool, result), keyOf[c] # NoKey
  PROVE  /\ \/ pending' = <<>>
            \/ Closer(pending') /\ ~Starting(pending') /\ Head(pending').type \notin ReasonTypes
         /\ pending' # <<>> <=> \/ itemKind[keyOf[c]] = "mcp_call"
                                \/ tool = CI
                                \/ (tool = WebSearch /\ result # "retry")
  <1>1. CI # WebSearch
    BY DEF CI, WebSearch
  <1>2. \/ pending' = <<>>
        \/ \E t \in {"McpCallCompleted", "McpCallFailed", "WebSearchCallCompleted",
                      "CodeInterpreterCallCompleted"} : pending' = <<Event(t, keyOf[c], c, 0)>>
    BY DEF OnFunctionToolResult
  <1>3. pending' # <<>> <=> \/ itemKind[keyOf[c]] = "mcp_call"
                           \/ tool = CI
                           \/ (tool = WebSearch /\ result # "retry")
    BY <1>1 DEF OnFunctionToolResult, Registered
  <1>4. pending' # <<>> => /\ Closer(pending') /\ ~Starting(pending')
                          /\ Head(pending').type \notin ReasonTypes
    BY <1>2, ClosesOne, ClosingListed DEF ReasonTypes
  <1> QED
    BY <1>3, <1>4

-----------------------------------------------------------------------------
(* Every step keeps FinishInv.                                             *)

(* The item of whoever owes one, if it is announced.                       *)
LEMMA DutyFacts ==
  ASSUME FinishInv, NEW w \in Sources, Owes(w)
  PROVE  /\ Opening(DutyKey(w)) =>
              Head(pending).call = w /\ (Thinks(w) <=> Head(pending).type = "ReasoningStarted")
         /\ ~Opening(DutyKey(w)) =>
              /\ items[DutyKey(w)] # NoItem
              /\ client[items[DutyKey(w)] + 1].call = w
              /\ Thinks(w) => items[DutyKey(w)] = reasoningItem
              /\ ~Thinks(w) => /\ client[items[DutyKey(w)] + 1].dones = 0
                               /\ items[DutyKey(w)] # reasoningItem
  BY DEF FinishInv, DutyInv

(* A handler returns its events to an idle engine: what is owed stays owed *)
(* under its key, and what is newly owed is about to be announced.         *)
LEMMA HandlerFinish ==
  ASSUME FinishInv, pending = <<>>, engine = "running",
         UNCHANGED <<composerVars, engineVars>>,
         EventsInv', KindInv',
         pending' # <<>> => ~Terminal(Head(pending')),
         \A w \in Sources : Awaits(w) =>
           /\ Owes(w)' /\ DutyKey(w)' = DutyKey(w) /\ ~Opening(DutyKey(w))'
           /\ Thinks(w)' <=> Thinks(w),
         \A w \in Sources : Owes(w)' /\ ~Awaits(w) =>
           /\ Opening(DutyKey(w))' /\ Head(pending').call = w
           /\ Thinks(w)' <=> Head(pending').type = "ReasoningStarted"
  PROVE  FinishInv'
  <1>1. /\ UNCHANGED <<items, nextIndex, outputItems, reasoningItem, reasoningDone, client>>
        /\ UNCHANGED <<engine, status, output>>
    BY DEF composerVars, engineVars
  <1>2. \A w \in Sources : (Owes(w) <=> Awaits(w)) /\ ~Opening(DutyKey(w))
    BY DEF Owes, Finishes, Closing, Opening, Starting
  <1>3. ASSUME NEW w \in Sources, Awaits(w)
        PROVE  /\ Owes(w)' /\ DutyKey(w)' = DutyKey(w) /\ ~Opening(DutyKey(w))'
               /\ Thinks(w)' <=> Thinks(w)
    BY <1>3
  <1>4. ASSUME NEW w \in Sources, Awaits(w)
        PROVE  /\ items[DutyKey(w)] # NoItem
               /\ client[items[DutyKey(w)] + 1].call = w
               /\ Thinks(w) => items[DutyKey(w)] = reasoningItem
               /\ ~Thinks(w) => /\ client[items[DutyKey(w)] + 1].dones = 0
                                /\ items[DutyKey(w)] # reasoningItem
    BY <1>2, <1>4, DutyFacts
  <1>5. DutyInv'
    <2> SUFFICES ASSUME NEW w \in Sources, Owes(w)'
                 PROVE  (IF Opening(DutyKey(w))
                         THEN Head(pending).call = w
                              /\ (Thinks(w) <=> Head(pending).type = "ReasoningStarted")
                         ELSE /\ items[DutyKey(w)] # NoItem
                              /\ client[items[DutyKey(w)] + 1].call = w
                              /\ Thinks(w) => items[DutyKey(w)] = reasoningItem
                              /\ ~Thinks(w) => /\ client[items[DutyKey(w)] + 1].dones = 0
                                               /\ items[DutyKey(w)] # reasoningItem)'
      BY DEF DutyInv
    <2>1. CASE Awaits(w)
      BY <1>1, <1>3, <1>4, <2>1
    <2>2. CASE ~Awaits(w)
      BY <2>2
    <2> QED
      BY <2>1, <2>2
  <1>6. OpenInv'
    <2> SUFFICES ASSUME NEW i \in 1 .. Len(client), client[i].dones = 0
                 PROVE  \E w \in Sources : OwedBy(w, i)'
      BY <1>1 DEF OpenInv
    <2>1. PICK w \in Sources : OwedBy(w, i)
      BY DEF FinishInv, OpenInv
    <2>2. OwedBy(w, i)'
      BY <1>1, <1>2, <1>3, <2>1 DEF OwedBy
    <2> QED
      BY <2>2
  <1>7. ItemInv' /\ ListedInv'
    BY <1>1 DEF FinishInv, ItemInv, ListedInv, Listed
  <1>8. FinalInv'
    BY <1>1 DEF FinishInv, FinalInv, Finale
  <1> QED
    BY <1>5, <1>6, <1>7, <1>8 DEF FinishInv

(* Nothing changes while no event, item, part or call does.                *)
LEMMA FinishKept ==
  ASSUME FinishInv,
         UNCHANGED <<composerVars, normalizerVars, part, calls>>,
         agent' = "model" => \A c \in CallIds : calls[c].state # "issued",
         \/ UNCHANGED <<engine, status, output>>
         \/ status' \notin {"completed", "incomplete"}
         \/ UNCHANGED <<status, output>> /\ engine' \notin {"building", "running"}
  PROVE  FinishInv'
  <1>1. /\ UNCHANGED <<items, nextIndex, outputItems, reasoningItem, reasoningDone, client>>
        /\ UNCHANGED <<keyOf, itemKind, buffer, pending>>
    BY DEF composerVars, normalizerVars
  <1>2. \A w : /\ Awaits(w)' <=> Awaits(w)
               /\ Owes(w)' <=> Owes(w)
               /\ DutyKey(w)' = DutyKey(w)
               /\ Opening(DutyKey(w))' <=> Opening(DutyKey(w))
               /\ Thinks(w)' <=> Thinks(w)
    BY <1>1 DEF Owes, Awaits, Finishes, Speaking, StillOpen, OwnPart, Active, DutyKey, Opening, Thinks
  <1>3. DutyInv'
    BY <1>1, <1>2 DEF FinishInv, DutyInv
  <1>4. OpenInv'
    BY <1>1, <1>2 DEF FinishInv, OpenInv, OwedBy
  <1>5. EventsInv'
    BY <1>1, <1>2 DEF FinishInv, EventsInv
  <1>6. KindInv'
    BY <1>1 DEF FinishInv, KindInv, Active
  <1>7. ItemInv' /\ ListedInv'
    BY <1>1 DEF FinishInv, ItemInv, ListedInv, Listed
  <1>8. FinalInv'
    BY <1>1, <1>2 DEF FinishInv, FinalInv, Finale
  <1> QED
    BY <1>3, <1>4, <1>5, <1>6, <1>7, <1>8 DEF FinishInv

(* A request starts with nothing announced and nothing owed.               *)
LEMMA FinishInit ==
  ASSUME Init PROVE FinishInv
  <1>1. /\ pending = <<>> /\ part = NoPart /\ client = <<>> /\ outputItems = <<>>
        /\ reasoningItem = NoItem /\ reasoningDone = FALSE /\ status = "none"
        /\ \A c \in CallIds : calls[c].state = "unused"
    BY DEF Init, ComposerInit, NormalizerInit
  <1>2. \A w \in Sources : ~Owes(w)
    BY <1>1 DEF Owes, Awaits, Speaking, StillOpen, Active, Finishes, Closing
  <1>3. ItemInv /\ ListedInv /\ OpenInv
    BY <1>1 DEF ItemInv, ListedInv, OpenInv, NoItem
  <1>4. DutyInv /\ EventsInv /\ KindInv /\ FinalInv
    BY <1>1, <1>2 DEF DutyInv, EventsInv, KindInv, FinalInv, Closing, Active, Finale
  <1> QED
    BY <1>3, <1>4 DEF FinishInv

(* What the key invariant says of a call that is still active, between two *)
(* events of the run.                                                      *)
LEMMA CallFacts ==
  ASSUME TypeInv, KeyInv, FinishInv, pending = <<>>
  PROVE  /\ NoCall \notin CallIds
         /\ keyOf \in [CallIds -> Keys \cup {NoKey}] /\ calls \in [CallIds -> Call]
         /\ itemKind \in [Keys -> NormalizerKinds] /\ nextPart \in Nat /\ Keys \subseteq Nat
         /\ \A c \in CallIds : Active(c) =>
              /\ keyOf[c] \in Keys /\ keyOf[c] < nextPart
              /\ itemKind[keyOf[c]] = CallKind(calls[c].tool)
              /\ part # NoPart /\ part.type # "tool" => keyOf[c] # part.index
         /\ part # NoPart => /\ part \in Part /\ part.index \in Keys /\ part.index < nextPart
                             /\ part.chunks \in Nat
                             /\ part.type \in {"text", "thinking", "tool"}
                             /\ part.type = "tool" => /\ part.call \in CallIds
                                                      /\ calls[part.call].state = "named"
                                                      /\ keyOf[part.call] = part.index
  <1>1. /\ keyOf \in [CallIds -> Keys \cup {NoKey}] /\ calls \in [CallIds -> Call]
        /\ itemKind \in [Keys -> NormalizerKinds] /\ nextPart \in Nat /\ Keys \subseteq Nat
        /\ NoCall \notin CallIds
    BY CallIdsAssumption, MaxPartsAssumption
    DEF TypeInv, TypeOK, NormalizerTypeOK, AgentTypeOK, Keys
  <1>2. ASSUME NEW c \in CallIds, Active(c)
        PROVE  /\ keyOf[c] \in Keys /\ keyOf[c] < nextPart
               /\ itemKind[keyOf[c]] = CallKind(calls[c].tool)
               /\ part # NoPart /\ part.type # "tool" => keyOf[c] # part.index
    <2>1. /\ keyOf[c] \in 0 .. nextPart - 1
          /\ part # NoPart /\ part.type # "tool" => keyOf[c] # part.index
      BY <1>2 DEF KeyInv, CallsInv
    <2>2. itemKind[keyOf[c]] = CallKind(calls[c].tool)
      BY <1>2 DEF FinishInv, KindInv
    <2> QED
      BY <1>1, <2>1, <2>2 DEF NoKey
  <1>3. ASSUME part # NoPart
        PROVE  /\ part \in Part /\ part.index \in Keys /\ part.index < nextPart
               /\ part.chunks \in Nat
               /\ part.type \in {"text", "thinking", "tool"}
               /\ part.type = "tool" => /\ part.call \in CallIds
                                        /\ calls[part.call].state = "named"
                                        /\ keyOf[part.call] = part.index
    <2>1. /\ part \in Part /\ part.index \in Keys /\ part.chunks \in Nat
          /\ part.type \in PartTypes /\ (part.type = "tool" => part.call \in CallIds)
      BY <1>3, PartType DEF TypeInv, TypeOK
    <2> QED
      BY <1>3, <2>1 DEF KeyInv, PartInv, PartTypes
  <1> QED
    BY <1>1, <1>2, <1>3

(* Events handed over by a handler are about an item that is owed.         *)
LEMMA EventsStep ==
  ASSUME pending' # <<>>, Shape(pending)', NEW w, Head(pending').call = w,
         Owes(w)', Head(pending').key = DutyKey(w)',
         Head(pending').type \in ReasonTypes => w = NoCall,
         Closing(pending') => part' = NoPart /\ ~Awaits(w)'
  PROVE  EventsInv'
  <1>1. /\ Owes(Head(pending).call)' /\ Head(pending').key = DutyKey(Head(pending).call)'
        /\ Closing(pending') => ~Awaits(Head(pending).call)'
    BY DEF Owes, Awaits, Finishes, StillOpen, OwnPart, Active, DutyKey
  <1> QED
    BY <1>1 DEF EventsInv

(* A handler that returns nothing.                                         *)
LEMMA NoEvents ==
  ASSUME pending' = <<>> PROVE EventsInv'
  BY DEF EventsInv, Closing

(* The part announced is a text or a thought, and its item too unless the  *)
(* text is held back.                                                      *)
LEMMA WordsStart ==
  ASSUME TypeInv, KeyInv, FinishInv, pending = <<>>, part = NoPart, engine = "running",
         UNCHANGED <<composerVars, engineVars>>, UNCHANGED <<agent, calls, keyOf>>,
         \A j \in Keys \ {nextPart} : itemKind'[j] = itemKind[j],
         part'.type \in {"text", "thinking"}, part'.index = nextPart,
         \/ pending' = <<>> /\ itemKind'[nextPart] = PROBE /\ part'.type = "text"
         \/ /\ Opener(pending') /\ itemKind'[nextPart] # PROBE
            /\ Head(pending').key = nextPart /\ Head(pending').call = NoCall
            /\ part'.type = "thinking" <=> Head(pending').type = "ReasoningStarted"
  PROVE  FinishInv'
  <1>1. part' # NoPart /\ part'.type # "tool"
    BY DEF NoPart
  <1>2. /\ NoCall \notin CallIds /\ NoCall \in Sources
        /\ \A c \in CallIds : Active(c) =>
              /\ keyOf[c] \in Keys /\ keyOf[c] < nextPart /\ keyOf[c] # nextPart
              /\ itemKind[keyOf[c]] = CallKind(calls[c].tool)
    BY CallFacts DEF Sources
  <1>3. \A c \in CallIds : /\ Active(c)' <=> Active(c)
                           /\ Awaits(c)' <=> Awaits(c)
                           /\ DutyKey(c) = keyOf[c] /\ DutyKey(c)' = keyOf[c]
                           /\ ~Thinks(c) /\ ~Thinks(c)'
                           /\ Awaits(c) => Active(c)
    BY <1>1, <1>2 DEF Awaits, StillOpen, OwnPart, Active, DutyKey, Thinks, NoPart
  <1>4. ~Awaits(NoCall) /\ DutyKey(NoCall)' = nextPart
        /\ (Thinks(NoCall)' <=> part'.type = "thinking")
    BY <1>1, <1>2 DEF Awaits, Speaking, DutyKey, Thinks
  <1>5. \A j : Opening(j)' <=> j = nextPart /\ pending' # <<>>
    BY DEF Opening, Starting, Opener
  <1>6. ~Closing(pending')
    BY ShapeNone DEF Opener
  <1>7. Speaking' <=> pending' # <<>>
    BY <1>1 DEF Speaking, Opener, Starting
  <1>8. Speaking' => Head(pending').call = NoCall
    BY <1>7
  <1>9. KindInv'
    BY <1>2, <1>3 DEF FinishInv, KindInv
  <1>10. EventsInv'
    <2>1. CASE pending' = <<>>
      BY <2>1, NoEvents
    <2>2. CASE pending' # <<>>
      <3>1. Awaits(NoCall)'
        BY <1>7, <2>2 DEF Awaits
      <3> QED
        BY <1>4, <1>6, <2>2, <3>1, EventsStep DEF Opener, Owes
    <2> QED
      BY <2>1, <2>2
  <1>11. pending' # <<>> => ~Terminal(Head(pending'))
    BY StartTypesListed DEF Opener, Starting, Terminal
  <1>12. ASSUME NEW w \in Sources, Awaits(w)
         PROVE  /\ Owes(w)' /\ DutyKey(w)' = DutyKey(w) /\ ~Opening(DutyKey(w))'
                /\ Thinks(w)' <=> Thinks(w)
    <2>1. w \in CallIds
      BY <1>4, <1>12 DEF Sources
    <2> QED
      BY <1>2, <1>3, <1>5, <1>12, <2>1 DEF Owes
  <1>13. ASSUME NEW w \in Sources, Owes(w)', ~Awaits(w)
         PROVE  /\ Opening(DutyKey(w))' /\ Head(pending').call = w
                /\ Thinks(w)' <=> Head(pending').type = "ReasoningStarted"
    <2>1. Awaits(w)'
      BY <1>6, <1>13 DEF Owes, Finishes
    <2>2. w = NoCall
      BY <1>3, <1>13, <2>1 DEF Sources
    <2>3. Speaking'
      BY <1>2, <2>1, <2>2 DEF Awaits
    <2> QED
      BY <1>4, <1>5, <1>7, <1>8, <2>2, <2>3
  <1> QED
    BY <1>9, <1>10, <1>11, <1>12, <1>13, HandlerFinish

(* A tool call is announced.                                               *)
LEMMA CallStart ==
  ASSUME TypeInv, KeyInv, FinishInv, pending = <<>>, part = NoPart, engine = "running",
         UNCHANGED <<composerVars, engineVars>>, agent' = agent, nextPart \in Keys,
         NEW tool, NEW d \in CallIds, calls[d].state = "unused",
         calls' = [calls EXCEPT ![d] = [state |-> "named", tool |-> tool]],
         keyOf' = [keyOf EXCEPT ![d] = nextPart],
         \A j \in Keys \ {nextPart} : itemKind'[j] = itemKind[j],
         itemKind'[nextPart] = CallKind(tool),
         part'.type = "tool", part'.index = nextPart, part'.call = d,
         Opener(pending'), Head(pending').key = nextPart, Head(pending').call = d,
         Head(pending').type \notin ReasonTypes
  PROVE  FinishInv'
  <1>1. part' # NoPart
    BY DEF NoPart
  <1>2. /\ NoCall \notin CallIds /\ keyOf \in [CallIds -> Keys \cup {NoKey}]
        /\ calls \in [CallIds -> Call]
        /\ \A c \in CallIds : Active(c) =>
              /\ keyOf[c] \in Keys /\ keyOf[c] < nextPart /\ keyOf[c] # nextPart
              /\ itemKind[keyOf[c]] = CallKind(calls[c].tool)
    BY CallFacts
  <1>3. /\ calls'[d].state = "named" /\ calls'[d].tool = tool /\ keyOf'[d] = nextPart
        /\ \A c \in CallIds \ {d} : calls'[c] = calls[c] /\ keyOf'[c] = keyOf[c]
    BY <1>2
  <1>4. /\ ~Active(d) /\ Active(d)'
        /\ \A c \in CallIds \ {d} : Active(c)' <=> Active(c)
    BY <1>3 DEF Active
  <1>5. \A c \in CallIds \ {d} : /\ Awaits(c)' <=> Awaits(c)
                                 /\ DutyKey(c) = keyOf[c] /\ DutyKey(c)' = keyOf[c]
                                 /\ ~Thinks(c) /\ ~Thinks(c)'
                                 /\ Awaits(c) => Active(c)
    BY <1>1, <1>2, <1>3, <1>4 DEF Awaits, StillOpen, OwnPart, DutyKey, Thinks
  <1>6. /\ ~Awaits(d) /\ Awaits(d)' /\ DutyKey(d)' = nextPart /\ ~Thinks(d)'
        /\ ~Awaits(NoCall) /\ ~Awaits(NoCall)'
    BY <1>1, <1>2, <1>3, <1>4 DEF Awaits, StillOpen, OwnPart, Speaking, DutyKey, Thinks
  <1>7. ~Closing(pending') /\ pending' # <<>> /\ Shape(pending')
    BY DEF Opener, Starting
  <1>8. \A j : Opening(j)' <=> j = nextPart
    BY DEF Opening, Opener
  <1>9. KindInv'
    BY <1>2, <1>3, <1>4 DEF FinishInv, KindInv
  <1>10. EventsInv'
    BY <1>6, <1>7, EventsStep DEF Owes
  <1>11. Head(pending').type # "ReasoningStarted" /\ ~Terminal(Head(pending'))
    BY StartTypesListed DEF Opener, Starting, Terminal, ReasonTypes
  <1>12. ASSUME NEW w \in Sources, Awaits(w)
         PROVE  /\ Owes(w)' /\ DutyKey(w)' = DutyKey(w) /\ ~Opening(DutyKey(w))'
                /\ Thinks(w)' <=> Thinks(w)
    <2>1. w \in CallIds \ {d}
      BY <1>6, <1>12 DEF Sources
    <2> QED
      BY <1>2, <1>5, <1>8, <1>12, <2>1 DEF Owes
  <1>13. ASSUME NEW w \in Sources, Owes(w)', ~Awaits(w)
         PROVE  /\ Opening(DutyKey(w))' /\ Head(pending').call = w
                /\ Thinks(w)' <=> Head(pending').type = "ReasoningStarted"
    <2>1. Awaits(w)'
      BY <1>7, <1>13 DEF Owes, Finishes
    <2>2. w = d
      BY <1>5, <1>6, <1>13, <2>1 DEF Sources
    <2> QED
      BY <1>6, <1>8, <1>11, <2>2
  <1> QED
    BY <1>9, <1>10, <1>11, <1>12, <1>13, HandlerFinish

(* A part starts: words, or a tool call.                                   *)
LEMMA PartStartFinish ==
  ASSUME TypeInv, KeyInv, FinishInv, PartStart
  PROVE  FinishInv'
  <1>1. /\ pending = <<>> /\ part = NoPart /\ engine = "running" /\ nextPart \in Keys
        /\ UNCHANGED <<composerVars, engineVars>> /\ agent' = agent
    BY DEF PartStart, Asked
  <1>2. NormalizerTypeOK /\ itemKind \in [Keys -> NormalizerKinds]
    BY DEF TypeInv, TypeOK, NormalizerTypeOK
  <1>3. PICK n \in 0 .. MaxChunks :
       \/ /\ OnTextStart(nextPart, n)
          /\ part' = [NoPart EXCEPT !.type = "text", !.index = nextPart, !.chunks = n]
          /\ UNCHANGED calls
       \/ /\ \E details \in Details : OnThinkingStart(nextPart, n, details)
          /\ part' = [NoPart EXCEPT !.type = "thinking", !.index = nextPart, !.chunks = n]
          /\ UNCHANGED calls
       \/ \E tool \in ToolNames, c \in CallIds :
            /\ calls[c].state = "unused"
            /\ OnToolStart(nextPart, tool, c, n)
            /\ part' = [type |-> "tool", index |-> nextPart, tool |-> tool,
                        call |-> c, chunks |-> n]
            /\ calls' = [calls EXCEPT ![c] = [state |-> "named", tool |-> tool]]
    BY DEF PartStart
  <1>4. n \in Nat
    BY BoundsAssumption
  <1>5. CASE /\ OnTextStart(nextPart, n)
             /\ part' = [NoPart EXCEPT !.type = "text", !.index = nextPart, !.chunks = n]
             /\ UNCHANGED calls
    <2>1. part'.type = "text" /\ part'.index = nextPart
      BY <1>5 DEF NoPart
    <2>2. /\ \/ pending' = <<>> /\ itemKind'[nextPart] = PROBE
             \/ /\ Opener(pending') /\ itemKind'[nextPart] # PROBE
                /\ Head(pending').type = "MessageStarted" /\ Head(pending').key = nextPart
                /\ Head(pending').call = NoCall
          /\ \A j \in Keys \ {nextPart} : itemKind'[j] = itemKind[j]
      BY <1>1, <1>2, <1>4, <1>5, TextStartShape
    <2>3. keyOf' = keyOf
      BY <1>5 DEF OnTextStart
    <2> QED
      BY <1>1, <1>5, <2>1, <2>2, <2>3, WordsStart
  <1>6. CASE /\ \E details \in Details : OnThinkingStart(nextPart, n, details)
             /\ part' = [NoPart EXCEPT !.type = "thinking", !.index = nextPart, !.chunks = n]
             /\ UNCHANGED calls
    <2>1. part'.type = "thinking" /\ part'.index = nextPart
      BY <1>6 DEF NoPart
    <2>2. /\ Opener(pending') /\ itemKind'[nextPart] # PROBE
          /\ Head(pending').type = "ReasoningStarted" /\ Head(pending').key = nextPart
          /\ Head(pending').call = NoCall
          /\ \A j \in Keys \ {nextPart} : itemKind'[j] = itemKind[j]
      BY <1>1, <1>2, <1>4, <1>6, ThinkingStartShape
    <2>3. keyOf' = keyOf
      BY <1>6 DEF OnThinkingStart
    <2> QED
      BY <1>1, <1>6, <2>1, <2>2, <2>3, WordsStart
  <1>7. ASSUME NEW tool \in ToolNames, NEW c \in CallIds, calls[c].state = "unused",
               OnToolStart(nextPart, tool, c, n),
               part' = [type |-> "tool", index |-> nextPart, tool |-> tool,
                        call |-> c, chunks |-> n],
               calls' = [calls EXCEPT ![c] = [state |-> "named", tool |-> tool]]
        PROVE  FinishInv'
    <2>1. part'.type = "tool" /\ part'.index = nextPart /\ part'.call = c
      BY <1>7
    <2>2. /\ Opener(pending') /\ itemKind'[nextPart] = CallKind(tool)
          /\ Head(pending').type \notin ReasonTypes /\ Head(pending').key = nextPart
          /\ Head(pending').call = c
          /\ \A j \in Keys \ {nextPart} : itemKind'[j] = itemKind[j]
      BY <1>1, <1>2, <1>4, <1>7, ToolStartShape
    <2>3. keyOf' = [keyOf EXCEPT ![c] = nextPart]
      BY <1>7 DEF OnToolStart
    <2> QED
      BY <1>1, <1>7, <2>1, <2>2, <2>3, CallStart
  <1> QED
    BY <1>3, <1>5, <1>6, <1>7

(* The open part gets longer.                                              *)
LEMMA PartDeltaFinish ==
  ASSUME TypeInv, KeyInv, FinishInv, PartDelta
  PROVE  FinishInv'
  <1>1. /\ pending = <<>> /\ part # NoPart /\ engine = "running"
        /\ UNCHANGED <<composerVars, engineVars>> /\ UNCHANGED <<agent, calls>>
    BY DEF PartDelta, Asked
  <1>2. PICK n \in 0 .. MaxChunks - part.chunks :
          /\ part' = [part EXCEPT !.chunks = @ + n]
          /\ \/ part.type = "text" /\ OnTextDelta(part.index, n)
             \/ part.type = "thinking" /\ \E details \in Details : OnThinkingDelta(part.index, n, details)
             \/ part.type = "tool" /\ OnToolDelta(part.index, part.call, n)
    BY DEF PartDelta
  <1>3. /\ NoCall \notin CallIds /\ keyOf \in [CallIds -> Keys \cup {NoKey}]
        /\ part \in Part /\ part.index \in Keys
        /\ part.type \in {"text", "thinking", "tool"}
        /\ part.type = "tool" => /\ part.call \in CallIds
                                 /\ calls[part.call].state = "named"
                                 /\ keyOf[part.call] = part.index
        /\ \A c \in CallIds : Active(c) => itemKind[keyOf[c]] = CallKind(calls[c].tool)
    BY <1>1, CallFacts
  <1>4. /\ part'.type = part.type /\ part'.index = part.index /\ part'.call = part.call
        /\ part' # NoPart
    BY <1>2, <1>3 DEF Part, NoPart
  <1>5. keyOf' = keyOf /\ itemKind' = itemKind
    BY <1>2 DEF OnTextDelta, OnThinkingDelta, OnToolDelta
  <1>0. PICK call : call = IF part.type = "tool" THEN part.call ELSE NoCall
    OBVIOUS
  (* What the handler leaves: events of the part's item, or nothing.       *)
  <1>6. /\ Batch(pending', part.index, call)
        /\ pending' # <<>> =>
             /\ Shape(pending') /\ ~Closing(pending') /\ ~Starting(pending')
             /\ Head(pending').type \in ReasonTypes => part.type = "thinking"
             /\ part.type = "text" => itemKind[part.index] # PROBE
    <2>1. NormalizerTypeOK /\ n \in Nat
      BY <1>1, <1>3, CallFacts, BoundsAssumption DEF TypeInv, TypeOK
    <2>2. CASE part.type = "text" /\ OnTextDelta(part.index, n)
      BY <1>0, <1>3, <2>1, <2>2, TextDelta, TextDeltaShape DEF Adder
    <2>3. CASE part.type = "thinking" /\ \E details \in Details : OnThinkingDelta(part.index, n, details)
      BY <1>0, <1>3, <2>1, <2>3, ThinkingDelta, ThinkingDeltaShape
    <2>4. CASE part.type = "tool" /\ OnToolDelta(part.index, part.call, n)
      <3>1. KeyOfCall(part.call, part.index) = part.index
        BY <1>3, <2>4 DEF KeyOfCall
      <3> QED
        BY <1>0, <1>3, <2>1, <2>4, <3>1, ToolDelta, ToolDeltaShape DEF Adder
    <2> QED
      BY <1>2, <2>2, <2>3, <2>4
  <1>7. pending' # <<>> => Head(pending').key = part.index /\ Head(pending').call = call
                           /\ ~Terminal(Head(pending'))
    BY <1>6, NotTerminal DEF Batch
  <1>8. \A w \in Sources : /\ Awaits(w)' <=> Awaits(w)
                           /\ DutyKey(w)' = DutyKey(w)
                           /\ Thinks(w)' <=> Thinks(w)
    BY <1>1, <1>4, <1>5
    DEF Sources, Awaits, Speaking, StillOpen, OwnPart, Active, DutyKey, Thinks
  <1>9. ~Closing(pending') /\ \A j : ~Opening(j)'
    BY <1>6, ShapeNone DEF Opening, Starting
  <1>10. KindInv'
    BY <1>1, <1>5 DEF FinishInv, KindInv, Active
  <1>11. pending' # <<>> => Awaits(call) /\ DutyKey(call) = part.index /\ call \in Sources
    BY <1>0, <1>1, <1>3, <1>6 DEF Awaits, Speaking, StillOpen, OwnPart, Active, DutyKey, Sources
  <1>12. EventsInv'
    <2>1. CASE pending' = <<>>
      BY <2>1, NoEvents
    <2>2. CASE pending' # <<>>
      <3>1. Owes(call)' /\ DutyKey(call)' = part.index
        BY <1>8, <1>11, <2>2 DEF Owes
      <3>2. Head(pending').type \in ReasonTypes => call = NoCall
        BY <1>0, <1>6, <2>2
      <3> QED
        BY <1>6, <1>7, <1>9, <2>2, <3>1, <3>2, EventsStep
    <2> QED
      BY <2>1, <2>2
  <1>13. \A w \in Sources : Awaits(w) =>
           /\ Owes(w)' /\ DutyKey(w)' = DutyKey(w) /\ ~Opening(DutyKey(w))'
           /\ Thinks(w)' <=> Thinks(w)
    BY <1>8, <1>9 DEF Owes
  <1>14. \A w \in Sources : Owes(w)' => Awaits(w)
    BY <1>8, <1>9 DEF Owes, Finishes
  <1> QED
    BY <1>1, <1>7, <1>10, <1>12, <1>13, <1>14, HandlerFinish

(* A text or a thought ends: its item is finished, or, for a text that was *)
(* held back, announced and finished.                                      *)
LEMMA WordsEnd ==
  ASSUME TypeInv, KeyInv, FinishInv, pending = <<>>, part # NoPart, engine = "running",
         UNCHANGED <<composerVars, engineVars>>, UNCHANGED <<agent, calls, keyOf>>,
         part' = NoPart, part.type \in {"text", "thinking"},
         \A j \in Keys \ {part.index} : itemKind'[j] = itemKind[j],
         Closer(pending'), Head(pending').key = part.index, Head(pending').call = NoCall,
         Starting(pending') <=> ~Speaking,
         Head(pending').type \in ReasonTypes <=> part.type = "thinking",
         ~Terminal(Head(pending'))
  PROVE  FinishInv'
  <1>1. /\ NoCall \notin CallIds /\ NoCall \in Sources /\ part.index \in Keys /\ part.type # "tool"
        /\ \A c \in CallIds : Active(c) =>
              /\ keyOf[c] \in Keys /\ keyOf[c] # part.index
              /\ itemKind[keyOf[c]] = CallKind(calls[c].tool)
    BY CallFacts DEF Sources
  <1>2. \A c \in CallIds : /\ Active(c)' <=> Active(c)
                           /\ Awaits(c)' <=> Awaits(c)
                           /\ DutyKey(c) = keyOf[c] /\ DutyKey(c)' = keyOf[c]
                           /\ ~Thinks(c) /\ ~Thinks(c)'
                           /\ Awaits(c) => Active(c)
    BY <1>1 DEF Awaits, StillOpen, OwnPart, Active, DutyKey, Thinks
  <1>3. pending' # <<>> /\ Shape(pending') /\ Closing(pending')
    BY DEF Closer
  <1>4. /\ ~Awaits(NoCall)' /\ (Awaits(NoCall) <=> Speaking)
        /\ DutyKey(NoCall) = part.index /\ DutyKey(NoCall)' = part.index
        /\ Thinks(NoCall) <=> part.type = "thinking"
        /\ Thinks(NoCall)' <=> part.type = "thinking"
    BY <1>1, <1>3 DEF Awaits, Speaking, DutyKey, Thinks
  <1>5. \A j : Opening(j)' <=> j = part.index /\ ~Speaking
    BY DEF Opening
  <1>6. Owes(NoCall)' /\ \A w \in Sources : Finishes(w)' <=> w = NoCall
    BY <1>1, <1>3 DEF Owes, Finishes
  <1>7. KindInv'
    BY <1>1, <1>2 DEF FinishInv, KindInv
  <1>8. EventsInv'
    BY <1>3, <1>4, <1>6, EventsStep
  <1>9. ASSUME NEW w \in Sources, Awaits(w)
        PROVE  /\ Owes(w)' /\ DutyKey(w)' = DutyKey(w) /\ ~Opening(DutyKey(w))'
               /\ Thinks(w)' <=> Thinks(w)
    <2>1. CASE w = NoCall
      BY <1>4, <1>5, <1>6, <1>9, <2>1
    <2>2. CASE w \in CallIds
      BY <1>1, <1>2, <1>5, <1>9, <2>2 DEF Owes
    <2> QED
      BY <2>1, <2>2 DEF Sources
  <1>10. ASSUME NEW w \in Sources, Owes(w)', ~Awaits(w)
         PROVE  /\ Opening(DutyKey(w))' /\ Head(pending').call = w
                /\ Thinks(w)' <=> Head(pending').type = "ReasoningStarted"
    <2>1. w = NoCall
      BY <1>2, <1>6, <1>10 DEF Owes, Sources
    <2>2. ~Speaking
      BY <1>4, <1>10, <2>1
    <2>3. part.type = "text"
      BY <1>1, <2>2 DEF Speaking
    <2>4. Head(pending').type # "ReasoningStarted"
      BY <2>3 DEF ReasonTypes
    <2> QED
      BY <1>4, <1>5, <2>1, <2>2, <2>3, <2>4
  <1> QED
    BY <1>7, <1>8, <1>9, <1>10, HandlerFinish

(* The arguments of a call end: the call is finished, or waits for its     *)
(* result.                                                                 *)
LEMMA CallEnd ==
  ASSUME TypeInv, KeyInv, FinishInv, pending = <<>>, part # NoPart, engine = "running",
         UNCHANGED <<composerVars, engineVars>>, UNCHANGED <<agent, calls, keyOf, itemKind>>,
         part' = NoPart, part.type = "tool",
         IF itemKind[part.index] \in AwaitedKinds THEN Adder(pending')
         ELSE Closer(pending') /\ ~Starting(pending') /\ Head(pending').type \notin ReasonTypes,
         pending' # <<>> => /\ Head(pending').key = part.index
                            /\ Head(pending').call = part.call
                            /\ ~Terminal(Head(pending'))
  PROVE  FinishInv'
  <1>1. /\ NoCall \notin CallIds
        /\ part.call \in CallIds /\ Active(part.call) /\ keyOf[part.call] = part.index
        /\ \A c \in CallIds : Active(c) => itemKind[keyOf[c]] = CallKind(calls[c].tool)
    BY CallFacts DEF Active
  <1>2. PICK d \in CallIds : d = part.call
    BY <1>1
  <1>3. itemKind[part.index] = CallKind(calls[d].tool)
    BY <1>1, <1>2
  <1>4. \A c \in CallIds : /\ Active(c)' <=> Active(c)
                           /\ c # d => (Awaits(c)' <=> Awaits(c))
                           /\ DutyKey(c) = keyOf[c] /\ DutyKey(c)' = keyOf[c]
                           /\ ~Thinks(c) /\ ~Thinks(c)'
    BY <1>1, <1>2 DEF Awaits, StillOpen, OwnPart, Active, DutyKey, Thinks
  <1>5. /\ Awaits(d) /\ (Awaits(d)' <=> itemKind[part.index] \in AwaitedKinds)
        /\ ~Awaits(NoCall) /\ ~Awaits(NoCall)'
    BY <1>1, <1>2, <1>3 DEF Awaits, StillOpen, OwnPart, Active, Speaking
  <1>6. \A j : ~Opening(j)'
    BY DEF Opening, Adder, Starting
  <1>7. \A w \in Sources : Finishes(w)' <=> w = d /\ itemKind[part.index] \notin AwaitedKinds
    BY <1>2, ShapeNone DEF Finishes, Adder, Closer
  <1>8. Owes(d)'
    BY <1>5, <1>7 DEF Owes, Sources
  <1>9. KindInv'
    BY <1>4 DEF FinishInv, KindInv
  <1>10. EventsInv'
    <2>1. CASE pending' = <<>>
      BY <2>1, NoEvents
    <2>2. CASE pending' # <<>>
      <3>1. Shape(pending') /\ Head(pending').type \notin ReasonTypes
        BY <2>2 DEF Adder, Closer
      <3>2. Head(pending').call = d /\ Head(pending').key = DutyKey(d)'
        BY <1>1, <1>2, <1>4, <2>2
      <3>3. Closing(pending') => ~Awaits(d)'
        BY <1>5, <2>2 DEF Adder
      <3> QED
        BY <1>8, <2>2, <3>1, <3>2, <3>3, EventsStep
    <2> QED
      BY <2>1, <2>2
  <1>11. ASSUME NEW w \in Sources, Awaits(w)
         PROVE  /\ Owes(w)' /\ DutyKey(w)' = DutyKey(w) /\ ~Opening(DutyKey(w))'
                /\ Thinks(w)' <=> Thinks(w)
    <2>1. w \in CallIds
      BY <1>5, <1>11 DEF Sources
    <2> QED
      BY <1>4, <1>6, <1>8, <1>11, <2>1 DEF Owes
  <1>12. ASSUME NEW w \in Sources, Owes(w)' PROVE Awaits(w)
    BY <1>4, <1>5, <1>7, <1>12 DEF Owes, Sources
  <1>13. pending' # <<>> => ~Terminal(Head(pending'))
    OBVIOUS
  <1> QED
    BY <1>9, <1>10, <1>11, <1>12, <1>13, HandlerFinish

(* A part ends.                                                            *)
LEMMA PartEndFinish ==
  ASSUME TypeInv, KeyInv, FinishInv, PartEnd
  PROVE  FinishInv'
  <1>1. /\ pending = <<>> /\ part # NoPart /\ engine = "running" /\ part' = NoPart
        /\ UNCHANGED <<composerVars, engineVars>> /\ UNCHANGED <<agent, calls>>
        /\ \/ part.type = "text" /\ OnTextEnd(part.index, part.chunks)
           \/ part.type = "thinking" /\ OnThinkingEnd(part.index, part.chunks)
           \/ part.type = "tool" /\ OnToolEnd(part.index, part.call, part.chunks)
    BY DEF PartEnd, Asked
  <1>2. /\ NormalizerTypeOK /\ itemKind \in [Keys -> NormalizerKinds]
        /\ part.index \in Keys /\ part.chunks \in Nat
        /\ part.type = "tool" => /\ part.call \in CallIds
                                 /\ keyOf[part.call] = part.index
    BY <1>1, CallFacts DEF TypeInv, TypeOK
  <1>3. CASE part.type = "text" /\ OnTextEnd(part.index, part.chunks)
    <2>1. /\ Closer(pending') /\ Head(pending').type \notin ReasonTypes
          /\ \A j \in Keys \ {part.index} : itemKind'[j] = itemKind[j]
      BY <1>2, <1>3, TextEndShape
    <2>2. /\ Batch(pending', part.index, NoCall) /\ keyOf' = keyOf
          /\ itemKind[part.index] = PROBE <=> Starting(pending')
      BY <1>2, <1>3, TextEnd
    <2>3. /\ Head(pending').key = part.index /\ Head(pending').call = NoCall
          /\ ~Terminal(Head(pending'))
      BY <2>1, <2>2, NotTerminal DEF Batch, Closer
    <2>4. Starting(pending') <=> ~Speaking
      BY <1>1, <1>3, <2>2 DEF Speaking
    <2> QED
      BY <1>1, <1>3, <2>1, <2>2, <2>3, <2>4, WordsEnd
  <1>4. CASE part.type = "thinking" /\ OnThinkingEnd(part.index, part.chunks)
    <2>1. /\ Closer(pending') /\ ~Starting(pending') /\ Head(pending').type \in ReasonTypes
          /\ itemKind' = itemKind
      BY <1>4, ThinkingEndShape
    <2>2. Batch(pending', part.index, NoCall) /\ keyOf' = keyOf
      BY <1>2, <1>4, ThinkingEnd
    <2>3. /\ Head(pending').key = part.index /\ Head(pending').call = NoCall
          /\ ~Terminal(Head(pending'))
      BY <2>1, <2>2, NotTerminal DEF Batch, Closer
    <2>4. Speaking
      BY <1>1, <1>4 DEF Speaking
    <2> QED
      BY <1>1, <1>4, <2>1, <2>2, <2>3, <2>4, WordsEnd
  <1>5. CASE part.type = "tool" /\ OnToolEnd(part.index, part.call, part.chunks)
    <2>1. KeyOfCall(part.call, part.index) = part.index
      BY <1>2, <1>5 DEF KeyOfCall
    <2>2. Batch(pending', part.index, part.call) /\ keyOf' = keyOf /\ itemKind' = itemKind
      BY <1>2, <1>5, <2>1, ToolEnd
    <2>3. IF itemKind[part.index] \in AwaitedKinds THEN Adder(pending')
          ELSE Closer(pending') /\ ~Starting(pending') /\ Head(pending').type \notin ReasonTypes
      BY <1>5, <2>1, ToolEndShape
    <2>4. pending' # <<>> => /\ Head(pending').key = part.index
                             /\ Head(pending').call = part.call
                             /\ ~Terminal(Head(pending'))
      BY <2>2, NotTerminal DEF Batch
    <2> QED
      BY <1>1, <1>5, <2>2, <2>3, <2>4, CallEnd
  <1> QED
    BY <1>1, <1>3, <1>4, <1>5

(* How a call to a tool is shown.                                          *)
LEMMA KindOfTool ==
  ASSUME NEW tool
  PROVE  /\ CallKind(tool) = "mcp_call" <=> tool \in McpTools
         /\ tool \in BuiltinTools /\ tool = CI => CallKind(tool) = "code_interpreter_call"
         /\ tool \in BuiltinTools /\ tool = WebSearch => CallKind(tool) = "web_search_call"
         /\ CallKind(tool) \in AwaitedKinds => tool \in McpTools \cup (BuiltinTools \cap {CI, WebSearch})
         /\ tool \in CustomTools \cup FunctionTools => CallKind(tool) \notin AwaitedKinds
  <1>1. CI # WebSearch
    BY DEF CI, WebSearch
  <1> QED
    BY <1>1, ToolAssumption DEF CallKind, AwaitedKinds

(* A call is handed to its tool, or its result arrives: what they share.   *)
LEMMA ToolStepFinish ==
  ASSUME TypeInv, KeyInv, FinishInv, pending = <<>>, part = NoPart, engine = "running",
         UNCHANGED <<composerVars, engineVars>>, UNCHANGED <<agent, part, keyOf, itemKind>>,
         agent # "model", NEW d \in CallIds, Active(d), NEW s,
         calls' = [calls EXCEPT ![d].state = s],
         pending' # <<>> =>
           /\ Head(pending').key = keyOf[d] /\ Head(pending').call = d
           /\ ~Terminal(Head(pending')) /\ Awaits(d)
           /\ ~Starting(pending') /\ Shape(pending') /\ Head(pending').type \notin ReasonTypes,
         Awaits(d) => (IF Active(d)' THEN ~Closing(pending') ELSE Closing(pending')),
         ~Awaits(d) => ~Awaits(d)'
  PROVE  FinishInv'
  <1>1. /\ NoCall \notin CallIds /\ calls \in [CallIds -> Call]
        /\ keyOf \in [CallIds -> Keys \cup {NoKey}]
        /\ \A c \in CallIds : Active(c) => itemKind[keyOf[c]] = CallKind(calls[c].tool)
    BY CallFacts
  <1>2. /\ calls'[d].state = s /\ calls'[d].tool = calls[d].tool
        /\ \A c \in CallIds \ {d} : calls'[c] = calls[c]
    BY <1>1 DEF Call
  <1>3. \A c \in CallIds : /\ c # d => (Active(c)' <=> Active(c)) /\ (Awaits(c)' <=> Awaits(c))
                           /\ DutyKey(c) = keyOf[c] /\ DutyKey(c)' = keyOf[c]
                           /\ ~Thinks(c) /\ ~Thinks(c)'
    BY <1>1, <1>2 DEF Awaits, StillOpen, OwnPart, Active, DutyKey, Thinks
  <1>4. ~Awaits(NoCall) /\ ~Awaits(NoCall)'
    BY <1>1 DEF Awaits, Speaking
  <1>5. Awaits(d)' => Active(d)'
    BY <1>1 DEF Awaits, StillOpen
  <1>6. Awaits(d) /\ Active(d)' => Awaits(d)'
    BY <1>1, <1>2 DEF Awaits, StillOpen, OwnPart
  <1>7. \A j : ~Opening(j)'
    BY DEF Opening, Starting
  <1>8. Closing(pending') => pending' # <<>> /\ Awaits(d) /\ ~Active(d)'
    BY DEF Closing
  <1>9. \A w : Finishes(w)' <=> w = d /\ Closing(pending')
    BY <1>8 DEF Finishes
  <1>10. Awaits(d) => Owes(d)'
    BY <1>6, <1>9 DEF Owes
  <1>11. KindInv'
    BY <1>1, <1>2, <1>3 DEF FinishInv, KindInv, Active
  <1>12. EventsInv'
    <2>1. CASE pending' = <<>>
      BY <2>1, NoEvents
    <2>2. CASE pending' # <<>>
      <3>1. Head(pending').call = d /\ Head(pending').key = DutyKey(d)' /\ Owes(d)'
        BY <1>3, <1>10, <2>2
      <3>2. Closing(pending') => part' = NoPart /\ ~Awaits(d)'
        BY <1>5, <1>8
      <3>3. Head(pending').type \in ReasonTypes => d = NoCall
        BY <2>2
      <3> QED
        BY <2>2, <3>1, <3>2, <3>3, EventsStep
    <2> QED
      BY <2>1, <2>2
  <1>13. ASSUME NEW w \in Sources, Awaits(w)
         PROVE  /\ Owes(w)' /\ DutyKey(w)' = DutyKey(w) /\ ~Opening(DutyKey(w))'
                /\ Thinks(w)' <=> Thinks(w)
    <2>1. w \in CallIds
      BY <1>4, <1>13 DEF Sources
    <2> QED
      BY <1>3, <1>7, <1>10, <1>13, <2>1 DEF Owes
  <1>14. ASSUME NEW w \in Sources, Owes(w)' PROVE Awaits(w)
    BY <1>3, <1>4, <1>8, <1>9, <1>14 DEF Owes, Sources
  <1>15. pending' # <<>> => ~Terminal(Head(pending'))
    OBVIOUS
  <1> QED
    BY <1>11, <1>12, <1>13, <1>14, <1>15, HandlerFinish

(* The run calls a tool: an MCP call or a search gets its notice.          *)
LEMMA ToolCallFinish ==
  ASSUME BuiltinsAnswer, TypeInv, KeyInv, FinishInv, NEW d \in CallIds, ToolCall(d)
  PROVE  FinishInv'
  <1> DEFINE tool == calls[d].tool
             s == IF tool \in CustomTools \cup FunctionTools THEN "deferred" ELSE "issued"
  <1>1. /\ pending = <<>> /\ engine = "running" /\ agent = "tools" /\ calls[d].state = "named"
        /\ UNCHANGED <<composerVars, engineVars>> /\ UNCHANGED <<agent, part>>
        /\ OnFunctionToolCall(d, tool) /\ calls' = [calls EXCEPT ![d].state = s]
    BY DEF ToolCall, Asked
  <1>2. part = NoPart
    BY <1>1 DEF KeyInv, PartInv
  <1>3. /\ NormalizerTypeOK /\ calls \in [CallIds -> Call]
        /\ Active(d) /\ keyOf[d] \in Keys /\ itemKind[keyOf[d]] = CallKind(tool)
    BY <1>1, CallFacts DEF TypeInv, TypeOK, Active
  <1>4. /\ Batch(pending', keyOf[d], d) /\ keyOf' = keyOf /\ itemKind' = itemKind
        /\ ~Starting(pending')
    BY <1>1, <1>3, ToolCalled
  <1>5. Adder(pending') /\ (pending' # <<>> => tool \in {CI, WebSearch})
    BY <1>1, ToolCalledShape
  <1>6. tool \in ToolNames \cup {"none"}
    BY <1>3 DEF Call
  <1>7. pending' # <<>> => Awaits(d)
    <2> SUFFICES ASSUME pending' # <<>> PROVE Awaits(d)
      OBVIOUS
    <2>1. tool \in BuiltinTools \cap {CI, WebSearch}
      BY <1>5, <1>6 DEF BuiltinsAnswer, CI, WebSearch
    <2>2. CallKind(tool) \in AwaitedKinds
      BY <2>1, KindOfTool DEF AwaitedKinds
    <2> QED
      BY <1>3, <2>2 DEF Awaits, StillOpen
  <1>8. pending' # <<>> => /\ Head(pending').key = keyOf[d] /\ Head(pending').call = d
                           /\ ~Terminal(Head(pending')) /\ Awaits(d)
                           /\ ~Starting(pending') /\ Shape(pending')
                           /\ Head(pending').type \notin ReasonTypes
    BY <1>4, <1>5, <1>7, NotTerminal DEF Batch, Adder
  <1>9. ~Closing(pending')
    BY <1>5, ShapeNone DEF Adder
  <1>10. calls'[d].state = s /\ calls'[d].tool = tool
    BY <1>1, <1>3 DEF Call
  <1>11. d # NoCall
    BY CallIdsAssumption
  <1>12. Awaits(d) => Active(d)'
    <2> SUFFICES ASSUME Awaits(d) PROVE Active(d)'
      OBVIOUS
    <2>1. CallKind(tool) \in AwaitedKinds
      BY <1>2, <1>11 DEF Awaits, StillOpen, OwnPart
    <2>2. s = "issued"
      BY <2>1, KindOfTool
    <2> QED
      BY <1>10, <2>2 DEF Active
  <1>13. ~Awaits(d) => ~Awaits(d)'
    BY <1>1, <1>2, <1>3, <1>10, <1>11 DEF Awaits, StillOpen, OwnPart
  <1> HIDE DEF tool, s
  <1> QED
    BY <1>1, <1>2, <1>3, <1>4, <1>8, <1>9, <1>12, <1>13, ToolStepFinish

(* A tool answers: the item of its call is finished.                       *)
LEMMA ToolResultFinish ==
  ASSUME BuiltinsAnswer, TypeInv, KeyInv, FinishInv, NEW d \in CallIds, NEW result,
         ToolResult(d, result)
  PROVE  FinishInv'
  <1> DEFINE tool == calls[d].tool
  <1>1. /\ pending = <<>> /\ engine = "running" /\ agent = "tools" /\ calls[d].state = "issued"
        /\ UNCHANGED <<composerVars, engineVars>> /\ UNCHANGED <<agent, part>>
        /\ result = "retry" => tool \in RetriedTools \cup UnknownTools
        /\ OnFunctionToolResult(d, tool, result)
        /\ calls' = [calls EXCEPT ![d].state = "answered"]
    BY DEF ToolResult, Asked
  <1>2. part = NoPart
    BY <1>1 DEF KeyInv, PartInv
  <1>3. /\ NormalizerTypeOK /\ calls \in [CallIds -> Call]
        /\ Active(d) /\ keyOf[d] \in Keys /\ keyOf[d] # NoKey
        /\ itemKind[keyOf[d]] = CallKind(tool)
    BY <1>1, CallFacts DEF TypeInv, TypeOK, Active, NoKey, Keys
  <1>4. /\ Batch(pending', keyOf[d], d) /\ keyOf' = keyOf /\ itemKind' = itemKind
        /\ ~Starting(pending')
    BY <1>1, <1>3, ToolAnswered
  <1>5. /\ \/ pending' = <<>>
           \/ Closer(pending') /\ Head(pending').type \notin ReasonTypes
        /\ pending' # <<>> <=> \/ itemKind[keyOf[d]] = "mcp_call"
                               \/ tool = CI
                               \/ (tool = WebSearch /\ result # "retry")
    BY <1>1, <1>3, ToolAnsweredShape
  <1>6. tool \in ToolNames \cup {"none"} /\ d # NoCall
    BY <1>3, CallIdsAssumption DEF Call
  <1>7. Awaits(d) <=> CallKind(tool) \in AwaitedKinds
    BY <1>2, <1>3, <1>6 DEF Awaits, StillOpen, OwnPart
  <1>8. pending' # <<>> => Awaits(d)
    <2>1. tool \in {CI, WebSearch} => tool \in BuiltinTools
      BY <1>6 DEF BuiltinsAnswer, CI, WebSearch
    <2> QED
      BY <1>3, <1>5, <1>7, <2>1, KindOfTool DEF AwaitedKinds
  <1>9. Awaits(d) => pending' # <<>>
    <2>1. CASE tool \in McpTools
      BY <1>3, <1>5, <2>1, KindOfTool
    <2>2. CASE tool = CI
      BY <1>5, <2>2
    <2>3. CASE tool \in BuiltinTools /\ tool = WebSearch
      <3>1. result # "retry"
        BY <1>1, <2>3 DEF BuiltinsAnswer, UnknownTools
      <3> QED
        BY <1>5, <2>3, <3>1
    <2> QED
      BY <1>7, <2>1, <2>2, <2>3, KindOfTool
  <1>10. pending' # <<>> => /\ Head(pending').key = keyOf[d] /\ Head(pending').call = d
                            /\ ~Terminal(Head(pending')) /\ Awaits(d)
                            /\ ~Starting(pending') /\ Shape(pending')
                            /\ Head(pending').type \notin ReasonTypes
    BY <1>4, <1>5, <1>8, NotTerminal DEF Batch, Closer
  <1>11. ~Active(d)'
    BY <1>1, <1>3 DEF Active
  <1>12. Awaits(d) => Closing(pending')
    BY <1>5, <1>9 DEF Closer
  <1>13. ~Awaits(d)'
    BY <1>6, <1>11 DEF Awaits, StillOpen
  <1> HIDE DEF tool
  <1> QED
    BY <1>1, <1>2, <1>3, <1>4, <1>10, <1>11, <1>12, <1>13, ToolStepFinish

(* Nobody owes anything, before and after.                                 *)
LEMMA NothingOwed ==
  ASSUME FinishInv, \A w \in Sources : ~Owes(w) /\ ~Owes(w)', UNCHANGED composerVars,
         EventsInv', KindInv',
         status' \in {"completed", "incomplete"} =>
           engine' \notin {"building", "running"} /\ output' = outputItems
  PROVE  FinishInv'
  <1>1. UNCHANGED <<items, nextIndex, outputItems, reasoningItem, reasoningDone, client>>
    BY DEF composerVars
  <1>2. DutyInv'
    BY DEF DutyInv
  <1>3. OpenInv'
    BY <1>1 DEF FinishInv, OpenInv, OwedBy
  <1>4. ItemInv' /\ ListedInv'
    BY <1>1 DEF FinishInv, ItemInv, ListedInv, Listed
  <1>5. FinalInv'
    BY <1>1 DEF FinalInv, Finale
  <1> QED
    BY <1>2, <1>3, <1>4, <1>5 DEF FinishInv

(* The run ends when every call it made is answered or left to the client. *)
LEMMA RunResultFinish ==
  ASSUME TypeInv, KeyInv, FinishInv, RunResult
  PROVE  FinishInv'
  <1>1. /\ pending = <<>> /\ part = NoPart /\ engine = "running"
        /\ UNCHANGED <<composerVars, engineVars>> /\ UNCHANGED <<keyOf, itemKind, part, calls>>
        /\ \/ agent = "model" /\ InState("named") = {}
           \/ agent = "tools" /\ AllAnswered
        /\ agent' = "finished"
    BY DEF RunResult, Asked
  <1>2. /\ pending' # <<>> /\ Terminal(Head(pending')) /\ ~Closing(pending')
    <2>1. PICK t \in {"UsageFinal", "UsageFinalIncomplete"} :
            pending' = <<Event(t, 0, NoCall, 0)>>
      BY DEF RunResult
    <2> DEFINE e == Event(t, 0, NoCall, 0)
    <2>2. e.type = t /\ pending' = <<e>>
      BY <2>1, EventFields
    <2> HIDE DEF e
    <2> QED
      BY <2>2, ShapeOne, ClosingListed DEF Terminal
  <1>3. \A c \in CallIds : ~Active(c)
    BY <1>1 DEF FinishInv, KindInv, Active, InState, AllAnswered
  <1>4. \A w \in Sources : ~Awaits(w) /\ ~Awaits(w)'
    BY <1>1, <1>3, CallIdsAssumption DEF Awaits, StillOpen, Speaking, Active
  <1>5. \A w \in Sources : ~Owes(w) /\ ~Owes(w)'
    BY <1>1, <1>2, <1>4 DEF Owes, Finishes, Closing
  <1>6. EventsInv'
    BY <1>2 DEF EventsInv
  <1>7. KindInv'
    BY <1>1, <1>3 DEF KindInv, Active
  <1>8. status' \in {"completed", "incomplete"} =>
           engine' \notin {"building", "running"} /\ output' = outputItems
    BY <1>1 DEF FinishInv, FinalInv, Finale, engineVars
  <1> QED
    BY <1>1, <1>5, <1>6, <1>7, <1>8, NothingOwed

(* The terminal response is built from the items listed.                   *)
LEMMA CompleteFinish ==
  ASSUME TypeInv, KeyInv, FinishInv, CompleteResponse
  PROVE  FinishInv'
  <1>1. /\ pending # <<>> /\ Terminal(Head(pending)) /\ pending' = Tail(pending)
        /\ output' = outputItems /\ engine' = "persisting"
        /\ UNCHANGED composerVars /\ UNCHANGED <<keyOf, itemKind, agent, part, calls>>
    BY DEF CompleteResponse, agentVars
  <1>2. pending' = <<>>
    <2>1. pending \in Seq(StreamEvent)
      BY DEF TypeInv, TypeOK
    <2>2. ASSUME NEW k, NEW c, Batch(pending, k, c) PROVE FALSE
      BY <1>1, <2>1, <2>2, NotTerminal DEF Batch
    <2>3. Len(pending) = 1
      BY <2>2 DEF KeyInv, PendingInv
    <2> QED
      BY <1>1, <2>1, <2>3
  <1>3. \A w \in Sources : ~Owes(w)
    BY <1>1 DEF FinishInv, FinalInv
  <1>4. \A w \in Sources : ~Awaits(w)'
    BY <1>1, <1>3 DEF Owes, Awaits, StillOpen, OwnPart, Active, Speaking
  <1>5. \A w \in Sources : ~Owes(w)'
    BY <1>2, <1>4 DEF Owes, Finishes, Closing
  <1>6. EventsInv'
    BY <1>2, NoEvents
  <1>7. KindInv'
    BY <1>1 DEF FinishInv, KindInv, Active
  <1> QED
    BY <1>1, <1>3, <1>5, <1>6, <1>7, NothingOwed

(* Feeding an event of w to the composer settles what w owes if the event  *)
(* finishes its item, and leaves everything else that is owed.             *)
Advance(w, t) ==
  /\ \A v \in Sources : Owes(v)' <=> Owes(v) /\ ~(v = w /\ t \in ClosingTypes)
  /\ \A v \in Sources : Owes(v)' => DutyKey(v)' = DutyKey(v) /\ (Thinks(v)' <=> Thinks(v))
  /\ \A j : ~Opening(j)'

(* What is left of a batch.                                                *)
LEMMA ShapeTail ==
  ASSUME NEW p \in Seq(StreamEvent), p # <<>>, Shape(p)
  PROVE  /\ Shape(Tail(p))
         /\ Head(p).type \in ClosingTypes => Tail(p) = <<>> /\ Closing(p)
         /\ Head(p).type \notin ClosingTypes => (Closing(Tail(p)) <=> Closing(p))
         /\ Tail(p) # <<>> => /\ Tail(p) \in Seq(StreamEvent) /\ Head(Tail(p)) = p[2] /\ 2 \in 1 .. Len(p)
                              /\ Head(Tail(p)).type \in ReasonTypes <=> Head(p).type \in ReasonTypes
  <1> DEFINE q == Tail(p)
             n == Len(p)
  <1>1. /\ n \in Nat /\ n > 0 /\ q \in Seq(StreamEvent) /\ Len(q) = n - 1 /\ Head(p) = p[1]
        /\ \A i \in 1 .. Len(q) : q[i] = p[i + 1]
    BY HeadTailProperties
  <1>2. \A i \in 1 .. n : /\ p[i].type \in ClosingTypes => i = n
                          /\ p[i].type \in ReasonTypes <=> p[1].type \in ReasonTypes
    BY DEF Shape
  <1>3. q = <<>> <=> n = 1
    <2>1. \A s \in Seq(StreamEvent) : s = <<>> <=> Len(s) = 0
      OBVIOUS
    <2>2. q = <<>> <=> Len(q) = 0
      BY <1>1, <2>1
    <2> HIDE DEF q, n
    <2> QED
      BY <1>1, <2>2
  <1>4. q # <<>> => Head(q) = q[1] /\ q[1] = p[2] /\ 2 \in 1 .. n
    BY <1>1, <1>3
  <1>5. q # <<>> => q[Len(q)] = p[n]
    BY <1>1, <1>3
  <1> HIDE DEF q, n
  <1>6. Shape(q)
    <2> SUFFICES ASSUME NEW i \in 1 .. Len(q)
                 PROVE  /\ q[i].type \in ClosingTypes => i = Len(q)
                        /\ q[i].type \in ReasonTypes <=> q[1].type \in ReasonTypes
      BY DEF Shape
    <2>1. i + 1 \in 1 .. n /\ q[i] = p[i + 1] /\ q[1] = p[2] /\ 2 \in 1 .. n
      BY <1>1
    <2> QED
      BY <1>1, <1>2, <2>1
  <1>7. Head(p).type \in ClosingTypes => q = <<>> /\ Closing(p)
    <2>1. 1 \in 1 .. n
      BY <1>1
    <2>2. Head(p).type \in ClosingTypes => n = 1
      BY <1>1, <1>2, <2>1
    <2> QED
      BY <1>1, <1>3, <2>2 DEF Closing, n
  <1>8. Head(p).type \notin ClosingTypes => (Closing(q) <=> Closing(p))
    <2>1. CASE q = <<>>
      BY <1>1, <1>3, <2>1 DEF Closing, n
    <2>2. CASE q # <<>>
      BY <1>5, <2>2 DEF Closing, n
    <2> QED
      BY <2>1, <2>2
  <1>9. q # <<>> => (Head(q).type \in ReasonTypes <=> Head(p).type \in ReasonTypes)
    BY <1>1, <1>2, <1>4
  <1> QED
    BY <1>1, <1>4, <1>6, <1>7, <1>8, <1>9 DEF q, n

(* What an event leaves owed, whatever frame it causes.                    *)
LEMMA FeedDuties ==
  ASSUME TypeInv, KeyInv, FinishInv, FeedPending, NEW e, e = Head(pending)
  PROVE  /\ e \in ItemEvent /\ Feed(e) /\ ComposerTypeOK /\ Indexed
         /\ e.call \in Sources /\ e.key \in Keys /\ Owes(e.call) /\ DutyKey(e.call) = e.key
         /\ e.type \in ReasonTypes => e.call = NoCall
         /\ e.type \in ClosingTypes => (Thinks(e.call) <=> e.type \in ReasonTypes)
         /\ Advance(e.call, e.type)
         /\ \A v \in Sources : Owes(v) => DutyKey(v) \in Keys
         /\ \A j : Opening(j) <=> e.type \in StartTypes /\ j = e.key
         /\ EventsInv' /\ KindInv' /\ FinalInv'
  <1>1. /\ pending # <<>> /\ ~Terminal(e) /\ Feed(e) /\ pending' = Tail(pending)
        /\ UNCHANGED <<keyOf, itemKind, agent, nextPart, part, calls, engine, status, output>>
        /\ engine = "running"
    BY DEF FeedPending, agentVars, engineVars
  <1>2. /\ ComposerTypeOK /\ Indexed /\ pending \in Seq(StreamEvent)
        /\ keyOf \in [CallIds -> Keys \cup {NoKey}] /\ NoCall \notin CallIds
        /\ part # NoPart => part.index \in Keys
    BY PartType, CallIdsAssumption DEF TypeInv, TypeOK, NormalizerTypeOK
  <1>3. e \in ItemEvent
    BY <1>1, <1>2, HeadEvent
  <1> DEFINE w == e.call
             k == e.key
  <1>4. k \in Keys /\ w \in Sources
    BY <1>3 DEF ItemEvent, Sources
  <1>5. Batch(pending, k, w)
    <2>1. PICK j \in Keys \cup {NoKey}, b \in CallIds \cup {NoCall} : Batch(pending, j, b)
      BY <1>1 DEF KeyInv, PendingInv
    <2>2. j = k /\ b = w
      BY <1>1, <2>1 DEF Batch
    <2> QED
      BY <2>1, <2>2
  <1>6. /\ Shape(pending) /\ Owes(w) /\ k = DutyKey(w)
        /\ e.type \in ReasonTypes => w = NoCall
        /\ Closing(pending) => part = NoPart /\ ~Awaits(w)
    BY <1>1 DEF FinishInv, EventsInv
  <1>7. /\ Shape(pending')
        /\ e.type \in ClosingTypes => pending' = <<>> /\ Closing(pending)
        /\ e.type \notin ClosingTypes => (Closing(pending') <=> Closing(pending))
        /\ pending' # <<>> => Head(pending').type \in ReasonTypes <=> e.type \in ReasonTypes
    BY <1>1, <1>2, <1>6, ShapeTail
  <1>8. pending' # <<>> => /\ Head(pending').key = k /\ Head(pending').call = w
                           /\ Head(pending').type \notin StartTypes
                           /\ ~Terminal(Head(pending'))
    <2> SUFFICES ASSUME pending' # <<>>
                 PROVE  /\ Head(pending').key = k /\ Head(pending').call = w
                        /\ Head(pending').type \notin StartTypes
                        /\ ~Terminal(Head(pending'))
      OBVIOUS
    <2>1. Head(pending') = pending[2] /\ 2 \in 1 .. Len(pending)
      BY <1>1, <1>2, <1>6, ShapeTail
    <2> QED
      BY <1>5, <2>1, NotTerminal DEF Batch
  <1>9. \A j : Opening(j) <=> e.type \in StartTypes /\ j = k
    BY <1>1 DEF Opening, Starting
  <1>10. \A j : ~Opening(j)'
    BY <1>8 DEF Opening, Starting
  <1>11. \A v \in Sources : Awaits(v)' <=> Awaits(v)
    BY <1>1 DEF Awaits, Speaking, StillOpen, OwnPart, Active
  <1>12. \A v \in Sources : Finishes(v) <=> v = w /\ Closing(pending)
    BY <1>1 DEF Finishes
  <1>13. \A v \in Sources : Finishes(v)' <=> v = w /\ Closing(pending')
    BY <1>8 DEF Finishes, Closing
  <1>14. ~Closing(pending') \/ e.type \notin ClosingTypes
    BY <1>7 DEF Closing
  <1>15. \A v \in Sources : Owes(v)' <=> Owes(v) /\ ~(v = w /\ e.type \in ClosingTypes)
    <2> TAKE v \in Sources
    <2> QED
      BY <1>6, <1>7, <1>11, <1>12, <1>13, <1>14 DEF Owes
  <1>16. ASSUME NEW v \in Sources, Owes(v)'
         PROVE  DutyKey(v)' = DutyKey(v) /\ (Thinks(v)' <=> Thinks(v))
    <2>1. CASE v \in CallIds \/ part # NoPart
      BY <1>1, <1>2, <2>1 DEF DutyKey, Thinks
    <2>2. CASE v = NoCall /\ part = NoPart
      <3>1. ~Awaits(v)'
        BY <1>1, <1>2, <2>2 DEF Awaits, Speaking
      <3>2. pending' # <<>>
        BY <1>16, <3>1 DEF Owes, Finishes, Closing
      <3>3. Head(pending').key = k /\ (Head(pending').type \in ReasonTypes <=> e.type \in ReasonTypes)
        BY <1>7, <1>8, <3>2
      <3> QED
        BY <1>1, <1>2, <2>2, <3>2, <3>3 DEF DutyKey, Thinks
    <2> QED
      BY <2>1, <2>2 DEF Sources
  <1>17. Advance(w, e.type)
    BY <1>10, <1>15, <1>16 DEF Advance
  <1>18. ASSUME NEW v \in Sources, Owes(v) PROVE DutyKey(v) \in Keys
    <2>1. CASE Finishes(v)
      BY <1>4, <1>6, <1>12, <2>1
    <2>2. CASE v = NoCall /\ Speaking
      BY <1>2, <2>2 DEF DutyKey, Speaking
    <2>3. CASE v \in CallIds /\ Active(v)
      <3>1. keyOf[v] \in 0 .. nextPart - 1
        BY <2>3 DEF KeyInv, CallsInv
      <3> QED
        BY <1>2, <2>3, <3>1 DEF DutyKey, NoKey
    <2> QED
      BY <1>18, <2>1, <2>2, <2>3 DEF Owes, Awaits, StillOpen
  <1>19. e.type \in ClosingTypes => (Thinks(w) <=> e.type \in ReasonTypes)
    BY <1>1, <1>6, <1>7 DEF Thinks
  <1>20. EventsInv'
    <2>1. CASE pending' = <<>>
      BY <2>1, NoEvents
    <2>2. CASE pending' # <<>>
      <3>1. e.type \notin ClosingTypes
        BY <1>7, <2>2
      <3>2. Owes(w)' /\ DutyKey(w)' = k
        BY <1>4, <1>6, <1>15, <1>16, <3>1
      <3>3. Closing(pending') => part' = NoPart /\ ~Awaits(w)'
        BY <1>1, <1>4, <1>6, <1>7, <1>11, <3>1
      <3>4. Head(pending').call = w /\ Head(pending').key = k
            /\ (Head(pending').type \in ReasonTypes => w = NoCall)
        BY <1>6, <1>7, <1>8, <2>2
      <3> HIDE DEF w, k
      <3> QED
        BY <1>7, <2>2, <3>2, <3>3, <3>4, EventsStep
    <2> QED
      BY <2>1, <2>2
  <1>21. KindInv'
    BY <1>1 DEF FinishInv, KindInv, Active
  <1>22. FinalInv'
    BY <1>1, <1>8 DEF FinishInv, FinalInv, Finale
  <1> QED
    BY <1>1, <1>2, <1>3, <1>4, <1>6, <1>9, <1>17, <1>18, <1>19, <1>20, <1>21, <1>22

(* Two sources never owe the same item.                                    *)
LEMMA DutyItems ==
  ASSUME ComposerTypeOK, Indexed, NEW j \in Keys, items[j] # NoItem
  PROVE  items[j] + 1 \in 1 .. Len(client) /\ items[j] \in Nat /\ items[j] < nextIndex
         /\ client[items[j] + 1] \in ClientItem
  <1>1. items[j] + 1 \in 1 .. Len(client) /\ items[j] \in Nat /\ items[j] < nextIndex
    BY DEF ComposerTypeOK, Indexed, NoItem
  <1> QED
    BY <1>1 DEF ComposerTypeOK

(* A new item is announced.                                                *)
LEMMA NewItem ==
  ASSUME ComposerTypeOK, Indexed, FinishInv, NEW e \in ItemEvent, NEW kind \in ItemKinds,
         AddItem(e, kind), e.type \in StartTypes, e.call \in Sources, e.key \in Keys,
         Owes(e.call), DutyKey(e.call) = e.key, Advance(e.call, e.type),
         kind = "reasoning" <=> e.type = "ReasoningStarted",
         e.type = "ReasoningStarted" => e.call = NoCall,
         \A v \in Sources : Owes(v) => DutyKey(v) \in Keys,
         \A j : Opening(j) <=> j = e.key, e = Head(pending),
         IF kind = "reasoning"
         THEN /\ reasoningItem = NoItem /\ reasoningItem' = nextIndex
              /\ outputItems' = Append(outputItems, nextIndex)
         ELSE UNCHANGED <<reasoningItem, outputItems>>,
         reasoningDone' = reasoningDone
  PROVE  DutyInv' /\ OpenInv' /\ ItemInv' /\ ListedInv'
  <1> DEFINE it == AddedItem(kind, e.call)
  <1>1. /\ items' \in [Keys -> Nat \cup {NoItem}]
        /\ nextIndex' = nextIndex + 1
        /\ client' \in Seq(ClientItem) /\ Len(client') = nextIndex'
        /\ items'[e.key] = nextIndex
        /\ \A k \in Keys : k # e.key => items'[k] = items[k]
        /\ \A i \in 1 .. nextIndex : client'[i] = client[i]
    BY ItemAdded
  <1>2. /\ nextIndex \in Nat /\ Len(client) = nextIndex /\ reasoningItem < nextIndex
        /\ client \in Seq(ClientItem) /\ outputItems \in Seq(Nat)
        /\ reasoningItem \in Nat \cup {NoItem}
    BY DEF ComposerTypeOK, Indexed
  <1>3. /\ it.kind = kind /\ it.call = e.call /\ it.dones = 0 /\ it.late = FALSE
        /\ it \in ClientItem
    BY DEF AddedItem, ClientItem, Sources
  <1>4. client' = Append(client, it)
    BY DEF AddItem
  <1> HIDE DEF it
  <1>5. client'[nextIndex + 1] = it
    BY <1>2, <1>3, <1>4
  <1>6. \A i \in 1 .. Len(client') : i = nextIndex + 1 \/ i \in 1 .. nextIndex
    BY <1>1, <1>2
  <1>7. ASSUME NEW v \in Sources, Owes(v), v # e.call
        PROVE  /\ ~Opening(DutyKey(v)) /\ DutyKey(v) # e.key /\ DutyKey(v) \in Keys
               /\ items[DutyKey(v)] # NoItem
               /\ items[DutyKey(v)] + 1 \in 1 .. nextIndex /\ items[DutyKey(v)] # nextIndex
               /\ items'[DutyKey(v)] = items[DutyKey(v)]
               /\ client'[items[DutyKey(v)] + 1] = client[items[DutyKey(v)] + 1]
               /\ client[items[DutyKey(v)] + 1].call = v
               /\ Thinks(v) => items[DutyKey(v)] = reasoningItem
               /\ ~Thinks(v) => /\ client[items[DutyKey(v)] + 1].dones = 0
                                /\ items[DutyKey(v)] # reasoningItem
    <2>1. ~Opening(DutyKey(v))
      BY <1>7, DutyFacts
    <2>2. DutyKey(v) # e.key /\ DutyKey(v) \in Keys
      BY <1>7, <2>1
    <2>3. items[DutyKey(v)] # NoItem
      BY <1>7, <2>1, DutyFacts
    <2>4. items[DutyKey(v)] + 1 \in 1 .. nextIndex /\ items[DutyKey(v)] # nextIndex
      BY <1>2, <2>2, <2>3, DutyItems
    <2>5. items'[DutyKey(v)] = items[DutyKey(v)]
          /\ client'[items[DutyKey(v)] + 1] = client[items[DutyKey(v)] + 1]
      BY <1>1, <2>2, <2>4
    <2> QED
      BY <1>7, <2>1, <2>2, <2>3, <2>4, <2>5, DutyFacts
  <1>8. Thinks(e.call) <=> kind = "reasoning"
    BY DutyFacts
  <1>9. \A v \in Sources : (Owes(v)' <=> Owes(v)) /\ ~Opening(DutyKey(v))'
    BY NotClosing DEF Advance
  <1>10. \A v \in Sources : Owes(v)' => DutyKey(v)' = DutyKey(v) /\ (Thinks(v)' <=> Thinks(v))
    BY DEF Advance
  <1>11. ASSUME NEW v \in Sources, v # e.call PROVE ~Thinks(v) \/ reasoningItem' = reasoningItem
    BY <1>11 DEF Thinks
  <1>12. DutyInv'
    <2> SUFFICES ASSUME NEW v \in Sources, Owes(v)'
                 PROVE  (/\ items[DutyKey(v)] # NoItem
                         /\ client[items[DutyKey(v)] + 1].call = v
                         /\ Thinks(v) => items[DutyKey(v)] = reasoningItem
                         /\ ~Thinks(v) => /\ client[items[DutyKey(v)] + 1].dones = 0
                                          /\ items[DutyKey(v)] # reasoningItem)'
      BY <1>9 DEF DutyInv
    <2>1. DutyKey(v)' = DutyKey(v) /\ (Thinks(v)' <=> Thinks(v)) /\ Owes(v)
      BY <1>9, <1>10
    <2>2. CASE v = e.call
      <3>1. items'[e.key] = nextIndex /\ nextIndex # NoItem /\ client'[nextIndex + 1] = it
        BY <1>1, <1>2, <1>5 DEF NoItem
      <3>2. (kind = "reasoning" => nextIndex = reasoningItem')
            /\ (kind # "reasoning" => nextIndex # reasoningItem')
        BY <1>2
      <3> QED
        BY <1>3, <1>8, <2>1, <2>2, <3>1, <3>2
    <2>3. CASE v # e.call
      <3>1. items[DutyKey(v)] # reasoningItem => items[DutyKey(v)] # reasoningItem'
        BY <1>7, <2>1, <2>3
      <3>2. Thinks(v) => reasoningItem' = reasoningItem
        BY <1>11, <2>3
      <3> QED
        BY <1>7, <2>1, <2>3, <3>1, <3>2
    <2> QED
      BY <2>2, <2>3
  <1>13. OpenInv'
    <2> SUFFICES ASSUME NEW i \in 1 .. Len(client'), client'[i].dones = 0
                 PROVE  \E v \in Sources : OwedBy(v, i)'
      BY DEF OpenInv
    <2>1. CASE i = nextIndex + 1
      <3>1. Owes(e.call)' /\ DutyKey(e.call)' = e.key
        BY <1>9, <1>10
      <3>2. OwedBy(e.call, i)'
        BY <1>1, <1>9, <2>1, <3>1 DEF OwedBy
      <3> QED
        BY <3>2
    <2>2. CASE i \in 1 .. nextIndex
      <3>1. client[i].dones = 0
        BY <1>1, <2>2
      <3>2. PICK v \in Sources : OwedBy(v, i)
        BY <1>2, <2>2, <3>1 DEF FinishInv, OpenInv
      <3>3. Owes(v) /\ v # e.call /\ items[DutyKey(v)] + 1 = i
        BY <3>2 DEF OwedBy
      <3>4. Owes(v)' /\ DutyKey(v)' = DutyKey(v)
        BY <1>9, <1>10, <3>3
      <3>5. items'[DutyKey(v)] = items[DutyKey(v)]
        BY <1>7, <3>3
      <3>6. OwedBy(v, i)'
        BY <1>9, <3>3, <3>4, <3>5 DEF OwedBy
      <3> QED
        BY <3>6
    <2> QED
      BY <1>6, <2>1, <2>2
  <1>14. ItemInv'
    <2>1. ASSUME NEW i \in 1 .. Len(client')
          PROVE  /\ client'[i].dones \in {0, 1}
                 /\ client'[i].late => client'[i].kind = "reasoning" /\ client'[i].dones = 1
                 /\ client'[i].kind = "reasoning" <=> reasoningItem' = i - 1
                 /\ client'[i].kind = "reasoning" => client'[i].call = NoCall
      <3>1. CASE i = nextIndex + 1
        <4>1. reasoningItem' = i - 1 <=> kind = "reasoning"
          BY <1>2, <3>1
        <4> QED
          BY <1>3, <1>5, <3>1, <4>1
      <3>2. CASE i \in 1 .. nextIndex
        <4>1. /\ client[i].dones \in {0, 1}
              /\ client[i].late => client[i].kind = "reasoning" /\ client[i].dones = 1
              /\ client[i].kind = "reasoning" <=> reasoningItem = i - 1
              /\ client[i].kind = "reasoning" => client[i].call = NoCall
          BY <1>2, <3>2 DEF FinishInv, ItemInv
        <4>2. reasoningItem' = i - 1 <=> reasoningItem = i - 1
          BY <1>2, <3>2 DEF NoItem
        <4> QED
          BY <1>1, <3>2, <4>1, <4>2
      <3> QED
        BY <1>6, <3>1, <3>2
    <2>2. reasoningItem' # NoItem => (reasoningDone' <=> client'[reasoningItem' + 1].dones = 1)
      <3>1. CASE kind = "reasoning"
        <4>1. ~reasoningDone
          BY <3>1 DEF FinishInv, ItemInv
        <4> QED
          BY <1>3, <1>5, <3>1, <4>1
      <3>2. CASE kind # "reasoning" /\ reasoningItem # NoItem
        <4>1. reasoningItem + 1 \in 1 .. nextIndex
          BY <1>2, <3>2 DEF NoItem
        <4> QED
          BY <1>1, <3>2, <4>1 DEF FinishInv, ItemInv
      <3> QED
        BY <3>1, <3>2
    <2>3. reasoningDone' => reasoningItem' # NoItem
      BY DEF FinishInv, ItemInv
    <2> QED
      BY <2>1, <2>2, <2>3 DEF ItemInv
  <1>15. ListedInv'
    <2>1. \A i \in 1 .. nextIndex : Listed(i)' <=> Listed(i)
      BY <1>1 DEF Listed
    <2>2. ASSUME NEW i, i = nextIndex + 1 PROVE Listed(i)' <=> kind = "reasoning"
      BY <1>3, <1>5, <2>2 DEF Listed
    <2>3. /\ \A n \in 1 .. Len(outputItems) :
               outputItems[n] \in Nat /\ outputItems[n] < nextIndex /\ Listed(outputItems[n] + 1)
          /\ \A n, m \in 1 .. Len(outputItems) : outputItems[n] = outputItems[m] => n = m
          /\ \A i \in 1 .. nextIndex :
               Listed(i) => \E n \in 1 .. Len(outputItems) : outputItems[n] = i - 1
      BY <1>2 DEF FinishInv, ListedInv
    <2>4. ASSUME NEW o, NEW n \in 1 .. Len(outputItems), o = outputItems[n]
          PROVE  o < Len(client') /\ Listed(o + 1)'
      <3>1. o \in Nat /\ o < nextIndex /\ Listed(o + 1)
        BY <2>3, <2>4
      <3>2. o + 1 \in 1 .. nextIndex
        BY <1>2, <3>1
      <3> QED
        BY <1>1, <1>2, <2>1, <3>1, <3>2
    <2>5. CASE kind # "reasoning"
      <3>1. outputItems' = outputItems
        BY <2>5
      <3> QED
        BY <1>6, <2>1, <2>2, <2>3, <2>4, <2>5, <3>1 DEF ListedInv
    <2>6. CASE kind = "reasoning"
      <3> DEFINE m == Len(outputItems) + 1
      <3>1. outputItems' = Append(outputItems, nextIndex)
        BY <2>6
      <3>2. /\ Len(outputItems') = m /\ outputItems'[m] = nextIndex
            /\ \A n \in 1 .. Len(outputItems) : outputItems'[n] = outputItems[n]
            /\ \A n \in 1 .. m : n = m \/ n \in 1 .. Len(outputItems)
            /\ m \in 1 .. m /\ \A n \in 1 .. Len(outputItems) : n \in 1 .. m
        BY <1>2, <3>1
      <3> HIDE DEF m
      <3>3. \A n \in 1 .. m : \A o : o = outputItems'[n] => o < Len(client') /\ Listed(o + 1)'
        <4> SUFFICES ASSUME NEW n \in 1 .. m, NEW o, o = outputItems'[n]
                     PROVE  o < Len(client') /\ Listed(o + 1)'
          OBVIOUS
        <4>1. CASE n = m
          BY <1>1, <1>2, <2>2, <2>6, <3>2, <4>1
        <4>2. CASE n \in 1 .. Len(outputItems)
          BY <2>4, <3>2, <4>2
        <4> QED
          BY <3>2, <4>1, <4>2
      <3>4. \A n, l \in 1 .. m : outputItems'[n] = outputItems'[l] => n = l
        <4>1. \A n \in 1 .. Len(outputItems) : outputItems'[n] # outputItems'[m]
          BY <1>2, <2>3, <3>2
        <4>2. \A n, l \in 1 .. Len(outputItems) : outputItems'[n] = outputItems'[l] => n = l
          BY <2>3, <3>2
        <4> QED
          BY <3>2, <4>1, <4>2
      <3>5. \A i \in 1 .. Len(client') : Listed(i)' => \E n \in 1 .. m : outputItems'[n] = i - 1
        <4> SUFFICES ASSUME NEW i \in 1 .. Len(client'), Listed(i)'
                     PROVE  \E n \in 1 .. m : outputItems'[n] = i - 1
          OBVIOUS
        <4>1. CASE i = nextIndex + 1
          BY <1>2, <3>2, <4>1
        <4>2. CASE i \in 1 .. nextIndex
          BY <2>1, <2>3, <3>2, <4>2
        <4> QED
          BY <1>6, <4>1, <4>2
      <3> QED
        BY <3>2, <3>3, <3>4, <3>5 DEF ListedInv
    <2> QED
      BY <2>5, <2>6
  <1> QED
    BY <1>12, <1>13, <1>14, <1>15

(* A further segment of thoughts starts, in the item of the first.         *)
LEMMA SharedItem ==
  ASSUME ComposerTypeOK, Indexed, FinishInv, NEW e, e = Head(pending), e.key \in Keys,
         e.type = "ReasoningStarted", e.call \in Sources,
         Owes(e.call), DutyKey(e.call) = e.key, Advance(e.call, e.type), e.call = NoCall,
         \A v \in Sources : Owes(v) => DutyKey(v) \in Keys,
         \A j : Opening(j) <=> j = e.key,
         reasoningItem # NoItem, items' = [items EXCEPT ![e.key] = reasoningItem],
         UNCHANGED <<nextIndex, outputItems, reasoningItem, reasoningDone, client>>
  PROVE  DutyInv' /\ OpenInv' /\ ItemInv' /\ ListedInv'
  <1>1. /\ items'[e.key] = reasoningItem
        /\ \A k \in Keys : k # e.key => items'[k] = items[k]
    BY DEF ComposerTypeOK
  <1>2. \A v \in Sources : (Owes(v)' <=> Owes(v)) /\ ~Opening(DutyKey(v))'
    BY ClosingListed DEF Advance
  <1>3. \A v \in Sources : Owes(v)' => DutyKey(v)' = DutyKey(v) /\ (Thinks(v)' <=> Thinks(v))
    BY DEF Advance
  <1>4. \A v \in Sources : Owes(v) /\ v # e.call => ~Opening(DutyKey(v)) /\ DutyKey(v) # e.key
    BY DutyFacts
  <1>5. Thinks(e.call)
    BY DutyFacts
  <1>6. client[reasoningItem + 1].call = NoCall
    <2>1. reasoningItem + 1 \in 1 .. Len(client) /\ reasoningItem = (reasoningItem + 1) - 1
      BY DEF ComposerTypeOK, Indexed, NoItem
    <2> QED
      BY <2>1 DEF FinishInv, ItemInv
  <1>7. DutyInv'
    <2> SUFFICES ASSUME NEW v \in Sources, Owes(v)'
                 PROVE  (/\ items[DutyKey(v)] # NoItem
                         /\ client[items[DutyKey(v)] + 1].call = v
                         /\ Thinks(v) => items[DutyKey(v)] = reasoningItem
                         /\ ~Thinks(v) => /\ client[items[DutyKey(v)] + 1].dones = 0
                                          /\ items[DutyKey(v)] # reasoningItem)'
      BY <1>2 DEF DutyInv
    <2>1. DutyKey(v)' = DutyKey(v) /\ (Thinks(v)' <=> Thinks(v)) /\ Owes(v)
      BY <1>2, <1>3
    <2>2. CASE v = e.call
      BY <1>1, <1>5, <1>6, <2>1, <2>2
    <2>3. CASE v # e.call
      <3>1. items'[DutyKey(v)] = items[DutyKey(v)]
        BY <1>1, <1>4, <2>1, <2>3
      <3> QED
        BY <1>4, <2>1, <2>3, <3>1, DutyFacts
    <2> QED
      BY <2>2, <2>3
  <1>8. OpenInv'
    <2> SUFFICES ASSUME NEW i \in 1 .. Len(client), client[i].dones = 0
                 PROVE  \E v \in Sources : OwedBy(v, i)'
      BY DEF OpenInv
    <2>1. PICK v \in Sources : OwedBy(v, i)
      BY DEF FinishInv, OpenInv
    <2>2. Owes(v) /\ v # e.call /\ items[DutyKey(v)] + 1 = i
      BY <2>1 DEF OwedBy
    <2>3. Owes(v)' /\ DutyKey(v)' = DutyKey(v) /\ items'[DutyKey(v)] = items[DutyKey(v)]
      BY <1>1, <1>2, <1>3, <1>4, <2>2
    <2>4. OwedBy(v, i)'
      BY <1>2, <2>2, <2>3 DEF OwedBy
    <2> QED
      BY <2>4
  <1>9. ItemInv' /\ ListedInv'
    BY DEF FinishInv, ItemInv, ListedInv, Listed
  <1> QED
    BY <1>7, <1>8, <1>9

(* A frame about the item s that w owes: it leaves it open, or finishes it.*)
Frame(w, t, r, s) ==
  /\ Owes(w) /\ s = items[DutyKey(w)] + 1
  /\ client' = [client EXCEPT ![s] = r]
  /\ r.call = client[s].call /\ r.kind = client[s].kind
  /\ t \in ClosingTypes => r.dones = 1
  /\ t \notin ClosingTypes => r.dones = client[s].dones
  /\ UNCHANGED <<items, nextIndex, reasoningItem>>

(* A frame touches the item of the source its event is about, and no other.*)
LEMMA TouchedItem ==
  ASSUME ComposerTypeOK, Indexed, FinishInv,
         \A v \in Sources : Owes(v) => DutyKey(v) \in Keys /\ ~Opening(DutyKey(v)),
         NEW w \in Sources, NEW t, NEW r \in ClientItem, NEW s, Advance(w, t), Frame(w, t, r, s)
  PROVE  /\ s \in 1 .. Len(client) /\ Len(client') = Len(client) /\ client'[s] = r
         /\ \A i \in 1 .. Len(client) : i # s => client'[i] = client[i]
         /\ client[s] \in ClientItem /\ client[s].call = w
         /\ Thinks(w) <=> s = reasoningItem + 1
         /\ Thinks(w) \/ client[s].dones = 0
         /\ DutyInv' /\ OpenInv'
  <1>0. /\ Owes(w) /\ ~Opening(DutyKey(w)) /\ s = items[DutyKey(w)] + 1
        /\ client' = [client EXCEPT ![s] = r]
        /\ r.call = client[s].call /\ r.kind = client[s].kind
        /\ t \in ClosingTypes => r.dones = 1
        /\ t \notin ClosingTypes => r.dones = client[s].dones
        /\ UNCHANGED <<items, nextIndex, reasoningItem>>
    BY DEF Frame
  <1>1. /\ items[DutyKey(w)] # NoItem
        /\ client[s].call = w
        /\ Thinks(w) => items[DutyKey(w)] = reasoningItem
        /\ ~Thinks(w) => /\ client[s].dones = 0
                         /\ items[DutyKey(w)] # reasoningItem
    BY <1>0, <1>0, DutyFacts
  <1>2. s \in 1 .. Len(client) /\ client[s] \in ClientItem /\ items[DutyKey(w)] \in Nat
    BY <1>0, <1>1, DutyItems
  <1>3. client \in Seq(ClientItem) /\ reasoningItem \in Nat \cup {NoItem}
    BY DEF ComposerTypeOK
  <1>4. /\ Len(client') = Len(client) /\ client'[s] = r
        /\ \A i \in 1 .. Len(client) : i # s => client'[i] = client[i]
    BY <1>0, <1>2, <1>3
  <1>5. Thinks(w) <=> s = reasoningItem + 1
    BY <1>0, <1>1, <1>2, <1>3 DEF NoItem
  <1>6. \A v \in Sources : (Owes(v)' <=> Owes(v) /\ ~(v = w /\ t \in ClosingTypes)) /\ ~Opening(DutyKey(v))'
    BY DEF Advance
  <1>7. \A v \in Sources : Owes(v)' => DutyKey(v)' = DutyKey(v) /\ (Thinks(v)' <=> Thinks(v))
    BY DEF Advance
  <1>8. ASSUME NEW v \in Sources, Owes(v), v # w
        PROVE  /\ items[DutyKey(v)] # NoItem
               /\ client'[items[DutyKey(v)] + 1] = client[items[DutyKey(v)] + 1]
               /\ client[items[DutyKey(v)] + 1].call = v
               /\ Thinks(v) => items[DutyKey(v)] = reasoningItem
               /\ ~Thinks(v) => /\ client[items[DutyKey(v)] + 1].dones = 0
                                /\ items[DutyKey(v)] # reasoningItem
    <2>1. /\ items[DutyKey(v)] # NoItem
          /\ client[items[DutyKey(v)] + 1].call = v
          /\ Thinks(v) => items[DutyKey(v)] = reasoningItem
          /\ ~Thinks(v) => /\ client[items[DutyKey(v)] + 1].dones = 0
                           /\ items[DutyKey(v)] # reasoningItem
      BY <1>0, <1>8, DutyFacts
    <2>2. items[DutyKey(v)] + 1 \in 1 .. Len(client)
      BY <1>0, <1>8, <2>1, DutyItems
    <2>3. items[DutyKey(v)] + 1 # s
      BY <1>0, <1>1, <1>8, <2>1
    <2> QED
      BY <1>0, <1>4, <2>1, <2>2, <2>3
  <1>9. DutyInv'
    <2> SUFFICES ASSUME NEW v \in Sources, Owes(v)'
                 PROVE  (/\ items[DutyKey(v)] # NoItem
                         /\ client[items[DutyKey(v)] + 1].call = v
                         /\ Thinks(v) => items[DutyKey(v)] = reasoningItem
                         /\ ~Thinks(v) => /\ client[items[DutyKey(v)] + 1].dones = 0
                                          /\ items[DutyKey(v)] # reasoningItem)'
      BY <1>0, <1>6 DEF DutyInv
    <2>1. DutyKey(v)' = DutyKey(v) /\ (Thinks(v)' <=> Thinks(v)) /\ Owes(v)
      BY <1>0, <1>6, <1>7
    <2>2. CASE v = w
      <3>1. t \notin ClosingTypes
        BY <1>0, <1>6, <2>2
      <3>2. r.call = w /\ r.dones = client[s].dones
        BY <1>0, <1>1, <3>1
      <3> QED
        BY <1>0, <1>1, <1>4, <2>1, <2>2, <3>2
    <2>3. CASE v # w
      BY <1>0, <1>8, <2>1, <2>3
    <2> QED
      BY <1>0, <2>2, <2>3
  <1>10. OpenInv'
    <2> SUFFICES ASSUME NEW i \in 1 .. Len(client), client'[i].dones = 0
                 PROVE  \E v \in Sources : OwedBy(v, i)'
      BY <1>0, <1>4 DEF OpenInv
    <2>1. client[i].dones = 0 /\ (t \in ClosingTypes => i # s)
      BY <1>0, <1>4
    <2>2. PICK v \in Sources : OwedBy(v, i)
      BY <1>0, <2>1 DEF FinishInv, OpenInv
    <2>3. Owes(v) /\ items[DutyKey(v)] + 1 = i /\ ~(v = w /\ t \in ClosingTypes)
      BY <1>0, <2>1, <2>2 DEF OwedBy
    <2>4. Owes(v)' /\ DutyKey(v)' = DutyKey(v)
      BY <1>0, <1>6, <1>7, <2>3
    <2>5. OwedBy(v, i)'
      BY <1>0, <1>6, <2>3, <2>4 DEF OwedBy
    <2> QED
      BY <1>0, <2>5
  <1> QED
    BY <1>0, <1>1, <1>2, <1>4, <1>5, <1>9, <1>10

(* What the composer's update of an announced item changes.                *)
LEMMA FrameFields ==
  ASSUME NEW it \in ClientItem, NEW e
  PROVE  /\ \A r \in {Streamed(it, e), Noticed(it, e), Finished(it, e), Segment(it, e)} :
              /\ r.kind = it.kind /\ r.call = it.call
              /\ r.late <=> it.late \/ it.dones > 0
         /\ Streamed(it, e).dones = it.dones /\ Noticed(it, e).dones = it.dones
         /\ Finished(it, e).dones = it.dones + 1
         /\ Segment(it, e).dones =
              IF OwnSegment(e) /\ ~reasoningDone THEN it.dones + 1 ELSE it.dones
  <1> DEFINE t == Touched(it)
  <1>1. /\ t \in ClientItem /\ t.kind = it.kind /\ t.call = it.call /\ t.dones = it.dones
        /\ t.late <=> it.late \/ it.dones > 0
    BY DEF Touched, ClientItem
  <1> HIDE DEF t
  <1>2. ASSUME NEW x
        PROVE  /\ [t EXCEPT !.sent = x].kind = t.kind /\ [t EXCEPT !.sent = x].call = t.call
               /\ [t EXCEPT !.sent = x].late = t.late /\ [t EXCEPT !.sent = x].dones = t.dones
    BY <1>1 DEF ClientItem
  <1>3. ASSUME NEW x
        PROVE  /\ [t EXCEPT !.text = x].kind = t.kind /\ [t EXCEPT !.text = x].call = t.call
               /\ [t EXCEPT !.text = x].late = t.late /\ [t EXCEPT !.text = x].dones = t.dones
    BY <1>1 DEF ClientItem
  <1>4. ASSUME NEW x, NEW y
        PROVE  LET r == [t EXCEPT !.text = x, !.dones = y]
               IN r.kind = t.kind /\ r.call = t.call /\ r.late = t.late /\ r.dones = y
    BY <1>1 DEF ClientItem
  <1> DEFINE x == it.sent + e.text
             y == FinalText(it, e)
             n == it.dones + 1
             z == IF OwnSegment(e) THEN it.text + e.text ELSE it.text
             m == IF OwnSegment(e) /\ ~reasoningDone THEN it.dones + 1 ELSE it.dones
  <1>5. /\ Streamed(it, e) = [t EXCEPT !.sent = x]
        /\ Noticed(it, e) = [t EXCEPT !.text = y]
        /\ Finished(it, e) = [t EXCEPT !.text = y, !.dones = n]
        /\ Segment(it, e) = [t EXCEPT !.text = z, !.dones = m]
    BY DEF Streamed, Noticed, Finished, Segment, t
  <1>6. Streamed(it, e).dones = it.dones /\ Noticed(it, e).dones = it.dones
        /\ Finished(it, e).dones = n /\ Segment(it, e).dones = m
    <2> HIDE DEF x, y, z, n, m
    <2> QED
      BY <1>1, <1>2, <1>3, <1>4, <1>5
  <1>7. \A r \in {Streamed(it, e), Noticed(it, e), Finished(it, e), Segment(it, e)} :
           r.kind = it.kind /\ r.call = it.call /\ r.late = t.late
    <2> HIDE DEF x, y, z, n, m
    <2>1. LET r == Streamed(it, e) IN r.kind = it.kind /\ r.call = it.call /\ r.late = t.late
      BY <1>1, <1>2, <1>5
    <2>2. LET r == Noticed(it, e) IN r.kind = it.kind /\ r.call = it.call /\ r.late = t.late
      BY <1>1, <1>3, <1>5
    <2>3. LET r == Finished(it, e) IN r.kind = it.kind /\ r.call = it.call /\ r.late = t.late
      BY <1>1, <1>4, <1>5
    <2>4. LET r == Segment(it, e) IN r.kind = it.kind /\ r.call = it.call /\ r.late = t.late
      BY <1>1, <1>4, <1>5
    <2> QED
      BY <2>1, <2>2, <2>3, <2>4
  <1> QED
    BY <1>1, <1>6, <1>7

(* The event types of words and those of calls.                            *)
LEMMA MessagesAndCalls ==
  \A t \in StartTypes \ {"ReasoningStarted"} : StartedKind[t] # "reasoning"
  BY DEF StartTypes, StartedKind

(* Feeding any event keeps what is owed and what the reader has.           *)
LEMMA FeedFinish ==
  ASSUME TypeInv, KeyInv, FinishInv, FeedPending
  PROVE  FinishInv'
  <1>1. PICK e : e = Head(pending)
    OBVIOUS
  <1>2. PICK w : w = e.call
    OBVIOUS
  <1>3. PICK s : s = items[e.key] + 1
    OBVIOUS
  <1>4. /\ e \in ItemEvent /\ Feed(e) /\ ComposerTypeOK /\ Indexed
        /\ w \in Sources /\ e.key \in Keys /\ Owes(w) /\ DutyKey(w) = e.key
        /\ e.type \in ReasonTypes => w = NoCall
        /\ e.type \in ClosingTypes => (Thinks(w) <=> e.type \in ReasonTypes)
        /\ Advance(w, e.type)
        /\ \A v \in Sources : Owes(v) => DutyKey(v) \in Keys
        /\ \A j : Opening(j) <=> e.type \in StartTypes /\ j = e.key
        /\ EventsInv' /\ KindInv' /\ FinalInv'
    BY <1>1, <1>2, FeedDuties
  <1>5. DutyInv' /\ OpenInv' /\ ItemInv' /\ ListedInv'
    <2>1. CASE e.type \in StartTypes
      <3>3. CASE StartItem(e)
        <4>1. /\ AddItem(e, StartedKind[e.type]) /\ StartedKind[e.type] \in ItemKinds
              /\ StartedKind[e.type] # "reasoning" /\ e.type # "ReasoningStarted"
              /\ UNCHANGED <<outputItems, reasoningItem, reasoningDone>>
          BY <2>1, <3>3, StartedKindType, MessagesAndCalls DEF StartItem
        <4>2. PICK kind \in ItemKinds : kind = StartedKind[e.type]
          BY <4>1
        <4> QED
          BY <1>1, <1>2, <1>4, <2>1, <4>1, <4>2, NewItem
      <3>4. CASE StartReasoning(e) /\ reasoningItem = NoItem
        <4>1. /\ AddItem(e, "reasoning") /\ "reasoning" \in ItemKinds
              /\ e.type = "ReasoningStarted" /\ reasoningItem' = nextIndex
              /\ outputItems' = Append(outputItems, nextIndex) /\ reasoningDone' = reasoningDone
          BY <3>4 DEF StartReasoning, ItemKinds
        <4>2. e.call = NoCall
          BY <1>2, <1>4, <4>1 DEF ReasonTypes
        <4> QED
          BY <1>1, <1>2, <1>4, <2>1, <3>4, <4>1, <4>2, NewItem
      <3>5. CASE StartReasoning(e) /\ reasoningItem # NoItem
        <4>1. /\ e.type = "ReasoningStarted" /\ items' = [items EXCEPT ![e.key] = reasoningItem]
              /\ UNCHANGED <<nextIndex, outputItems, reasoningItem, reasoningDone, client>>
          BY <3>5 DEF StartReasoning
        <4>2. e.call = NoCall
          BY <1>2, <1>4, <4>1 DEF ReasonTypes
        <4> QED
          BY <1>1, <1>2, <1>4, <2>1, <3>5, <4>1, <4>2, SharedItem
      <3> QED
        BY <1>4, <2>1, <3>3, <3>4, <3>5, LaterTypes
        DEF Feed, ItemDelta, ItemNotice, FinishItem, FinishReasoning
    <2>2. CASE e.type \notin StartTypes
      <3>1. \A v \in Sources : ~Opening(DutyKey(v))
        BY <1>4, <2>2
      <3>2. PICK t : t = e.type
        OBVIOUS
      <3>3. Advance(w, t)
        BY <1>4, <3>2
      <3>4. s = Slot(e) /\ s = items[DutyKey(w)] + 1
        BY <1>3, <1>4 DEF Slot
      <3>5. client[s] \in ClientItem /\ s \in 1 .. Len(client)
        BY <1>4, <3>1, <3>4, DutyFacts, DutyItems
      <3>6. PICK it : it = client[s]
        OBVIOUS
      <3>7. /\ it \in ClientItem /\ it.dones \in {0, 1}
            /\ it.late => it.kind = "reasoning" /\ it.dones = 1
            /\ it.kind = "reasoning" <=> s = reasoningItem + 1
            /\ it.kind = "reasoning" => it.call = NoCall
            /\ Thinks(w) <=> s = reasoningItem + 1
            /\ Thinks(w) \/ it.dones = 0
            /\ reasoningDone => reasoningItem # NoItem
            /\ s = reasoningItem + 1 => (reasoningDone <=> it.dones = 1)
        <4>1. reasoningItem \in Nat \cup {NoItem} /\ s \in Nat /\ s > 0 /\ items[e.key] = s - 1
          BY <1>3, <1>4, <3>5 DEF ComposerTypeOK, NoItem
        <4>2. reasoningItem = s - 1 <=> s = reasoningItem + 1
          BY <4>1 DEF NoItem
        <4>3. s = reasoningItem + 1 => reasoningItem # NoItem
          BY <4>1 DEF NoItem
        <4>4. /\ it.dones \in {0, 1}
              /\ it.late => it.kind = "reasoning" /\ it.dones = 1
              /\ it.kind = "reasoning" <=> reasoningItem = s - 1
              /\ it.kind = "reasoning" => it.call = NoCall
              /\ reasoningItem # NoItem => (reasoningDone <=> client[reasoningItem + 1].dones = 1)
              /\ reasoningDone => reasoningItem # NoItem
          BY <3>5, <3>6 DEF FinishInv, ItemInv
        <4>5. /\ Thinks(w) => items[e.key] = reasoningItem
              /\ ~Thinks(w) => it.dones = 0 /\ items[e.key] # reasoningItem
          BY <1>4, <3>1, <3>4, <3>6, DutyFacts
        <4> QED
          BY <3>5, <3>6, <4>1, <4>2, <4>3, <4>4, <4>5
      <3>8. UNCHANGED <<items, nextIndex, reasoningItem>>
        BY <1>4, <2>2, StartTypesListed DEF Feed, StartItem, StartReasoning, ItemDelta, ItemNotice,
                                    FinishItem, FinishReasoning
      (* The record after the frame, by kind of event.                     *)
      <3>9. PICK r \in ClientItem :
              /\ client' = [client EXCEPT ![s] = r]
              /\ r.kind = it.kind /\ r.call = it.call /\ (r.late <=> it.late \/ it.dones > 0)
              /\ IF t \in ClosingTypes THEN r.dones = 1 ELSE r.dones = it.dones
              /\ t \in ClosingTypes /\ ~Thinks(w) => outputItems' = Append(outputItems, s - 1)
              /\ ~(t \in ClosingTypes /\ ~Thinks(w)) => outputItems' = outputItems
              /\ reasoningDone' <=> reasoningDone \/ (t \in ClosingTypes /\ Thinks(w))
        <4>1. \A r \in {Streamed(it, e), Noticed(it, e), Finished(it, e), Segment(it, e)} :
                /\ r \in ClientItem
                /\ r.kind = it.kind /\ r.call = it.call /\ (r.late <=> it.late \/ it.dones > 0)
          <5>1. ASSUME NEW r \in {Streamed(it, e), Noticed(it, e), Finished(it, e), Segment(it, e)}
                PROVE  r \in ClientItem
            BY <1>4, <3>7, <5>1, UpdatedItem
          <5>2. ASSUME NEW r \in {Streamed(it, e), Noticed(it, e), Finished(it, e), Segment(it, e)}
                PROVE  r.kind = it.kind /\ r.call = it.call /\ (r.late <=> it.late \/ it.dones > 0)
            BY <3>7, <5>2, FrameFields
          <5> QED
            BY <5>1, <5>2
        <4>2. /\ Streamed(it, e).dones = it.dones /\ Noticed(it, e).dones = it.dones
              /\ Finished(it, e).dones = it.dones + 1
              /\ Segment(it, e).dones =
                   IF OwnSegment(e) /\ ~reasoningDone THEN it.dones + 1 ELSE it.dones
          BY <3>7, FrameFields
        <4>3. CASE ItemDelta(e)
          <5>1. t \notin ClosingTypes /\ client' = [client EXCEPT ![s] = Streamed(it, e)]
                /\ UNCHANGED <<outputItems, reasoningDone>>
            BY <3>2, <3>4, <3>6, <4>3, NotClosing DEF ItemDelta
          <5> QED
            BY <4>1, <4>2, <5>1
        <4>4. CASE ItemNotice(e)
          <5>1. t \notin ClosingTypes /\ client' = [client EXCEPT ![s] = Noticed(it, e)]
                /\ UNCHANGED <<outputItems, reasoningDone>>
            BY <3>2, <3>4, <3>6, <4>4, NotClosing DEF ItemNotice
          <5> QED
            BY <4>1, <4>2, <5>1
        <4>5. CASE FinishItem(e)
          <5>1. /\ t \in ClosingTypes /\ client' = [client EXCEPT ![s] = Finished(it, e)]
                /\ outputItems' = Append(outputItems, items[e.key]) /\ reasoningDone' = reasoningDone
            BY <3>2, <3>4, <3>6, <4>5 DEF FinishItem, ClosingTypes
          <5>2. ~Thinks(w)
            BY <1>4, <4>5 DEF FinishItem, FinishTypes, ClosingTypes, ReasonTypes
          <5>3. items[e.key] = s - 1
            BY <1>3, <1>4, <3>5 DEF ComposerTypeOK, NoItem
          <5>4. Finished(it, e).dones = 1
            BY <3>7, <4>2, <5>2
          <5> QED
            BY <4>1, <5>1, <5>2, <5>3, <5>4
        <4>6. CASE FinishReasoning(e)
          <5>1. /\ t \in ClosingTypes /\ client' = [client EXCEPT ![s] = Segment(it, e)]
                /\ reasoningDone' = (reasoningDone \/ OwnSegment(e)) /\ outputItems' = outputItems
            BY <3>2, <3>4, <3>6, <4>6 DEF FinishReasoning, ClosingTypes
          <5>2. Thinks(w)
            BY <1>4, <4>6 DEF FinishReasoning, ClosingTypes, ReasonTypes
          <5>3. OwnSegment(e)
            BY <1>4, <3>1, <5>2, DutyFacts DEF OwnSegment
          <5>4. Segment(it, e).dones = 1
            BY <3>7, <4>2, <5>2, <5>3
          <5> QED
            BY <4>1, <5>1, <5>2, <5>3, <5>4
        <4> QED
          BY <1>4, <2>2, <4>3, <4>4, <4>5, <4>6, StartTypesListed DEF Feed, StartItem, StartReasoning
      <3>10. /\ Len(client') = Len(client) /\ client'[s] = r
             /\ \A i \in 1 .. Len(client) : i # s => client'[i] = client[i]
             /\ DutyInv' /\ OpenInv'
        <4>1. Frame(w, t, r, s)
          BY <1>4, <3>4, <3>6, <3>8, <3>9 DEF Frame
        <4>2. \A v \in Sources : Owes(v) => DutyKey(v) \in Keys /\ ~Opening(DutyKey(v))
          BY <1>4, <3>1
        <4> QED
          BY <1>4, <3>3, <3>9, <4>1, <4>2, TouchedItem
      <3>11. ItemInv'
        <4>1. ASSUME NEW i \in 1 .. Len(client)
              PROVE  /\ client'[i].dones \in {0, 1}
                     /\ client'[i].late => client'[i].kind = "reasoning" /\ client'[i].dones = 1
                     /\ client'[i].kind = "reasoning" <=> reasoningItem = i - 1
                     /\ client'[i].kind = "reasoning" => client'[i].call = NoCall
          <5>1. CASE i = s
            <6>1. client'[i] = r /\ (reasoningItem = i - 1 <=> s = reasoningItem + 1)
              BY <1>4, <3>5, <3>10, <5>1 DEF ComposerTypeOK, NoItem
            <6> QED
              BY <3>7, <3>9, <6>1
          <5>2. CASE i # s
            BY <3>10, <5>2 DEF FinishInv, ItemInv
          <5> QED
            BY <5>1, <5>2
        <4>2. reasoningItem # NoItem => (reasoningDone' <=> client'[reasoningItem + 1].dones = 1)
          <5> SUFFICES ASSUME reasoningItem # NoItem
                       PROVE  reasoningDone' <=> client'[reasoningItem + 1].dones = 1
            OBVIOUS
          <5>1. reasoningItem + 1 \in 1 .. Len(client)
            BY <1>4 DEF ComposerTypeOK, Indexed, NoItem
          <5>2. CASE s = reasoningItem + 1
            BY <3>7, <3>9, <3>10, <5>2
          <5>3. CASE s # reasoningItem + 1
            BY <3>7, <3>9, <3>10, <5>1, <5>3 DEF FinishInv, ItemInv
          <5> QED
            BY <5>2, <5>3
        <4>3. reasoningDone' => reasoningItem # NoItem
          <5>1. Thinks(w) => reasoningItem # NoItem
            BY <3>5, <3>7 DEF NoItem
          <5> QED
            BY <3>7, <3>9, <5>1
        <4> QED
          BY <3>8, <3>10, <4>1, <4>2, <4>3 DEF ItemInv
      <3>12. ListedInv'
        <4>1. \A i \in 1 .. Len(client) : i # s => (Listed(i)' <=> Listed(i))
          BY <3>10 DEF Listed
        <4>2. CASE ~(t \in ClosingTypes /\ ~Thinks(w))
          <5>1. Listed(s)' <=> Listed(s)
            BY <3>6, <3>7, <3>9, <3>10, <4>2 DEF Listed
          <5>2. \A i \in 1 .. Len(client) : Listed(i)' <=> Listed(i)
            BY <4>1, <5>1
          <5>3. outputItems' = outputItems /\ outputItems \in Seq(Nat) /\ Len(client) \in Nat
            BY <1>4, <3>9, <4>2 DEF ComposerTypeOK
          <5>4. ASSUME NEW n \in 1 .. Len(outputItems), NEW o, o = outputItems'[n]
                PROVE  o < Len(client) /\ Listed(o + 1)'
            <6>1. o \in Nat /\ o < Len(client) /\ Listed(o + 1)
              BY <5>3, <5>4 DEF FinishInv, ListedInv
            <6> QED
              BY <5>2, <5>3, <6>1
          <5>5. \A n, l \in 1 .. Len(outputItems) : outputItems'[n] = outputItems'[l] => n = l
            BY <5>3 DEF FinishInv, ListedInv
          <5>6. \A i \in 1 .. Len(client) :
                  Listed(i)' => \E n \in 1 .. Len(outputItems) : outputItems'[n] = i - 1
            BY <5>2, <5>3 DEF FinishInv, ListedInv
          <5> QED
            BY <3>10, <5>3, <5>4, <5>5, <5>6 DEF ListedInv
        <4>3. CASE t \in ClosingTypes /\ ~Thinks(w)
          <5> DEFINE m == Len(outputItems) + 1
          <5>1. outputItems \in Seq(Nat) /\ s \in Nat /\ s - 1 \in Nat
            BY <1>3, <1>4, <3>5 DEF ComposerTypeOK, NoItem
          <5>2. outputItems' = Append(outputItems, s - 1)
            BY <3>9, <4>3
          <5>3. /\ Len(outputItems') = m /\ outputItems'[m] = s - 1
                /\ \A n \in 1 .. Len(outputItems) : outputItems'[n] = outputItems[n]
                /\ \A n \in 1 .. m : n = m \/ n \in 1 .. Len(outputItems)
                /\ m \in 1 .. m /\ \A n \in 1 .. Len(outputItems) : n \in 1 .. m
            BY <5>1, <5>2
          <5> HIDE DEF m
          <5>4. Listed(s)' /\ ~Listed(s)
            BY <3>6, <3>7, <3>9, <3>10, <4>3 DEF Listed
          <5>5. /\ \A n \in 1 .. Len(outputItems) :
                     outputItems[n] \in Nat /\ outputItems[n] < Len(client) /\ Listed(outputItems[n] + 1)
                /\ \A n, l \in 1 .. Len(outputItems) : outputItems[n] = outputItems[l] => n = l
                /\ \A i \in 1 .. Len(client) :
                     Listed(i) => \E n \in 1 .. Len(outputItems) : outputItems[n] = i - 1
            BY <5>1 DEF FinishInv, ListedInv
          <5>6. \A n \in 1 .. Len(outputItems) : outputItems[n] # s - 1
            <6> SUFFICES ASSUME NEW n \in 1 .. Len(outputItems), outputItems[n] = s - 1
                         PROVE  FALSE
              OBVIOUS
            <6>1. outputItems[n] + 1 = s
              BY <5>1
            <6> QED
              BY <5>4, <5>5, <6>1
          <5>7. \A n \in 1 .. m : \A o : o = outputItems'[n] => o < Len(client) /\ Listed(o + 1)'
            <6> SUFFICES ASSUME NEW n \in 1 .. m, NEW o, o = outputItems'[n]
                         PROVE  o < Len(client) /\ Listed(o + 1)'
              OBVIOUS
            <6>1. CASE n = m
              <7>1. o + 1 = s /\ o < Len(client)
                BY <3>5, <5>1, <5>3, <6>1
              <7> QED
                BY <5>4, <7>1
            <6>2. CASE n \in 1 .. Len(outputItems)
              <7>1. o \in Nat /\ o < Len(client) /\ Listed(o + 1) /\ o # s - 1
                BY <5>3, <5>5, <5>6, <6>2
              <7>2. o + 1 \in 1 .. Len(client) /\ o + 1 # s
                BY <1>4, <5>1, <7>1 DEF ComposerTypeOK
              <7> QED
                BY <4>1, <7>1, <7>2
            <6> QED
              BY <5>3, <6>1, <6>2
          <5>8. \A n, l \in 1 .. m : outputItems'[n] = outputItems'[l] => n = l
            <6>1. \A n \in 1 .. Len(outputItems) : outputItems'[n] # outputItems'[m]
              BY <5>3, <5>6
            <6>2. \A n, l \in 1 .. Len(outputItems) : outputItems'[n] = outputItems'[l] => n = l
              BY <5>3, <5>5
            <6> QED
              BY <5>3, <6>1, <6>2
          <5>9. \A i \in 1 .. Len(client) : Listed(i)' => \E n \in 1 .. m : outputItems'[n] = i - 1
            BY <4>1, <5>3, <5>5
          <5> QED
            BY <3>10, <5>3, <5>7, <5>8, <5>9 DEF ListedInv
        <4> QED
          BY <4>2, <4>3
      <3> QED
        BY <3>10, <3>11, <3>12
    <2> QED
      BY <2>1, <2>2
  <1> QED
    BY <1>4, <1>5 DEF FinishInv

(* Every step of the request keeps FinishInv.                              *)
LEMMA FinishStep ==
  ASSUME BuiltinsAnswer, TypeInv, KeyInv, FinishInv, [Next]_vars
  PROVE  FinishInv'
  <1>1. CASE \/ TurnEnd \/ NextTurn \/ RunRaises \/ Build \/ Persist \/ PersistRaises
             \/ FailResponse \/ BreakStream \/ Close \/ Disconnect \/ Over \/ UNCHANGED vars
    <2>1. UNCHANGED <<composerVars, normalizerVars, part, calls>>
      BY <1>1 DEF TurnEnd, NextTurn, RunRaises, Build, Persist, PersistRaises, FailResponse,
                  BreakStream, Close, Disconnect, Over, vars, agentVars
    <2>2. agent' = agent \/ agent' # "model" \/ \A c \in CallIds : calls[c].state # "issued"
      BY <1>1 DEF TurnEnd, NextTurn, RunRaises, Build, Persist, PersistRaises, FailResponse,
                  BreakStream, Close, Disconnect, Over, vars, agentVars, AllAnswered, InState
    <2>3. agent' = "model" => \A c \in CallIds : calls[c].state # "issued"
      BY <2>2 DEF FinishInv, KindInv
    <2>4. \/ UNCHANGED <<engine, status, output>>
          \/ status' \notin {"completed", "incomplete"}
          \/ UNCHANGED <<status, output>> /\ engine' \notin {"building", "running"}
      BY <1>1 DEF TurnEnd, NextTurn, RunRaises, Build, Persist, PersistRaises, FailResponse,
                  BreakStream, Close, Disconnect, Over, vars, engineVars, Breakdown
    <2> QED
      BY <2>1, <2>3, <2>4, FinishKept
  <1>2. CASE PartStart \/ PartDelta \/ PartEnd
    BY <1>2, PartStartFinish, PartDeltaFinish, PartEndFinish
  <1>3. CASE \E c \in CallIds : ToolCall(c) \/ \E result \in Results : ToolResult(c, result)
    BY <1>3, ToolCallFinish, ToolResultFinish
  <1>4. CASE RunResult \/ CompleteResponse \/ FeedPending
    BY <1>4, RunResultFinish, CompleteFinish, FeedFinish
  <1> QED
    BY <1>1, <1>2, <1>3, <1>4 DEF Next

(* A terminal response has no open item.                                   *)
LEMMA NothingOpen ==
  ASSUME FinishInv, Finale
  PROVE  \A i \in 1 .. Len(client) : client[i].dones = 1
  BY DEF FinishInv, FinalInv, OpenInv, OwedBy, ItemInv

(* Of a terminal response, FinishInv says what OutputListsEachItem does.   *)
LEMMA EachListed ==
  ASSUME TypeInv, FinishInv
  PROVE  OutputListsEachItem
  <1> SUFFICES ASSUME Finale
               PROVE  /\ Len(output) = Len(client)
                      /\ {output[n] : n \in DOMAIN output} = 0 .. Len(client) - 1
    BY DEF OutputListsEachItem, Finale
  <1> DEFINE m == Len(output)
             l == Len(client)
  <1>1. output = outputItems
    BY DEF FinishInv, FinalInv
  <1>2. output \in Seq(Nat) /\ m \in Nat /\ DOMAIN output = 1 .. m /\ l \in Nat
    BY DEF TypeInv, TypeOK, ComposerTypeOK, EngineTypeOK
  <1>3. \A i \in 1 .. l : client[i].dones = 1
    BY NothingOpen
  <1>4. \A n \in 1 .. m : output[n] \in Nat /\ output[n] < l
    BY <1>1, <1>2 DEF FinishInv, ListedInv
  <1>5. \A i \in 1 .. l : \E n \in 1 .. m : output[n] = i - 1
    BY <1>1, <1>3 DEF FinishInv, ListedInv, Listed
  <1>6. \A n, k \in 1 .. m : output[n] = output[k] => n = k
    BY <1>1 DEF FinishInv, ListedInv
  <1> HIDE DEF m, l
  <1>7. \A j \in 0 .. l - 1 : \E n \in 1 .. m : output[n] = j
    <2> SUFFICES ASSUME NEW j \in 0 .. l - 1 PROVE \E n \in 1 .. m : output[n] = j
      OBVIOUS
    <2>1. j + 1 \in 1 .. l /\ (j + 1) - 1 = j
      BY <1>2
    <2> QED
      BY <1>5, <2>1
  <1>8. \A n \in 1 .. m : output[n] \in 0 .. l - 1
    BY <1>2, <1>4
  <1>9. {output[n] : n \in DOMAIN output} = 0 .. l - 1
    BY <1>2, <1>7, <1>8
  (* Positions and indexes are as many.                                    *)
  <1>10. m = l
    <2> DEFINE S == 1 .. m
               T == 0 .. l - 1
    <2>1. output \in Bijection(S, T)
      <3>1. output \in [S -> T]
        BY <1>2, <1>8
      <3> QED
        BY <1>6, <1>7, <3>1 DEF Bijection, Injection, Surjection, IsInjective
    <2>2. ExistsBijection(S, T)
      BY <2>1 DEF ExistsBijection
    <2>3. /\ IsFiniteSet(S)
          /\ Cardinality(S) = (IF 1 > m THEN 0 ELSE m - 1 + 1)
          /\ Cardinality(T) = (IF 0 > l - 1 THEN 0 ELSE l - 1 - 0 + 1)
      BY <1>2, FS_Interval
    <2>4. Cardinality(T) = Cardinality(S)
      <3> HIDE DEF S, T
      <3> QED
        BY <2>2, <2>3, FS_Bijection
    <2> HIDE DEF S, T
    <2> QED
      BY <1>2, <2>3, <2>4
  <1> QED
    BY <1>9, <1>10 DEF m, l

(* With both built-ins answering, FinishInv holds throughout.              *)
LEMMA FinishHolds == BuiltinsAnswer => (Spec => [](TypeInv /\ KeyInv /\ FinishInv))
  <1> SUFFICES ASSUME BuiltinsAnswer PROVE Spec => [](TypeInv /\ KeyInv /\ FinishInv)
    OBVIOUS
  <1>1. Init => TypeInv /\ KeyInv /\ FinishInv
    BY TypeInit, KeyInit, FinishInit
  <1>2. TypeInv /\ KeyInv /\ FinishInv /\ [Next]_vars => TypeInv' /\ KeyInv' /\ FinishInv'
    BY TypeStep, KeyStep, FinishStep
  <1> QED
    BY <1>1, <1>2, PTL DEF Spec

(* The output of a terminal response lists every announced item, once,     *)
(* whatever the order in which tools answer and however many turns reuse   *)
(* the part keys (composer.py _output_items).                              *)
THEOREM EachItemListed == BuiltinsAnswer => (Spec => []OutputListsEachItem)
  <1>1. TypeInv /\ KeyInv /\ FinishInv => OutputListsEachItem
    BY EachListed
  <1> QED
    BY <1>1, FinishHolds, PTL

(* Every item of a terminal response is done; without the hypothesis, that *)
(* of a web search that is retried is not (normalizer.py on_event).        *)
THEOREM ItemsClosed == BuiltinsAnswer => (Spec => []TerminalClosesItems)
  <1>1. TypeInv /\ KeyInv /\ FinishInv => TerminalClosesItems
    <2> SUFFICES ASSUME TypeInv, FinishInv PROVE TerminalClosesItems
      OBVIOUS
    <2>1. DOMAIN client = 1 .. Len(client)
      BY DEF TypeInv, TypeOK, ComposerTypeOK
    <2> QED
      BY <2>1, NothingOpen DEF TerminalClosesItems, Finale
  <1> QED
    BY <1>1, FinishHolds, PTL

-----------------------------------------------------------------------------
(* The deltas of a message or of the model's thoughts add up to its text.  *)

(* The chunks a batch still has to deliver in deltas.                      *)
Chunk(e) == IF e.type \in DeltaTypes THEN e.text ELSE 0

ChunkAt(p, i) == IF i \in 1 .. Len(p) THEN Chunk(p[i]) ELSE 0

Chunks(p) == ChunkAt(p, 1) + ChunkAt(p, 2) + ChunkAt(p, 3)

(* Of the words of the model: what is on its way, and how long the words   *)
(* are that the open part has so far or the event that ends it carries.    *)
Words(p) == IF p # <<>> /\ Head(p).call = NoCall THEN Chunks(p) ELSE 0

Whole == IF part # NoPart
         THEN IF part.type = "thinking" THEN Thoughts(part.index, part.chunks) ELSE part.chunks
         ELSE IF pending # <<>> THEN pending[Len(pending)].text ELSE 0

(* What the reader has of the model's thoughts.                            *)
ThoughtsSent == IF reasoningItem = NoItem THEN 0 ELSE client[reasoningItem + 1].sent
ThoughtsText == IF reasoningItem = NoItem THEN 0 ELSE client[reasoningItem + 1].text

ThoughtInv ==
  rewrites = 0 =>
    IF Thinks(NoCall) THEN ThoughtsSent + Words(pending) = ThoughtsText + Whole
    ELSE ThoughtsSent = ThoughtsText

(* The model's words are a message, of which this much was sent.           *)
WordsItem == client[items[DutyKey(NoCall)] + 1]
Messaging ==
  IF Opening(DutyKey(NoCall)) THEN Head(pending).type = "MessageStarted"
  ELSE WordsItem.kind = "message"
MessageSent == IF Opening(DutyKey(NoCall)) THEN 0 ELSE WordsItem.sent

MessageInv ==
  Owes(NoCall) /\ ~Thinks(NoCall) /\ Messaging =>
    /\ MessageSent + Words(pending) = Whole
    /\ Finishes(NoCall) => pending[Len(pending)].type = "MessageDone"

(* A message belongs to no call, and once finished it is as it was sent.   *)
FinishedInv ==
  \A i \in 1 .. Len(client) : client[i].kind = "message" =>
    client[i].call = NoCall /\ (client[i].dones > 0 => client[i].sent = client[i].text)

BatchInv ==
  pending # <<>> /\ ~Terminal(Head(pending)) =>
    /\ Len(pending) <= 3
    /\ Head(pending).type = "MessageStarted" => Head(pending).call = NoCall
    /\ Head(pending).call = NoCall => (Head(pending).type \in ReasonTypes <=> Thinks(NoCall))

SpellInv == ThoughtInv /\ MessageInv /\ FinishedInv /\ BatchInv

(* Raw text is kept of the open part only.                                 *)
RawInv == \A k \in DOMAIN raw : part # NoPart /\ part.type = "thinking" /\ part.index = k

(* How many chunks a batch delivers.                                       *)
LEMMA ChunksOf ==
  /\ Chunks(<<>>) = 0
  /\ \A e : Chunk(e) \in Nat => Chunks(<<e>>) = Chunk(e)
  /\ \A e, f : Chunk(e) \in Nat /\ Chunk(f) \in Nat => Chunks(<<e, f>>) = Chunk(e) + Chunk(f)
  /\ \A e, f, g : Chunk(e) \in Nat /\ Chunk(f) \in Nat /\ Chunk(g) \in Nat
       => Chunks(<<e, f, g>>) = Chunk(e) + Chunk(f) + Chunk(g)
  <1>1. Chunks(<<>>) = 0
    BY DEF Chunks, ChunkAt
  <1>2. ASSUME NEW e, Chunk(e) \in Nat PROVE Chunks(<<e>>) = Chunk(e)
    <2>1. ChunkAt(<<e>>, 1) = Chunk(e) /\ ChunkAt(<<e>>, 2) = 0 /\ ChunkAt(<<e>>, 3) = 0
      BY DEF ChunkAt
    <2> QED
      BY <1>2, <2>1 DEF Chunks
  <1>3. ASSUME NEW e, NEW f, Chunk(e) \in Nat, Chunk(f) \in Nat
        PROVE  Chunks(<<e, f>>) = Chunk(e) + Chunk(f)
    <2>1. /\ ChunkAt(<<e, f>>, 1) = Chunk(e) /\ ChunkAt(<<e, f>>, 2) = Chunk(f)
          /\ ChunkAt(<<e, f>>, 3) = 0
      BY DEF ChunkAt
    <2> QED
      BY <1>3, <2>1 DEF Chunks
  <1>4. ASSUME NEW e, NEW f, NEW g, Chunk(e) \in Nat, Chunk(f) \in Nat, Chunk(g) \in Nat
        PROVE  Chunks(<<e, f, g>>) = Chunk(e) + Chunk(f) + Chunk(g)
    <2>1. Len(<<e, f, g>>) = 3 /\ 1 \in 1 .. 3 /\ 2 \in 1 .. 3 /\ 3 \in 1 .. 3
      OBVIOUS
    <2>2. <<e, f, g>>[1] = e /\ <<e, f, g>>[2] = f /\ <<e, f, g>>[3] = g
      OBVIOUS
    <2>3. /\ ChunkAt(<<e, f, g>>, 1) = Chunk(e) /\ ChunkAt(<<e, f, g>>, 2) = Chunk(f)
          /\ ChunkAt(<<e, f, g>>, 3) = Chunk(g)
      BY <2>1, <2>2 DEF ChunkAt
    <2> QED
      BY <1>4, <2>3 DEF Chunks
  <1> QED
    BY <1>1, <1>2, <1>3, <1>4

LEMMA ChunksTail ==
  ASSUME NEW p \in Seq(StreamEvent), p # <<>>, Len(p) <= 3
  PROVE  /\ Chunks(p) = Chunk(Head(p)) + Chunks(Tail(p))
         /\ Chunks(Tail(p)) \in Nat /\ Chunk(Head(p)) \in Nat
         /\ Len(Tail(p)) <= 3
         /\ Tail(p) # <<>> => Tail(p)[Len(Tail(p))] = p[Len(p)]
  <1>1. \A i \in 1 .. Len(p) : Chunk(p[i]) \in Nat
    <2>1. \A e \in StreamEvent : Chunk(e) \in Nat
      BY DEF Chunk, StreamEvent
    <2> QED
      BY <2>1
  <1>2. /\ Len(p) \in Nat /\ Len(p) >= 1 /\ Head(p) = p[1]
        /\ Len(Tail(p)) = Len(p) - 1
        /\ \A i \in 1 .. Len(p) - 1 : Tail(p)[i] = p[i + 1]
    <2>1. Len(p) \in Nat /\ Len(p) >= 1 /\ Head(p) = p[1]
      OBVIOUS
    <2>2. Len(Tail(p)) = Len(p) - 1 /\ \A i \in 1 .. Len(Tail(p)) : Tail(p)[i] = p[i + 1]
      BY HeadTailProperties
    <2> QED
      BY <2>1, <2>2
  <1>3. /\ ChunkAt(p, 1) = Chunk(Head(p)) /\ Chunk(Head(p)) \in Nat
        /\ ChunkAt(Tail(p), 1) = ChunkAt(p, 2) /\ ChunkAt(Tail(p), 2) = ChunkAt(p, 3)
        /\ ChunkAt(Tail(p), 3) = 0
        /\ ChunkAt(p, 2) \in Nat /\ ChunkAt(p, 3) \in Nat
    <2>1. /\ ChunkAt(p, 1) = Chunk(Head(p)) /\ Chunk(Head(p)) \in Nat
          /\ ChunkAt(p, 2) \in Nat /\ ChunkAt(p, 3) \in Nat
      BY <1>1, <1>2 DEF ChunkAt
    <2>2. ChunkAt(Tail(p), 1) = ChunkAt(p, 2)
      BY <1>2 DEF ChunkAt
    <2>3. ChunkAt(Tail(p), 2) = ChunkAt(p, 3)
      BY <1>2 DEF ChunkAt
    <2>4. ChunkAt(Tail(p), 3) = 0
      BY <1>2 DEF ChunkAt
    <2> QED
      BY <2>1, <2>2, <2>3, <2>4
  <1>4. Tail(p) # <<>> => Tail(p)[Len(Tail(p))] = p[Len(p)]
    BY <1>2
  <1> QED
    BY <1>2, <1>3, <1>4 DEF Chunks

(* Chunks are counted in natural numbers.                                  *)
LEMMA ThoughtsNat ==
  ASSUME TypeInv
  PROVE  /\ ThoughtsSent \in Nat /\ ThoughtsText \in Nat
         /\ Whole \in Nat
  <1>1. reasoningItem # NoItem => client[reasoningItem + 1] \in ClientItem
    BY DEF TypeInv, TypeOK, ComposerTypeOK, Indexed, NoItem
  <1>2. ThoughtsSent \in Nat /\ ThoughtsText \in Nat
    BY <1>1 DEF ThoughtsSent, ThoughtsText, ClientItem
  <1>3. part # NoPart => part.chunks \in Nat /\ Thoughts(part.index, part.chunks) \in Nat
    <2>1. RawTypeOK
      BY DEF TypeInv, TypeOK, NormalizerTypeOK, RawTypeOK
    <2>2. part # NoPart => part.chunks \in Nat
      BY BoundsAssumption DEF TypeInv, TypeOK, AgentTypeOK, Part
    <2> QED
      BY <2>1, <2>2, RawTypes
  <1>4. pending # <<>> => pending[Len(pending)].text \in Nat
    <2> SUFFICES ASSUME pending # <<>> PROVE pending[Len(pending)] \in StreamEvent
      BY DEF StreamEvent
    <2> QED
      BY DEF TypeInv, TypeOK
  <1> QED
    BY <1>2, <1>3, <1>4 DEF Whole

(* The model thinks only while it owes the reasoning item an end.          *)
LEMMA ThinkingOwes ==
  ASSUME TypeInv, FinishInv, Thinks(NoCall), pending # <<>> => ~Terminal(Head(pending))
  PROVE  Owes(NoCall)
  <1>1. CASE part # NoPart
    BY <1>1 DEF Thinks, Owes, Awaits, Speaking
  <1>2. CASE part = NoPart
    <2>1. pending # <<>> /\ Head(pending).type \in ReasonTypes
      BY <1>2 DEF Thinks
    <2>2. Owes(Head(pending).call) /\ Head(pending).call = NoCall
      BY <2>1 DEF FinishInv, EventsInv
    <2> QED
      BY <2>2
  <1> QED
    BY <1>1, <1>2

(* A step that leaves no words of the model open.                          *)
LEMMA SpellSilent ==
  ASSUME SpellInv, UNCHANGED composerVars, rewrites' = 0 => rewrites = 0,
         ~Thinks(NoCall), ~Thinks(NoCall)', ~Owes(NoCall)', BatchInv'
  PROVE  SpellInv'
  <1>1. ThoughtsSent' = ThoughtsSent /\ ThoughtsText' = ThoughtsText /\ client' = client
    BY DEF composerVars, ThoughtsSent, ThoughtsText
  <1>2. ThoughtInv'
    BY <1>1 DEF SpellInv, ThoughtInv
  <1>3. MessageInv'
    BY DEF MessageInv
  <1>4. FinishedInv'
    BY <1>1 DEF SpellInv, FinishedInv
  <1> QED
    BY <1>2, <1>3, <1>4 DEF SpellInv

(* The model's thoughts start, go on or end: what they get longer by is    *)
(* what the batch delivers.                                                *)
LEMMA ThoughtsGrow ==
  ASSUME TypeInv, SpellInv, UNCHANGED composerVars, pending = <<>>,
         part = NoPart \/ part.type = "thinking", Thinks(NoCall)', Words(pending') \in Nat,
         rewrites' = 0 => rewrites = 0 /\ Whole' = Whole + Words(pending'), BatchInv'
  PROVE  SpellInv'
  <1>1. ThoughtsSent' = ThoughtsSent /\ ThoughtsText' = ThoughtsText /\ client' = client
    BY DEF composerVars, ThoughtsSent, ThoughtsText
  <1>2. ThoughtsSent \in Nat /\ ThoughtsText \in Nat /\ Whole \in Nat
    BY ThoughtsNat
  <1>3. rewrites = 0 => ThoughtsSent = ThoughtsText + Whole
    <2>1. CASE part = NoPart
      BY <1>2, <2>1 DEF SpellInv, ThoughtInv, Thinks, Whole
    <2>2. CASE part # NoPart
      BY <1>2, <2>2 DEF SpellInv, ThoughtInv, Thinks, Words
    <2> QED
      BY <2>1, <2>2
  <1>4. ThoughtInv'
    BY <1>1, <1>2, <1>3 DEF ThoughtInv
  <1>5. MessageInv'
    BY DEF MessageInv
  <1>6. FinishedInv'
    BY <1>1 DEF SpellInv, FinishedInv
  <1> QED
    BY <1>4, <1>5, <1>6 DEF SpellInv

(* A message that was announced goes on or ends.                           *)
LEMMA MessageGrows ==
  ASSUME TypeInv, FinishInv, SpellInv, UNCHANGED composerVars, pending = <<>>,
         rewrites' = 0 => rewrites = 0, part # NoPart, part.type = "text", Speaking,
         ~Thinks(NoCall)', DutyKey(NoCall)' = part.index, \A j : ~Opening(j)',
         Words(pending') \in Nat, Whole' = Whole + Words(pending'),
         Finishes(NoCall)' => pending'[Len(pending')].type = "MessageDone", BatchInv'
  PROVE  SpellInv'
  <1>1. ThoughtsSent' = ThoughtsSent /\ ThoughtsText' = ThoughtsText
        /\ client' = client /\ items' = items
    BY DEF composerVars, ThoughtsSent, ThoughtsText
  <1>2. ~Thinks(NoCall)
    BY DEF Thinks
  <1>3. ThoughtInv'
    BY <1>1, <1>2 DEF SpellInv, ThoughtInv
  <1>4. /\ Owes(NoCall) /\ \A j : ~Opening(j)
        /\ DutyKey(NoCall) = part.index
        /\ Words(pending) = 0
    BY CallIdsAssumption DEF Owes, Awaits, Opening, Starting, DutyKey, Words
  <1>5. PICK it : it = client[items[part.index] + 1]
    OBVIOUS
  <1>6. it.kind = "message" => it.sent + 0 = Whole
    BY <1>2, <1>4, <1>5 DEF SpellInv, MessageInv, Messaging, MessageSent, WordsItem
  <1>7. it.kind = "message" => it.sent \in Nat
    <2>1. items[part.index] # NoItem
      BY <1>4, DutyFacts DEF Sources
    <2>2. part.index \in Keys /\ ComposerTypeOK /\ Indexed
      BY PartType DEF TypeInv, TypeOK
    <2>3. it \in ClientItem
      BY <1>5, <2>1, <2>2, DutyItems
    <2> QED
      BY <2>3 DEF ClientItem
  <1>8. WordsItem' = it
    BY <1>1, <1>5 DEF WordsItem
  <1>9. MessageInv'
    <2> SUFFICES ASSUME Messaging' PROVE /\ (MessageSent + Words(pending))' = Whole'
                                         /\ Finishes(NoCall)' => pending'[Len(pending')].type = "MessageDone"
      BY DEF MessageInv
    <2>1. it.kind = "message" /\ MessageSent' = it.sent
      BY <1>8 DEF Messaging, MessageSent
    <2>2. Whole \in Nat
      BY ThoughtsNat
    <2> QED
      BY <1>6, <1>7, <2>1, <2>2
  <1>10. FinishedInv'
    BY <1>1 DEF SpellInv, FinishedInv
  <1> QED
    BY <1>3, <1>9, <1>10 DEF SpellInv

(* A message is announced, with the chunks it starts with, or as a whole   *)
(* when its text was held back; or a call that was written as text is.     *)
LEMMA MessageStarts ==
  ASSUME SpellInv, UNCHANGED composerVars, rewrites' = 0 => rewrites = 0,
         ~Thinks(NoCall), ~Thinks(NoCall)',
         Opening(DutyKey(NoCall))', Words(pending') \in Nat,
         Head(pending').type = "MessageStarted" =>
           /\ Words(pending') = Whole'
           /\ Finishes(NoCall)' => pending'[Len(pending')].type = "MessageDone",
         BatchInv'
  PROVE  SpellInv'
  <1>1. ThoughtsSent' = ThoughtsSent /\ ThoughtsText' = ThoughtsText /\ client' = client
    BY DEF composerVars, ThoughtsSent, ThoughtsText
  <1>2. ThoughtInv'
    BY <1>1 DEF SpellInv, ThoughtInv
  <1>3. MessageInv'
    BY DEF MessageInv, Messaging, MessageSent
  <1>4. FinishedInv'
    BY <1>1 DEF SpellInv, FinishedInv
  <1> QED
    BY <1>2, <1>3, <1>4 DEF SpellInv

(* Batches of the model's words, and what they deliver.                    *)
LEMMA OneOfWords ==
  ASSUME NEW t, NEW k, NEW n \in Nat, NEW p, p = <<Event(t, k, NoCall, n)>>
  PROVE  /\ p # <<>> /\ Len(p) = 1 /\ Head(p).type = t /\ Head(p).key = k
         /\ Head(p).call = NoCall /\ p[Len(p)].type = t /\ p[Len(p)].text = n
         /\ Words(p) = IF t \in DeltaTypes THEN n ELSE 0
         /\ Words(p) \in Nat
  <1>1. PICK e : e = Event(t, k, NoCall, n)
    OBVIOUS
  <1>2. e.type = t /\ e.key = k /\ e.call = NoCall /\ e.text = n
    BY <1>1, EventFields
  <1>3. /\ p # <<>> /\ Len(p) = 1 /\ Head(p) = e /\ p[Len(p)] = e
    BY <1>1
  <1>4. Chunk(e) = (IF t \in DeltaTypes THEN n ELSE 0) /\ Chunk(e) \in Nat
    BY <1>2 DEF Chunk
  <1>5. Words(p) = Chunk(e)
    BY <1>1, <1>2, <1>3, <1>4, ChunksOf DEF Words
  <1> QED
    BY <1>2, <1>3, <1>4, <1>5

LEMMA TwoOfWords ==
  ASSUME NEW t, t \notin DeltaTypes, NEW u, NEW k, NEW n \in Nat,
         NEW p, p = <<Event(t, k, NoCall, 0), Event(u, k, NoCall, n)>>
  PROVE  /\ p # <<>> /\ Len(p) = 2 /\ Head(p).type = t /\ Head(p).key = k
         /\ Head(p).call = NoCall /\ p[Len(p)].type = u /\ p[Len(p)].text = n
         /\ Words(p) = IF u \in DeltaTypes THEN n ELSE 0
         /\ Words(p) \in Nat
  <1>1. PICK e : e = Event(t, k, NoCall, 0)
    OBVIOUS
  <1>2. PICK f : f = Event(u, k, NoCall, n)
    OBVIOUS
  <1>3. /\ e.type = t /\ e.key = k /\ e.call = NoCall
        /\ f.type = u /\ f.text = n
    BY <1>1, <1>2, EventFields
  <1>4. p = <<e, f>>
    BY <1>1, <1>2
  <1>5. /\ p # <<>> /\ Len(p) = 2 /\ Head(p) = e /\ p[Len(p)] = f
    BY <1>4
  <1>6. /\ Chunk(f) = (IF u \in DeltaTypes THEN n ELSE 0) /\ Chunk(f) \in Nat
        /\ Chunk(e) = 0
    BY <1>3 DEF Chunk
  <1>7. Words(p) = Chunk(f)
    <2>1. Chunks(<<e, f>>) = Chunk(e) + Chunk(f)
      BY <1>6, ChunksOf
    <2> QED
      BY <1>3, <1>4, <1>5, <1>6, <2>1 DEF Words
  <1> QED
    BY <1>3, <1>5, <1>6, <1>7

LEMMA ThreeOfWords ==
  ASSUME NEW t, t \notin DeltaTypes, NEW u \in DeltaTypes, NEW v, v \notin DeltaTypes,
         NEW k, NEW n \in Nat,
         NEW p, p = <<Event(t, k, NoCall, 0), Event(u, k, NoCall, n), Event(v, k, NoCall, n)>>
  PROVE  /\ p # <<>> /\ Len(p) = 3 /\ Head(p).type = t /\ Head(p).key = k
         /\ Head(p).call = NoCall /\ p[Len(p)].type = v /\ p[Len(p)].text = n
         /\ Words(p) = n
  <1>1. PICK e : e = Event(t, k, NoCall, 0)
    OBVIOUS
  <1>2. PICK f : f = Event(u, k, NoCall, n)
    OBVIOUS
  <1>3. PICK g : g = Event(v, k, NoCall, n)
    OBVIOUS
  <1>4. /\ e.type = t /\ e.key = k /\ e.call = NoCall
        /\ f.type = u /\ f.text = n /\ g.type = v /\ g.text = n
    BY <1>1, <1>2, <1>3, EventFields
  <1>5. p = <<e, f, g>>
    BY <1>1, <1>2, <1>3
  <1>6. /\ p # <<>> /\ Len(p) = 3 /\ Head(p) = e /\ p[Len(p)] = g
    BY <1>5
  <1>7. Chunk(e) = 0 /\ Chunk(f) = n /\ Chunk(g) = 0
    BY <1>4 DEF Chunk
  <1>8. Words(p) = n
    <2>1. Chunks(<<e, f, g>>) = Chunk(e) + Chunk(f) + Chunk(g)
      BY <1>7, ChunksOf
    <2> QED
      BY <1>4, <1>5, <1>6, <1>7, <2>1 DEF Words
  <1> QED
    BY <1>4, <1>6, <1>8

LEMMA WordTypes ==
  /\ {"MessageStarted", "ReasoningStarted", "FunctionCallStarted", "CustomToolCallStarted",
      "MessageDone", "FunctionCallDone", "CustomToolCallDone", "ReasoningDone"} \cap DeltaTypes = {}
  /\ {"MessageDelta", "ReasoningDelta"} \subseteq DeltaTypes
  /\ StartTypes \cap DeltaTypes = {}
  /\ ClosingTypes \cap DeltaTypes = {}
  /\ ReasonTypes \cap ClosingTypes = {"ReasoningDone"}
  BY StartTypesListed, ClosingListed DEF DeltaTypes, ReasonTypes

(* Before anything is said about a new part, nothing is.                   *)
LEMMA Quiet ==
  ASSUME part = NoPart \/ part.type # "thinking", pending = <<>>
  PROVE  ~Thinks(NoCall)
  BY DEF Thinks

LEMMA PartStartSpell ==
  ASSUME TypeInv, SpellInv, RawInv, PartStart
  PROVE  SpellInv'
  <1>0. rewrites' = rewrites
    BY DEF PartStart
  <1>1. /\ pending = <<>> /\ part = NoPart /\ nextPart \in Keys
        /\ UNCHANGED composerVars /\ NoCall \notin CallIds
    BY CallIdsAssumption DEF PartStart, Asked
  <1>2. itemKind \in [Keys -> NormalizerKinds] /\ ~Thinks(NoCall)
    BY <1>1, Quiet DEF TypeInv, TypeOK, NormalizerTypeOK
  <1>3. PICK n \in 0 .. MaxChunks :
       \/ /\ OnTextStart(nextPart, n)
          /\ part' = [NoPart EXCEPT !.type = "text", !.index = nextPart, !.chunks = n]
       \/ /\ \E details \in Details : OnThinkingStart(nextPart, n, details)
          /\ part' = [NoPart EXCEPT !.type = "thinking", !.index = nextPart, !.chunks = n]
       \/ \E tool \in ToolNames, c \in CallIds :
            /\ OnToolStart(nextPart, tool, c, n)
            /\ part' = [type |-> "tool", index |-> nextPart, tool |-> tool,
                        call |-> c, chunks |-> n]
    BY DEF PartStart
  <1>4. n \in Nat
    BY BoundsAssumption
  <1>5. CASE /\ OnTextStart(nextPart, n)
             /\ part' = [NoPart EXCEPT !.type = "text", !.index = nextPart, !.chunks = n]
    <2>1. /\ part' # NoPart /\ part'.type = "text" /\ part'.index = nextPart /\ part'.chunks = n
          /\ ~Thinks(NoCall)'
      BY <1>5 DEF NoPart, Thinks
    <2>2. CASE probe
      <3>1. pending' = <<>> /\ itemKind'[nextPart] = PROBE
        BY <1>1, <1>2, <1>5, <2>2 DEF OnTextStart, PROBE
      <3>2. ~Owes(NoCall)' /\ BatchInv'
        <4>1. ~Speaking'
          BY <2>1, <3>1 DEF Speaking
        <4>2. ~Finishes(NoCall)'
          BY <3>1 DEF Finishes, Closing
        <4>3. ~Awaits(NoCall)'
          BY <1>1, <4>1 DEF Awaits
        <4>4. BatchInv'
          BY <3>1 DEF BatchInv
        <4> QED
          BY <4>2, <4>3, <4>4 DEF Owes
      <3> QED
        BY <1>0, <1>1, <1>2, <2>1, <3>2, SpellSilent
    <2>3. CASE ~probe
      <3>1. \/ pending' = <<Event("MessageStarted", nextPart, NoCall, 0)>> /\ n = 0
            \/ pending' = <<Event("MessageStarted", nextPart, NoCall, 0),
                            Event("MessageDelta", nextPart, NoCall, n)>>
        BY <1>4, <1>5, <2>3 DEF OnTextStart
      <3>2. /\ pending' # <<>> /\ Len(pending') <= 2 /\ Head(pending').type = "MessageStarted"
            /\ Head(pending').key = nextPart /\ Head(pending').call = NoCall
            /\ Words(pending') = n
            /\ pending'[Len(pending')].type \notin ClosingTypes
        <4>1. /\ "MessageStarted" \notin DeltaTypes /\ "MessageDelta" \in DeltaTypes /\ 0 \in Nat
              /\ {"MessageStarted", "MessageDelta"} \cap ClosingTypes = {}
          BY WordTypes, ClosingListed
        <4>2. CASE pending' = <<Event("MessageStarted", nextPart, NoCall, 0)>> /\ n = 0
          BY <4>1, <4>2, OneOfWords
        <4>3. CASE pending' = <<Event("MessageStarted", nextPart, NoCall, 0),
                                Event("MessageDelta", nextPart, NoCall, n)>>
          BY <1>4, <4>1, <4>3, TwoOfWords
        <4> QED
          BY <3>1, <4>2, <4>3
      <3>3. Opening(DutyKey(NoCall))'
        BY <1>1, <2>1, <3>2, StartTypesListed DEF Opening, Starting, DutyKey
      <3>4. Whole' = n /\ ~Finishes(NoCall)'
        BY <2>1, <3>2 DEF Whole, Finishes, Closing
      <3>5. BatchInv'
        BY <2>1, <3>2 DEF BatchInv, ReasonTypes
      <3> QED
        BY <1>0, <1>1, <1>2, <1>4, <2>1, <3>2, <3>3, <3>4, <3>5, MessageStarts
    <2> QED
      BY <2>2, <2>3
  <1>6. CASE /\ \E details \in Details : OnThinkingStart(nextPart, n, details)
             /\ part' = [NoPart EXCEPT !.type = "thinking", !.index = nextPart, !.chunks = n]
    <2>1. /\ part' # NoPart /\ part'.type = "thinking" /\ part'.chunks = n
          /\ part'.index = nextPart /\ Thinks(NoCall)'
      <3>1. part'.type = "thinking" /\ part'.chunks = n /\ part'.index = nextPart
            /\ NoPart.type # "thinking"
        BY <1>6 DEF NoPart
      <3> QED
        BY <3>1 DEF Thinks
    <2>0. PICK k : k = nextPart
      OBVIOUS
    <2>2. RawTypeOK /\ k \in Keys /\ k \notin DOMAIN raw
      BY <1>1, <2>0 DEF TypeInv, TypeOK, NormalizerTypeOK, RawTypeOK, RawInv
    <2>3. PICK m \in Nat :
            /\ \/ pending' = <<Event("ReasoningStarted", k, NoCall, 0)>> /\ m = 0
               \/ pending' = <<Event("ReasoningStarted", k, NoCall, 0),
                               Event("ReasoningDelta", k, NoCall, m)>>
            /\ m = (Thoughts(k, n))'
      <3>1. PICK details \in Details : OnThinkingStart(k, n, details)
        BY <1>6, <2>0
      <3> QED
        BY <1>4, <2>2, <3>1, ThinkingStarted
    <2>4. /\ pending' # <<>> /\ Len(pending') <= 2 /\ Head(pending').type = "ReasoningStarted"
          /\ Head(pending').call = NoCall /\ Words(pending') = m
      <3>1. "ReasoningStarted" \notin DeltaTypes /\ "ReasoningDelta" \in DeltaTypes /\ 0 \in Nat
        BY WordTypes
      <3>2. CASE pending' = <<Event("ReasoningStarted", k, NoCall, 0)>> /\ m = 0
        BY <3>1, <3>2, OneOfWords
      <3>3. CASE pending' = <<Event("ReasoningStarted", k, NoCall, 0),
                              Event("ReasoningDelta", k, NoCall, m)>>
        BY <3>1, <3>3, TwoOfWords
      <3> QED
        BY <2>3, <3>2, <3>3
    <2>5. Whole = 0 /\ Whole' = m
      <3>1. Whole' = (Thoughts(part.index, part.chunks))'
        BY <2>1 DEF Whole
      <3>2. (Thoughts(part.index, part.chunks))' = (Thoughts(k, n))'
        BY <2>0, <2>1 DEF Thoughts
      <3> QED
        BY <1>1, <2>3, <3>1, <3>2 DEF Whole
    <2>6. BatchInv'
      BY <2>1, <2>4 DEF BatchInv, ReasonTypes
    <2> QED
      BY <1>0, <1>1, <2>1, <2>4, <2>5, <2>6, ThoughtsGrow
  <1>7. ASSUME NEW tool \in ToolNames, NEW c \in CallIds,
               OnToolStart(nextPart, tool, c, n),
               part' = [type |-> "tool", index |-> nextPart, tool |-> tool,
                        call |-> c, chunks |-> n]
        PROVE  SpellInv'
    <2>1. part' # NoPart /\ part'.type = "tool" /\ ~Thinks(NoCall)'
      BY <1>7 DEF NoPart, Thinks
    <2>2. /\ Opener(pending') /\ Head(pending').call = c
      BY <1>1, <1>2, <1>4, <1>7, ToolStartShape
    <2>3. Len(pending') <= 2 /\ Head(pending').type # "MessageStarted"
      <3>1. \A kind : StartType(kind) # "MessageStarted"
        BY DEF StartType
      <3>2. PICK e : e = Event(StartType(CallKind(tool)), nextPart, c, 0)
        OBVIOUS
      <3>3. pending' = <<e>> \/ \E f : pending' = <<e, f>>
        BY <1>7, <3>2 DEF OnToolStart
      <3>4. e.type # "MessageStarted"
        BY <3>1, <3>2, EventFields
      <3>5. ASSUME NEW f, pending' = <<e, f>>
            PROVE  Len(pending') <= 2 /\ Head(pending').type # "MessageStarted"
        BY <3>4, <3>5
      <3>6. ASSUME pending' = <<e>>
            PROVE  Len(pending') <= 2 /\ Head(pending').type # "MessageStarted"
        BY <3>4, <3>6
      <3> QED
        BY <3>3, <3>5, <3>6
    <2>4. ~Owes(NoCall)'
      BY <1>1, <2>1, <2>2 DEF Owes, Awaits, Speaking, Finishes, Opener
    <2>5. BatchInv'
      BY <1>1, <2>2, <2>3 DEF BatchInv
    <2> QED
      BY <1>0, <1>1, <1>2, <2>1, <2>4, <2>5, SpellSilent
  <1> QED
    BY <1>3, <1>5, <1>6, <1>7

(* A handler of a call says nothing of the model's words.                  *)
LEMMA CallSilent ==
  ASSUME SpellInv, UNCHANGED composerVars, rewrites' = 0 => rewrites = 0, NEW c \in CallIds,
         ~Thinks(NoCall), part' = NoPart \/ part'.type = "tool",
         pending' = <<>> \/ \E e : pending' = <<e>>,
         pending' # <<>> => /\ Head(pending').call = c /\ ~Starting(pending')
                            /\ Head(pending').type \notin ReasonTypes
  PROVE  SpellInv'
  <1>1. NoCall \notin CallIds /\ c # NoCall
    BY CallIdsAssumption
  <1>2. ~Thinks(NoCall)'
    BY DEF Thinks
  <1>3. ~Speaking'
    BY DEF Speaking
  <1>4. ~Finishes(NoCall)'
    BY <1>1 DEF Finishes, Closing
  <1>5. ~Owes(NoCall)'
    BY <1>1, <1>3, <1>4 DEF Owes, Awaits
  <1>6. Len(pending') <= 3
    <2>1. CASE pending' = <<>>
      BY <2>1
    <2>2. ASSUME NEW e, pending' = <<e>> PROVE Len(pending') <= 3
      BY <2>2
    <2> QED
      BY <2>1, <2>2
  <1>7. BatchInv'
    BY <1>1, <1>6, StartTypesListed DEF BatchInv, Starting
  <1> QED
    BY <1>2, <1>5, <1>7, SpellSilent

LEMMA PartDeltaSpell ==
  ASSUME TypeInv, KeyInv, FinishInv, SpellInv, PartDelta
  PROVE  SpellInv'
  <1>1. /\ pending = <<>> /\ part # NoPart /\ UNCHANGED composerVars
    BY DEF PartDelta, Asked
  <1>2. PICK n \in 0 .. MaxChunks - part.chunks :
          /\ part' = [part EXCEPT !.chunks = @ + n]
          /\ \/ part.type = "text" /\ OnTextDelta(part.index, n)
             \/ /\ part.type = "thinking"
                /\ \E details \in Details :
                     /\ OnThinkingDelta(part.index, n, details)
                     /\ \/ rewrites' = rewrites /\ Appends(part.index, part.chunks, n, details)
                        \/ rewrites' = rewrites + 1
             \/ part.type = "tool" /\ OnToolDelta(part.index, part.call, n)
          /\ part.type # "thinking" => rewrites' = rewrites
    BY DEF PartDelta
  <1>0. /\ rewrites \in Nat /\ rewrites' \in {rewrites, rewrites + 1}
        /\ rewrites' = 0 => rewrites = 0 /\ rewrites' # rewrites + 1
    <2>1. rewrites \in Nat
      BY DEF TypeInv, TypeOK, AgentTypeOK
    <2>2. rewrites' \in {rewrites, rewrites + 1}
      BY <1>2
    <2> QED
      BY <2>1, <2>2
  <1>3. /\ part \in Part /\ part.chunks \in Nat /\ n \in Nat /\ NoCall \notin CallIds
        /\ part.type = "tool" => part.call \in CallIds
    BY <1>1, <1>2, CallFacts, BoundsAssumption
  <1>4. /\ part'.type = part.type /\ part'.index = part.index /\ part'.chunks = part.chunks + n
        /\ part' # NoPart
    <2>1. /\ part'.type = part.type /\ part'.index = part.index
          /\ part'.chunks = part.chunks + n
      BY <1>2, <1>3 DEF Part
    <2>2. part.type \in PartTypes /\ NoPart.type \notin PartTypes
      BY <1>3 DEF Part, PartTypes, NoPart
    <2> QED
      BY <2>1, <2>2
  <1>5. part.type # "thinking" => Whole = part.chunks /\ Whole' = part.chunks + n
    BY <1>1, <1>4 DEF Whole
  <1>6. CASE part.type = "text" /\ OnTextDelta(part.index, n)
    <2>1. ~Thinks(NoCall) /\ ~Thinks(NoCall)'
      BY <1>1, <1>4, <1>6 DEF Thinks
    <2>2. CASE itemKind[part.index] = PROBE
      <3>1. pending' = <<>> /\ itemKind' = itemKind
        BY <1>6, <2>2 DEF OnTextDelta, PROBE
      <3>2. ~Speaking' /\ ~Finishes(NoCall)'
        BY <1>4, <1>6, <2>2, <3>1 DEF Speaking, Finishes, Closing
      <3>3. ~Owes(NoCall)' /\ BatchInv'
        BY <1>3, <3>1, <3>2 DEF Owes, Awaits, BatchInv
      <3> QED
        BY <1>0, <1>1, <2>1, <3>3, SpellSilent
    <2>3. CASE itemKind[part.index] # PROBE
      <3>1. Speaking
        BY <1>1, <1>6, <2>3 DEF Speaking
      <3>2. pending' = <<Event("MessageDelta", part.index, NoCall, n)>> \/ (pending' = <<>> /\ n = 0)
        BY <1>3, <1>6, <2>3 DEF OnTextDelta, PROBE
      <3>3. /\ Words(pending') = n /\ Len(pending') <= 3
            /\ pending' # <<>> => Head(pending').type = "MessageDelta" /\ Len(pending') = 1
        <4>1. CASE pending' = <<Event("MessageDelta", part.index, NoCall, n)>>
          BY <1>3, <4>1, WordTypes, OneOfWords
        <4>2. CASE pending' = <<>> /\ n = 0
          BY <4>2 DEF Words
        <4> QED
          BY <3>2, <4>1, <4>2
      <3>4. DutyKey(NoCall)' = part.index
        BY <1>3, <1>4 DEF DutyKey
      <3>5. ~Finishes(NoCall)' /\ (\A j : ~Opening(j)')
        BY <3>3, StartTypesListed, ClosingListed DEF Finishes, Closing, Opening, Starting
      <3>6. BatchInv'
        BY <2>1, <3>3 DEF BatchInv, ReasonTypes
      <3> QED
        BY <1>0, <1>1, <1>3, <1>5, <1>6, <2>1, <3>1, <3>3, <3>4, <3>5, <3>6, MessageGrows
    <2> QED
      BY <2>2, <2>3
  <1>7. ASSUME part.type = "thinking", NEW details \in Details,
               OnThinkingDelta(part.index, n, details),
               \/ rewrites' = rewrites /\ Appends(part.index, part.chunks, n, details)
               \/ rewrites' = rewrites + 1
        PROVE  SpellInv'
    <2>1. Thinks(NoCall)'
      BY <1>4, <1>7 DEF Thinks
    <2>2. RawTypeOK /\ part.index \in Keys
      BY <1>1, PartType DEF TypeInv, TypeOK, NormalizerTypeOK, RawTypeOK
    <2>3. PICK k : k = part.index
      OBVIOUS
    <2>4. PICK sent : sent = part.chunks
      OBVIOUS
    <2>5. PICK m \in Nat :
            /\ \/ pending' = <<>> /\ m = 0
               \/ pending' = <<Event("ReasoningDelta", k, NoCall, m)>>
            /\ Appends(k, sent, n, details) => (Thoughts(k, sent + n))' = Thoughts(k, sent) + m
      BY <1>3, <1>7, <2>2, <2>3, <2>4, ThinkingSaid
    <2>6. /\ Words(pending') = m /\ Len(pending') <= 3
          /\ pending' # <<>> => Head(pending').type = "ReasoningDelta"
      <3>1. CASE pending' = <<Event("ReasoningDelta", k, NoCall, m)>>
        BY <3>1, WordTypes, OneOfWords
      <3>2. CASE pending' = <<>> /\ m = 0
        BY <3>2 DEF Words
      <3> QED
        BY <2>5, <3>1, <3>2
    <2>7. BatchInv'
      BY <2>1, <2>6 DEF BatchInv, ReasonTypes
    <2>8. Whole = Thoughts(k, sent) /\ Whole' = (Thoughts(k, sent + n))'
      <3>1. Whole' = (Thoughts(part.index, part.chunks))' /\ Whole = Thoughts(k, sent)
        BY <1>1, <1>4, <1>7, <2>3, <2>4 DEF Whole
      <3>2. (Thoughts(part.index, part.chunks))' = (Thoughts(k, sent + n))'
        BY <1>4, <2>3, <2>4 DEF Thoughts
      <3> QED
        BY <3>1, <3>2
    <2>9. rewrites' = 0 => rewrites = 0 /\ Whole' = Whole + Words(pending')
      <3>1. ASSUME rewrites' = 0 PROVE Appends(k, sent, n, details)
        BY <1>0, <1>7, <2>3, <2>4, <3>1
      <3> QED
        BY <1>0, <2>5, <2>6, <2>8, <3>1
    <2> QED
      BY <1>1, <1>7, <2>1, <2>6, <2>7, <2>9, ThoughtsGrow
  <1>8. CASE part.type = "tool" /\ OnToolDelta(part.index, part.call, n)
    <2>1. ~Thinks(NoCall)
      BY <1>1, <1>8 DEF Thinks
    <2>2. NormalizerTypeOK /\ part.index \in Keys
      BY <1>1, CallFacts DEF TypeInv, TypeOK
    <2>3. Batch(pending', KeyOfCall(part.call, part.index), part.call) /\ Adder(pending')
      BY <1>3, <1>8, <2>2, ToolDelta, ToolDeltaShape
    <2>4. pending' = <<>> \/ \E e : pending' = <<e>>
      BY <1>8 DEF OnToolDelta
    <2>5. pending' # <<>> => /\ Head(pending').call = part.call /\ ~Starting(pending')
                             /\ Head(pending').type \notin ReasonTypes
      BY <2>3, <2>4 DEF Batch, Adder
    <2> QED
      BY <1>0, <1>1, <1>3, <1>4, <1>8, <2>1, <2>4, <2>5, CallSilent
  <1> QED
    BY <1>2, <1>6, <1>7, <1>8

LEMMA PartEndSpell ==
  ASSUME TypeInv, KeyInv, FinishInv, SpellInv, PartEnd
  PROVE  SpellInv'
  <1>0. rewrites' = rewrites
    BY DEF PartEnd
  <1>1. /\ pending = <<>> /\ part # NoPart /\ part' = NoPart /\ UNCHANGED composerVars
        /\ \/ part.type = "text" /\ OnTextEnd(part.index, part.chunks)
           \/ part.type = "thinking" /\ OnThinkingEnd(part.index, part.chunks)
           \/ part.type = "tool" /\ OnToolEnd(part.index, part.call, part.chunks)
    BY DEF PartEnd, Asked
  <1>2. /\ NormalizerTypeOK /\ part.index \in Keys /\ part.chunks \in Nat /\ NoCall \notin CallIds
        /\ part.type = "tool" => part.call \in CallIds
    BY <1>1, CallFacts DEF TypeInv, TypeOK
  <1>3. PICK n : n = part.chunks
    OBVIOUS
  <1>4. (part.type # "thinking" => Whole = n) /\ n \in Nat
    BY <1>1, <1>2, <1>3 DEF Whole
  <1>5. CASE part.type = "text" /\ OnTextEnd(part.index, n)
    <2>1. ~Thinks(NoCall)
      BY <1>1, <1>5 DEF Thinks
    <2>2. CASE itemKind[part.index] # PROBE
      <3>1. Speaking
        BY <1>1, <1>5, <2>2 DEF Speaking
      <3>2. pending' = <<Event("MessageDone", part.index, NoCall, n)>>
        BY <1>5, <2>2 DEF OnTextEnd, PROBE
      <3>3. /\ pending' # <<>> /\ Len(pending') = 1 /\ Head(pending').type = "MessageDone"
            /\ Head(pending').key = part.index /\ Head(pending').call = NoCall
            /\ pending'[Len(pending')].type = "MessageDone" /\ pending'[Len(pending')].text = n
            /\ Words(pending') = 0
        BY <1>4, <3>2, WordTypes, OneOfWords
      <3>4. ~Thinks(NoCall)' /\ DutyKey(NoCall)' = part.index /\ Whole' = n
        BY <1>1, <1>2, <3>3 DEF Thinks, DutyKey, Whole, ReasonTypes
      <3>5. \A j : ~Opening(j)'
        BY <3>3, StartTypesListed DEF Opening, Starting
      <3>6. BatchInv'
        BY <3>3, <3>4 DEF BatchInv, ReasonTypes
      <3>7. Words(pending') \in Nat /\ Whole' = Whole + Words(pending')
        BY <1>4, <1>5, <3>3, <3>4
      <3> QED
        BY <1>0, <1>1, <1>5, <3>1, <3>3, <3>4, <3>5, <3>6, <3>7, MessageGrows
    <2>3. CASE itemKind[part.index] = PROBE
      <3>1. PICK m : m = IF buffer[part.index] > 0 THEN buffer[part.index] ELSE n
        OBVIOUS
      <3>2. m \in Nat
        BY <1>2, <1>4, <3>1 DEF NormalizerTypeOK
      <3>3. \/ /\ m > 0
               /\ pending' = <<Event("MessageStarted", part.index, NoCall, 0),
                               Event("MessageDelta", part.index, NoCall, m),
                               Event("MessageDone", part.index, NoCall, m)>>
            \/ /\ m = 0
               /\ pending' = <<Event("MessageStarted", part.index, NoCall, 0),
                               Event("MessageDone", part.index, NoCall, m)>>
            \/ pending' = <<Event("CustomToolCallStarted", part.index, NoCall, 0),
                            Event("CustomToolCallDone", part.index, NoCall, m)>>
            \/ pending' = <<Event("FunctionCallStarted", part.index, NoCall, 0),
                            Event("FunctionCallDone", part.index, NoCall, m)>>
        BY <1>5, <2>3, <3>1, <3>2 DEF OnTextEnd, PROBE
      <3>4. /\ pending' # <<>> /\ Len(pending') <= 3 /\ Head(pending').type \in StartTypes
            /\ Head(pending').type \notin ReasonTypes
            /\ Head(pending').key = part.index /\ Head(pending').call = NoCall
            /\ Words(pending') \in Nat
            /\ Head(pending').type = "MessageStarted" =>
                 /\ Words(pending') = pending'[Len(pending')].text
                 /\ pending'[Len(pending')].type = "MessageDone"
        <4>1. /\ "MessageStarted" \in StartTypes \ (DeltaTypes \cup ReasonTypes)
              /\ "CustomToolCallStarted" \in StartTypes \ (DeltaTypes \cup ReasonTypes)
              /\ "FunctionCallStarted" \in StartTypes \ (DeltaTypes \cup ReasonTypes)
              /\ "MessageDelta" \in DeltaTypes /\ "MessageDone" \notin DeltaTypes
          BY WordTypes, StartTypesListed DEF ReasonTypes
        <4>2. CASE /\ m > 0
                   /\ pending' = <<Event("MessageStarted", part.index, NoCall, 0),
                                   Event("MessageDelta", part.index, NoCall, m),
                                   Event("MessageDone", part.index, NoCall, m)>>
          BY <3>2, <4>1, <4>2, ThreeOfWords
        <4>3. CASE /\ m = 0
                   /\ pending' = <<Event("MessageStarted", part.index, NoCall, 0),
                                   Event("MessageDone", part.index, NoCall, m)>>
          BY <3>2, <4>1, <4>3, TwoOfWords
        <4>4. CASE pending' = <<Event("CustomToolCallStarted", part.index, NoCall, 0),
                                Event("CustomToolCallDone", part.index, NoCall, m)>>
          BY <3>2, <4>1, <4>4, TwoOfWords
        <4>5. CASE pending' = <<Event("FunctionCallStarted", part.index, NoCall, 0),
                                Event("FunctionCallDone", part.index, NoCall, m)>>
          BY <3>2, <4>1, <4>5, TwoOfWords
        <4> QED
          BY <3>3, <4>2, <4>3, <4>4, <4>5
      <3>5. /\ ~Thinks(NoCall)' /\ Whole' = pending'[Len(pending')].text
            /\ DutyKey(NoCall)' = part.index
        BY <1>1, <1>2, <3>4 DEF Thinks, Whole, DutyKey
      <3>6. Opening(DutyKey(NoCall))'
        BY <3>4, <3>5 DEF Opening, Starting
      <3>7. BatchInv'
        BY <3>4, <3>5 DEF BatchInv
      <3> QED
        BY <1>0, <1>1, <2>1, <3>4, <3>5, <3>6, <3>7, MessageStarts
    <2> QED
      BY <2>2, <2>3
  <1>6. CASE part.type = "thinking" /\ OnThinkingEnd(part.index, n)
    <2>1. PICK m : m = Thoughts(part.index, n)
      OBVIOUS
    <2>2. m \in Nat /\ pending' = <<Event("ReasoningDone", part.index, NoCall, m)>>
      <3>1. RawTypeOK
        BY <1>2 DEF NormalizerTypeOK, RawTypeOK
      <3> QED
        BY <1>2, <1>4, <1>6, <2>1, <3>1, ThinkingEnded
    <2>3. /\ pending' # <<>> /\ Len(pending') = 1 /\ Head(pending').type = "ReasoningDone"
          /\ pending'[Len(pending')].text = m /\ Words(pending') = 0
      BY <2>2, WordTypes, OneOfWords
    <2>4. Thinks(NoCall)' /\ Whole' = m /\ Whole = m
      BY <1>1, <1>3, <1>6, <2>1, <2>3 DEF Thinks, Whole, ReasonTypes
    <2>5. BatchInv'
      BY <2>3, <2>4 DEF BatchInv, ReasonTypes
    <2>6. Words(pending') \in Nat /\ Whole' = Whole + Words(pending')
      BY <2>2, <2>3, <2>4
    <2> QED
      BY <1>0, <1>1, <1>6, <2>4, <2>5, <2>6, ThoughtsGrow
  <1>7. CASE part.type = "tool" /\ OnToolEnd(part.index, part.call, n)
    <2>1. ~Thinks(NoCall)
      BY <1>1, <1>7 DEF Thinks
    <2>2. /\ Batch(pending', KeyOfCall(part.call, part.index), part.call) /\ ~Starting(pending')
          /\ pending' # <<>> => Head(pending').type \notin ReasonTypes
      BY <1>2, <1>4, <1>7, ToolEnd, ToolEndShape DEF Adder
    <2>3. pending' = <<>> \/ \E e : pending' = <<e>>
      BY <1>7 DEF OnToolEnd
    <2>4. pending' # <<>> => Head(pending').call = part.call
      BY <2>2, <2>3 DEF Batch
    <2> QED
      BY <1>0, <1>1, <1>2, <1>7, <2>1, <2>2, <2>3, <2>4, CallSilent
  <1> QED
    BY <1>1, <1>3, <1>5, <1>6, <1>7

LEMMA ToolSpell ==
  ASSUME KeyInv, SpellInv, NEW c \in CallIds,
         ToolCall(c) \/ \E result \in Results : ToolResult(c, result)
  PROVE  SpellInv'
  <1>1. /\ pending = <<>> /\ agent = "tools" /\ part' = part /\ UNCHANGED <<composerVars, rewrites>>
        /\ \/ OnFunctionToolCall(c, calls[c].tool)
           \/ \E result : OnFunctionToolResult(c, calls[c].tool, result)
    BY DEF ToolCall, ToolResult, Asked
  <1>2. part = NoPart /\ ~Thinks(NoCall)
    BY <1>1, Quiet DEF KeyInv, PartInv
  <1>3. \/ pending' = <<>>
        \/ \E t \in NoticeTypes \cup FinishTypes : pending' = <<Event(t, keyOf[c], c, 0)>>
    <2>1. CASE OnFunctionToolCall(c, calls[c].tool)
      <3>1. \/ pending' = <<>>
            \/ \E t \in {"CodeInterpreterCallInterpreting", "WebSearchCallSearching"} :
                 pending' = <<Event(t, keyOf[c], c, 0)>>
        BY <2>1 DEF OnFunctionToolCall, Registered
      <3> QED
        BY <3>1 DEF NoticeTypes
    <2>2. CASE \E result : OnFunctionToolResult(c, calls[c].tool, result)
      <3>1. \/ pending' = <<>>
            \/ \E t \in {"McpCallCompleted", "McpCallFailed", "WebSearchCallCompleted",
                         "CodeInterpreterCallCompleted"} :
                 pending' = <<Event(t, keyOf[c], c, 0)>>
        BY <2>2 DEF OnFunctionToolResult, Registered
      <3> QED
        BY <3>1 DEF FinishTypes
    <2> QED
      BY <1>1, <2>1, <2>2
  <1>4. (NoticeTypes \cup FinishTypes) \cap (StartTypes \cup ReasonTypes) = {}
    BY StartTypesListed DEF NoticeTypes, FinishTypes, ReasonTypes
  <1>5. ASSUME NEW t \in NoticeTypes \cup FinishTypes, pending' = <<Event(t, keyOf[c], c, 0)>>
        PROVE  SpellInv'
    <2>1. PICK e : e = Event(t, keyOf[c], c, 0)
      OBVIOUS
    <2>2. e.type = t /\ e.call = c /\ pending' = <<e>>
      BY <1>5, <2>1, EventFields
    <2>3. Head(pending') = e
      BY <2>2
    <2>4. /\ Head(pending').call = c /\ ~Starting(pending')
          /\ Head(pending').type \notin ReasonTypes
      BY <1>4, <2>2, <2>3 DEF Starting
    <2> QED
      BY <1>1, <1>2, <2>2, <2>4, CallSilent
  <1>6. CASE pending' = <<>>
    BY <1>1, <1>2, <1>6, CallSilent
  <1> QED
    BY <1>3, <1>5, <1>6

LEMMA RunResultSpell ==
  ASSUME SpellInv, RunResult
  PROVE  SpellInv'
  <1>1. /\ pending = <<>> /\ part = NoPart /\ part' = NoPart /\ UNCHANGED <<composerVars, rewrites>>
        /\ \E type \in {"UsageFinal", "UsageFinalIncomplete"} :
             pending' = <<Event(type, 0, NoCall, 0)>>
    BY DEF RunResult, Asked
  <1>2. pending' # <<>> /\ Len(pending') = 1 /\ Terminal(Head(pending'))
    BY <1>1, EventFields DEF Terminal
  <1>3. ~Thinks(NoCall) /\ ~Thinks(NoCall)'
    BY <1>1, <1>2, Quiet DEF Thinks, Terminal, ReasonTypes
  <1>4. ~Finishes(NoCall)'
    BY <1>2, ClosingListed DEF Finishes, Closing, Terminal
  <1>5. ~Owes(NoCall)'
    BY <1>1, <1>4, CallIdsAssumption DEF Owes, Awaits, Speaking
  <1>6. BatchInv'
    BY <1>2 DEF BatchInv
  <1> QED
    BY <1>1, <1>3, <1>5, <1>6, SpellSilent

LEMMA CompleteSpell ==
  ASSUME TypeInv, KeyInv, FinishInv, SpellInv, CompleteResponse
  PROVE  SpellInv'
  <1>1. /\ pending # <<>> /\ Terminal(Head(pending)) /\ pending' = Tail(pending)
        /\ part' = part /\ itemKind' = itemKind /\ UNCHANGED <<composerVars, rewrites>>
    BY DEF CompleteResponse, agentVars
  <1>2. pending' = <<>>
    <2>1. ASSUME NEW k, NEW c, Batch(pending, k, c) PROVE FALSE
      <3>1. Head(pending).type \in ItemEventTypes
        BY <1>1, <2>1 DEF Batch
      <3> QED
        BY <1>1, <3>1, NotTerminal
    <2>2. Len(pending) = 1
      BY <2>1 DEF KeyInv, PendingInv
    <2> QED
      BY <1>1, <2>2 DEF TypeInv, TypeOK
  <1>3. ~Owes(NoCall) /\ NoCall \in Sources
    BY <1>1 DEF FinishInv, FinalInv, Sources
  <1>4. ~Speaking
    BY <1>3 DEF Owes, Awaits
  <1>5. ~Thinks(NoCall) /\ ~Thinks(NoCall)'
    BY <1>1, <1>2, <1>4 DEF Thinks, Speaking, Terminal, ReasonTypes
  <1>6. ~Owes(NoCall)'
    BY <1>1, <1>2, <1>4, CallIdsAssumption DEF Owes, Awaits, Speaking, Finishes, Closing
  <1>7. BatchInv'
    BY <1>2 DEF BatchInv
  <1> QED
    BY <1>1, <1>5, <1>6, <1>7, SpellSilent

(* Nothing changes while no event, item or part does.                      *)
LEMMA SpellKept ==
  ASSUME SpellInv, UNCHANGED <<composerVars, normalizerVars, part, rewrites>>
  PROVE  SpellInv'
  <1>1. /\ UNCHANGED <<items, reasoningItem, client, itemKind, raw, pending, part, rewrites>>
        /\ NoCall \notin CallIds
    BY CallIdsAssumption DEF composerVars, normalizerVars
  <1>2. /\ Thinks(NoCall)' <=> Thinks(NoCall)
        /\ Owes(NoCall)' <=> Owes(NoCall)
        /\ Finishes(NoCall)' <=> Finishes(NoCall)
        /\ DutyKey(NoCall)' = DutyKey(NoCall)
        /\ \A j : Opening(j)' <=> Opening(j)
    BY <1>1 DEF Thinks, Owes, Awaits, Speaking, Finishes, Closing, DutyKey, Opening, Starting
  <1>3. ThoughtInv'
    BY <1>1, <1>2 DEF SpellInv, ThoughtInv, ThoughtsSent, ThoughtsText, Words, Whole, Thoughts
  <1>4. MessageInv'
    BY <1>1, <1>2 DEF SpellInv, MessageInv, Messaging, MessageSent, WordsItem, Words, Whole, Thoughts
  <1>5. FinishedInv' /\ BatchInv'
    BY <1>1, <1>2 DEF SpellInv, FinishedInv, BatchInv
  <1> QED
    BY <1>3, <1>4, <1>5 DEF SpellInv

LEMMA SpellInit ==
  ASSUME Init PROVE SpellInv
  <1>1. /\ pending = <<>> /\ part = NoPart /\ client = <<>> /\ reasoningItem = NoItem
    BY DEF Init, ComposerInit, NormalizerInit
  <1>2. ~Thinks(NoCall)
    BY <1>1, Quiet
  <1>3. ~Owes(NoCall)
    BY <1>1, CallIdsAssumption DEF Owes, Awaits, Speaking, Finishes, Closing
  <1> QED
    BY <1>1, <1>2, <1>3
    DEF SpellInv, ThoughtInv, ThoughtsSent, ThoughtsText, MessageInv, FinishedInv, BatchInv

(* What a frame leaves of the text of an item.                             *)
LEMMA FrameTexts ==
  ASSUME NEW it \in ClientItem, NEW e
  PROVE  /\ Streamed(it, e).sent = it.sent + e.text /\ Streamed(it, e).text = it.text
         /\ Noticed(it, e).sent = it.sent
         /\ Finished(it, e).sent = it.sent /\ Finished(it, e).text = FinalText(it, e)
         /\ Segment(it, e).sent = it.sent
         /\ Segment(it, e).text = IF OwnSegment(e) THEN it.text + e.text ELSE it.text
  <1> DEFINE t == Touched(it)
  <1>1. t \in ClientItem /\ t.sent = it.sent /\ t.text = it.text
    BY DEF Touched, ClientItem
  <1> HIDE DEF t
  <1>2. ASSUME NEW x
        PROVE  /\ [t EXCEPT !.sent = x].sent = x /\ [t EXCEPT !.sent = x].text = t.text
               /\ [t EXCEPT !.text = x].sent = t.sent /\ [t EXCEPT !.text = x].text = x
    BY <1>1 DEF ClientItem
  <1>3. ASSUME NEW x, NEW y
        PROVE  /\ [t EXCEPT !.text = x, !.dones = y].sent = t.sent
               /\ [t EXCEPT !.text = x, !.dones = y].text = x
    BY <1>1 DEF ClientItem
  <1> DEFINE x == it.sent + e.text
             y == FinalText(it, e)
             n == it.dones + 1
             z == IF OwnSegment(e) THEN it.text + e.text ELSE it.text
             m == IF OwnSegment(e) /\ ~reasoningDone THEN it.dones + 1 ELSE it.dones
  <1>4. /\ Streamed(it, e) = [t EXCEPT !.sent = x]
        /\ Noticed(it, e) = [t EXCEPT !.text = y]
        /\ Finished(it, e) = [t EXCEPT !.text = y, !.dones = n]
        /\ Segment(it, e) = [t EXCEPT !.text = z, !.dones = m]
    BY DEF Streamed, Noticed, Finished, Segment, t
  <1>5. /\ Streamed(it, e).sent = x /\ Streamed(it, e).text = it.text
        /\ Noticed(it, e).sent = it.sent
        /\ Finished(it, e).sent = it.sent /\ Finished(it, e).text = y
        /\ Segment(it, e).sent = it.sent /\ Segment(it, e).text = z
    <2> HIDE DEF x, y, z, n, m
    <2> QED
      BY <1>1, <1>2, <1>3, <1>4
  <1> QED
    BY <1>5

(* What an event about an announced item does to it, and to no other.      *)
LEMMA FeedTouches ==
  ASSUME TypeInv, KeyInv, FinishInv, FeedPending, NEW e, e = Head(pending), e.type \notin StartTypes
  PROVE  \E s \in 1 .. Len(client), r \in ClientItem :
           /\ s = items[e.key] + 1 /\ client[s] \in ClientItem
           /\ Len(client') = Len(client) /\ client'[s] = r
           /\ \A i \in 1 .. Len(client) : i # s => client'[i] = client[i]
           /\ UNCHANGED <<items, reasoningItem>>
           /\ r.kind = client[s].kind /\ r.call = client[s].call /\ client[s].call = e.call
           /\ Thinks(e.call) <=> s = reasoningItem + 1
           /\ Thinks(e.call) \/ client[s].dones = 0
           /\ e.type \notin ClosingTypes => r.dones = client[s].dones
           /\ r.sent = IF e.type \in DeltaTypes THEN client[s].sent + e.text ELSE client[s].sent
           /\ e.type \in DeltaTypes => r.text = client[s].text
           /\ e.type = "MessageDone" => r.text = e.text
           /\ e.type = "ReasoningDone" => r.text = client[s].text + e.text
  <1>1. /\ e \in ItemEvent /\ Feed(e) /\ ComposerTypeOK /\ Indexed
        /\ e.call \in Sources /\ e.key \in Keys /\ Owes(e.call) /\ DutyKey(e.call) = e.key
        /\ e.type \in ClosingTypes => (Thinks(e.call) <=> e.type \in ReasonTypes)
        /\ \A j : ~Opening(j)
    BY FeedDuties
  <1>2. /\ items[e.key] # NoItem
        /\ client[items[e.key] + 1].call = e.call
        /\ Thinks(e.call) => items[e.key] = reasoningItem
        /\ ~Thinks(e.call) => client[items[e.key] + 1].dones = 0 /\ items[e.key] # reasoningItem
    BY <1>1, DutyFacts
  <1>3. PICK s : s = items[e.key] + 1
    OBVIOUS
  <1>4. s \in 1 .. Len(client) /\ client[s] \in ClientItem /\ items[e.key] \in Nat
    BY <1>1, <1>2, <1>3, DutyItems
  <1>5. PICK it : it = client[s]
    OBVIOUS
  <1>6. /\ Thinks(e.call) <=> s = reasoningItem + 1
        /\ Thinks(e.call) \/ it.dones = 0
    BY <1>1, <1>2, <1>3, <1>4, <1>5 DEF ComposerTypeOK, NoItem
  <1>7. UNCHANGED <<items, reasoningItem>> /\ Slot(e) = s /\ it \in ClientItem
    BY <1>1, <1>3, <1>4, <1>5, StartTypesListed
    DEF Slot, Feed, StartItem, StartReasoning, ItemDelta, ItemNotice, FinishItem, FinishReasoning
  <1>8. \A r \in {Streamed(it, e), Noticed(it, e), Finished(it, e), Segment(it, e)} :
          r \in ClientItem /\ r.kind = it.kind /\ r.call = it.call
    <2> TAKE r \in {Streamed(it, e), Noticed(it, e), Finished(it, e), Segment(it, e)}
    <2>1. r \in ClientItem
      BY <1>1, <1>7, UpdatedItem
    <2>2. r.kind = it.kind /\ r.call = it.call
      BY <1>7, FrameFields
    <2> QED
      BY <2>1, <2>2
  <1>9. Streamed(it, e).dones = it.dones /\ Noticed(it, e).dones = it.dones
    BY <1>7, FrameFields
  <1>10. PICK r \in ClientItem :
           /\ client' = [client EXCEPT ![s] = r]
           /\ r.kind = it.kind /\ r.call = it.call
           /\ e.type \notin ClosingTypes => r.dones = it.dones
           /\ r.sent = IF e.type \in DeltaTypes THEN it.sent + e.text ELSE it.sent
           /\ e.type \in DeltaTypes => r.text = it.text
           /\ e.type = "MessageDone" => r.text = e.text
           /\ e.type = "ReasoningDone" => r.text = it.text + e.text
    <2>1. CASE ItemDelta(e)
      <3>1. /\ e.type \in DeltaTypes /\ e.type \notin {"MessageDone", "ReasoningDone"}
            /\ client' = [client EXCEPT ![s] = Streamed(it, e)]
        BY <1>5, <1>7, <2>1 DEF ItemDelta, DeltaTypes
      <3>2. Streamed(it, e).sent = it.sent + e.text /\ Streamed(it, e).text = it.text
        BY <1>7, FrameTexts
      <3> QED
        BY <1>8, <1>9, <3>1, <3>2
    <2>2. CASE ItemNotice(e)
      <3>1. /\ e.type \notin DeltaTypes /\ e.type \notin {"MessageDone", "ReasoningDone"}
            /\ client' = [client EXCEPT ![s] = Noticed(it, e)]
        BY <1>5, <1>7, <2>2 DEF ItemNotice, DeltaTypes, NoticeTypes
      <3>2. Noticed(it, e).sent = it.sent
        BY <1>7, FrameTexts
      <3> QED
        BY <1>8, <1>9, <3>1, <3>2
    <2>3. CASE FinishItem(e)
      <3>1. /\ e.type \notin DeltaTypes /\ e.type # "ReasoningDone" /\ e.type \in ClosingTypes
            /\ client' = [client EXCEPT ![s] = Finished(it, e)]
        BY <1>5, <1>7, <2>3 DEF FinishItem, DeltaTypes, FinishTypes, ClosingTypes
      <3>2. /\ Finished(it, e).sent = it.sent
            /\ e.type = "MessageDone" => Finished(it, e).text = e.text
        BY <1>7, FrameTexts DEF FinalText, TextTypes
      <3> QED
        BY <1>8, <3>1, <3>2
    <2>4. CASE FinishReasoning(e)
      <3>1. /\ e.type \notin DeltaTypes /\ e.type = "ReasoningDone" /\ e.type \in ClosingTypes
            /\ client' = [client EXCEPT ![s] = Segment(it, e)]
        BY <1>5, <1>7, <2>4 DEF FinishReasoning, DeltaTypes, ClosingTypes
      <3>2. OwnSegment(e)
        BY <1>1, <1>2, <3>1 DEF ReasonTypes, OwnSegment
      <3>3. Segment(it, e).sent = it.sent /\ Segment(it, e).text = it.text + e.text
        BY <1>7, <3>2, FrameTexts
      <3> QED
        BY <1>8, <3>1, <3>3
    <2> QED
      BY <1>1, <2>1, <2>2, <2>3, <2>4, StartTypesListed DEF Feed, StartItem, StartReasoning
  <1>11. /\ Len(client') = Len(client) /\ client'[s] = r
         /\ \A i \in 1 .. Len(client) : i # s => client'[i] = client[i]
    BY <1>1, <1>4, <1>10 DEF ComposerTypeOK
  <1>12. client[s].call = e.call
    BY <1>2, <1>3
  <1> QED
    BY <1>3, <1>4, <1>5, <1>6, <1>7, <1>10, <1>11, <1>12

(* What the start of an item adds.                                         *)
LEMMA FeedAdds ==
  ASSUME TypeInv, KeyInv, FinishInv, FeedPending, NEW e, e = Head(pending), e.type \in StartTypes
  PROVE  /\ Opening(e.key)
         /\ \/ /\ e.type = "ReasoningStarted" /\ reasoningItem # NoItem
               /\ UNCHANGED <<client, reasoningItem>>
            \/ /\ Len(client') = Len(client) + 1 /\ items'[e.key] = Len(client)
               /\ Len(client) \in Nat
               /\ \A i \in 1 .. Len(client) : client'[i] = client[i]
               /\ \A k \in Keys : k # e.key => items'[k] = items[k]
               /\ client'[Len(client) + 1] = AddedItem(StartedKind[e.type], e.call)
               /\ IF e.type = "ReasoningStarted"
                  THEN reasoningItem = NoItem /\ reasoningItem' = Len(client)
                  ELSE reasoningItem' = reasoningItem
  <1>1. /\ e \in ItemEvent /\ Feed(e) /\ ComposerTypeOK /\ Indexed
        /\ \A j : Opening(j) <=> j = e.key
    BY FeedDuties
  <1>2. ASSUME NEW kind \in ItemKinds, AddItem(e, kind)
        PROVE  /\ Len(client') = Len(client) + 1 /\ items'[e.key] = Len(client)
               /\ Len(client) \in Nat /\ Len(client) = nextIndex
               /\ \A i \in 1 .. Len(client) : client'[i] = client[i]
               /\ \A k \in Keys : k # e.key => items'[k] = items[k]
               /\ client'[Len(client) + 1] = AddedItem(kind, e.call)
    <2>1. /\ nextIndex' = nextIndex + 1 /\ Len(client') = nextIndex'
          /\ items'[e.key] = nextIndex
          /\ \A k \in Keys : k # e.key => items'[k] = items[k]
          /\ \A i \in 1 .. nextIndex : client'[i] = client[i]
      BY <1>1, <1>2, ItemAdded
    <2>2. nextIndex \in Nat /\ Len(client) = nextIndex /\ client \in Seq(ClientItem)
      BY <1>1 DEF ComposerTypeOK, Indexed
    <2>3. PICK it : it = AddedItem(kind, e.call)
      OBVIOUS
    <2>4. client' = Append(client, it)
      BY <1>2, <2>3 DEF AddItem
    <2>5. client'[Len(client) + 1] = it
      BY <2>2, <2>4
    <2> QED
      BY <2>1, <2>2, <2>3, <2>5
  <1>3. CASE StartItem(e)
    <2>1. /\ AddItem(e, StartedKind[e.type]) /\ StartedKind[e.type] \in ItemKinds
          /\ e.type # "ReasoningStarted" /\ UNCHANGED reasoningItem
      BY <1>3, StartedKindType DEF StartItem
    <2>2. PICK kind \in ItemKinds : kind = StartedKind[e.type]
      BY <2>1
    <2> QED
      BY <1>1, <1>2, <2>1, <2>2
  <1>4. CASE StartReasoning(e) /\ reasoningItem = NoItem
    <2>1. /\ AddItem(e, "reasoning") /\ "reasoning" \in ItemKinds
          /\ e.type = "ReasoningStarted" /\ reasoningItem' = nextIndex
      BY <1>4 DEF StartReasoning, ItemKinds
    <2>2. StartedKind[e.type] = "reasoning"
      BY <2>1 DEF StartedKind
    <2> QED
      BY <1>1, <1>2, <1>4, <2>1, <2>2
  <1>5. CASE StartReasoning(e) /\ reasoningItem # NoItem
    BY <1>1, <1>5 DEF StartReasoning
  <1> QED
    BY <1>1, <1>3, <1>4, <1>5, LaterTypes
    DEF Feed, ItemDelta, ItemNotice, FinishItem, FinishReasoning

(* Feeding an event takes its chunk off what the batch still delivers, and *)
(* leaves the length of the model's words as it is while they are open.    *)
LEMMA WordsFed ==
  ASSUME TypeInv, KeyInv, FinishInv, SpellInv, FeedPending, NEW e, e = Head(pending)
  PROVE  /\ Chunk(e) \in Nat /\ Words(pending)' \in Nat /\ e.text \in Nat
         /\ e.call = NoCall => Words(pending) = Chunk(e) + Words(pending)'
         /\ e.call # NoCall => Words(pending) = 0 /\ Words(pending)' = 0 /\ ~Finishes(NoCall)'
         /\ e.call = NoCall => (e.type \in ReasonTypes <=> Thinks(NoCall))
         /\ e.type = "MessageStarted" => e.call = NoCall
         /\ Thinks(NoCall)' => Thinks(NoCall)
         /\ Thinks(NoCall) /\ ~Thinks(NoCall)' => e.type = "ReasoningDone"
         /\ e.type = "ReasoningDone" => ~Thinks(NoCall)'
         /\ Thinks(NoCall)' \/ Owes(NoCall)' => Whole' = Whole
         /\ e.call = NoCall /\ e.type \in ClosingTypes =>
              /\ Finishes(NoCall) /\ Owes(NoCall) /\ pending[Len(pending)] = e
              /\ Whole = e.text /\ Words(pending)' = 0
         /\ Finishes(NoCall)' => Finishes(NoCall) /\ pending'[Len(pending')] = pending[Len(pending)]
         /\ BatchInv'
  <1>1. /\ e \in ItemEvent /\ e.call \in Sources /\ Owes(e.call) /\ Advance(e.call, e.type)
        /\ e.type \in ReasonTypes => e.call = NoCall
    BY FeedDuties
  <1>2. /\ pending # <<>> /\ ~Terminal(e) /\ pending' = Tail(pending) /\ part' = part
        /\ pending \in Seq(StreamEvent) /\ UNCHANGED <<itemKind, calls, raw>>
        /\ NoCall \notin CallIds
    BY CallIdsAssumption DEF FeedPending, agentVars, TypeInv, TypeOK
  <1>3. /\ Len(pending) <= 3
        /\ e.type = "MessageStarted" => e.call = NoCall
        /\ e.call = NoCall => (e.type \in ReasonTypes <=> Thinks(NoCall))
    BY <1>2 DEF SpellInv, BatchInv
  <1>4. /\ Shape(pending)
        /\ Closing(pending) => part = NoPart /\ ~Awaits(e.call)
    BY <1>2 DEF FinishInv, EventsInv
  <1>5. /\ e.type \in ClosingTypes => pending' = <<>> /\ Closing(pending)
        /\ e.type \notin ClosingTypes => (Closing(pending') <=> Closing(pending))
        /\ pending' # <<>> => /\ Head(pending') = pending[2] /\ 2 \in 1 .. Len(pending)
                              /\ Head(pending').type \in ReasonTypes <=> e.type \in ReasonTypes
    BY <1>2, <1>4, ShapeTail
  <1>6. /\ Chunks(pending) = Chunk(e) + Chunks(pending')
        /\ Chunks(pending') \in Nat /\ Chunk(e) \in Nat
        /\ Len(pending') <= 3
        /\ pending' # <<>> => pending'[Len(pending')] = pending[Len(pending)]
    BY <1>2, <1>3, ChunksTail
  <1>7. pending' # <<>> => /\ Head(pending').call = e.call
                           /\ Head(pending').type \notin StartTypes
    <2> SUFFICES ASSUME pending' # <<>>
                 PROVE  Head(pending').call = e.call /\ Head(pending').type \notin StartTypes
      OBVIOUS
    <2>1. PICK j \in Keys \cup {NoKey}, b \in CallIds \cup {NoCall} : Batch(pending, j, b)
      BY <1>2 DEF KeyInv, PendingInv
    <2>2. pending[2].call = b /\ pending[2].type \notin StartTypes
      BY <1>5, <2>1 DEF Batch
    <2>3. e = pending[1] /\ 1 \in 1 .. Len(pending)
      BY <1>2
    <2>4. e.call = b
      BY <2>1, <2>3 DEF Batch
    <2> QED
      BY <1>5, <2>2, <2>4
  <1>8. Words(pending) = IF e.call = NoCall THEN Chunks(pending) ELSE 0
    BY <1>2 DEF Words
  <1>9. Words(pending)' = IF e.call = NoCall THEN Chunks(pending') ELSE 0
    BY <1>7, ChunksOf DEF Words
  <1>10. e.text \in Nat
    BY <1>1 DEF ItemEvent
  <1>11. (pending' = <<>> => pending[Len(pending)] = e /\ Chunks(pending') = 0)
    <2> SUFFICES ASSUME Tail(pending) = <<>> PROVE pending[Len(pending)] = e
      BY <1>2, ChunksOf
    <2>1. Len(pending) = 1
      <3>1. Len(Tail(pending)) = Len(pending) - 1
        BY <1>2, HeadTailProperties
      <3>2. Len(Tail(pending)) = 0
        <4>1. \A p : p = <<>> => Len(p) = 0
          OBVIOUS
        <4> QED
          BY <4>1
      <3>3. Len(pending) \in Nat
        BY <1>2
      <3> QED
        BY <3>1, <3>2, <3>3
    <2> QED
      BY <1>2, <2>1
  <1>12. e.call = NoCall /\ e.type \in ClosingTypes =>
           /\ Finishes(NoCall) /\ Owes(NoCall) /\ pending[Len(pending)] = e
           /\ Whole = e.text /\ Words(pending)' = 0
    <2> SUFFICES ASSUME e.call = NoCall, e.type \in ClosingTypes
                 PROVE  /\ Finishes(NoCall) /\ Owes(NoCall) /\ pending[Len(pending)] = e
                        /\ Whole = e.text /\ Words(pending)' = 0
      OBVIOUS
    <2>1. pending' = <<>> /\ Closing(pending) /\ part = NoPart
      BY <1>4, <1>5
    <2>2. Finishes(NoCall)
      BY <2>1 DEF Finishes
    <2>3. Whole = e.text
      BY <1>2, <1>11, <2>1 DEF Whole
    <2> QED
      BY <1>1, <1>9, <1>11, <2>1, <2>2, <2>3
  <1>13. Finishes(NoCall)' => /\ Finishes(NoCall) /\ e.call = NoCall
                              /\ pending'[Len(pending')] = pending[Len(pending)]
    <2> SUFFICES ASSUME Finishes(NoCall)'
                 PROVE  /\ Finishes(NoCall) /\ e.call = NoCall
                        /\ pending'[Len(pending')] = pending[Len(pending)]
      OBVIOUS
    <2>1. pending' # <<>> /\ Closing(pending') /\ Head(pending').call = NoCall
      BY DEF Finishes, Closing
    <2>2. e.type \notin ClosingTypes /\ e.call = NoCall
      BY <1>5, <1>7, <2>1
    <2>3. Closing(pending)
      BY <1>5, <2>1, <2>2
    <2> QED
      BY <1>6, <2>1, <2>2, <2>3 DEF Finishes
  <1>14. Thinks(NoCall)' => Thinks(NoCall)
    <2>1. CASE part # NoPart
      BY <1>2, <2>1 DEF Thinks
    <2>2. CASE part = NoPart
      BY <1>2, <1>5, <2>2 DEF Thinks
    <2> QED
      BY <2>1, <2>2
  <1>15. Thinks(NoCall) /\ ~Thinks(NoCall)' => e.type = "ReasoningDone"
    <2> SUFFICES ASSUME Thinks(NoCall), ~Thinks(NoCall)' PROVE e.type = "ReasoningDone"
      OBVIOUS
    <2>1. part = NoPart
      BY <1>2 DEF Thinks
    <2>2. e.type \in ReasonTypes /\ e.call = NoCall
      BY <1>1, <2>1 DEF Thinks
    <2>3. pending' = <<>>
      BY <1>2, <1>5, <2>1, <2>2 DEF Thinks
    <2>4. ~Awaits(NoCall)
      BY <1>2, <2>1 DEF Awaits, Speaking
    <2>5. Closing(pending)
      BY <1>1, <2>2, <2>4 DEF Owes, Finishes
    <2>6. e.type \in ClosingTypes
      BY <1>11, <2>3, <2>5 DEF Closing
    <2> QED
      BY <2>2, <2>6, ClosingListed DEF ReasonTypes
  <1>16. e.type = "ReasoningDone" => ~Thinks(NoCall)'
    <2> SUFFICES ASSUME e.type = "ReasoningDone" PROVE ~Thinks(NoCall)'
      OBVIOUS
    <2>1. e.type \in ClosingTypes
      BY ClosingListed
    <2>2. pending' = <<>> /\ part = NoPart
      BY <1>4, <1>5, <2>1
    <2> QED
      BY <1>2, <2>2 DEF Thinks
  <1>17. Thinks(NoCall)' \/ Owes(NoCall)' => Whole' = Whole
    <2>1. CASE part # NoPart
      BY <1>2, <2>1 DEF Whole, Thoughts
    <2>2. CASE part = NoPart
      <3>1. ~Awaits(NoCall)'
        BY <1>2, <2>2 DEF Awaits, Speaking
      <3>2. Thinks(NoCall)' \/ Owes(NoCall)' => pending' # <<>>
        BY <1>2, <2>2, <3>1 DEF Thinks, Owes, Finishes, Closing
      <3>3. pending' # <<>> => Whole' = Whole
        BY <1>2, <1>6, <2>2 DEF Whole
      <3> QED
        BY <3>2, <3>3
    <2> QED
      BY <2>1, <2>2
  <1>18. BatchInv'
    <2> SUFFICES ASSUME pending' # <<>>
                 PROVE  /\ Len(pending') <= 3
                        /\ Head(pending').type # "MessageStarted"
                        /\ Head(pending').call = NoCall =>
                             (Head(pending').type \in ReasonTypes <=> Thinks(NoCall)')
      BY DEF BatchInv
    <2>1. Head(pending').type # "MessageStarted"
      BY <1>7, StartTypesListed
    <2>2. e.type \notin ClosingTypes /\ e.type # "ReasoningDone"
      BY <1>5, ClosingListed
    <2>3. Thinks(NoCall)' <=> Thinks(NoCall)
      BY <1>14, <1>15, <2>2
    <2>4. Head(pending').call = NoCall => (Head(pending').type \in ReasonTypes <=> Thinks(NoCall))
      BY <1>3, <1>5, <1>7
    <2> QED
      BY <1>6, <2>1, <2>3, <2>4
  <1> QED
    BY <1>3, <1>6, <1>8, <1>9, <1>10, <1>12, <1>13, <1>14, <1>15, <1>16, <1>17, <1>18

(* Only a message is started as one, with nothing sent.                    *)
LEMMA StartedMessage ==
  /\ \A t \in StartTypes : StartedKind[t] = "message" => t = "MessageStarted"
  /\ \A kind, call : LET it == AddedItem(kind, call)
                     IN it.kind = kind /\ it.call = call /\ it.sent = 0 /\ it.text = 0 /\ it.dones = 0
  /\ StartTypes \cap (DeltaTypes \cup ClosingTypes) = {}
  <1>1. \A t \in StartTypes : StartedKind[t] = "message" => t = "MessageStarted"
    BY DEF StartTypes, StartedKind
  <1>2. \A kind, call : LET it == AddedItem(kind, call)
                        IN it.kind = kind /\ it.call = call /\ it.sent = 0 /\ it.text = 0 /\ it.dones = 0
    BY DEF AddedItem
  <1>3. StartTypes \cap (DeltaTypes \cup ClosingTypes) = {}
    BY StartTypesListed, ClosingListed DEF DeltaTypes
  <1> QED
    BY <1>1, <1>2, <1>3

(* The start of an item adds no words.                                     *)
LEMMA StartSpell ==
  ASSUME TypeInv, KeyInv, FinishInv, SpellInv, FeedPending, NEW e, e = Head(pending),
         e.type \in StartTypes
  PROVE  SpellInv'
  <1>1. /\ ComposerTypeOK /\ Indexed /\ e.call \in Sources /\ e.key \in Keys
        /\ Owes(e.call) /\ DutyKey(e.call) = e.key /\ Advance(e.call, e.type)
        /\ e.type \in ReasonTypes => e.call = NoCall
        /\ \A v \in Sources : Owes(v) => DutyKey(v) \in Keys
    BY FeedDuties
  <1>2. /\ Words(pending)' \in Nat /\ Chunk(e) = 0
        /\ Words(pending) = Words(pending)'
        /\ e.call = NoCall => (e.type \in ReasonTypes <=> Thinks(NoCall))
        /\ e.type = "MessageStarted" => e.call = NoCall
        /\ Thinks(NoCall)' <=> Thinks(NoCall)
        /\ Thinks(NoCall)' \/ Owes(NoCall)' => Whole' = Whole
        /\ Finishes(NoCall)' => Finishes(NoCall) /\ pending'[Len(pending')] = pending[Len(pending)]
        /\ BatchInv'
    <2>1. Chunk(e) = 0 /\ e.type # "ReasoningDone"
      BY StartedMessage, ClosingListed DEF Chunk
    <2>2. /\ Chunk(e) \in Nat /\ Words(pending)' \in Nat
          /\ e.call = NoCall => Words(pending) = Chunk(e) + Words(pending)'
          /\ e.call # NoCall => Words(pending) = 0 /\ Words(pending)' = 0
          /\ e.call = NoCall => (e.type \in ReasonTypes <=> Thinks(NoCall))
          /\ e.type = "MessageStarted" => e.call = NoCall
          /\ Thinks(NoCall)' => Thinks(NoCall)
          /\ Thinks(NoCall) /\ ~Thinks(NoCall)' => e.type = "ReasoningDone"
          /\ Thinks(NoCall)' \/ Owes(NoCall)' => Whole' = Whole
          /\ Finishes(NoCall)' => Finishes(NoCall) /\ pending'[Len(pending')] = pending[Len(pending)]
          /\ BatchInv'
      BY WordsFed
    <2>3. Words(pending) = Words(pending)'
      BY <2>1, <2>2
    <2> QED
      BY <2>1, <2>2, <2>3
  <1>3. Opening(e.key) /\ NoCall \in Sources
    BY FeedAdds DEF Sources
  <1> DEFINE Shared == /\ e.type = "ReasoningStarted" /\ reasoningItem # NoItem
                       /\ UNCHANGED <<client, reasoningItem>>
             New == /\ Len(client') = Len(client) + 1 /\ items'[e.key] = Len(client)
                    /\ Len(client) \in Nat
                    /\ \A i \in 1 .. Len(client) : client'[i] = client[i]
                    /\ \A k \in Keys : k # e.key => items'[k] = items[k]
                    /\ client'[Len(client) + 1] = AddedItem(StartedKind[e.type], e.call)
                    /\ IF e.type = "ReasoningStarted"
                       THEN reasoningItem = NoItem /\ reasoningItem' = Len(client)
                       ELSE reasoningItem' = reasoningItem
  <1>4. Shared \/ New
    BY FeedAdds
  <1>5. ThoughtsSent' = ThoughtsSent /\ ThoughtsText' = ThoughtsText
    <2>1. CASE Shared
      BY <2>1 DEF ThoughtsSent, ThoughtsText
    <2>2. CASE New /\ e.type = "ReasoningStarted"
      <3>1. reasoningItem = NoItem /\ reasoningItem' = Len(client) /\ reasoningItem' # NoItem
            /\ client'[reasoningItem' + 1].sent = 0 /\ client'[reasoningItem' + 1].text = 0
        BY <2>2, StartedMessage DEF NoItem
      <3> QED
        BY <3>1 DEF ThoughtsSent, ThoughtsText
    <2>3. CASE New /\ e.type # "ReasoningStarted"
      <3>1. reasoningItem # NoItem => reasoningItem + 1 \in 1 .. Len(client)
        BY <1>1 DEF ComposerTypeOK, Indexed, NoItem
      <3> QED
        BY <2>3, <3>1 DEF ThoughtsSent, ThoughtsText
    <2> QED
      BY <1>4, <2>1, <2>2, <2>3
  <1>6. ThoughtInv'
    <2> SUFFICES ASSUME rewrites = 0 PROVE ThoughtInv'
      BY DEF FeedPending, agentVars, ThoughtInv
    <2>1. IF Thinks(NoCall) THEN ThoughtsSent + Words(pending) = ThoughtsText + Whole
          ELSE ThoughtsSent = ThoughtsText
      BY DEF SpellInv, ThoughtInv
    <2>2. IF Thinks(NoCall)' THEN ThoughtsSent' + Words(pending)' = ThoughtsText' + Whole'
          ELSE ThoughtsSent' = ThoughtsText'
      BY <1>2, <1>5, <2>1
    <2> QED
      BY <2>2 DEF ThoughtInv
  <1>7. MessageInv'
    <2> SUFFICES ASSUME Owes(NoCall)', ~Thinks(NoCall)', Messaging'
                 PROVE  /\ MessageSent' + Words(pending)' = Whole'
                        /\ Finishes(NoCall)' => pending'[Len(pending')].type = "MessageDone"
      BY DEF MessageInv
    <2>1. /\ Owes(NoCall) /\ DutyKey(NoCall)' = DutyKey(NoCall) /\ ~Thinks(NoCall)
          /\ ~Opening(DutyKey(NoCall))'
      BY <1>1, <1>2, <1>3 DEF Advance
    <2>2. PICK k : k = DutyKey(NoCall)
      OBVIOUS
    <2>3. WordsItem' = client'[items'[k] + 1] /\ k \in Keys
      BY <1>1, <1>3, <2>1, <2>2 DEF WordsItem
    <2>4. Messaging /\ MessageSent' = MessageSent
      <3>1. WordsItem'.kind = "message" /\ MessageSent' = WordsItem'.sent
        BY <2>1 DEF Messaging, MessageSent
      <3>2. CASE e.call = NoCall
        <4>1. e.type # "ReasoningStarted" /\ k = e.key
          BY <1>1, <1>2, <2>1, <2>2, <3>2 DEF ReasonTypes
        <4>2. WordsItem' = AddedItem(StartedKind[e.type], e.call)
          BY <1>4, <2>3, <4>1
        <4>3. e.type = "MessageStarted" /\ MessageSent' = 0
          BY <3>1, <4>2, StartedMessage
        <4> QED
          BY <1>3, <2>2, <4>1, <4>3 DEF Messaging, MessageSent
      <3>3. CASE e.call # NoCall
        <4>1. ~Opening(k) /\ items[k] # NoItem
          BY <1>3, <2>1, <2>2, <3>3, DutyFacts
        <4>2. k # e.key /\ e.type # "ReasoningStarted"
          BY <1>1, <1>3, <3>3, <4>1 DEF ReasonTypes
        <4>3. items[k] + 1 \in 1 .. Len(client)
          BY <1>1, <2>3, <4>1, DutyItems
        <4>4. WordsItem' = client[items[k] + 1]
          BY <1>4, <2>3, <4>2, <4>3
        <4>5. WordsItem = client[items[k] + 1]
          BY <2>2 DEF WordsItem
        <4> QED
          BY <2>2, <3>1, <4>1, <4>4, <4>5 DEF Messaging, MessageSent
      <3> QED
        BY <3>2, <3>3
    <2>5. /\ MessageSent + Words(pending) = Whole
          /\ Finishes(NoCall) => pending[Len(pending)].type = "MessageDone"
      BY <2>1, <2>4 DEF SpellInv, MessageInv
    <2> QED
      BY <1>2, <2>4, <2>5
  <1>8. FinishedInv'
    <2> SUFFICES ASSUME NEW i \in 1 .. Len(client'), client'[i].kind = "message"
                 PROVE  /\ client'[i].call = NoCall
                        /\ client'[i].dones > 0 => client'[i].sent = client'[i].text
      BY DEF FinishedInv
    <2>1. CASE i \in 1 .. Len(client) /\ client'[i] = client[i]
      BY <2>1 DEF SpellInv, FinishedInv
    <2>2. CASE i = Len(client) + 1 /\ client'[i] = AddedItem(StartedKind[e.type], e.call)
      <3>1. client'[i].call = e.call /\ client'[i].dones = 0 /\ e.type = "MessageStarted"
        BY <2>2, StartedMessage
      <3> QED
        BY <1>2, <3>1
    <2> QED
      BY <1>4, <2>1, <2>2
  <1> QED
    BY <1>2, <1>6, <1>7, <1>8 DEF SpellInv

(* A frame about an announced item adds the words its event delivers.      *)
LEMMA FrameSpell ==
  ASSUME TypeInv, KeyInv, FinishInv, SpellInv, FeedPending, NEW e, e = Head(pending),
         e.type \notin StartTypes
  PROVE  SpellInv'
  <1>1. /\ e \in ItemEvent /\ ComposerTypeOK /\ Indexed /\ e.call \in Sources /\ e.key \in Keys
        /\ Owes(e.call) /\ DutyKey(e.call) = e.key /\ Advance(e.call, e.type)
        /\ e.type \in ReasonTypes => e.call = NoCall
        /\ \A v \in Sources : Owes(v) => DutyKey(v) \in Keys
        /\ \A j : ~Opening(j)
        /\ NoCall \in Sources
    BY FeedDuties DEF Sources
  <1>2. /\ Chunk(e) \in Nat /\ Words(pending)' \in Nat /\ e.text \in Nat
        /\ e.call = NoCall => Words(pending) = Chunk(e) + Words(pending)'
        /\ e.call # NoCall => Words(pending) = 0 /\ Words(pending)' = 0
        /\ e.call = NoCall => (e.type \in ReasonTypes <=> Thinks(NoCall))
        /\ Thinks(NoCall)' => Thinks(NoCall)
        /\ Thinks(NoCall) /\ ~Thinks(NoCall)' => e.type = "ReasoningDone"
        /\ e.type = "ReasoningDone" => ~Thinks(NoCall)'
        /\ Thinks(NoCall)' \/ Owes(NoCall)' => Whole' = Whole
        /\ e.call = NoCall /\ e.type \in ClosingTypes =>
             /\ Finishes(NoCall) /\ Owes(NoCall) /\ pending[Len(pending)] = e
             /\ Whole = e.text /\ Words(pending)' = 0
        /\ Finishes(NoCall)' => Finishes(NoCall) /\ pending'[Len(pending')] = pending[Len(pending)]
        /\ BatchInv'
    BY WordsFed
  <1>3. PICK s \in 1 .. Len(client), r \in ClientItem :
          /\ s = items[e.key] + 1 /\ client[s] \in ClientItem
          /\ Len(client') = Len(client) /\ client'[s] = r
          /\ \A i \in 1 .. Len(client) : i # s => client'[i] = client[i]
          /\ UNCHANGED <<items, reasoningItem>>
          /\ r.kind = client[s].kind /\ r.call = client[s].call /\ client[s].call = e.call
          /\ Thinks(e.call) <=> s = reasoningItem + 1
          /\ Thinks(e.call) \/ client[s].dones = 0
          /\ e.type \notin ClosingTypes => r.dones = client[s].dones
          /\ r.sent = IF e.type \in DeltaTypes THEN client[s].sent + e.text ELSE client[s].sent
          /\ e.type \in DeltaTypes => r.text = client[s].text
          /\ e.type = "MessageDone" => r.text = e.text
          /\ e.type = "ReasoningDone" => r.text = client[s].text + e.text
    BY FeedTouches
  <1>4. /\ client[s].sent \in Nat /\ client[s].text \in Nat /\ client[s].dones \in Nat
        /\ Chunk(e) = IF e.type \in DeltaTypes THEN e.text ELSE 0
        /\ reasoningItem \in Nat \cup {NoItem}
    BY <1>1, <1>3 DEF ClientItem, Chunk, ComposerTypeOK
  <1>5. Thinks(e.call) => e.call = NoCall /\ Thinks(NoCall)
    BY DEF Thinks
  <1>6. ThoughtInv'
    <2> SUFFICES ASSUME rewrites = 0 PROVE ThoughtInv'
      BY DEF FeedPending, agentVars, ThoughtInv
    <2>1. IF Thinks(NoCall) THEN ThoughtsSent + Words(pending) = ThoughtsText + Whole
          ELSE ThoughtsSent = ThoughtsText
      BY DEF SpellInv, ThoughtInv
    <2>2. CASE ~Thinks(e.call)
      <3>1. reasoningItem # NoItem => reasoningItem + 1 \in 1 .. Len(client)
        BY <1>1 DEF ComposerTypeOK, Indexed, NoItem
      <3>2. ThoughtsSent' = ThoughtsSent /\ ThoughtsText' = ThoughtsText
        BY <1>3, <2>2, <3>1 DEF ThoughtsSent, ThoughtsText
      <3>3. Thinks(NoCall) => e.call # NoCall
        BY <2>2
      <3>4. e.type = "ReasoningDone" => e.call = NoCall
        BY <1>1 DEF ReasonTypes
      <3>5. IF Thinks(NoCall)' THEN ThoughtsSent' + Words(pending)' = ThoughtsText' + Whole'
            ELSE ThoughtsSent' = ThoughtsText'
        BY <1>2, <2>1, <3>2, <3>3, <3>4
      <3> QED
        BY <3>5 DEF ThoughtInv
    <2>3. CASE Thinks(e.call)
      <3>1. e.call = NoCall /\ Thinks(NoCall) /\ e.type \in {"ReasoningDelta", "ReasoningDone"}
        BY <1>2, <1>5, <2>3, StartTypesListed DEF ReasonTypes
      <3>2. s = reasoningItem + 1 /\ reasoningItem # NoItem
        BY <1>3, <1>4, <2>3 DEF NoItem
      <3>3. /\ ThoughtsSent = client[s].sent /\ ThoughtsText = client[s].text
            /\ ThoughtsSent' = r.sent /\ ThoughtsText' = r.text
        BY <1>3, <3>2 DEF ThoughtsSent, ThoughtsText
      <3>4. Whole \in Nat
        BY ThoughtsNat
      <3>5. CASE e.type = "ReasoningDelta"
        <4>1. e.type \in DeltaTypes
          BY <3>5 DEF DeltaTypes
        <4>2. Thinks(NoCall)' /\ Whole' = Whole
          BY <1>2, <3>1, <3>5
        <4>3. ThoughtsSent' = client[s].sent + e.text /\ ThoughtsText' = client[s].text
          BY <1>3, <3>3, <4>1
        <4>4. client[s].sent + (e.text + Words(pending)') = client[s].text + Whole
          BY <1>2, <1>4, <2>1, <3>1, <3>3, <4>1
        <4>5. ThoughtsSent' + Words(pending)' = ThoughtsText' + Whole'
          BY <1>2, <1>4, <4>2, <4>3, <4>4
        <4> QED
          BY <4>2, <4>5 DEF ThoughtInv
      <3>6. CASE e.type = "ReasoningDone"
        <4>1. e.type \notin DeltaTypes /\ e.type \in ClosingTypes
          BY <3>6, ClosingListed DEF DeltaTypes
        <4>2. ~Thinks(NoCall)' /\ Whole = e.text /\ Words(pending) = 0
          BY <1>2, <1>4, <3>1, <3>6, <4>1
        <4>3. ThoughtsSent' = client[s].sent /\ ThoughtsText' = client[s].text + e.text
          BY <1>3, <3>3, <3>6, <4>1
        <4>4. client[s].sent + 0 = client[s].text + e.text
          BY <2>1, <3>1, <3>3, <4>2
        <4>5. ThoughtsSent' = ThoughtsText'
          BY <1>4, <4>3, <4>4
        <4> QED
          BY <4>2, <4>5 DEF ThoughtInv
      <3> QED
        BY <3>1, <3>5, <3>6
    <2> QED
      BY <2>2, <2>3
  <1>7. MessageInv'
    <2> SUFFICES ASSUME Owes(NoCall)', ~Thinks(NoCall)', Messaging'
                 PROVE  /\ MessageSent' + Words(pending)' = Whole'
                        /\ Finishes(NoCall)' => pending'[Len(pending')].type = "MessageDone"
      BY DEF MessageInv
    <2>1. /\ Owes(NoCall) /\ DutyKey(NoCall)' = DutyKey(NoCall) /\ ~Thinks(NoCall)
          /\ ~Opening(DutyKey(NoCall))'
          /\ ~(e.call = NoCall /\ e.type \in ClosingTypes)
      BY <1>1 DEF Advance
    <2>2. PICK k : k = DutyKey(NoCall)
      OBVIOUS
    <2>3. /\ k \in Keys /\ ~Opening(k)
          /\ WordsItem = client[items[k] + 1] /\ WordsItem' = client'[items[k] + 1]
      BY <1>1, <1>3, <2>1, <2>2 DEF WordsItem
    <2>4. WordsItem'.kind = "message" /\ MessageSent' = WordsItem'.sent
      BY <2>1 DEF Messaging, MessageSent
    <2>5. Messaging <=> WordsItem.kind = "message"
      BY <2>2, <2>3 DEF Messaging
    <2>6. MessageSent = WordsItem.sent
      BY <2>2, <2>3 DEF MessageSent
    <2>7. Messaging /\ MessageSent' + Words(pending)' = MessageSent + Words(pending)
      <3>1. CASE e.call = NoCall
        <4>1. WordsItem = client[s] /\ WordsItem' = r
          BY <1>1, <1>3, <2>2, <2>3, <3>1
        <4>2. r.sent = client[s].sent + Chunk(e)
          BY <1>3, <1>4
        <4>3. Words(pending) = Chunk(e) + Words(pending)'
          BY <1>2, <3>1
        <4>4. MessageSent' = client[s].sent + Chunk(e) /\ MessageSent = client[s].sent
          BY <2>4, <2>6, <4>1, <4>2
        <4>5. Messaging
          BY <1>3, <2>4, <2>5, <4>1
        <4> QED
          BY <1>2, <1>4, <4>3, <4>4, <4>5
      <3>2. CASE e.call # NoCall
        <4>1. items[k] # NoItem /\ client[items[k] + 1].call = NoCall
          BY <1>1, <2>1, <2>2, <2>3, DutyFacts
        <4>2. items[k] + 1 \in 1 .. Len(client) /\ items[k] + 1 # s
          BY <1>1, <1>3, <2>3, <3>2, <4>1, DutyItems
        <4>3. WordsItem' = WordsItem
          BY <1>3, <2>3, <4>2
        <4> QED
          BY <1>2, <2>4, <2>5, <2>6, <3>2, <4>3
      <3> QED
        BY <3>1, <3>2
    <2>8. /\ MessageSent + Words(pending) = Whole
          /\ Finishes(NoCall) => pending[Len(pending)].type = "MessageDone"
      BY <2>1, <2>7 DEF SpellInv, MessageInv
    <2> QED
      BY <1>2, <2>7, <2>8
  <1>8. FinishedInv'
    <2>1. ASSUME r.kind = "message"
          PROVE  r.call = NoCall /\ (r.dones > 0 => r.sent = r.text)
      <3>1. client[s].kind = "message" /\ e.call = NoCall /\ r.call = NoCall
        BY <1>3, <2>1 DEF SpellInv, FinishedInv
      <3>2. reasoningItem # s - 1
        BY <1>3, <3>1 DEF FinishInv, ItemInv
      <3>3. ~Thinks(NoCall)
        BY <1>3, <1>4, <3>1, <3>2 DEF NoItem
      <3>4. client[s].dones = 0
        BY <1>3, <3>1, <3>3
      <3>5. ASSUME r.dones > 0 PROVE r.sent = r.text
        <4>1. e.type \in ClosingTypes
          BY <1>3, <3>4, <3>5
        <4>2. /\ Finishes(NoCall) /\ Owes(NoCall) /\ pending[Len(pending)] = e
              /\ Whole = e.text /\ Words(pending)' = 0
          BY <1>2, <3>1, <4>1
        <4>3. WordsItem = client[s] /\ ~Opening(DutyKey(NoCall))
          BY <1>1, <1>3, <3>1 DEF WordsItem
        <4>4. Messaging /\ MessageSent = client[s].sent
          BY <3>1, <4>3 DEF Messaging, MessageSent
        <4>5. client[s].sent + Words(pending) = e.text /\ e.type = "MessageDone"
          BY <3>3, <4>2, <4>4 DEF SpellInv, MessageInv
        <4>6. e.type \notin DeltaTypes
          BY <4>5 DEF DeltaTypes
        <4>7. Words(pending) = 0
          BY <1>2, <1>4, <3>1, <4>2, <4>6
        <4> QED
          BY <1>3, <1>4, <4>5, <4>6, <4>7
      <3> QED
        BY <3>1, <3>5
    <2> SUFFICES ASSUME NEW i \in 1 .. Len(client), client'[i].kind = "message"
                 PROVE  /\ client'[i].call = NoCall
                        /\ client'[i].dones > 0 => client'[i].sent = client'[i].text
      BY <1>3 DEF FinishedInv
    <2>2. CASE i = s
      BY <1>3, <2>1, <2>2
    <2>3. CASE i # s
      BY <1>3, <2>3 DEF SpellInv, FinishedInv
    <2> QED
      BY <2>2, <2>3
  <1> QED
    BY <1>2, <1>6, <1>7, <1>8 DEF SpellInv

(* Thoughts are kept raw from the start of their part to its end.          *)
LEMMA RawStep ==
  ASSUME TypeInv, RawInv, [Next]_vars
  PROVE  RawInv'
  <1>1. RawTypeOK /\ part \in Part \cup {NoPart} /\ NoPart.type # "thinking"
    BY DEF TypeInv, TypeOK, NormalizerTypeOK, RawTypeOK, AgentTypeOK, NoPart
  <1>2. CASE PartStart
    <2>1. part = NoPart /\ DOMAIN raw = {} /\ nextPart \in Keys
      BY <1>2 DEF PartStart, RawInv
    <2>2. PICK n \in 0 .. MaxChunks :
            \/ raw' = raw
            \/ /\ \E details \in Details : OnThinkingStart(nextPart, n, details)
               /\ part' = [NoPart EXCEPT !.type = "thinking", !.index = nextPart, !.chunks = n]
      BY <1>2 DEF PartStart, OnTextStart, OnToolStart
    <2>3. n \in Nat
      BY BoundsAssumption
    <2>4. CASE raw' = raw
      BY <2>1, <2>4 DEF RawInv
    <2>5. ASSUME NEW details \in Details, OnThinkingStart(nextPart, n, details),
                 part' = [NoPart EXCEPT !.type = "thinking", !.index = nextPart, !.chunks = n]
          PROVE  RawInv'
      <3>1. DOMAIN raw' \subseteq DOMAIN raw \cup {nextPart}
        BY <1>1, <2>1, <2>3, <2>5, ThinkingStarted
      <3>2. part'.type = "thinking" /\ part'.index = nextPart /\ part' # NoPart
        <4>1. part'.type = "thinking" /\ part'.index = nextPart
          BY <2>5 DEF NoPart
        <4> QED
          BY <1>1, <4>1
      <3> QED
        BY <2>1, <3>1, <3>2 DEF RawInv
    <2> QED
      BY <2>2, <2>4, <2>5
  <1>3. CASE PartDelta
    <2>1. PICK n \in 0 .. MaxChunks - part.chunks :
            /\ part' = [part EXCEPT !.chunks = @ + n]
            /\ \/ raw' = raw
               \/ /\ part.type = "thinking"
                  /\ \E details \in Details : OnThinkingDelta(part.index, n, details)
      BY <1>3 DEF PartDelta, OnTextDelta, OnToolDelta
    <2>2. part # NoPart /\ part.index \in Keys /\ part.chunks \in Nat /\ n \in Nat
      <3>1. part # NoPart
        BY <1>3 DEF PartDelta
      <3> QED
        BY <3>1, PartType, BoundsAssumption DEF TypeInv, TypeOK
    <2>3. part'.type = part.type /\ part'.index = part.index /\ part' # NoPart
      <3>1. part'.type = part.type /\ part'.index = part.index
        BY <1>1, <2>1, <2>2 DEF Part
      <3>2. part.type \in PartTypes /\ NoPart.type \notin PartTypes
        BY <1>1, <2>2 DEF Part, PartTypes, NoPart
      <3> QED
        BY <3>1, <3>2
    <2>4. CASE raw' = raw
      BY <2>2, <2>3, <2>4 DEF RawInv
    <2>5. ASSUME part.type = "thinking", NEW details \in Details,
                 OnThinkingDelta(part.index, n, details)
          PROVE  RawInv'
      <3>1. DOMAIN raw' \subseteq DOMAIN raw \cup {part.index}
        BY <1>1, <2>2, <2>5, ThinkingSaid
      <3> QED
        BY <2>2, <2>3, <2>5, <3>1 DEF RawInv
    <2> QED
      BY <2>1, <2>4, <2>5
  <1>4. CASE PartEnd
    <2>1. CASE part.type = "thinking" /\ OnThinkingEnd(part.index, part.chunks)
      BY <2>1 DEF OnThinkingEnd, RawInv
    <2>2. CASE part.type # "thinking" /\ raw' = raw
      BY <2>2 DEF RawInv
    <2> QED
      BY <1>4, <2>1, <2>2 DEF PartEnd, OnTextEnd, OnToolEnd
  <1>5. CASE raw' = raw /\ part' = part
    BY <1>5 DEF RawInv
  <1>6. PartStart \/ PartDelta \/ PartEnd \/ (raw' = raw /\ part' = part)
    BY DEF Next, vars, normalizerVars, agentVars, TurnEnd, ToolCall, ToolResult,
           OnFunctionToolCall, OnFunctionToolResult, NextTurn, RunResult, RunRaises, Build,
           FeedPending, CompleteResponse, Persist, PersistRaises, FailResponse, BreakStream,
           Close, Disconnect, Over
  <1> QED
    BY <1>2, <1>3, <1>4, <1>5, <1>6

LEMMA SpellStep ==
  ASSUME TypeInv, KeyInv, FinishInv, SpellInv, RawInv, [Next]_vars
  PROVE  SpellInv'
  <1>1. CASE \/ TurnEnd \/ NextTurn \/ RunRaises \/ Build \/ Persist \/ PersistRaises
             \/ FailResponse \/ BreakStream \/ Close \/ Disconnect \/ Over \/ UNCHANGED vars
    <2>1. UNCHANGED <<composerVars, normalizerVars, part, rewrites>>
      BY <1>1 DEF TurnEnd, NextTurn, RunRaises, Build, Persist, PersistRaises, FailResponse,
                  BreakStream, Close, Disconnect, Over, vars, agentVars
    <2> QED
      BY <2>1, SpellKept
  <1>2. CASE PartStart \/ PartDelta \/ PartEnd
    BY <1>2, PartStartSpell, PartDeltaSpell, PartEndSpell
  <1>3. CASE \E c \in CallIds : ToolCall(c) \/ \E result \in Results : ToolResult(c, result)
    BY <1>3, ToolSpell
  <1>4. CASE RunResult \/ CompleteResponse
    BY <1>4, RunResultSpell, CompleteSpell
  <1>5. CASE FeedPending
    <2>1. PICK e : e = Head(pending)
      OBVIOUS
    <2> QED
      BY <1>5, <2>1, StartSpell, FrameSpell
  <1> QED
    BY <1>1, <1>2, <1>3, <1>4, <1>5 DEF Next

(* Once the response is terminal nothing of a thought is on its way.       *)
LEMMA SpellsText ==
  ASSUME TypeInv, FinishInv, SpellInv
  PROVE  DeltasSpellText
  <1>1. DOMAIN client = 1 .. Len(client)
    BY DEF TypeInv, TypeOK, ComposerTypeOK
  <1>2. ASSUME NEW i \in 1 .. Len(client), client[i].kind = "reasoning", Finale, rewrites = 0
        PROVE  client[i].sent = client[i].text
    <2>1. ~Owes(NoCall)
      BY <1>2 DEF FinishInv, FinalInv, Sources
    <2>2. ~Thinks(NoCall)
      <3>1. CASE part # NoPart
        BY <2>1, <3>1 DEF Thinks, Owes, Awaits, Speaking
      <3>2. CASE part = NoPart
        <4>1. Thinks(NoCall) => pending # <<>> /\ ~Terminal(Head(pending))
          BY <3>2 DEF Thinks, Terminal, ReasonTypes
        <4> QED
          BY <2>1, <4>1, ThinkingOwes
      <3> QED
        BY <3>1, <3>2
    <2>3. ThoughtsSent = ThoughtsText
      BY <1>2, <2>2 DEF SpellInv, ThoughtInv
    <2>4. reasoningItem = i - 1
      BY <1>2 DEF FinishInv, ItemInv
    <2>5. reasoningItem # NoItem /\ reasoningItem + 1 = i
      BY <2>4 DEF NoItem
    <2> QED
      BY <2>3, <2>5 DEF ThoughtsSent, ThoughtsText
  <1>3. \A i \in 1 .. Len(client) :
          client[i].kind = "message" /\ client[i].dones > 0 => client[i].sent = client[i].text
    BY DEF SpellInv, FinishedInv
  <1> QED
    BY <1>1, <1>2, <1>3 DEF DeltasSpellText, Finale

(* What the reader was sent of a message in deltas is what the message     *)
(* says when it is done, and what it was sent of the model's thoughts is   *)
(* what they say when the response is, also where deltas are what is new   *)
(* of a raw text, as long as that grows at its end and is not mixed with   *)
(* content: no chunk is lost, held back for good or repeated, whatever the *)
(* parts, the probe and the turns do (normalizer.py on_event and           *)
(* _diff_raw_reasoning_text, composer.py feed).                            *)
THEOREM DeltasAddUp == BuiltinsAnswer => (Spec => []DeltasSpellText)
  <1> SUFFICES ASSUME BuiltinsAnswer PROVE Spec => []DeltasSpellText
    OBVIOUS
  <1>1. Init => SpellInv /\ RawInv
    <2>1. Init => RawInv
      BY DEF Init, NormalizerInit, RawInv
    <2> QED
      BY <2>1, SpellInit
  <1>2. /\ (TypeInv /\ KeyInv /\ FinishInv) /\ (SpellInv /\ RawInv) /\ [Next]_vars
        => SpellInv' /\ RawInv'
    BY SpellStep, RawStep
  <1>3. (TypeInv /\ KeyInv /\ FinishInv) /\ SpellInv => DeltasSpellText
    BY SpellsText
  <1>4. Spec => [](TypeInv /\ KeyInv /\ FinishInv)
    BY FinishHolds
  <1> QED
    BY <1>1, <1>2, <1>3, <1>4, PTL DEF Spec

-----------------------------------------------------------------------------
(* The request keeps the contract of StreamContract.                       *)

(* What the refinement mapping substitutes for the contract's variables.   *)
View == [i \in DOMAIN client |-> Seen(client[i])]

Phase ==
  CASE engine = "building" -> "waiting"
    [] engine \in {"running", "persisting"} -> "live"
    [] engine \in {"closing", "closed"} -> IF status = "failed" THEN "failed" ELSE "concluded"
    [] engine = "rejected" -> "refused"
    [] OTHER -> "lost"

Saved == stored # NotStored

(* What the contract sees of an item: open or done.                        *)
LEMMA SeenValues ==
  ASSUME NEW it
  PROVE  /\ it.dones = 0 => Seen(it) = "open"
         /\ it.dones = 1 /\ (it.late => it.kind = "reasoning") => Seen(it) = "done"
  <1>1. ~(it.dones = 0) \/ ~(it.dones = 1)
    OBVIOUS
  <1>2. ASSUME it.dones = 0, ~(it.dones = 1) PROVE Seen(it) = "open"
    BY <1>2, ZenonT(60) DEF Seen
  <1>3. ASSUME it.dones = 1, it.late => it.kind = "reasoning", ~(it.dones = 0)
        PROVE  Seen(it) = "done"
    BY <1>3, ZenonT(60) DEF Seen
  <1> QED
    BY <1>1, <1>2, <1>3

(* The phases of the contract.                                             *)
LEMMA PhaseValues ==
  /\ engine = "building" => Phase = "waiting"
  /\ engine \in {"running", "persisting"} => Phase = "live"
  /\ engine \in {"closing", "closed"} => Phase = IF status = "failed" THEN "failed" ELSE "concluded"
  /\ engine = "rejected" => Phase = "refused"
  /\ engine \in {"aborted", "disconnected"} => Phase = "lost"
  BY ZenonT(60) DEF Phase

(* The view lists the items in the order they were announced.              *)
LEMMA SeenSeq ==
  ASSUME NEW c \in Seq(ClientItem), NEW v, v = [i \in DOMAIN c |-> Seen(c[i])],
         \A i \in 1 .. Len(c) :
           /\ c[i].dones \in {0, 1}
           /\ c[i].late => c[i].kind = "reasoning" /\ c[i].dones = 1
  PROVE  /\ v \in Seq({"open", "done"}) /\ Len(v) = Len(c) /\ DOMAIN v = 1 .. Len(c)
         /\ \A i \in 1 .. Len(c) :
              /\ v[i] \in {"open", "done"}
              /\ v[i] = "open" <=> c[i].dones = 0
              /\ v[i] = "done" <=> c[i].dones = 1
  <1>1. DOMAIN c = 1 .. Len(c) /\ Len(c) \in Nat
    OBVIOUS
  <1>2. \A i \in 1 .. Len(c) : v[i] = Seen(c[i])
    BY <1>1
  <1>3. ASSUME NEW i \in 1 .. Len(c)
        PROVE  /\ v[i] \in {"open", "done"}
               /\ v[i] = "open" <=> c[i].dones = 0
               /\ v[i] = "done" <=> c[i].dones = 1
    <2>1. c[i].dones \in {0, 1} /\ (c[i].late => c[i].kind = "reasoning")
      OBVIOUS
    <2> QED
      BY <1>2, <2>1, SeenValues
  <1>4. v = [i \in 1 .. Len(c) |-> Seen(c[i])]
    BY <1>1
  <1>5. v \in [1 .. Len(c) -> {"open", "done"}]
    BY <1>2, <1>3, <1>4
  <1> QED
    BY <1>1, <1>3, <1>5

(* Steps that change no item, and those that leave the engine alone.       *)
LEMMA ViewKept == ASSUME client' = client PROVE View' = View
  BY DEF View, Seen

LEMMA PhaseKept == ASSUME UNCHANGED <<engine, status>> PROVE Phase' = Phase
  BY DEF Phase

(* An event adds an open item, or closes one, or changes none.             *)
LEMMA FedClient ==
  ASSUME TypeInv, KeyInv, FinishInv, FeedPending
  PROVE  \/ client' = client
         \/ \E it : client' = Append(client, it) /\ it.dones = 0
         \/ \E s \in 1 .. Len(client) : \E r :
              /\ client' = [client EXCEPT ![s] = r]
              /\ r.dones = 0 => client[s].dones = 0
  <1>1. PICK e : e = Head(pending)
    OBVIOUS
  <1>2. e \in ItemEvent /\ Feed(e) /\ ComposerTypeOK /\ Indexed /\ e.key \in Keys
    BY <1>1, FeedDuties
  <1>3. CASE \E kind : AddItem(e, kind)
    <2>1. PICK kind : AddItem(e, kind)
      BY <1>3
    <2> DEFINE it == AddedItem(kind, e.call)
    <2>2. client' = Append(client, it) /\ it.dones = 0
      BY <2>1 DEF AddItem, AddedItem
    <2> HIDE DEF it
    <2> QED
      BY <2>2
  <1>4. CASE client' = client
    BY <1>4
  <1>5. CASE ItemDelta(e) \/ ItemNotice(e) \/ FinishItem(e) \/ FinishReasoning(e)
    <2>1. e.type \notin StartTypes /\ items[e.key] # NoItem
      BY <1>2, <1>5, LaterTypes DEF Feed, Known, ItemDelta, ItemNotice, FinishItem, FinishReasoning
    <2>2. PICK s : s = Slot(e)
      OBVIOUS
    <2>3. s \in 1 .. Len(client) /\ client[s] \in ClientItem
      BY <1>2, <2>1, <2>2, DutyItems DEF Slot
    <2>4. PICK it : it = client[s]
      OBVIOUS
    <2>5. \E r \in {Streamed(it, e), Noticed(it, e), Finished(it, e), Segment(it, e)} :
             client' = [client EXCEPT ![s] = r]
      BY <1>5, <2>2, <2>4 DEF ItemDelta, ItemNotice, FinishItem, FinishReasoning
    <2>6. it \in ClientItem /\ it.dones \in Nat
      BY <2>3, <2>4 DEF ClientItem
    <2>7. /\ Streamed(it, e).dones = it.dones /\ Noticed(it, e).dones = it.dones
          /\ Finished(it, e).dones = it.dones + 1
          /\ Segment(it, e).dones =
               IF OwnSegment(e) /\ ~reasoningDone THEN it.dones + 1 ELSE it.dones
      BY <2>6, FrameFields
    <2>8. \A r \in {Streamed(it, e), Noticed(it, e), Finished(it, e), Segment(it, e)} :
             r.dones = 0 => it.dones = 0
      BY <2>6, <2>7
    <2> QED
      BY <2>3, <2>4, <2>5, <2>8
  <1> QED
    BY <1>2, <1>3, <1>4, <1>5 DEF Feed, StartItem, StartReasoning

(* An event announces one open item, finishes one, or shows nothing new.   *)
LEMMA FedView ==
  ASSUME TypeInv, KeyInv, FinishInv, FeedPending, TypeInv', FinishInv'
  PROVE  \/ View' = View
         \/ View' = Append(View, "open")
         \/ \E i \in DOMAIN View : View[i] = "open" /\ View' = [View EXCEPT ![i] = "done"]
  <1> DEFINE B == {"open", "done"}
             l == Len(client)
  <1>1. /\ View \in Seq(B) /\ Len(View) = l /\ DOMAIN View = 1 .. l /\ client \in Seq(ClientItem)
        /\ \A i \in 1 .. l :
             /\ View[i] \in B
             /\ View[i] = "open" <=> client[i].dones = 0
             /\ View[i] = "done" <=> client[i].dones = 1
    <2>1. client \in Seq(ClientItem)
      BY DEF TypeInv, TypeOK, ComposerTypeOK
    <2>2. \A i \in 1 .. Len(client) :
            /\ client[i].dones \in {0, 1}
            /\ client[i].late => client[i].kind = "reasoning" /\ client[i].dones = 1
      BY DEF FinishInv, ItemInv
    <2>3. View = [i \in DOMAIN client |-> Seen(client[i])]
      BY DEF View
    <2> QED
      BY <2>1, <2>2, <2>3, SeenSeq
  <1>2. /\ View' \in Seq(B) /\ Len(View') = Len(client') /\ client' \in Seq(ClientItem)
        /\ \A i \in 1 .. Len(client') :
             /\ View'[i] \in B
             /\ View'[i] = "open" <=> client'[i].dones = 0
             /\ View'[i] = "done" <=> client'[i].dones = 1
    <2>1. client' \in Seq(ClientItem)
      BY DEF TypeInv, TypeOK, ComposerTypeOK
    <2>2. View' = [i \in DOMAIN client' |-> Seen(client'[i])]
      BY DEF View, Seen
    <2>3. \A i \in 1 .. Len(client') :
            /\ client'[i].dones \in {0, 1}
            /\ client'[i].late => client'[i].kind = "reasoning" /\ client'[i].dones = 1
      BY DEF FinishInv, ItemInv
    <2> QED
      BY <2>1, <2>2, <2>3, SeenSeq
  <1>3. l \in Nat
    BY <1>1
  <1> HIDE DEF l, B
  <1>4. CASE client' = client
    BY <1>4, ViewKept
  <1>5. ASSUME NEW it, client' = Append(client, it), it.dones = 0
        PROVE  View' = Append(View, "open")
    <2>1. /\ Len(client') = l + 1 /\ client'[l + 1] = it
          /\ \A i \in 1 .. l : client'[i] = client[i]
      BY <1>1, <1>5 DEF l
    <2>2. "open" \in B
      BY DEF B
    <2>3. /\ Append(View, "open") \in Seq(B) /\ Len(Append(View, "open")) = l + 1
          /\ Append(View, "open")[l + 1] = "open"
          /\ \A i \in 1 .. l : Append(View, "open")[i] = View[i]
      BY <1>1, <2>2, AppendProperties
    <2>4. ASSUME NEW i \in 1 .. l + 1 PROVE View'[i] = Append(View, "open")[i]
      <3>1. CASE i = l + 1
        BY <1>2, <1>3, <1>5, <2>1, <2>3, <3>1
      <3>2. CASE i \in 1 .. l
        BY <1>1, <1>2, <1>3, <2>1, <2>3, <3>2 DEF B
      <3>3. i = l + 1 \/ i \in 1 .. l
        BY <1>3
      <3> QED
        BY <3>1, <3>2, <3>3, Zenon
    <2> QED
      BY <1>2, <2>1, <2>3, <2>4, SeqEqual
  <1>6. ASSUME NEW s \in 1 .. l, NEW r, client' = [client EXCEPT ![s] = r],
               r.dones = 0 => client[s].dones = 0
        PROVE  \/ View' = View
               \/ View[s] = "open" /\ View' = [View EXCEPT ![s] = "done"]
    <2>1. /\ Len(client') = l /\ client'[s] = r
          /\ \A i \in 1 .. l : i # s => client'[i] = client[i]
      BY <1>1, <1>6 DEF l
    <2>2. \A i \in 1 .. l : i # s => View'[i] = View[i]
      BY <1>1, <1>2, <2>1 DEF B
    <2>3. CASE View'[s] = View[s]
      <3>1. \A i \in 1 .. l : View'[i] = View[i]
        BY <2>2, <2>3
      <3> QED
        BY <1>1, <1>2, <2>1, <3>1, SeqEqual
    <2>4. CASE View'[s] # View[s]
      <3>1. View[s] = "open" /\ View'[s] = "done"
        BY <1>1, <1>2, <1>6, <2>1, <2>4 DEF B
      <3>2. "done" \in B
        BY DEF B
      <3>3. /\ [View EXCEPT ![s] = "done"] \in Seq(B)
            /\ Len([View EXCEPT ![s] = "done"]) = l
            /\ \A i \in 1 .. l : [View EXCEPT ![s] = "done"][i] = IF i = s THEN "done" ELSE View[i]
        BY <1>1, <3>2, ExceptSeq
      <3>4. \A i \in 1 .. l : View'[i] = [View EXCEPT ![s] = "done"][i]
        BY <2>2, <3>1, <3>3
      <3> QED
        BY <1>2, <2>1, <3>1, <3>3, <3>4, SeqEqual
    <2> QED
      BY <2>3, <2>4
  <1> QED
    BY <1>1, <1>4, <1>5, <1>6, FedClient DEF l

(* The contract's actions, over the state of the request.                  *)
AllDone == \A i \in DOMAIN View : View[i] = "done"

(* The contract's initial state and its actions.                           *)
LEMMA ContractInit ==
  View = <<>> /\ Phase = "waiting" /\ store \in BOOLEAN /\ Saved = FALSE => Contract!Init
  BY ZenonT(60) DEF Contract!Init, View, Phase, Saved

LEMMA ContractStutter ==
  View' = View /\ Phase' = Phase /\ store' = store /\ Saved' = Saved
    => UNCHANGED Contract!vars
  BY ZenonT(60) DEF Contract!vars, View, Phase, Saved

LEMMA ContractBegin ==
  ASSUME Phase = "waiting", Phase' \in {"live", "refused"},
         View' = View, store' = store, Saved' = Saved
  PROVE  Contract!Next
  BY ZenonT(60) DEF Contract!Next, Contract!Begin, View, Phase, Saved

LEMMA ContractAnnounce ==
  ASSUME Phase = "live", View' = Append(View, "open"),
         Phase' = Phase, store' = store, Saved' = Saved
  PROVE  Contract!Next
  BY ZenonT(60) DEF Contract!Next, Contract!Announce, View, Phase, Saved

LEMMA ContractFinish ==
  ASSUME NEW i \in DOMAIN View, Phase = "live", View[i] = "open",
         View' = [View EXCEPT ![i] = "done"],
         Phase' = Phase, store' = store, Saved' = Saved
  PROVE  Contract!Next
  BY ZenonT(60) DEF Contract!Next, Contract!Finish, View, Phase, Saved

LEMMA ContractConclude ==
  ASSUME Phase = "live", AllDone, Phase' = "concluded", Saved' = store,
         View' = View, store' = store
  PROVE  Contract!Next
  BY ZenonT(60) DEF Contract!Next, Contract!Conclude, Contract!AllDone, AllDone, View, Phase, Saved

LEMMA ContractFail ==
  ASSUME Phase = "live", Phase' \in {"failed", "refused"},
         \/ Saved' = Saved
         \/ Phase' = "refused" /\ AllDone /\ store /\ Saved' = TRUE,
         View' = View, store' = store
  PROVE  Contract!Next
  BY ZenonT(60)
  DEF Contract!Next, Contract!Fail, Contract!SavedAnyway, Contract!AllDone, AllDone, View, Phase, Saved

LEMMA ContractLose ==
  ASSUME Phase \in {"live", "concluded", "failed"}, Phase' = "lost",
         \/ Saved' = Saved
         \/ Phase = "live" /\ AllDone /\ store /\ Saved' = TRUE,
         View' = View, store' = store
  PROVE  Contract!Next
  BY ZenonT(60)
  DEF Contract!Next, Contract!Lose, Contract!SavedAnyway, Contract!AllDone, AllDone, View, Phase, Saved

(* When the terminal response is built, all items are finished.            *)
LEMMA PersistedDone ==
  ASSUME TypeInv, FinishInv, DurableInv, engine = "persisting"
  PROVE  /\ AllDone /\ stored = NotStored /\ status \in {"completed", "incomplete"}
         /\ Row # NotStored
  <1>1. status \in {"completed", "incomplete"} /\ stored = NotStored
    BY DEF DurableInv, AtEnd, Ended
  <1>2. \A i \in 1 .. Len(client) : client[i].dones = 1
    BY <1>1, NothingOpen DEF Finale
  <1>3. client \in Seq(ClientItem)
    BY DEF TypeInv, TypeOK, ComposerTypeOK
  <1>4. \A i \in 1 .. Len(client) :
          /\ client[i].dones \in {0, 1}
          /\ client[i].late => client[i].kind = "reasoning" /\ client[i].dones = 1
    BY DEF FinishInv, ItemInv
  <1>5. View = [i \in DOMAIN client |-> Seen(client[i])]
    BY DEF View
  <1>6. AllDone
    BY <1>2, <1>3, <1>4, <1>5, SeenSeq DEF AllDone
  <1>7. Row # NotStored
    <2>1. Row.status = status /\ NotStored.status = "none"
      BY DEF Row, NotStored
    <2> QED
      BY <1>1, <2>1
  <1> QED
    BY <1>1, <1>6, <1>7

(* Every step of the request is a step of the contract, or none at all.    *)
LEMMA ContractStep ==
  ASSUME TypeInv, KeyInv, FinishInv, DurableInv, TypeInv', FinishInv', [Next]_vars
  PROVE  [Contract!Next]_Contract!vars
  <1> USE PhaseValues
  <1>0. engine \in {"building", "running", "persisting", "closing", "closed", "aborted",
                    "rejected", "disconnected"}
    BY DEF TypeInv, TypeOK, EngineTypeOK, Ended
  <1>1. /\ engine' = "building" => Phase' = "waiting"
        /\ engine' \in {"running", "persisting"} => Phase' = "live"
        /\ engine' \in {"closing", "closed"} =>
             Phase' = IF status' = "failed" THEN "failed" ELSE "concluded"
        /\ engine' = "rejected" => Phase' = "refused"
        /\ engine' \in {"aborted", "disconnected"} => Phase' = "lost"
    BY ZenonT(60) DEF Phase
  <1>2. CASE \/ PartStart \/ PartDelta \/ PartEnd \/ TurnEnd \/ NextTurn \/ RunResult \/ RunRaises
             \/ \E c \in CallIds : ToolCall(c) \/ \E result \in Results : ToolResult(c, result)
             \/ Over \/ UNCHANGED vars
    <2>1. UNCHANGED <<client, engine, status, store, stored>>
      BY <1>2 DEF PartStart, PartDelta, PartEnd, TurnEnd, NextTurn, RunResult, RunRaises, ToolCall,
                  ToolResult, Over, vars, composerVars, engineVars
    <2>2. Saved' = Saved
      BY <2>1 DEF Saved
    <2> QED
      BY <2>1, <2>2, ViewKept, PhaseKept, ContractStutter
  <1>3. CASE CompleteResponse
    <2>1. UNCHANGED <<client, store, stored>> /\ engine = "running" /\ engine' = "persisting"
      BY <1>3 DEF CompleteResponse, composerVars
    <2>2. Saved' = Saved /\ View' = View /\ Phase' = Phase
      BY <1>1, <2>1, ViewKept DEF Saved
    <2> QED
      BY <2>1, <2>2, ContractStutter
  <1>4. CASE FeedPending
    <2>1. UNCHANGED <<engine, status, store, stored>> /\ engine = "running"
      BY <1>4 DEF FeedPending, engineVars
    <2>2. Saved' = Saved /\ Phase' = Phase /\ Phase = "live" /\ store' = store
      BY <1>1, <2>1 DEF Saved
    <2>3. CASE View' = View
      BY <2>2, <2>3, ContractStutter
    <2>4. CASE View' = Append(View, "open")
      BY <2>2, <2>4, ContractAnnounce
    <2>5. CASE \E i \in DOMAIN View : View[i] = "open" /\ View' = [View EXCEPT ![i] = "done"]
      BY <2>2, <2>5, ContractFinish
    <2> QED
      BY <1>4, <2>3, <2>4, <2>5, FedView
  <1>5. CASE Build
    <2>1. UNCHANGED <<client, store, stored>> /\ engine = "building" /\ engine' \in {"rejected", "running"}
      BY <1>5 DEF Build, composerVars
    <2>2. Saved' = Saved /\ View' = View /\ Phase = "waiting" /\ Phase' \in {"live", "refused"}
      BY <1>1, <2>1, ViewKept DEF Saved
    <2> QED
      BY <2>1, <2>2, ContractBegin
  <1>6. CASE Persist
    <2>1. /\ UNCHANGED <<client, store, status>> /\ engine = "persisting" /\ engine' = "closing"
          /\ stored' = IF store THEN [status |-> status, output |-> output] ELSE stored
      BY <1>6 DEF Persist, composerVars
    <2>2. AllDone /\ stored = NotStored /\ status \in {"completed", "incomplete"}
      BY <2>1, PersistedDone
    <2>3. store => stored' # NotStored
      <3>1. store => stored'.status = status
        BY <2>1
      <3>2. NotStored.status = "none"
        BY DEF NotStored
      <3> QED
        BY <2>2, <3>1, <3>2
    <2>4. ~store => stored' = NotStored
      BY <2>1, <2>2
    <2>5. store \in BOOLEAN
      BY DEF TypeInv, TypeOK, EngineTypeOK
    <2>6. Saved' = store
      BY <2>3, <2>4, <2>5 DEF Saved
    <2>7. View' = View /\ Phase = "live" /\ Phase' = "concluded"
      BY <1>1, <2>1, <2>2, ViewKept
    <2> QED
      BY <2>1, <2>2, <2>6, <2>7, ContractConclude
  <1>7. CASE PersistRaises \/ BreakStream
    <2>1. /\ UNCHANGED <<client, store, status>> /\ engine \in {"running", "persisting"}
          /\ engine' \in {"aborted", "rejected"}
          /\ stored' = stored \/ (engine = "persisting" /\ store /\ stored' = Row)
      BY <1>7 DEF PersistRaises, BreakStream, Breakdown, composerVars
    <2>2. View' = View /\ Phase = "live" /\ Phase' \in {"lost", "refused"}
      BY <1>1, <2>1, ViewKept
    <2>3. CASE stored' = stored
      <3>1. Saved' = Saved
        BY <2>3 DEF Saved
      <3> QED
        BY <2>1, <2>2, <3>1, ContractFail, ContractLose
    <2>4. CASE engine = "persisting" /\ store /\ stored' = Row
      <3>1. AllDone /\ Saved' = TRUE
        BY <2>4, PersistedDone DEF Saved
      <3> QED
        BY <2>1, <2>2, <2>4, <3>1, ContractFail, ContractLose
    <2> QED
      BY <2>1, <2>3, <2>4
  <1>8. CASE FailResponse
    <2>1. /\ UNCHANGED <<client, store, stored>> /\ engine = "running"
          /\ \/ engine' = "closing" /\ status' = "failed"
             \/ engine' = "rejected"
      BY <1>8 DEF FailResponse, composerVars
    <2>2. Saved' = Saved /\ View' = View /\ Phase = "live" /\ Phase' \in {"failed", "refused"}
      BY <1>1, <2>1, ViewKept DEF Saved
    <2> QED
      BY <2>1, <2>2, ContractFail
  <1>9. CASE Close
    <2>1. UNCHANGED <<client, store, stored, status>> /\ engine = "closing" /\ engine' = "closed"
      BY <1>9 DEF Close, composerVars
    <2>2. Saved' = Saved /\ View' = View /\ Phase' = Phase
      BY <1>1, <2>1, ViewKept DEF Saved
    <2> QED
      BY <2>1, <2>2, ContractStutter
  <1>10. CASE Disconnect
    <2>1. /\ UNCHANGED <<client, store, status>> /\ engine \in {"running", "persisting", "closing"}
          /\ engine' = "disconnected"
          /\ stored' = stored \/ (engine = "persisting" /\ store /\ stored' = Row)
      BY <1>10 DEF Disconnect, composerVars
    <2>2. View' = View /\ Phase \in {"live", "concluded", "failed"} /\ Phase' = "lost"
      BY <1>1, <2>1, ViewKept
    <2>3. CASE stored' = stored
      BY <2>1, <2>2, <2>3, ContractLose DEF Saved
    <2>4. CASE engine = "persisting" /\ store /\ stored' = Row
      <3>1. AllDone /\ Saved' = TRUE
        BY <2>4, PersistedDone DEF Saved
      <3> QED
        BY <2>1, <2>2, <2>4, <3>1, ContractLose
    <2> QED
      BY <2>1, <2>3, <2>4
  <1> QED
    BY <1>2, <1>3, <1>4, <1>5, <1>6, <1>7, <1>8, <1>9, <1>10 DEF Next

(* The request keeps StreamContract, for every number of parts, turns and  *)
(* calls: items are announced in order and finished once, the response is  *)
(* concluded only when all of them are, and a client that asked for it can *)
(* then continue it (lm.py run, composer.py feed, store.py).               *)
THEOREM ContractKept == BuiltinsAnswer => (Spec => KeepsContract)
  <1> SUFFICES ASSUME BuiltinsAnswer PROVE Spec => KeepsContract
    OBVIOUS
  <1>1. Init => TypeInv /\ KeyInv /\ FinishInv /\ DurableInv
    <2> SUFFICES ASSUME Init PROVE TypeInv /\ KeyInv /\ FinishInv /\ DurableInv
      OBVIOUS
    <2> QED
      BY TypeInit, KeyInit, FinishInit DEF Init, DurableInv
  <1>2. TypeInv /\ KeyInv /\ FinishInv /\ DurableInv /\ [Next]_vars
          => TypeInv' /\ KeyInv' /\ FinishInv' /\ DurableInv'
    BY TypeStep, KeyStep, FinishStep, DurableStep
  <1>3. Init => Contract!Init
    <2> SUFFICES ASSUME Init PROVE Contract!Init
      OBVIOUS
    <2>1. client = <<>> /\ engine = "building" /\ store \in BOOLEAN /\ stored = NotStored
      BY DEF Init, ComposerInit
    <2>2. View = <<>> /\ Phase = "waiting" /\ Saved = FALSE
      BY <2>1, PhaseValues DEF View, Saved
    <2> QED
      BY <2>1, <2>2, ContractInit
  <1>4. TypeInv /\ KeyInv /\ FinishInv /\ DurableInv /\ TypeInv' /\ FinishInv' /\ [Next]_vars
          => [Contract!Next]_Contract!vars
    BY ContractStep
  <1> QED
    BY <1>1, <1>2, <1>3, <1>4, PTL DEF Spec, KeepsContract, Contract!Spec

=============================================================================
