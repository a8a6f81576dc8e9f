-------------------------- MODULE GatewayAppProofs --------------------------
(***************************************************************************)
(* For any number of requests, of any kinds, over any configuration: the   *)
(* gauges show the work there is, a process that has ended leaves nothing behind, and the public     *)
(* responses routes are the gateway's.                                     *)
(***************************************************************************)
EXTENDS GatewayApp, FiniteSetTheorems, SequenceTheorems, NaturalsInduction, WellFoundedInduction,
        TLAPS

Places == {"idle", "handling", "first chunk", "sending", "reading", "streaming", "done"}

(* The types that matter to the other invariants.                          *)
GatewayType ==
  /\ req \in [Requests -> Kinds \cup {NoKind}]
  /\ at \in [Requests -> Places]
  /\ status \in [Requests -> Nat]
  /\ gen \in [Requests -> {"none", "awaiting", "yielded", "dropped", "closed"}]
  /\ counted \in [Requests -> SUBSET Nat]
  /\ http \in Int /\ sse \in Int

Busy == {r \in Requests : at[r] \in InHandler /\ Measured(req[r])}
Live == {r \in Requests : /\ Endpoint(r) = "create_model_response"
                          /\ gen[r] \in {"awaiting", "yielded", "dropped"}}

(* A generator belongs to a stream, or to the wait for its first chunk.    *)
GenInv(r) ==
  /\ at[r] \in {"idle", "handling", "sending", "reading"} => gen[r] = "none"
  /\ at[r] = "first chunk" => gen[r] = "awaiting" /\ Endpoint(r) = "create_model_response"
  /\ at[r] = "streaming" => gen[r] \in {"awaiting", "yielded"}
  /\ at[r] = "done" => gen[r] \in {"none", "dropped", "closed"}

(* Nothing is answered or counted before a handler is through.             *)
AnswerInv(r) ==
  /\ at[r] \in InHandler => Route_(req[r]).wrapped
  /\ at[r] \in InHandler \cup {"idle"} => status[r] = 0 /\ counted[r] = {}

CountInv(r) ==
  /\ status[r] # 0 /\ Route_(req[r]).wrapped /\ Measured(req[r]) => counted[r] = {status[r]}
  /\ status[r] = 0 => counted[r] \in {{}, {500}}

RequestInv(r) == GenInv(r) /\ AnswerInv(r) /\ CountInv(r)

GaugeInv ==
  /\ http = Cardinality(Busy)
  /\ sse = IF config.metrics THEN Cardinality(Live) ELSE 0

GatewayInv == GatewayType /\ GaugeInv /\ \A r \in Requests : RequestInv(r)

(* The process.                                                            *)
ProcessInv ==
  /\ worker \in {"starting", "booting", "giving up", "serving", "draining", "closing", "stopped",
                 "failed", "abandoned"}
  /\ worker = "starting" => interpreter = "none"
  /\ worker = "booting" => interpreter = "booting"
  /\ worker = "giving up" => interpreter \in {"quitting", "exited"}
  /\ worker \in {"serving", "draining"} => interpreter \in {"none", "ready", "exited"}
  /\ worker = "closing" => interpreter \in {"none", "quitting", "exited"}
  /\ worker \in {"failed", "stopped"} => interpreter \in {"none", "exited"}
  /\ open \subseteq {"tracing", "mcp", "http", "stream", "non_stream"}
  /\ worker = "closing" => "tracing" \notin open
  /\ worker = "stopped" => open = {}
  /\ worker \notin {"serving", "draining", "abandoned"} =>
       \A r \in Requests : at[r] \in {"idle", "done"}

------------------------------------------------------------------------------
(* What exception_handler answers.                                         *)
ErrorRows == {AccessRows[i] : i \in 1 .. 7} \cup {RequestRows[i] : i \in 1 .. 6}
               \cup {CapacityRows[i] : i \in 1 .. 4}

(* Every row of its table has a status of an error.                        *)
LEMMA RowsFacts ==
  /\ DOMAIN Rows \subseteq Nat
  /\ \A i \in DOMAIN Rows : Rows[i].status \in 400 .. 599
<1>1. /\ \A i \in 1 .. 7 : AccessRows[i] \in ErrorRows
      /\ \A i \in 1 .. 6 : RequestRows[i] \in ErrorRows
      /\ \A i \in 1 .. 4 : CapacityRows[i] \in ErrorRows
  BY DEF ErrorRows
<1>2. \A row \in ErrorRows : row.status \in 400 .. 599
  <2>1. \A i \in 1 .. 7 : AccessRows[i].status \in 400 .. 599
    BY DEF AccessRows, Row
  <2>2. \A i \in 1 .. 6 : RequestRows[i].status \in 400 .. 599
    BY DEF RequestRows, Row
  <2>3. \A i \in 1 .. 4 : CapacityRows[i].status \in 400 .. 599
    BY DEF CapacityRows, Row
  <2> QED
    BY <2>1, <2>2, <2>3 DEF ErrorRows
<1>3. AccessRows \in Seq(ErrorRows)
  BY <1>1 DEF AccessRows
<1>4. RequestRows \in Seq(ErrorRows)
  BY <1>1 DEF RequestRows
<1>5. CapacityRows \in Seq(ErrorRows)
  BY <1>1 DEF CapacityRows
<1>6. Rows \in Seq(ErrorRows)
  <2> DEFINE rows == AccessRows \o RequestRows
  <2>1. rows \in Seq(ErrorRows)
    BY <1>3, <1>4, ConcatProperties, Zenon
  <2> HIDE DEF rows
  <2>2. rows \o CapacityRows \in Seq(ErrorRows)
    BY <1>5, <2>1, ConcatProperties, Zenon
  <2> QED
    BY <2>2 DEF Rows, rows
<1>7. ASSUME NEW i \in DOMAIN Rows PROVE Rows[i] \in ErrorRows
  BY <1>6, <1>7
<1>8. DOMAIN Rows \subseteq Nat
  BY <1>6
<1> QED
  BY <1>2, <1>7, <1>8

(* The exceptions the handlers of the gateway raise or let pass.           *)
Raisable ==
  EngineErrors
    \cup {Exception("RequestValidationError"), Exception("TimeoutException"),
          Exception("RequestError"), Exception("OperationalError"),
          WithStatus("ResponsesAPIError", 404)}
    \cup {WithStatus("HTTPException", s) : s \in {404, 409, 503}}

(* Where the class of an exception carries a status, it is one of HTTP.    *)
LEMMA RaisableFacts ==
  ASSUME NEW e \in Raisable, e.class \in {"ResponsesAPIError", "HTTPException"}
  PROVE  e.status \in 100 .. 599
<1>1. CASE e \in EngineErrors
  BY <1>1, EngineErrorsAssumption
<1>2. CASE e \notin EngineErrors
  BY <1>2 DEF Raisable, Exception, WithStatus
<1> QED
  BY <1>1, <1>2

(* Of some numbers one is the least.                                       *)
LEMMA LeastNumber ==
  ASSUME NEW T, T \subseteq Nat, T # {}
  PROVE  \E n \in T : \A m \in T : n <= m
<1>1. PICK n \in T : \A m \in T : ~ (<<m, n>> \in OpToRel(<, Nat))
  BY NatLessThanWellFounded, WFMin
<1>2. \A m \in T : ~ (m < n)
  BY <1>1 DEF OpToRel
<1> QED
  BY <1>2

(* Every exception is answered with a status of HTTP.                      *)
LEMMA StatusFacts ==
  ASSUME NEW e \in Raisable
  PROVE  exception_handler(e).status \in 100 .. 599
<1> DEFINE hits == {i \in DOMAIN Rows : IsInstance(e, Rows[i].classes)}
           first == CHOOSE i \in hits : \A j \in hits : i <= j
<1>1. _request_validation_exc_handler.status \in 100 .. 599
  BY DEF _request_validation_exc_handler
<1>2. ASSUME IsInstance(e, {"ResponsesAPIError"})
      PROVE  make_openai_error_response(e).status \in 100 .. 599
  <2>1. e.class = "ResponsesAPIError"
    BY <1>2 DEF IsInstance, Bases
  <2> QED
    BY <2>1, RaisableFacts DEF make_openai_error_response
<1>3. ASSUME hits # {}
      PROVE  make_response(Rows[first].status, Rows[first].error, RetryAfter(e)).status
               \in 100 .. 599
  <2>1. first \in hits
    <3>1. hits \subseteq Nat
      BY RowsFacts
    <3> HIDE DEF hits
    <3>2. \E i \in hits : \A j \in hits : i <= j
      BY <1>3, <3>1, LeastNumber
    <3> QED
      BY <3>2
  <2>2. Rows[first].status \in 400 .. 599
    BY <2>1, RowsFacts
  <2> QED
    BY <2>2 DEF make_response
<1>4. Fallback(e).status \in 100 .. 599
  BY RaisableFacts DEF Fallback, Unexpected, make_response
<1> QED
  BY <1>1, <1>2, <1>3, <1>4, Zenon DEF exception_handler


------------------------------------------------------------------------------
(* One request moves and the gauges follow it.                             *)
Busied(r) == at[r] \in InHandler /\ Measured(req[r])
LivesWith(r, g) ==
  Endpoint(r) = "create_model_response" /\ g \in {"awaiting", "yielded", "dropped"}
Lives(r) == LivesWith(r, gen[r])
One(b) == IF b THEN 1 ELSE 0

OnlyMoves(r) ==
  /\ config' = config
  /\ \A q \in Requests \ {r} :
       /\ req'[q] = req[q] /\ at'[q] = at[q] /\ gen'[q] = gen[q]
       /\ status'[q] = status[q] /\ counted'[q] = counted[q]

(* Arithmetic the next lemmas need.                                        *)
LEMMA Sums ==
  ASSUME NEW a \in Int, NEW b \in Int, NEW c \in Int
  PROVE  a = a - b + b /\ a - b + c \in Int
  OBVIOUS

(* What a request adds to a gauge is a number.                             *)
LEMMA OneType ==
  ASSUME NEW b \in BOOLEAN
  PROVE  One(b) \in Int
  BY DEF One

(* Two sets that differ in one element at most.                            *)
LEMMA CountStep ==
  ASSUME NEW S, IsFiniteSet(S), NEW T, NEW x, \A y : y # x => (y \in S <=> y \in T)
  PROVE  Cardinality(T) = Cardinality(S) - One(x \in S) + One(x \in T)
<1>1. Cardinality(S) \in Nat
  BY FS_CardinalityType
<1>2. CASE x \in S /\ x \in T
  <2>1. S = T
    BY <1>2
  <2>2. QED
    BY <1>1, <1>2, <2>1 DEF One
<1>3. CASE x \notin S /\ x \notin T
  <2>1. S = T
    BY <1>3
  <2>2. QED
    BY <1>1, <1>3, <2>1 DEF One
<1>4. CASE x \in S /\ x \notin T
  <2>1. T = S \ {x}
    BY <1>4
  <2>2. Cardinality(S \ {x}) = Cardinality(S) - 1
    BY <1>4, FS_RemoveElement
  <2>3. QED
    BY <1>1, <1>4, <2>1, <2>2 DEF One
<1>5. CASE x \notin S /\ x \in T
  <2>1. T = S \cup {x}
    BY <1>5
  <2>2. Cardinality(S \cup {x}) = Cardinality(S) + 1
    BY <1>5, FS_AddElement
  <2>3. QED
    BY <1>1, <1>5, <2>1, <2>2 DEF One
<1>6. QED
  BY <1>2, <1>3, <1>4, <1>5

(* Where a request goes depends on nothing else that changes.              *)
LEMMA SameRoute ==
  ASSUME NEW r, config' = config, req'[r] = req[r]
  PROVE  /\ Route_(req[r])' = Route_(req[r]) /\ Endpoint(r)' = Endpoint(r)
         /\ Measured(req[r])' = Measured(req[r])
<1>1. App' = App
  BY DEF App
<1>2. Route_(req[r])' = Route_(req[r])
  BY <1>1 DEF Route_
<1>3. Measured(req[r])' = Measured(req[r])
  BY DEF Measured, _is_internal_upstream_request
<1>4. QED
  BY <1>2, <1>3 DEF Endpoint

(* When one request moves and both gauges follow it, the invariant is kept *)
(* if it is for that request: the others keep their routes and so their    *)
(* places in the gauges.                                                   *)
LEMMA RequestStep ==
  ASSUME GatewayInv, NEW r \in Requests, OnlyMoves(r), GatewayType', RequestInv(r)',
         http' = http - One(Busied(r)) + One(Busied(r)'),
         sse' = IF config.metrics THEN sse - One(Lives(r)) + One(Lives(r)') ELSE sse
  PROVE  GatewayInv'
<1>1. ASSUME NEW q \in Requests \ {r}
      PROVE  /\ RequestInv(q)'
             /\ Busied(q)' <=> Busied(q)
             /\ Lives(q)' <=> Lives(q)
  <2>1. /\ config' = config
        /\ req'[q] = req[q] /\ at'[q] = at[q] /\ gen'[q] = gen[q]
        /\ status'[q] = status[q] /\ counted'[q] = counted[q]
    BY <1>1 DEF OnlyMoves
  <2>2. /\ Route_(req[q])' = Route_(req[q]) /\ Endpoint(q)' = Endpoint(q)
        /\ Measured(req[q])' = Measured(req[q])
    BY <2>1, SameRoute
  <2>3. GenInv(q) /\ AnswerInv(q) /\ CountInv(q)
    BY DEF GatewayInv, RequestInv
  <2>4. GenInv(q)'
    BY <2>1, <2>2, <2>3 DEF GenInv
  <2>5. AnswerInv(q)'
    BY <2>1, <2>2, <2>3 DEF AnswerInv
  <2>6. CountInv(q)'
    BY <2>1, <2>2, <2>3 DEF CountInv
  <2>8. (Busied(q)' <=> Busied(q)) /\ (Lives(q)' <=> Lives(q))
    BY <2>1, <2>2 DEF Busied, Lives, LivesWith
  <2>9. QED
    BY <2>4, <2>5, <2>6, <2>8 DEF RequestInv
<1>2. \A q \in Requests : RequestInv(q)'
  BY <1>1
<1>3. http' = Cardinality(Busy')
  <2>1. IsFiniteSet(Busy) /\ Busy = {q \in Requests : Busied(q)}
    BY RequestsAssumption, FS_Subset DEF Busy, Busied
  <2>2. Busy' = {q \in Requests : Busied(q)'}
    BY DEF Busy, Busied
  <2>3. \A q : q # r => (q \in Busy <=> q \in Busy')
    BY <1>1, <2>1, <2>2
  <2>4. (r \in Busy <=> Busied(r)) /\ (r \in Busy' <=> Busied(r)')
    BY <2>1, <2>2
  <2>5. Cardinality(Busy') = Cardinality(Busy) - One(r \in Busy) + One(r \in Busy')
    BY <2>1, <2>3, CountStep
  <2>6. One(r \in Busy) = One(Busied(r)) /\ One(r \in Busy') = One(Busied(r)')
    BY <2>4 DEF One
  <2>7. http = Cardinality(Busy)
    BY DEF GatewayInv, GaugeInv
  <2>8. QED
    BY <2>5, <2>6, <2>7
<1>4. sse' = IF config'.metrics THEN Cardinality(Live') ELSE 0
  <2>1. IsFiniteSet(Live) /\ Live = {q \in Requests : Lives(q)}
    BY RequestsAssumption, FS_Subset DEF Live, Lives, LivesWith
  <2>2. Live' = {q \in Requests : Lives(q)'}
    BY DEF Live, Lives, LivesWith
  <2>3. \A q : q # r => (q \in Live <=> q \in Live')
    BY <1>1, <2>1, <2>2
  <2>4. (r \in Live <=> Lives(r)) /\ (r \in Live' <=> Lives(r)')
    BY <2>1, <2>2
  <2>5. Cardinality(Live') = Cardinality(Live) - One(r \in Live) + One(r \in Live')
    BY <2>1, <2>3, CountStep
  <2>6. One(r \in Live) = One(Lives(r)) /\ One(r \in Live') = One(Lives(r)')
    BY <2>4 DEF One
  <2>7. sse = IF config.metrics THEN Cardinality(Live) ELSE 0
    BY DEF GatewayInv, GaugeInv
  <2>8. config' = config
    BY DEF OnlyMoves
  <2>9. QED
    BY <2>5, <2>6, <2>7, <2>8
<1>5. QED
  BY <1>2, <1>3, <1>4 DEF GatewayInv, GaugeInv

------------------------------------------------------------------------------
(* The parts of the handlers' steps.                                       *)
Gens == {"none", "awaiting", "yielded", "dropped", "closed"}

(* What the invariant says of one request.                                 *)
LEMMA TypeFacts ==
  ASSUME GatewayInv, NEW r \in Requests
  PROVE  /\ at[r] \in Places /\ status[r] \in Nat /\ gen[r] \in Gens
         /\ counted[r] \in SUBSET Nat /\ http \in Int /\ sse \in Int
         /\ req \in [Requests -> Kinds \cup {NoKind}] /\ at \in [Requests -> Places]
         /\ status \in [Requests -> Nat] /\ gen \in [Requests -> Gens]
         /\ counted \in [Requests -> SUBSET Nat]
         /\ GenInv(r) /\ AnswerInv(r) /\ CountInv(r)
  BY DEF GatewayInv, GatewayType, RequestInv, Gens

(* A handler answers: the gauge is lowered and the status counted.         *)
LEMMA AnswerStep ==
  ASSUME GatewayInv, NEW r \in Requests, at[r] \in InHandler, NEW s \in 100 .. 599,
         NEW next \in {"streaming", "done"}, Answer(r, s, next), config' = config, req' = req
  PROVE  /\ at' \in [Requests -> Places] /\ status' \in [Requests -> Nat]
         /\ counted' \in [Requests -> SUBSET Nat] /\ http' \in Int
         /\ at'[r] = next /\ status'[r] = s /\ s # 0
         /\ \A q \in Requests \ {r} : /\ at'[q] = at[q] /\ status'[q] = status[q]
                                      /\ counted'[q] = counted[q]
         /\ http' = http - One(Busied(r)) + One(Busied(r)')
         /\ CountInv(r)'
<1> USE TypeFacts
<1>1. /\ at' \in [Requests -> Places] /\ status' \in [Requests -> Nat]
      /\ at'[r] = next /\ status'[r] = s /\ s # 0
      /\ \A q \in Requests \ {r} : at'[q] = at[q] /\ status'[q] = status[q]
  <2>1. at' = [at EXCEPT ![r] = next] /\ next \in Places
    BY DEF Answer, Places
  <2>2. status' = [status EXCEPT ![r] = s] /\ s \in Nat /\ s # 0
    BY DEF Answer
  <2>3. at' \in [Requests -> Places] /\ at'[r] = next /\ \A q \in Requests \ {r} : at'[q] = at[q]
    BY <2>1
  <2>4. /\ status' \in [Requests -> Nat] /\ status'[r] = s
        /\ \A q \in Requests \ {r} : status'[q] = status[q]
    BY <2>2
  <2>5. QED
    BY <2>2, <2>3, <2>4
<1>2. Measured(req[r])' = Measured(req[r])
  BY SameRoute
<1>3. ~Busied(r)' /\ (Busied(r) <=> Measured(req[r]))
  BY <1>1 DEF Busied, InHandler
<1>4. counted[r] = {}
  BY DEF AnswerInv
<1>5. CASE Measured(req[r])
  <2>1. http' = http - 1 /\ counted' = [counted EXCEPT ![r] = @ \cup {s}]
    BY <1>5 DEF Answer, finish_gateway_http_request
  <2>2. counted'[r] = {s} /\ \A q \in Requests \ {r} : counted'[q] = counted[q]
    BY <1>4, <2>1
  <2>3. counted' \in [Requests -> SUBSET Nat]
    BY <2>1
  <2>4. CountInv(r)'
    BY <1>1, <2>2 DEF CountInv
  <2>5. http' = http - One(Busied(r)) + One(Busied(r)') /\ http' \in Int
    BY <1>3, <1>5, <2>1 DEF One
  <2>6. QED
    BY <1>1, <2>2, <2>3, <2>4, <2>5
<1>6. CASE ~Measured(req[r])
  <2>1. http' = http /\ counted' = counted
    BY <1>6 DEF Answer, finish_gateway_http_request
  <2>2. CountInv(r)'
    BY <1>1, <1>2, <1>6 DEF CountInv
  <2>3. http' = http - One(Busied(r)) + One(Busied(r)') /\ http' \in Int
    BY <1>3, <1>6, <2>1 DEF One
  <2>4. QED
    BY <1>1, <2>1, <2>2, <2>3
<1>7. QED
  BY <1>5, <1>6

(* It answers, and its generator is made, opened or closed with that.      *)
LEMMA AnswerMoves ==
  ASSUME GatewayInv, NEW r \in Requests, at[r] \in InHandler, NEW s \in 100 .. 599,
         NEW next \in {"streaming", "done"}, NEW g \in Gens, Answer(r, s, next),
         gen' = [gen EXCEPT ![r] = g],
         next = "streaming" => g \in {"awaiting", "yielded"},
         next = "done" => g \in {"none", "closed"},
         UNCHANGED <<config, req>>, sse' \in Int,
         sse' = IF config.metrics THEN sse - One(Lives(r)) + One(LivesWith(r, g)) ELSE sse
  PROVE  GatewayInv'
<1>1. /\ at' \in [Requests -> Places] /\ status' \in [Requests -> Nat]
      /\ counted' \in [Requests -> SUBSET Nat] /\ http' \in Int
      /\ at'[r] = next /\ status'[r] = s /\ s # 0
      /\ \A q \in Requests \ {r} : /\ at'[q] = at[q] /\ status'[q] = status[q]
                                   /\ counted'[q] = counted[q]
      /\ http' = http - One(Busied(r)) + One(Busied(r)')
      /\ CountInv(r)'
  BY AnswerStep
<1>2. /\ gen' \in [Requests -> Gens] /\ gen'[r] = g
      /\ \A q \in Requests \ {r} : gen'[q] = gen[q]
  BY TypeFacts
<1>4. GatewayType'
  BY <1>1, <1>2, TypeFacts DEF GatewayType, Gens
<1>5. OnlyMoves(r)
  BY <1>1, <1>2 DEF OnlyMoves
<1>6. Endpoint(r)' = Endpoint(r)
  BY SameRoute
<1>7. GenInv(r)' /\ AnswerInv(r)'
  <2>1. GenInv(r)'
    BY <1>1, <1>2, <1>6 DEF GenInv, InHandler
  <2>2. AnswerInv(r)'
    BY <1>1 DEF AnswerInv, InHandler
  <2>3. QED
    BY <2>1, <2>2
<1>8. Lives(r)' <=> LivesWith(r, g)
  BY <1>2, <1>6 DEF Lives, LivesWith
<1>9. sse' = IF config.metrics THEN sse - One(Lives(r)) + One(Lives(r)') ELSE sse
  BY <1>8 DEF One
<1>10. RequestInv(r)'
  BY <1>1, <1>7 DEF RequestInv
<1>11. QED
  BY <1>1, <1>4, <1>5, <1>9, <1>10, RequestStep

(* A handler that answers and has no generator.                            *)
LEMMA AnswerKeeps ==
  ASSUME GatewayInv, NEW r \in Requests, at[r] \in {"handling", "sending", "reading"},
         NEW s \in 100 .. 599, Answer(r, s, "done"),
         UNCHANGED <<config, req, gen, sse>>
  PROVE  GatewayInv'
<1>1. gen[r] = "none" /\ gen' = [gen EXCEPT ![r] = "none"]
  BY TypeFacts DEF GenInv
<1>2. One(Lives(r)) = 0 /\ One(LivesWith(r, "none")) = 0
  BY <1>1 DEF Lives, LivesWith, One
<1>3. /\ sse' \in Int
      /\ sse' = IF config.metrics THEN sse - One(Lives(r)) + One(LivesWith(r, "none")) ELSE sse
  <2>1. sse \in Int /\ sse' = sse
    BY TypeFacts
  <2> QED
    BY <1>2, <2>1
<1>4. at[r] \in InHandler /\ "none" \in Gens
  BY DEF InHandler, Gens
<1>5. QED
  BY <1>1, <1>3, <1>4, AnswerMoves

(* A request arrives: it is handed to a handler of the gateway or answered *)
(* outside of it.                                                          *)
LEMMA ReceiveKeeps ==
  ASSUME GatewayInv, NEW r \in Requests, Receive(r)
  PROVE  GatewayInv'
<1> USE TypeFacts
<1>1. PICK k \in Kinds :
        LET route == Route_(k)
            done == IF route.endpoint = "path_not_found" THEN path_not_found_handler.status
                    ELSE IF route.guarded /\ ~k.internal THEN 404 ELSE 200
        IN /\ req' = [req EXCEPT ![r] = k]
           /\ IF route.wrapped
                THEN /\ at' = [at EXCEPT ![r] = "handling"]
                     /\ begin_gateway_http_request(k)
                     /\ UNCHANGED status
                ELSE /\ at' = [at EXCEPT ![r] = "done"]
                     /\ status' = [status EXCEPT ![r] = done]
                     /\ UNCHANGED http
  BY DEF Receive
<1>2. at[r] = "idle" /\ UNCHANGED <<config, gen, sse, counted>>
  BY DEF Receive, process
<1>3. /\ gen[r] = "none" /\ status[r] = 0 /\ counted[r] = {}
  BY <1>2 DEF GenInv, AnswerInv
<1>4. /\ req' = [req EXCEPT ![r] = k] /\ req'[r] = k
      /\ req' \in [Requests -> Kinds \cup {NoKind}]
      /\ \A q \in Requests \ {r} : req'[q] = req[q]
  BY <1>1
<1>5. Route_(req[r])' = Route_(k) /\ Measured(req[r])' = Measured(k)
  <2>1. App' = App
    BY <1>2 DEF App
  <2>2. QED
    BY <1>2, <1>4, <2>1 DEF Route_, Measured, _is_internal_upstream_request
<1>6. ~Busied(r) /\ ~Lives(r) /\ ~Lives(r)'
  BY <1>2, <1>3 DEF Busied, Lives, LivesWith, InHandler
<1>7. sse' = IF config.metrics THEN sse - One(Lives(r)) + One(Lives(r)') ELSE sse
  BY <1>2, <1>6 DEF One
<1>8. CASE Route_(k).wrapped
  <2>1. at' = [at EXCEPT ![r] = "handling"] /\ begin_gateway_http_request(k) /\ status' = status
    BY <1>1, <1>8
  <2>2. /\ at'[r] = "handling" /\ at' \in [Requests -> Places]
        /\ \A q \in Requests \ {r} : at'[q] = at[q]
    BY <2>1 DEF Places
  <2>3. http' = (IF Measured(k) THEN http + 1 ELSE http) /\ http' \in Int
    BY <2>1 DEF begin_gateway_http_request
  <2>4. Busied(r)' <=> Measured(k)
    BY <1>5, <2>2 DEF Busied, InHandler
  <2>5. http' = http - One(Busied(r)) + One(Busied(r)')
    BY <1>6, <2>3, <2>4 DEF One
  <2>6. GatewayType'
    BY <1>2, <1>4, <2>1, <2>2, <2>3 DEF GatewayType, Gens
  <2>7. OnlyMoves(r)
    BY <1>2, <1>4, <2>1, <2>2 DEF OnlyMoves
  <2>8. RequestInv(r)'
    <3>1. at'[r] = "handling" /\ gen'[r] = "none" /\ status'[r] = 0
          /\ counted'[r] = {}
      BY <1>2, <1>3, <2>1, <2>2
    <3>2. GenInv(r)'
      BY <3>1 DEF GenInv
    <3>3. AnswerInv(r)'
      BY <1>5, <1>8, <3>1 DEF AnswerInv
    <3>4. CountInv(r)'
      BY <3>1 DEF CountInv
    <3>5. QED
      BY <3>2, <3>3, <3>4 DEF RequestInv
  <2>9. QED
    BY <1>7, <2>5, <2>6, <2>7, <2>8, RequestStep
<1>9. CASE ~Route_(k).wrapped
  <2>1. at' = [at EXCEPT ![r] = "done"] /\ http' = http
    BY <1>1, <1>9
  <2>2. PICK s \in Nat \ {0} : status' = [status EXCEPT ![r] = s]
    <3>1. path_not_found_handler.status \in Nat \ {0}
      BY DEF path_not_found_handler, make_response
    <3>2. QED
      BY <1>1, <1>9, <3>1
  <2>3. /\ at'[r] = "done" /\ at' \in [Requests -> Places]
        /\ \A q \in Requests \ {r} : at'[q] = at[q]
    BY <2>1 DEF Places
  <2>4. /\ status'[r] = s /\ status' \in [Requests -> Nat]
        /\ \A q \in Requests \ {r} : status'[q] = status[q]
    BY <2>2
  <2>5. ~Busied(r)'
    BY <2>3 DEF Busied, InHandler
  <2>6. http' = http - One(Busied(r)) + One(Busied(r)')
    BY <1>6, <2>1, <2>5 DEF One
  <2>7. GatewayType'
    BY <1>2, <1>4, <2>1, <2>3, <2>4 DEF GatewayType, Gens
  <2>8. OnlyMoves(r)
    BY <1>2, <1>4, <2>3, <2>4 DEF OnlyMoves
  <2>9. RequestInv(r)'
    BY <1>2, <1>3, <1>5, <1>9, <2>2, <2>3, <2>4
       DEF RequestInv, GenInv, AnswerInv, CountInv, InHandler
  <2>10. QED
    BY <1>7, <2>6, <2>7, <2>8, <2>9, RequestStep
<1>10. QED
  BY <1>8, <1>9

(* A handler answers what exception_handler makes of an exception.         *)
LEMMA FailureKeeps ==
  ASSUME GatewayInv, NEW r \in Requests, at[r] \in {"handling", "reading"},
         NEW e \in Raisable, AnswerFailure(r, e), UNCHANGED <<config, req, gen, sse>>
  PROVE  GatewayInv'
<1> DEFINE s == exception_handler(e).status
<1>1. s \in 100 .. 599
  BY StatusFacts
<1>2. Answer(r, s, "done")
  BY DEF AnswerFailure
<1> HIDE DEF s
<1>3. QED
  BY <1>1, <1>2, AnswerKeeps

(* The handlers that answer without a stream.                              *)
LEMMA RefuseBodyKeeps ==
  ASSUME GatewayInv, NEW r \in Requests, RefuseBody(r)
  PROVE  GatewayInv'
<1>1. Exception("RequestValidationError") \in Raisable
  BY DEF Raisable
<1>2. QED
  BY <1>1, FailureKeeps DEF RefuseBody, Handling, process

(* A response that is not streamed.                                        *)
LEMMA RunPlainKeeps ==
  ASSUME GatewayInv, NEW r \in Requests, RunPlain(r)
  PROVE  GatewayInv'
<1>1. at[r] = "handling" /\ UNCHANGED <<config, req, gen, sse>>
  BY DEF RunPlain, Handling, process
<1>2. CASE Answer(r, 200, "done")
  BY <1>1, <1>2, AnswerKeeps
<1>3. ASSUME NEW e \in EngineErrors, AnswerFailure(r, e)
      PROVE  GatewayInv'
  BY <1>1, <1>3, FailureKeeps DEF Raisable
<1>4. QED
  BY <1>2, <1>3 DEF RunPlain

(* A stored response that is asked for.                                    *)
LEMMA RetrieveKeeps ==
  ASSUME GatewayInv, NEW r \in Requests, Retrieve(r)
  PROVE  GatewayInv'
<1>1. at[r] = "handling" /\ UNCHANGED <<config, req, gen, sse>>
  BY DEF Retrieve, Handling, process
<1>2. CASE Answer(r, 200, "done")
  BY <1>1, <1>2, AnswerKeeps
<1>3. CASE AnswerFailure(r, WithStatus("ResponsesAPIError", 404))
  <2>1. WithStatus("ResponsesAPIError", 404) \in Raisable
    BY DEF Raisable
  <2>2. QED
    BY <1>1, <1>3, <2>1, FailureKeeps
<1>4. CASE AnswerFailure(r, Exception("OperationalError"))
  <2>1. Exception("OperationalError") \in Raisable
    BY DEF Raisable
  <2>2. QED
    BY <1>1, <1>4, <2>1, FailureKeeps
<1>5. QED
  BY <1>2, <1>3, <1>4 DEF Retrieve

(* The lists of MCP servers and of their tools.                            *)
LEMMA DiscoverMcpKeeps ==
  ASSUME GatewayInv, NEW r \in Requests, DiscoverMcp(r)
  PROVE  GatewayInv'
<1>1. at[r] = "handling" /\ UNCHANGED <<config, req, gen, sse>>
  BY DEF DiscoverMcp, Handling, process
<1>2. CASE Answer(r, 200, "done")
  BY <1>1, <1>2, AnswerKeeps
<1>3. ASSUME NEW s \in McpErrors(Endpoint(r)), AnswerFailure(r, WithStatus("HTTPException", s))
      PROVE  GatewayInv'
  <2>1. WithStatus("HTTPException", s) \in Raisable
    BY <1>3 DEF Raisable, McpErrors
  <2>2. QED
    BY <1>1, <1>3, <2>1, FailureKeeps
<1>4. QED
  BY <1>2, <1>3 DEF DiscoverMcp

(* An upstream that cannot be reached.                                     *)
LEMMA SendFailsKeeps ==
  ASSUME GatewayInv, NEW r \in Requests, SendFails(r)
  PROVE  GatewayInv'
<1>1. at[r] = "sending" /\ UNCHANGED <<config, req, gen, sse>>
  BY DEF SendFails, process
<1>2. ASSUME NEW s \in {502, 504}, Answer(r, s, "done") PROVE GatewayInv'
  BY <1>1, <1>2, AnswerKeeps
<1>3. QED
  BY <1>2 DEF SendFails

(* The body of an upstream answer that is not streamed.                    *)
LEMMA ReadBodyKeeps ==
  ASSUME GatewayInv, NEW r \in Requests, ReadBody(r)
  PROVE  GatewayInv'
<1>1. at[r] = "reading" /\ UNCHANGED <<config, req, gen, sse>>
  BY DEF ReadBody, process
<1>2. ASSUME NEW s \in Statuses, Answer(r, s, "done")
      PROVE  GatewayInv'
  BY <1>1, <1>2, StatusesAssumption, AnswerKeeps
<1>3. ASSUME NEW class \in {"TimeoutException", "RequestError"}, AnswerFailure(r, Exception(class))
      PROVE  GatewayInv'
  BY <1>1, <1>3, FailureKeeps DEF Raisable
<1>4. QED
  BY <1>2, <1>3 DEF ReadBody

------------------------------------------------------------------------------
(* A step that only moves a request on, its generator with it.             *)
LEMMA MoveKeeps ==
  ASSUME GatewayInv, NEW r \in Requests, NEW place \in Places, NEW g \in Gens,
         at' = [at EXCEPT ![r] = place], gen' = [gen EXCEPT ![r] = g],
         place \in InHandler <=> at[r] \in InHandler, place # "idle",
         place = "done" => at[r] \in {"streaming", "done"}, at[r] # "idle",
         at[r] = "done" => place = "done",
         place \in {"sending", "reading"} => g = "none",
         place \notin {"handling", "idle"},
         place = "first chunk" => g = "awaiting" /\ Endpoint(r) = "create_model_response",
         place = "streaming" => g \in {"awaiting", "yielded"},
         place = "done" => g \in {"none", "dropped", "closed"},
         UNCHANGED <<config, req, status, counted, http>>,
         sse' = IF config.metrics
                  THEN sse - One(Lives(r))
                         + One(LivesWith(r, g))
                  ELSE sse
  PROVE  GatewayInv'
<1>1. /\ at' \in [Requests -> Places] /\ at'[r] = place
      /\ \A q \in Requests \ {r} : at'[q] = at[q]
  BY TypeFacts
<1>2. /\ gen' \in [Requests -> Gens] /\ gen'[r] = g
      /\ \A q \in Requests \ {r} : gen'[q] = gen[q]
  BY TypeFacts
<1>3. /\ Route_(req[r])' = Route_(req[r]) /\ Endpoint(r)' = Endpoint(r)
      /\ Measured(req[r])' = Measured(req[r])
  BY SameRoute
<1>4. One(Busied(r)') = One(Busied(r))
  BY <1>1, <1>3 DEF Busied, One
<1>5. http' = http /\ http \in Int /\ One(Busied(r)) \in Int
  BY OneType, TypeFacts DEF Busied
<1>6. http' = http - One(Busied(r)) + One(Busied(r)')
  <2> DEFINE n == One(Busied(r))
             m == One(Busied(r)')
  <2>1. m = n /\ n \in Int
    BY <1>4, <1>5
  <2> HIDE DEF n, m
  <2>2. http' = http - n + m
    BY <1>5, <2>1, Sums, Zenon
  <2>3. QED
    BY <2>2 DEF n, m
<1>7. Lives(r)' <=> LivesWith(r, g)
  BY <1>2, <1>3 DEF Lives, LivesWith
<1>8. sse' = IF config.metrics THEN sse - One(Lives(r)) + One(Lives(r)') ELSE sse
  BY <1>7 DEF One
<1>9. sse' \in Int
  <2> DEFINE n == One(Lives(r))
             m == One(Lives(r)')
  <2>1. sse \in Int /\ n \in Int /\ m \in Int
    BY OneType, TypeFacts DEF Lives, LivesWith
  <2>2. sse' = IF config.metrics THEN sse - n + m ELSE sse
    BY <1>8
  <2> HIDE DEF n, m
  <2>3. sse - n + m \in Int
    BY <2>1, Sums, Zenon
  <2>4. QED
    BY <2>1, <2>2, <2>3, Zenon
<1>10. GatewayType'
  BY <1>1, <1>2, <1>9, TypeFacts DEF GatewayType, Gens
<1>11. OnlyMoves(r)
  BY <1>1, <1>2 DEF OnlyMoves
<1>12. RequestInv(r)'
  <2>1. GenInv(r)'
    BY <1>1, <1>2, <1>3, TypeFacts DEF GenInv
  <2>2. AnswerInv(r)'
    BY <1>1, <1>3, TypeFacts DEF AnswerInv, InHandler, Places
  <2>3. CountInv(r)'
    BY <1>3, TypeFacts, ZenonT(60) DEF CountInv
  <2>4. QED
    BY <2>1, <2>2, <2>3 DEF RequestInv
<1>13. QED
  BY <1>6, <1>8, <1>10, <1>11, <1>12, RequestStep

(* A streamed response: its generator is entered and counted.              *)
LEMMA OpenStreamKeeps ==
  ASSUME GatewayInv, NEW r \in Requests, OpenStream(r)
  PROVE  GatewayInv'
<1> USE TypeFacts
<1>1. /\ at[r] = "handling" /\ Endpoint(r) = "create_model_response"
      /\ at' = [at EXCEPT ![r] = "first chunk"] /\ gen' = [gen EXCEPT ![r] = "awaiting"]
      /\ StreamOpens /\ UNCHANGED <<config, req, status, counted, http>>
  BY DEF OpenStream, Handling, process, metrics
<1>2. gen[r] = "none"
  BY <1>1 DEF GenInv
<1>3. sse' = IF config.metrics
               THEN sse - One(Lives(r)) + One(LivesWith(r, "awaiting"))
               ELSE sse
  <2>1. sse \in Int /\ sse' = IF config.metrics THEN sse + 1 ELSE sse
    BY <1>1 DEF StreamOpens
  <2>2. ~Lives(r)
    BY <1>2 DEF Lives, LivesWith
  <2> DEFINE n == One(Lives(r))
             m == One(LivesWith(r, "awaiting"))
  <2>3. n = 0 /\ m = 1
    BY <1>1, <2>2 DEF One, LivesWith
  <2> HIDE DEF n, m
  <2>4. sse' = IF config.metrics THEN sse - n + m ELSE sse
    BY <2>1, <2>3
  <2>5. QED
    BY <2>4 DEF n, m
<1>4. QED
  BY <1>1, <1>3, MoveKeeps DEF InHandler, Places, Gens

(* The proxy sends, and reads what cannot be streamed.                     *)
LEMMA ProxyKeeps ==
  ASSUME GatewayInv, NEW r \in Requests,
         \/ at[r] = "handling" /\ at' = [at EXCEPT ![r] = "sending"]
         \/ at[r] = "sending" /\ at' = [at EXCEPT ![r] = "reading"],
         UNCHANGED <<config, req, status, counted, http, gen, sse>>
  PROVE  GatewayInv'
<1> USE TypeFacts
<1>1. gen[r] = "none"
  BY DEF GenInv
<1>2. gen' = [gen EXCEPT ![r] = "none"]
  BY <1>1
<1>3. sse' = IF config.metrics
               THEN sse - One(Lives(r)) + One(LivesWith(r, "none"))
               ELSE sse
  BY <1>1 DEF Lives, LivesWith, One
<1>4. QED
  BY <1>2, <1>3, MoveKeeps DEF InHandler, Places, Gens

(* The server takes a chunk and asks for the next one.                     *)
LEMMA PullKeeps ==
  ASSUME GatewayInv, NEW r \in Requests, Yields(r) \/ Pull(r)
  PROVE  GatewayInv'
<1> USE TypeFacts
<1>1. PICK g \in {"awaiting", "yielded"} : gen' = [gen EXCEPT ![r] = g]
  BY DEF Yields, Pull
<1>2. /\ at[r] = "streaming" /\ gen[r] \in {"awaiting", "yielded"}
      /\ UNCHANGED <<config, req, at, status, counted, http, sse>>
  BY DEF Yields, Pull, process, metrics
<1>3. at' = [at EXCEPT ![r] = "streaming"]
  BY <1>2
<1>4. sse' = IF config.metrics
               THEN sse - One(Lives(r)) + One(LivesWith(r, g))
               ELSE sse
  BY <1>1, <1>2 DEF Lives, LivesWith, One
<1>5. QED
  BY <1>1, <1>2, <1>3, <1>4, MoveKeeps DEF InHandler, Places, Gens

(* The finally clause of a generator: an open stream of a response is      *)
(* closed once.                                                            *)
LEMMA CloseStep ==
  ASSUME GatewayInv, NEW r \in Requests, gen[r] \in {"awaiting", "dropped"}, CloseGenerator(r)
  PROVE  /\ gen' = [gen EXCEPT ![r] = "closed"]
         /\ sse' = IF config.metrics THEN sse - One(Lives(r)) ELSE sse
<1> USE TypeFacts
<1>1. Lives(r) <=> Endpoint(r) = "create_model_response"
  BY DEF Lives, LivesWith
<1>2. QED
  BY <1>1 DEF CloseGenerator, StreamCloses, One

(* A stream is over: its generator is closed, or dropped to be closed.     *)
LEMMA StreamOverKeeps ==
  ASSUME GatewayInv, NEW r \in Requests,
         at[r] \in {"streaming", "done"}, at' = [at EXCEPT ![r] = "done"],
         \/ gen[r] \in {"awaiting", "dropped"} /\ CloseGenerator(r)
         \/ gen[r] = "yielded" /\ gen' = [gen EXCEPT ![r] = "dropped"] /\ UNCHANGED sse,
         UNCHANGED <<config, req, status, counted, http>>
  PROVE  GatewayInv'
<1> USE TypeFacts
<1>1. CASE gen[r] \in {"awaiting", "dropped"} /\ CloseGenerator(r)
  <2>1. /\ gen' = [gen EXCEPT ![r] = "closed"]
        /\ sse' = IF config.metrics THEN sse - One(Lives(r)) ELSE sse
    BY <1>1, CloseStep
  <2>2. sse' = IF config.metrics
                 THEN sse - One(Lives(r)) + One(LivesWith(r, "closed"))
                 ELSE sse
    <3>1. sse \in Int /\ One(Lives(r)) \in Int
      BY OneType DEF Lives, LivesWith
    <3>2. One(LivesWith(r, "closed")) = 0
      BY DEF One, LivesWith
    <3>3. QED
      BY <2>1, <3>1, <3>2
  <2>3. QED
    BY <2>1, <2>2, MoveKeeps DEF InHandler, Places, Gens
<1>2. CASE gen[r] = "yielded" /\ gen' = [gen EXCEPT ![r] = "dropped"] /\ UNCHANGED sse
  <2>1. sse' = IF config.metrics
                 THEN sse - One(Lives(r)) + One(LivesWith(r, "dropped"))
                 ELSE sse
    BY <1>2 DEF Lives, LivesWith, One
  <2>2. QED
    BY <1>2, <2>1, MoveKeeps DEF InHandler, Places, Gens
<1>3. QED
  BY <1>1, <1>2

(* A stream that comes to its end.                                         *)
LEMMA StreamEndsKeeps ==
  ASSUME GatewayInv, NEW r \in Requests, StreamEnds(r)
  PROVE  GatewayInv'
  BY StreamOverKeeps DEF StreamEnds, process

(* A stream whose client left.                                             *)
LEMMA CancelStreamKeeps ==
  ASSUME GatewayInv, NEW r \in Requests, CancelStream(r)
  PROVE  GatewayInv'
<1>1. /\ at[r] = "streaming" /\ at' = [at EXCEPT ![r] = "done"]
      /\ UNCHANGED <<config, req, status, counted, http>>
  BY DEF CancelStream, process
<1>2. gen[r] \in {"awaiting", "yielded"}
  BY <1>1, TypeFacts DEF GenInv
<1>3. QED
  BY <1>1, <1>2, StreamOverKeeps DEF CancelStream

(* The event loop closes a generator that nobody holds.                    *)
LEMMA FinalizeDroppedKeeps ==
  ASSUME GatewayInv, NEW r \in Requests, FinalizeDropped(r)
  PROVE  GatewayInv'
<1> USE TypeFacts
<1>1. /\ gen[r] = "dropped" /\ CloseGenerator(r)
      /\ UNCHANGED <<config, req, at, status, counted, http>>
  BY DEF FinalizeDropped, process
<1>2. at[r] = "done"
  BY <1>1 DEF GenInv, Places
<1>3. at' = [at EXCEPT ![r] = "done"]
  BY <1>1, <1>2
<1>4. QED
  BY <1>1, <1>2, <1>3, StreamOverKeeps

------------------------------------------------------------------------------
(* Nothing the invariant speaks of changes.                                *)
LEMMA Unmoved ==
  ASSUME GatewayInv, UNCHANGED <<config, req, at, status, gen, metrics>>
  PROVE  GatewayInv'
<1>0. UNCHANGED <<config, req, at, status, gen, http, sse, counted>>
  BY DEF metrics
<1>1. GatewayType'
  BY <1>0 DEF GatewayInv, GatewayType
<1>2. ASSUME NEW r \in Requests
      PROVE  /\ Route_(req[r])' = Route_(req[r]) /\ Endpoint(r)' = Endpoint(r)
             /\ Measured(req[r])' = Measured(req[r])
  BY <1>0, SameRoute
<1>3. Busy' = Busy /\ Live' = Live
  BY <1>0, <1>2 DEF Busy, Live
<1>4. GaugeInv'
  BY <1>0, <1>3 DEF GatewayInv, GaugeInv
<1>5. ASSUME NEW r \in Requests
      PROVE  RequestInv(r)'
  <2>1. RequestInv(r)
    BY DEF GatewayInv
  <2>2. GenInv(r)'
    BY <1>0, <1>2, <2>1 DEF RequestInv, GenInv
  <2>3. AnswerInv(r)'
    BY <1>0, <1>2, <2>1 DEF RequestInv, AnswerInv
  <2>4. CountInv(r)'
    BY <1>0, <1>2, <2>1 DEF RequestInv, CountInv
  <2>5. QED
    BY <2>2, <2>3, <2>4 DEF RequestInv
<1>6. QED
  BY <1>1, <1>4, <1>5 DEF GatewayInv

(* The headers of a streamed upstream answer are the answer's.             *)
LEMMA HeadersArriveKeeps ==
  ASSUME GatewayInv, NEW r \in Requests, HeadersArrive(r)
  PROVE  GatewayInv'
<1>1. at[r] = "sending" /\ UNCHANGED <<config, req, sse>>
  BY DEF HeadersArrive, process
<1>2. ASSUME NEW s \in Statuses, Endpoint(r) = "proxy_chat_completions",
             gen' = [gen EXCEPT ![r] = "awaiting"], Answer(r, s, "streaming")
      PROVE  GatewayInv'
  <2>1. One(Lives(r)) = 0 /\ One(LivesWith(r, "awaiting")) = 0
    BY <1>2 DEF Lives, LivesWith, One
  <2>2. /\ sse' \in Int
        /\ sse' = IF config.metrics THEN sse - One(Lives(r)) + One(LivesWith(r, "awaiting")) ELSE sse
    BY <1>1, <2>1, TypeFacts
  <2>3. at[r] \in InHandler /\ "awaiting" \in Gens /\ s \in 100 .. 599
    BY <1>1, StatusesAssumption DEF InHandler, Gens
  <2>4. QED
    BY <1>1, <1>2, <2>2, <2>3, AnswerMoves
<1>3. CASE at' = [at EXCEPT ![r] = "reading"] /\ UNCHANGED <<gen, status, http, counted>>
  BY <1>1, <1>3, ProxyKeeps
<1>4. QED
  BY <1>2, <1>3 DEF HeadersArrive

(* The first chunk of a response decides between a stream and an answer.   *)
LEMMA FirstChunkKeeps ==
  ASSUME GatewayInv, NEW r \in Requests, FirstChunk(r)
  PROVE  GatewayInv'
<1>1. at[r] = "first chunk" /\ UNCHANGED <<config, req>>
  BY DEF FirstChunk, process
<1>2. gen[r] = "awaiting" /\ Endpoint(r) = "create_model_response"
  BY <1>1, TypeFacts DEF GenInv
<1>3. at[r] \in InHandler /\ "yielded" \in Gens /\ "closed" \in Gens /\ sse \in Int
  BY <1>1, TypeFacts DEF InHandler, Gens
<1>4. One(Lives(r)) = 1 /\ One(LivesWith(r, "yielded")) = 1 /\ One(LivesWith(r, "closed")) = 0
  BY <1>2 DEF Lives, LivesWith, One
<1>0. 200 \in 100 .. 599
  OBVIOUS
<1>5. CASE /\ gen' = [gen EXCEPT ![r] = "yielded"]
           /\ Answer(r, 200, "streaming") /\ UNCHANGED sse
  <2>1. /\ sse' \in Int
        /\ sse' = IF config.metrics THEN sse - One(Lives(r)) + One(LivesWith(r, "yielded")) ELSE sse
    BY <1>3, <1>4, <1>5
  <2>2. "streaming" = "done" => "yielded" \in {"none", "closed"}
    OBVIOUS
  <2>3. "streaming" \in {"streaming", "done"} /\ "yielded" \in {"awaiting", "yielded"}
    OBVIOUS
  <2>4. QED
    BY <1>1, <1>3, <1>5, <2>1, <2>2, <2>3, <1>0, AnswerMoves, Zenon
<1>6. ASSUME gen' = [gen EXCEPT ![r] = "closed"], StreamCloses
      PROVE  /\ sse' \in Int
             /\ sse' = IF config.metrics THEN sse - One(Lives(r)) + One(LivesWith(r, "closed")) ELSE sse
  BY <1>3, <1>4, <1>6 DEF StreamCloses
<1>7. CASE /\ gen' = [gen EXCEPT ![r] = "closed"] /\ StreamCloses
           /\ Answer(r, 200, "done")
  <2>1. "done" = "streaming" => "closed" \in {"awaiting", "yielded"}
    OBVIOUS
  <2>2. "done" \in {"streaming", "done"} /\ "closed" \in {"none", "closed"}
    OBVIOUS
  <2>3. QED
    BY <1>1, <1>3, <1>0, <1>6, <1>7, <2>1, <2>2, AnswerMoves, Zenon
<1>8. ASSUME gen' = [gen EXCEPT ![r] = "closed"], StreamCloses,
             NEW e \in EngineErrors, AnswerFailure(r, e)
      PROVE  GatewayInv'
  <2> DEFINE s == exception_handler(e).status
  <2>1. s \in 100 .. 599
    BY StatusFacts DEF Raisable
  <2>2. Answer(r, s, "done")
    BY <1>8 DEF AnswerFailure
  <2> HIDE DEF s
  <2>3. QED
    BY <1>1, <1>3, <1>6, <1>8, <2>1, <2>2, AnswerMoves
<1>9. QED
  BY <1>5, <1>7, <1>8 DEF FirstChunk

(* A handler that is cancelled answers nothing and counts once.            *)
LEMMA CancelHandlerKeeps ==
  ASSUME GatewayInv, NEW r \in Requests, CancelHandler(r)
  PROVE  GatewayInv'
<1>1. /\ at[r] \in InHandler /\ at' = [at EXCEPT ![r] = "done"]
      /\ finish_gateway_http_request(r, 500) /\ UNCHANGED <<config, req, status>>
  BY DEF CancelHandler, process, InHandler
<1>2. /\ at' \in [Requests -> Places] /\ at'[r] = "done"
      /\ \A q \in Requests \ {r} : at'[q] = at[q]
  BY <1>1, TypeFacts DEF Places
<1>3. /\ Route_(req[r])' = Route_(req[r]) /\ Endpoint(r)' = Endpoint(r)
      /\ Measured(req[r])' = Measured(req[r])
  BY <1>1, SameRoute
<1>4. /\ status[r] = 0 /\ counted[r] = {}
      /\ http \in Int /\ sse \in Int /\ gen[r] \in {"none", "awaiting"}
  BY <1>1, TypeFacts DEF AnswerInv, GenInv, InHandler
<1>5. PICK g \in {"none", "closed"} :
        /\ gen' = [gen EXCEPT ![r] = g]
        /\ sse' = IF config.metrics THEN sse - One(Lives(r)) ELSE sse
  <2>1. CASE gen[r] = "awaiting"
    BY <2>1, CloseStep DEF CancelHandler
  <2>2. CASE gen[r] = "none"
    <3>1. gen' = [gen EXCEPT ![r] = "none"] /\ sse' = sse
      BY <2>2, TypeFacts DEF CancelHandler
    <3>2. One(Lives(r)) = 0
      BY <2>2 DEF Lives, LivesWith, One
    <3>3. QED
      BY <1>4, <3>1, <3>2
  <2>3. QED
    BY <1>4, <2>1, <2>2
<1>6. /\ gen' \in [Requests -> Gens] /\ gen'[r] = g
      /\ \A q \in Requests \ {r} : gen'[q] = gen[q]
  <2>1. g \in Gens
    BY DEF Gens
  <2>2. QED
    BY <1>5, <2>1, TypeFacts
<1>7. sse' \in Int /\ sse' = IF config.metrics THEN sse - One(Lives(r)) + One(Lives(r)') ELSE sse
  <2>1. One(Lives(r)') = 0
    BY <1>6 DEF Lives, LivesWith, One
  <2>2. One(Lives(r)) \in Int
    BY OneType DEF Lives, LivesWith
  <2>3. QED
    BY <1>4, <1>5, <2>1, <2>2
<1>8. /\ counted' \in [Requests -> SUBSET Nat] /\ counted'[r] \in {{}, {500}}
      /\ \A q \in Requests \ {r} : counted'[q] = counted[q]
      /\ http' \in Int /\ http' = http - One(Busied(r)) + One(Busied(r)')
  <2>1. One(Busied(r)') = 0
    BY <1>2 DEF Busied, InHandler, One
  <2>2. CASE Measured(req[r])
    <3>1. http' = http - 1 /\ counted' = [counted EXCEPT ![r] = @ \cup {500}]
      BY <1>1, <2>2 DEF finish_gateway_http_request
    <3>2. One(Busied(r)) = 1
      BY <1>1, <2>2 DEF Busied, One
    <3>3. http' \in Int /\ http' = http - One(Busied(r)) + One(Busied(r)')
      BY <1>4, <2>1, <3>1, <3>2
    <3>4. QED
      BY <1>4, <3>1, <3>3, TypeFacts
  <2>3. CASE ~Measured(req[r])
    <3>1. http' = http /\ counted' = counted
      BY <1>1, <2>3 DEF finish_gateway_http_request
    <3>2. One(Busied(r)) = 0
      BY <2>3 DEF Busied, One
    <3>3. http' \in Int /\ http' = http - One(Busied(r)) + One(Busied(r)')
      BY <1>4, <2>1, <3>1, <3>2
    <3>4. QED
      BY <1>4, <3>1, <3>3, TypeFacts
  <2>4. QED
    BY <2>2, <2>3
<1>9. GatewayType'
  BY <1>1, <1>2, <1>6, <1>7, <1>8, TypeFacts DEF GatewayType, Gens
<1>10. OnlyMoves(r)
  BY <1>1, <1>2, <1>6, <1>8 DEF OnlyMoves
<1>11. RequestInv(r)'
  BY <1>1, <1>2, <1>3, <1>4, <1>6, <1>8
     DEF RequestInv, GenInv, AnswerInv, CountInv, InHandler
<1>12. QED
  BY <1>7, <1>8, <1>9, <1>10, <1>11, RequestStep

------------------------------------------------------------------------------
(* The invariant holds before the first request.                           *)
LEMMA GatewayInit == Init => GatewayInv
<1> SUFFICES ASSUME Init PROVE GatewayInv
  OBVIOUS
<1>1. GatewayType
  BY DEF Init, GatewayType, Places
<1>2. Busy = {} /\ Live = {}
  BY DEF Init, Busy, Live, InHandler
<1>3. GaugeInv
  BY <1>2, FS_EmptySet DEF Init, GaugeInv
<1>4. \A r \in Requests : RequestInv(r)
  BY DEF Init, RequestInv, GenInv, AnswerInv, CountInv, InHandler
<1>5. QED
  BY <1>1, <1>3, <1>4 DEF GatewayInv

(* Every step of the gateway keeps the invariant.                          *)
LEMMA GatewayStep == GatewayInv /\ [Next]_vars => GatewayInv'
<1> SUFFICES ASSUME GatewayInv, [Next]_vars PROVE GatewayInv'
  OBVIOUS
<1>1. ASSUME NEW r \in Requests, Receive(r) PROVE GatewayInv'
  BY <1>1, ReceiveKeeps
<1>2. ASSUME NEW r \in Requests, HandlerStep(r) PROVE GatewayInv'
  <2>1. CASE Proxy(r)
    BY <2>1, ProxyKeeps DEF Proxy, Handling, metrics
  <2>2. QED
    BY <1>2, <2>1, RefuseBodyKeeps, RunPlainKeeps, OpenStreamKeeps, FirstChunkKeeps, RetrieveKeeps,
       DiscoverMcpKeeps, SendFailsKeeps, HeadersArriveKeeps, ReadBodyKeeps DEF HandlerStep
<1>3. ASSUME NEW r \in Requests, StreamStep(r) PROVE GatewayInv'
  BY <1>3, PullKeeps, StreamEndsKeeps, CancelStreamKeeps, FinalizeDroppedKeeps DEF StreamStep
<1>4. ASSUME NEW r \in Requests, Disconnect(r) PROVE GatewayInv'
  BY <1>4, Unmoved DEF Disconnect, process
<1>5. ASSUME NEW r \in Requests, CancelHandler(r) PROVE GatewayInv'
  BY <1>5, CancelHandlerKeeps
<1>6. ASSUME ProcessStep PROVE GatewayInv'
  <2>1. UNCHANGED config /\ Requested
    BY <1>6
       DEF ProcessStep, Start, StartServer, InterpreterEnds, KillInterpreter, GiveUp, Terminate,
                ShutDown, CloseClients, Abandon
  <2>2. QED
    BY <2>1, Unmoved DEF Requested
<1>7. CASE UNCHANGED vars
  BY <1>7, Unmoved DEF vars, process
<1>8. QED
  BY <1>1, <1>2, <1>3, <1>4, <1>5, <1>6, <1>7 DEF Next

------------------------------------------------------------------------------
(* Routes.  Of what an application serves, only the gateway's own handlers *)
(* are in the family of responses routes, and vLLM's are not wrapped and   *)
(* refuse whoever is not marked as internal.                               *)
Own == {"create_model_response", "retrieve_model_response"}

Tame(route) ==
  route.endpoint \in NativeResponses => ~route.wrapped /\ (route.guarded \/ InFamily(route))

Owned(routes) == \A i \in DOMAIN routes : InFamily(routes[i]) => routes[i].endpoint \in Own

Sound(routes) ==
  /\ DOMAIN routes \subseteq Nat
  /\ Owned(routes)
  /\ \A i \in DOMAIN routes : Tame(routes[i])

LEMMA FamilyIs ==
  ASSUME NEW route
  PROVE  InFamily(route) <=>
           \/ route.method = "POST" /\ route.path = CreatePath
           \/ route.method = "GET" /\ route.path = RetrievePath
           \/ route.method = "POST" /\ route.path = CancelPath
BY DEF InFamily, _RESPONSES_ROUTE_FAMILY, _route_matches

(* A route that is not vLLM's, and in the family only if it is the         *)
(* gateway's own.                                                          *)
Fit(route) == Tame(route) /\ (InFamily(route) => route.endpoint \in Own)

LEMMA ItemsOf ==
  ASSUME NEW S, NEW s \in Seq(S)
  PROVE  DOMAIN s \subseteq Nat /\ \A i \in DOMAIN s : s[i] \in S
OBVIOUS

LEMMA NativeNames == NativeResponses = {"native_create", "native_retrieve", "native_cancel"}
<1>1. DOMAIN native_responses_router = 1 .. 3
  BY DEF native_responses_router
<1>2. /\ native_responses_router[1].endpoint = "native_create"
      /\ native_responses_router[2].endpoint = "native_retrieve"
      /\ native_responses_router[3].endpoint = "native_cancel"
  BY DEF native_responses_router, Route
<1>3. 1 .. 3 = {1, 2, 3}
  OBVIOUS
<1> QED
  BY <1>1, <1>2, <1>3 DEF NativeResponses

(* The first of some positions is one of them.                             *)
LEMMA MinIsOne ==
  ASSUME NEW S, S \subseteq Nat, S # {}
  PROVE  Min(S) \in S
<1>1. \E n \in S : \A m \in S : n <= m
  BY LeastNumber
<1> QED
  BY <1>1 DEF Min

(* What serves a request is a route that fits it, if there is one.         *)
LEMMA ServesIs ==
  ASSUME NEW routes, DOMAIN routes \subseteq Nat, NEW method, NEW path
  PROVE  \/ Serves(routes, method, path).endpoint = "path_not_found"
         \/ \E i \in DOMAIN routes :
              /\ Serves(routes, method, path) = routes[i]
              /\ routes[i].method = method /\ routes[i].path = path
<1> DEFINE found == Matching(routes, method, path)
<1>1. CASE found = {}
  BY <1>1 DEF Serves, Route
<1>2. CASE found # {}
  <2>1. found \subseteq Nat /\ found \subseteq DOMAIN routes
    BY DEF Matching
  <2>2. Min(found) \in found
    BY <1>2, <2>1, MinIsOne
  <2>3. Serves(routes, method, path) = routes[Min(found)]
    BY <1>2 DEF Serves
  <2>4. /\ Min(found) \in DOMAIN routes
        /\ routes[Min(found)].method = method /\ routes[Min(found)].path = path
    BY <2>2 DEF Matching, _route_matches
  <2> QED
    BY <2>3, <2>4
<1> QED
  BY <1>1, <1>2

LEMMA OtherFits ==
  ASSUME NEW method, NEW path, NEW endpoint, NEW wrapped,
         endpoint \notin {"native_create", "native_retrieve", "native_cancel"},
         endpoint \in Own \/ path \notin {CreatePath, RetrievePath, CancelPath}
  PROVE  Fit(Route(method, path, endpoint, wrapped))
<1> DEFINE route == Route(method, path, endpoint, wrapped)
<1>1. route.endpoint = endpoint /\ route.path = path
  BY DEF Route
<1> HIDE DEF route
<1>2. Tame(route)
  BY <1>1, NativeNames DEF Tame
<1>3. InFamily(route) => route.endpoint \in Own
  BY <1>1, FamilyIs
<1> QED
  BY <1>2, <1>3 DEF Fit, route

LEMMA NativeTame ==
  ASSUME NEW method, NEW path, NEW endpoint,
         InFamily(Route(method, path, endpoint, FALSE))
  PROVE  Tame(Route(method, path, endpoint, FALSE))
<1>1. Route(method, path, endpoint, FALSE).wrapped = FALSE
  BY DEF Route
<1> QED
  BY <1>1 DEF Tame

LEMMA MovedIs ==
  ASSUME NEW method, NEW path, NEW endpoint, NEW inside,
         NEW route, route = Route(method, path, endpoint, FALSE)
  PROVE  LET moved == [route EXCEPT !.path = inside, !.guarded = TRUE]
         IN moved.wrapped = FALSE /\ moved.guarded = TRUE
BY DEF Route

(* The gateway's own application.                                          *)
LEMMA StandaloneSound == Sound(standalone_app.routes)
<1> DEFINE All == {Route("GET", "/metrics", "metrics_endpoint", FALSE),
                   Route("POST", CreatePath, "create_model_response", TRUE),
                   Route("GET", RetrievePath, "retrieve_model_response", TRUE),
                   Route("GET", "/v1/models", "proxy_models", TRUE),
                   Route("POST", "/v1/chat/completions", "proxy_chat_completions", TRUE),
                   Route("GET", "/v1/mcp/servers", "list_mcp_servers", TRUE),
                   Route("GET", "/v1/mcp/servers/{server_label}/tools", "list_mcp_server_tools", TRUE),
                   Route("GET", "/health", "health", FALSE)}
<1>1. \A route \in All : Fit(route)
  <2> USE OtherFits DEF CreatePath, RetrievePath, CancelPath, Own
  <2>1. Fit(Route("GET", "/metrics", "metrics_endpoint", FALSE))
    OBVIOUS
  <2>2. Fit(Route("POST", CreatePath, "create_model_response", TRUE))
    OBVIOUS
  <2>3. Fit(Route("GET", RetrievePath, "retrieve_model_response", TRUE))
    OBVIOUS
  <2>4. Fit(Route("GET", "/v1/models", "proxy_models", TRUE))
    OBVIOUS
  <2>5. Fit(Route("POST", "/v1/chat/completions", "proxy_chat_completions", TRUE))
    OBVIOUS
  <2>6. Fit(Route("GET", "/v1/mcp/servers", "list_mcp_servers", TRUE))
    OBVIOUS
  <2>7. Fit(Route("GET", "/v1/mcp/servers/{server_label}/tools", "list_mcp_server_tools", TRUE))
    OBVIOUS
  <2>8. Fit(Route("GET", "/health", "health", FALSE))
    OBVIOUS
  <2> QED
    BY <2>1, <2>2, <2>3, <2>4, <2>5, <2>6, <2>7, <2>8, Zenon
<1>2. serving_routes \in Seq(All) /\ upstream_proxy_routes \in Seq(All) /\ mcp_routes \in Seq(All)
  BY DEF serving_routes, upstream_proxy_routes, mcp_routes
<1>3. /\ <<Route("GET", "/metrics", "metrics_endpoint", FALSE)>> \in Seq(All)
      /\ Route("GET", "/health", "health", FALSE) \in All
  OBVIOUS
<1> HIDE DEF All
<1>4. augment_standalone_gateway_app \in Seq(All)
  BY <1>2, <1>3, ConcatProperties DEF augment_standalone_gateway_app
<1>5. standalone_app.routes \in Seq(All)
  <2> DEFINE health == Route("GET", "/health", "health", FALSE)
  <2>1. standalone_app.routes = Append(augment_standalone_gateway_app, health)
    BY DEF standalone_app
  <2>2. health \in All
    BY <1>3
  <2> HIDE DEF health
  <2> QED
    BY <1>4, <2>1, <2>2
<1> QED
  BY <1>1, <1>5, ItemsOf DEF Sound, Owned, Fit

(* What the integrated application is built of: vLLM's routes of the       *)
(* family, the guarded ones, and others that are neither.                  *)
LEMMA BuiltTame ==
  ASSUME NEW native,
         NEW built, built = augment_integrated_gateway_app(upstream_build_app(native, TRUE))
                              \o _build_internal_native_responses_router
  PROVE  DOMAIN built \subseteq Nat /\ \A i \in DOMAIN built : Tame(built[i])
<1> DEFINE inner == {_build_internal_native_responses_router[i] : i \in {1, 2, 3}}
           outer == {Route("GET", "/metrics", "native_metrics", FALSE),
                     Route("GET", "/v1/models", "native_models", FALSE),
                     Route("POST", "/v1/chat/completions", "native_chat", FALSE),
                     Route("POST", CreatePath, "native_create", FALSE),
                     Route("GET", RetrievePath, "native_retrieve", FALSE),
                     Route("POST", CancelPath, "native_cancel", FALSE),
                     Route("POST", CreatePath, "create_model_response", TRUE),
                     Route("GET", RetrievePath, "retrieve_model_response", TRUE),
                     Route("GET", "/v1/mcp/servers", "list_mcp_servers", TRUE),
                     Route("GET", "/v1/mcp/servers/{server_label}/tools", "list_mcp_server_tools", TRUE)}
           All == inner \cup outer
<1>1. /\ DOMAIN native_responses_router = 1 .. 3 /\ 1 .. 3 = {1, 2, 3}
      /\ \A i \in 1 .. 3 :
           native_responses_router[i]
             \in {Route("POST", CreatePath, "native_create", FALSE),
                  Route("GET", RetrievePath, "native_retrieve", FALSE),
                  Route("POST", CancelPath, "native_cancel", FALSE)}
  BY DEF native_responses_router
<1>2. \A i \in 1 .. 3 : _build_internal_native_responses_router[i].guarded
                        /\ ~_build_internal_native_responses_router[i].wrapped
  <2> SUFFICES ASSUME NEW i \in 1 .. 3
               PROVE  /\ _build_internal_native_responses_router[i].guarded
                      /\ ~_build_internal_native_responses_router[i].wrapped
    OBVIOUS
  <2> DEFINE inside == INTEGRATED_INTERNAL_ROUTE_PREFIX \o native_responses_router[i].path
  <2>1. _build_internal_native_responses_router[i]
          = [native_responses_router[i] EXCEPT !.path = inside, !.guarded = TRUE]
    BY <1>1 DEF _build_internal_native_responses_router
  <2>2. PICK method, path, endpoint :
          native_responses_router[i] = Route(method, path, endpoint, FALSE)
    BY <1>1
  <2> HIDE DEF inside
  <2>3. LET moved == [native_responses_router[i] EXCEPT !.path = inside, !.guarded = TRUE]
        IN moved.wrapped = FALSE /\ moved.guarded = TRUE
    BY <2>2, MovedIs
  <2> QED
    BY <2>1, <2>3
<1>3. \A route \in inner : Tame(route)
  BY <1>1, <1>2 DEF Tame
<1>4. \A route \in outer : Tame(route)
  <2> USE OtherFits DEF CreatePath, RetrievePath, CancelPath, Own
  <2>1. Fit(Route("GET", "/metrics", "native_metrics", FALSE))
    OBVIOUS
  <2>2. Fit(Route("GET", "/v1/models", "native_models", FALSE))
    OBVIOUS
  <2>3. Fit(Route("POST", "/v1/chat/completions", "native_chat", FALSE))
    OBVIOUS
  <2>4. Fit(Route("POST", CreatePath, "create_model_response", TRUE))
    OBVIOUS
  <2>5. Fit(Route("GET", RetrievePath, "retrieve_model_response", TRUE))
    OBVIOUS
  <2>6. Fit(Route("GET", "/v1/mcp/servers", "list_mcp_servers", TRUE))
    OBVIOUS
  <2>7. Fit(Route("GET", "/v1/mcp/servers/{server_label}/tools", "list_mcp_server_tools", TRUE))
    OBVIOUS
  <2>8. /\ Tame(Route("POST", CreatePath, "native_create", FALSE))
        /\ Tame(Route("GET", RetrievePath, "native_retrieve", FALSE))
        /\ Tame(Route("POST", CancelPath, "native_cancel", FALSE))
    <3>1. /\ InFamily(Route("POST", CreatePath, "native_create", FALSE))
          /\ InFamily(Route("GET", RetrievePath, "native_retrieve", FALSE))
          /\ InFamily(Route("POST", CancelPath, "native_cancel", FALSE))
      BY FamilyIs DEF Route
    <3> QED
      BY <3>1, NativeTame
  <2> QED
    BY <2>1, <2>2, <2>3, <2>4, <2>5, <2>6, <2>7, <2>8, Zenon DEF Fit
<1>5. /\ native_routes \in Seq(All) /\ native_responses_router \in Seq(All)
      /\ serving_routes \in Seq(All) /\ mcp_routes \in Seq(All)
  BY DEF native_routes, native_responses_router, serving_routes, mcp_routes
<1>6. _build_internal_native_responses_router \in Seq(All)
  <2>1. _build_internal_native_responses_router \in [1 .. 3 -> All]
    BY <1>1 DEF _build_internal_native_responses_router
  <2> HIDE DEF All
  <2> QED
    BY <2>1, SeqDef
<1>7. \A route \in All : Tame(route)
  BY <1>3, <1>4
<1> HIDE DEF All
<1>8. upstream_build_app(native, TRUE) \in Seq(All)
  BY <1>5, ConcatProperties DEF upstream_build_app
<1>9. augment_integrated_gateway_app(upstream_build_app(native, TRUE)) \in Seq(All)
  BY <1>5, <1>8, ConcatProperties DEF augment_integrated_gateway_app
<1>10. built \in Seq(All)
  BY <1>6, <1>9, ConcatProperties
<1> QED
  BY <1>7, <1>10, ItemsOf

(* The assertion at the end of the build says that the family is owned.    *)
LEMMA AssertedOwned ==
  ASSUME NEW routes, _assert_responses_route_ownership(routes)
  PROVE  Owned(routes)
<1> SUFFICES ASSUME NEW i \in DOMAIN routes, InFamily(routes[i])
             PROVE  routes[i].endpoint \in Own
  BY DEF Owned
<1>1. \/ i \in Matching(routes, "POST", CreatePath)
      \/ i \in Matching(routes, "GET", RetrievePath)
      \/ i \in Matching(routes, "POST", CancelPath)
  BY DEF InFamily, _RESPONSES_ROUTE_FAMILY, Matching
<1>2. /\ OwnedBy(routes, "POST", CreatePath, "create_model_response")
      /\ OwnedBy(routes, "GET", RetrievePath, "retrieve_model_response")
      /\ Matching(routes, "POST", CancelPath) = {}
  BY DEF _assert_responses_route_ownership
<1> QED
  BY <1>1, <1>2 DEF OwnedBy, Own

LEMMA IntegratedSound ==
  ASSUME NEW native
  PROVE  Sound(_build_integrated_app(native).routes)
<1> DEFINE built == augment_integrated_gateway_app(upstream_build_app(native, TRUE))
                      \o _build_internal_native_responses_router
           routes == _build_integrated_app(native).routes
<1>1. DOMAIN built \subseteq Nat /\ \A i \in DOMAIN built : Tame(built[i])
  BY BuiltTame
<1>2. routes = IF _assert_responses_route_ownership(built)
                 THEN built ELSE _cleanup_responses_family_routes(built)
  BY DEF _build_integrated_app
<1> HIDE DEF built, routes
<1>3. CASE _assert_responses_route_ownership(built)
  BY <1>1, <1>2, <1>3, AssertedOwned DEF Sound, routes
<1>4. CASE ~_assert_responses_route_ownership(built)
  <2>1. routes = _cleanup_responses_family_routes(built)
    BY <1>2, <1>4
  <2>2. /\ DOMAIN routes \subseteq DOMAIN built
        /\ \A i \in DOMAIN routes :
             routes[i] = built[i] /\ (InFamily(built[i]) => built[i].endpoint \in Own)
    BY <2>1 DEF _cleanup_responses_family_routes, RestrictValues, Restrict, Own
  <2> QED
    BY <1>1, <2>2 DEF Sound, Owned, routes
<1> QED
  BY <1>3, <1>4

(* Whatever the configuration.                                             *)
LEMMA AppSound ==
  ASSUME config \in Configs
  PROVE  Sound(App.routes)
<1>1. CASE config.mode = "standalone"
  BY <1>1, StandaloneSound DEF App
<1>2. CASE config.mode # "standalone"
  <2>1. config.native \in BuildApps
    BY ConfigsAssumption
  <2>2. App = _build_integrated_app(config.native)
    BY <1>2, <2>1 DEF App, integrated_app
  <2> QED
    BY <2>2, IntegratedSound
<1> QED
  BY <1>1, <1>2

(* What serves a request, in an application with sound routes.             *)
LEMMA RouteSound ==
  ASSUME config \in Configs, NEW k
  PROVE  /\ <<k.method, k.path>> \in _RESPONSES_ROUTE_FAMILY
              => Route_(k).endpoint \in Own \cup {"path_not_found"}
         /\ Route_(k).endpoint \in NativeResponses => ~Route_(k).wrapped /\ Route_(k).guarded
<1>1. Sound(App.routes)
  BY AppSound
<1>2. \/ Route_(k).endpoint = "path_not_found"
      \/ \E i \in DOMAIN App.routes :
           /\ Route_(k) = App.routes[i]
           /\ App.routes[i].method = k.method /\ App.routes[i].path = k.path
  BY <1>1, ServesIs DEF Sound, Route_
<1>3. CASE Route_(k).endpoint = "path_not_found"
  BY <1>3, NativeNames
<1>4. ASSUME NEW i \in DOMAIN App.routes, Route_(k) = App.routes[i],
             App.routes[i].method = k.method, App.routes[i].path = k.path
      PROVE  /\ <<k.method, k.path>> \in _RESPONSES_ROUTE_FAMILY
                  => Route_(k).endpoint \in Own \cup {"path_not_found"}
             /\ Route_(k).endpoint \in NativeResponses => ~Route_(k).wrapped /\ Route_(k).guarded
  <2>1. /\ InFamily(Route_(k)) => Route_(k).endpoint \in Own
        /\ Tame(Route_(k))
    BY <1>1, <1>4 DEF Sound, Owned
  <2>2. ASSUME <<k.method, k.path>> \in _RESPONSES_ROUTE_FAMILY
        PROVE  InFamily(Route_(k))
    <3> DEFINE mp == <<k.method, k.path>>
    <3>1. mp[1] = k.method /\ mp[2] = k.path
      OBVIOUS
    <3>2. _route_matches(Route_(k), mp[1], mp[2])
      BY <3>1, <1>4 DEF _route_matches
    <3> HIDE DEF mp
    <3> QED
      BY <2>2, <3>2 DEF InFamily, mp
  <2>3. Route_(k).endpoint \in NativeResponses => Route_(k).endpoint \notin Own
    BY NativeNames DEF Own
  <2> QED
    BY <2>1, <2>2, <2>3 DEF Tame
<1> QED
  BY <1>2, <1>3, <1>4

(* A request that one of vLLM's responses routes serves is over at once,   *)
(* and was let in only when it was marked.                                 *)
NativeInv ==
  /\ config \in Configs
  /\ \A r \in Requests :
       Endpoint(r) \in NativeResponses =>
         /\ at[r] \in {"idle", "done"}
         /\ status[r] = 200 => req[r].internal

(* A step that is not the arrival of a request leaves it as it is, or      *)
(* finds it in a handler or a stream.                                      *)
LEMMA StepOfOne ==
  ASSUME GatewayType, [Next]_vars, NEW q \in Requests
  PROVE  /\ config' = config
         /\ \/ Receive(q)
            \/ /\ req'[q] = req[q]
               /\ \/ at'[q] = at[q] /\ status'[q] = status[q]
                  \/ at[q] \notin {"idle", "done"}
<1> DEFINE Goal == /\ config' = config
                   /\ \/ Receive(q)
                      \/ /\ req'[q] = req[q]
                         /\ \/ at'[q] = at[q] /\ status'[q] = status[q]
                            \/ at[q] \notin {"idle", "done"}
<1>0. DOMAIN req = Requests /\ DOMAIN at = Requests /\ DOMAIN status = Requests
  BY DEF GatewayType
<1>1. ASSUME NEW r \in Requests, Receive(r) PROVE Goal
  <2>1. CASE r = q
    BY <1>1, <2>1 DEF Receive, process
  <2>2. CASE r # q
    BY <1>0, <1>1, <2>2 DEF Receive, process, begin_gateway_http_request
  <2> QED
    BY <2>1, <2>2
<1>2. ASSUME NEW r \in Requests, UNCHANGED <<config, req>>, at[r] \notin {"idle", "done"},
             at' = [at EXCEPT ![r] = at'[r]], status' = [status EXCEPT ![r] = status'[r]]
      PROVE  Goal
  BY <1>0, <1>2
<1>3. ASSUME UNCHANGED <<config, req, at, status>> PROVE Goal
  BY <1>3
<1>4. ASSUME NEW r \in Requests, HandlerStep(r) PROVE Goal
  <2>1. /\ UNCHANGED <<config, req>> /\ at[r] \notin {"idle", "done"}
        /\ \/ \E s, place : Answer(r, s, place)
           \/ UNCHANGED status /\ \E place : at' = [at EXCEPT ![r] = place]
    <3>1. CASE RefuseBody(r) \/ RunPlain(r) \/ Retrieve(r) \/ DiscoverMcp(r)
      BY <3>1 DEF RefuseBody, RunPlain, Retrieve, DiscoverMcp, Handling, AnswerFailure, process
    <3>2. CASE OpenStream(r) \/ Proxy(r)
      BY <3>2 DEF OpenStream, Proxy, Handling, process
    <3>3. CASE FirstChunk(r)
      BY <3>3 DEF FirstChunk, AnswerFailure, process
    <3>4. CASE SendFails(r) \/ ReadBody(r)
      BY <3>4 DEF SendFails, ReadBody, AnswerFailure, process
    <3>5. CASE HeadersArrive(r)
      BY <3>5 DEF HeadersArrive, process
    <3> QED
      BY <1>4, <3>1, <3>2, <3>3, <3>4, <3>5 DEF HandlerStep
  <2>2. /\ at' = [at EXCEPT ![r] = at'[r]]
        /\ status' = [status EXCEPT ![r] = status'[r]]
    BY <1>0, <2>1 DEF Answer, GatewayType
  <2> QED
    BY <1>2, <2>1, <2>2
<1>5. ASSUME NEW r \in Requests, StreamStep(r) PROVE Goal
  <2>1. CASE Yields(r) \/ Pull(r) \/ FinalizeDropped(r)
    BY <1>3, <2>1 DEF Yields, Pull, FinalizeDropped, process
  <2>2. CASE StreamEnds(r) \/ CancelStream(r)
    <3>1. /\ UNCHANGED <<config, req, status>> /\ at[r] \notin {"idle", "done"}
          /\ at' = [at EXCEPT ![r] = "done"]
      BY <2>2 DEF StreamEnds, CancelStream, process
    <3> QED
      BY <1>0, <3>1
  <2> QED
    BY <1>5, <2>1, <2>2 DEF StreamStep
<1>6. ASSUME NEW r \in Requests, Disconnect(r) PROVE Goal
  BY <1>3, <1>6 DEF Disconnect, process
<1>7. ASSUME NEW r \in Requests, CancelHandler(r) PROVE Goal
  <2>1. /\ UNCHANGED <<config, req, status>> /\ at[r] \notin {"idle", "done"}
        /\ at' = [at EXCEPT ![r] = "done"]
    BY <1>7 DEF CancelHandler, process
  <2> QED
    BY <1>0, <2>1
<1>8. ASSUME ProcessStep PROVE Goal
  <2>1. UNCHANGED config /\ Requested
    BY <1>8
       DEF ProcessStep, Start, StartServer, InterpreterEnds, KillInterpreter, GiveUp, Terminate,
                ShutDown, CloseClients, Abandon
  <2> QED
    BY <1>3, <2>1 DEF Requested
<1>9. ASSUME UNCHANGED vars PROVE Goal
  BY <1>3, <1>9 DEF vars, process
<1> QED
  BY <1>1, <1>4, <1>5, <1>6, <1>7, <1>8, <1>9 DEF Next

LEMMA NativeInit == Init => NativeInv
<1> SUFFICES ASSUME Init PROVE NativeInv
  OBVIOUS
<1> QED
  BY DEF Init, NativeInv

LEMMA NativeStep == GatewayInv /\ NativeInv /\ [Next]_vars => NativeInv'
<1> SUFFICES ASSUME GatewayInv, NativeInv, [Next]_vars PROVE NativeInv'
  OBVIOUS
<1>1. GatewayType
  BY DEF GatewayInv
<1>2. config' \in Configs
  <2>1. UNCHANGED config
    BY <1>1, StepOfOne DEF Next, vars, ProcessStep, process, Start, StartServer, InterpreterEnds,
       KillInterpreter, GiveUp, Terminate, ShutDown, CloseClients, Abandon
  <2> QED
    BY <2>1 DEF NativeInv
<1>3. ASSUME NEW q \in Requests, (Endpoint(q) \in NativeResponses)'
      PROVE  at'[q] \in {"idle", "done"} /\ (status'[q] = 200 => req'[q].internal)
  <2>1. CASE Receive(q)
    <3>1. PICK k \in Kinds :
            LET route == Route_(k)
                done == IF route.endpoint = "path_not_found" THEN path_not_found_handler.status
                        ELSE IF route.guarded /\ ~k.internal THEN 404 ELSE 200
            IN /\ req' = [req EXCEPT ![q] = k]
               /\ IF route.wrapped
                    THEN /\ at' = [at EXCEPT ![q] = "handling"]
                         /\ begin_gateway_http_request(k)
                         /\ UNCHANGED status
                    ELSE /\ at' = [at EXCEPT ![q] = "done"]
                         /\ status' = [status EXCEPT ![q] = done]
                         /\ UNCHANGED http
      BY <2>1 DEF Receive
    <3>2. config' = config
      BY <2>1 DEF Receive, process
    <3>3. req'[q] = k
      BY <1>1, <3>1 DEF GatewayType
    <3>4. Endpoint(q)' = Route_(k).endpoint
      <4>1. App' = App
        BY <3>2 DEF App
      <4> QED
        BY <3>3, <4>1 DEF Endpoint, Route_
    <3>5. Route_(k).endpoint \in NativeResponses
      BY <1>3, <3>4 DEF NativeResponses
    <3>6. ~Route_(k).wrapped /\ Route_(k).guarded /\ Route_(k).endpoint # "path_not_found"
      BY <3>5, RouteSound, NativeNames DEF NativeInv
    <3>7. /\ at' = [at EXCEPT ![q] = "done"]
          /\ status' = [status EXCEPT ![q] = IF ~k.internal THEN 404 ELSE 200]
      BY <3>1, <3>6
    <3>8. at'[q] = "done" /\ status'[q] = IF ~k.internal THEN 404 ELSE 200
      BY <1>1, <3>7 DEF GatewayType
    <3> QED
      BY <3>3, <3>8
  <2>2. CASE ~Receive(q)
    <3>1. /\ config' = config /\ req'[q] = req[q]
          /\ \/ at'[q] = at[q] /\ status'[q] = status[q]
             \/ at[q] \notin {"idle", "done"}
      BY <1>1, <2>2, StepOfOne
    <3>2. Endpoint(q) \in NativeResponses
      BY <1>3, <3>1, SameRoute DEF NativeResponses
    <3> QED
      BY <3>1, <3>2 DEF NativeInv
  <2> QED
    BY <2>1, <2>2
<1> QED
  BY <1>2, <1>3 DEF NativeInv

------------------------------------------------------------------------------
(* Requests are handled only while the worker serves or drains.            *)
LEMMA RequestsNeedTheWorker ==
  ASSUME ProcessInv, NEW r \in Requests,
         Receive(r) \/ HandlerStep(r) \/ StreamStep(r) \/ Disconnect(r) \/ CancelHandler(r)
  PROVE  /\ UNCHANGED <<worker, interpreter>>
         /\ open' \subseteq open \cup {"stream", "non_stream"}
         /\ worker \in {"serving", "draining", "abandoned"} \/ UNCHANGED <<at, open>>
<1>1. UNCHANGED <<worker, interpreter>> /\ open' \subseteq open \cup {"stream", "non_stream"}
  BY DEF Receive, HandlerStep, RefuseBody, RunPlain, OpenStream, FirstChunk, Retrieve, DiscoverMcp,
         Proxy, ClientFor, SendFails, HeadersArrive, ReadBody, StreamStep, Yields, Pull, StreamEnds,
         CancelStream, FinalizeDropped, Disconnect, CancelHandler, process
<1>2. at[r] \notin {"idle", "done"} => worker \in {"serving", "draining", "abandoned"}
  BY DEF ProcessInv
<1>3. CASE Receive(r)
  BY <1>1, <1>3 DEF Receive
<1>4. CASE HandlerStep(r)
  <2>1. at[r] \notin {"idle", "done"}
    BY <1>4 DEF HandlerStep, RefuseBody, RunPlain, OpenStream, FirstChunk, Retrieve, DiscoverMcp,
                Proxy, SendFails, HeadersArrive, ReadBody, Handling
  <2>2. QED
    BY <1>1, <1>2, <2>1
<1>5. CASE FinalizeDropped(r)
  BY <1>1, <1>5 DEF FinalizeDropped, process
<1>6. CASE \/ Yields(r) \/ Pull(r) \/ StreamEnds(r) \/ CancelStream(r)
           \/ Disconnect(r) \/ CancelHandler(r)
  <2>1. at[r] \notin {"idle", "done"}
    BY <1>6 DEF Yields, Pull, StreamEnds, CancelStream, Disconnect, CancelHandler
  <2>2. QED
    BY <1>1, <1>2, <2>1
<1>7. QED
  BY <1>3, <1>4, <1>5, <1>6 DEF StreamStep

(* What the process holds before it starts.                                *)
LEMMA ProcessInit == Init => ProcessInv
  BY DEF Init, ProcessInv

(* Every step keeps what is known of the process.                          *)
LEMMA ProcessKeeps == ProcessInv /\ [Next]_vars => ProcessInv'
<1> SUFFICES ASSUME ProcessInv, [Next]_vars PROVE ProcessInv'
  OBVIOUS
<1>1. ASSUME NEW r \in Requests,
             Receive(r) \/ HandlerStep(r) \/ StreamStep(r) \/ Disconnect(r) \/ CancelHandler(r)
      PROVE  ProcessInv'
  <2>1. /\ UNCHANGED <<worker, interpreter>>
        /\ open' \subseteq open \cup {"stream", "non_stream"}
        /\ worker \in {"serving", "draining", "abandoned"} \/ UNCHANGED <<at, open>>
    BY <1>1, RequestsNeedTheWorker
  <2>2. CASE worker \in {"serving", "draining", "abandoned"}
    BY <2>1, <2>2 DEF ProcessInv
  <2>3. CASE UNCHANGED <<at, open>>
    BY <2>1, <2>3 DEF ProcessInv
  <2>4. QED
    BY <2>1, <2>2, <2>3
<1>2. CASE Start
  BY <1>2 DEF ProcessInv, Start, Requested
<1>3. CASE StartServer
  BY <1>3 DEF ProcessInv, StartServer, Requested
<1>4. CASE InterpreterEnds
  BY <1>4 DEF ProcessInv, InterpreterEnds, Requested
<1>5. CASE KillInterpreter
  BY <1>5 DEF ProcessInv, KillInterpreter, Requested
<1>6. CASE GiveUp
  BY <1>6 DEF ProcessInv, GiveUp, Requested
<1>7. CASE Terminate
  BY <1>7 DEF ProcessInv, Terminate, Requested
<1>8. CASE ShutDown
  BY <1>8 DEF ProcessInv, ShutDown, Requested
<1>9. CASE CloseClients
  BY <1>9 DEF ProcessInv, CloseClients, Requested
<1>10. CASE Abandon
  BY <1>10 DEF ProcessInv, Abandon, Requested
<1>11. CASE UNCHANGED vars
  BY <1>11 DEF ProcessInv, vars, process
<1>12. QED
  BY <1>1, <1>2, <1>3, <1>4, <1>5, <1>6, <1>7, <1>8, <1>9, <1>10, <1>11 DEF Next, ProcessStep

------------------------------------------------------------------------------
(***************************************************************************)
(* Every request is somewhere the event loop can have left it, with a      *)
(* status, counts and a generator of the right kind, and the gauges are    *)
(* numbers.                                                                *)
(***************************************************************************)
THEOREM TypeCorrect == Spec => []GatewayType
<1>1. GatewayInv => GatewayType
  BY DEF GatewayInv
<1>2. QED
  BY <1>1, GatewayInit, GatewayStep, PTL DEF Spec

(***************************************************************************)
(* The gauges show the handlers that run and the streams that are open,    *)
(* and a request counts once, with the status its client was told, however *)
(* it ends (MetricsAgree).                                                 *)
(***************************************************************************)
THEOREM GaugesShowTheWork == Spec => []MetricsAgree
<1>1. GatewayInv => MetricsAgree
  <2> SUFFICES ASSUME GatewayInv PROVE MetricsAgree
    OBVIOUS
  <2>1. http = Cardinality(Busy) /\ sse = IF config.metrics THEN Cardinality(Live) ELSE 0
    BY DEF GatewayInv, GaugeInv
  <2>2. \A r \in Requests : CountInv(r)
    BY DEF GatewayInv, RequestInv
  <2>3. QED
    BY <2>1, <2>2 DEF MetricsAgree, Busy, Live, CountInv
<1>2. QED
  BY <1>1, GatewayInit, GatewayStep, PTL DEF Spec

(***************************************************************************)
(* A start that failed and a shutdown that went its way leave no           *)
(* interpreter, the shutdown no client open, and no request is taken       *)
(* before the interpreter was ready (NothingOutlivesTheWorker).  Of a      *)
(* process whose lifespan was cancelled it says nothing.                   *)
(***************************************************************************)
THEOREM EndsClean == Spec => []NothingOutlivesTheWorker
<1>1. ProcessInv => NothingOutlivesTheWorker
  BY DEF ProcessInv, NothingOutlivesTheWorker
<1>2. QED
  BY <1>1, ProcessInit, ProcessKeeps, PTL DEF Spec

(***************************************************************************)
(* In either application, and whether or not vLLM's own responses routes   *)
(* slip into the build, the public responses routes are the gateway's and  *)
(* vLLM's answer only the requests it makes to itself                      *)
(* (ResponsesAreTheGateways).                                              *)
(***************************************************************************)
THEOREM PublicRoutesAreTheGateways == Spec => []ResponsesAreTheGateways
<1>1. NativeInv => ResponsesAreTheGateways
  <2> SUFFICES ASSUME NativeInv, NEW r \in Requests
               PROVE  /\ <<req[r].method, req[r].path>> \in _RESPONSES_ROUTE_FAMILY
                           => Endpoint(r) \in {"create_model_response", "retrieve_model_response",
                                               "path_not_found"}
                      /\ Endpoint(r) \in NativeResponses /\ status[r] = 200 => req[r].internal
    BY DEF ResponsesAreTheGateways
  <2>1. <<req[r].method, req[r].path>> \in _RESPONSES_ROUTE_FAMILY
          => Endpoint(r) \in Own \cup {"path_not_found"}
    BY RouteSound DEF NativeInv, Endpoint
  <2> QED
    BY <2>1 DEF Own, NativeInv
<1> QED
  BY <1>1, GatewayInit, GatewayStep, NativeInit, NativeStep, PTL DEF Spec

=============================================================================
