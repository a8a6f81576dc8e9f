----------------------------- MODULE GatewayApp -----------------------------
(***************************************************************************)
(* One process of the gateway: the requests its event loop handles at the  *)
(* same time (entrypoints/gateway/_app.py, routers/serving.py,             *)
(* routers/mcp.py, routers/upstream_proxy.py), the metrics that count them *)
(* (observability/metrics.py), and the life of the process around them     *)
(* (entrypoints/api.py, tools/code_interpreter/__init__.py).               *)
(*                                                                         *)
(* A step runs from one await to the next.  What the engine, the upstream, *)
(* the client and the server software do is outside and may be anything.   *)
(***************************************************************************)
EXTENDS ErrorResponses, GatewayRoutes

CONSTANTS Requests,
          Configs,      \* [mode, native, metrics, spawn, many]
          Kinds,        \* [method, path, stream, internal]: what is asked for
          EngineErrors, \* the exceptions a run of the engine may end with
          Statuses      \* the statuses of upstream answers

ASSUME RequestsAssumption == IsFiniteSet(Requests)
ASSUME ConfigsAssumption == \A c \in Configs : c.native \in BuildApps
ASSUME StatusesAssumption == Statuses \subseteq 100 .. 599

(* The engine may raise anything: the gateway's own errors, those of the   *)
(* libraries below it, those of the operating system.  Where the class     *)
(* carries a status, it is one of HTTP.                                    *)
ASSUME EngineErrorsAssumption ==
  \A e \in EngineErrors :
    e.class \in {"ResponsesAPIError", "HTTPException"} => e.status \in 100 .. 599

VARIABLES
  config, worker, interpreter, open,         \* the process and what it holds
  req, at, gone, status, upstream,           \* for each request
  gen,                                       \*   and its generator
  http, sse, counted                         \* the metrics

process == <<config, worker, interpreter, open>>
metrics == <<http, sse, counted>>
vars == <<process, req, at, gone, status, upstream, gen, metrics>>

NoKind == [method |-> "none", path |-> "none", stream |-> FALSE, internal |-> FALSE]

App == IF config.mode = "standalone" THEN standalone_app ELSE integrated_app[config.native]
Route_(k) == Serves(App.routes, k.method, k.path)
Endpoint(r) == Route_(req[r]).endpoint

Init ==
  /\ config \in Configs
  /\ worker = "starting" /\ interpreter = "none" /\ open = {}
  /\ req = [r \in Requests |-> NoKind]
  /\ at = [r \in Requests |-> "idle"]
  /\ gone = [r \in Requests |-> FALSE]
  /\ status = [r \in Requests |-> 0]
  /\ upstream = [r \in Requests |-> "none"]
  /\ gen = [r \in Requests |-> "none"]
  /\ http = 0 /\ sse = 0
  /\ counted = [r \in Requests |-> {}]
------------------------------------------------------------------------------
(* The metrics.  Requests that vLLM's server makes to itself through the   *)
(* gateway are marked by a header and not counted.                         *)
_is_internal_upstream_request(k) == config.mode = "integrated" /\ k.internal
Measured(k) == config.metrics /\ ~_is_internal_upstream_request(k)

begin_gateway_http_request(k) == http' = IF Measured(k) THEN http + 1 ELSE http
(* Mutant: an answer of the 5xx range leaves before the gauge is lowered.  *)
FinishUnlessFailed(r, s) ==
  IF Measured(req[r]) /\ s < 500
    THEN http' = http - 1 /\ counted' = [counted EXCEPT ![r] = @ \cup {s}]
    ELSE UNCHANGED <<http, counted>>

finish_gateway_http_request(r, s) ==
  IF Measured(req[r])
    THEN /\ http' = http - 1
         /\ counted' = [counted EXCEPT ![r] = @ \cup {s}]
    ELSE UNCHANGED <<http, counted>>
StreamOpens == sse' = IF config.metrics THEN sse + 1 ELSE sse
StreamCloses == sse' = IF config.metrics THEN sse - 1 ELSE sse

(* The wrapper of every handler: what it returns or raises is answered and *)
(* counted.  A handler that is cancelled answers nothing and counts as 500.*)
Answer(r, s, next) ==
  /\ status' = [status EXCEPT ![r] = s]
  /\ at' = [at EXCEPT ![r] = next]
  /\ finish_gateway_http_request(r, s)
AnswerFailure(r, e) == Answer(r, exception_handler(e).status, "done")

Receive(r) ==
  /\ worker = "serving" /\ at[r] = "idle"
  /\ \E k \in Kinds :
       LET route == Route_(k)
           done == IF route.endpoint = "path_not_found" THEN path_not_found_handler.status
                   ELSE IF route.guarded /\ ~k.internal THEN 404 ELSE 200
       IN /\ req' = [req EXCEPT ![r] = k]
          /\ IF route.wrapped
               THEN /\ at' = [at EXCEPT ![r] = "handling"]
                    /\ begin_gateway_http_request(k)
                    /\ UNCHANGED status
               ELSE /\ at' = [at EXCEPT ![r] = "done"]
                    /\ status' = [status EXCEPT ![r] = done]
                    /\ UNCHANGED http
  /\ UNCHANGED <<process, gone, upstream, gen, sse, counted>>

Handling(r, endpoints) == at[r] = "handling" /\ Endpoint(r) \in endpoints
------------------------------------------------------------------------------
(* The Responses API.                                                      *)
RefuseBody(r) ==
  /\ Handling(r, {"create_model_response"})
  /\ AnswerFailure(r, Exception("RequestValidationError"))
  /\ UNCHANGED <<process, req, gone, upstream, gen, sse>>

RunPlain(r) ==
  /\ Handling(r, {"create_model_response"}) /\ ~req[r].stream
  /\ \/ Answer(r, 200, "done")
     \/ \E e \in EngineErrors : AnswerFailure(r, e)
  /\ UNCHANGED <<process, req, gone, upstream, gen, sse>>

OpenStream(r) ==
  /\ Handling(r, {"create_model_response"}) /\ req[r].stream
  /\ at' = [at EXCEPT ![r] = "first chunk"]
  /\ gen' = [gen EXCEPT ![r] = "awaiting"]
  /\ StreamOpens
  /\ UNCHANGED <<process, req, gone, status, upstream, http, counted>>

FirstChunk(r) ==
  /\ at[r] = "first chunk"
  /\ \/ /\ gen' = [gen EXCEPT ![r] = "yielded"]
        /\ Answer(r, 200, "streaming")
        /\ UNCHANGED sse
     \/ /\ gen' = [gen EXCEPT ![r] = "closed"]
        /\ StreamCloses
        /\ \/ Answer(r, 200, "done")
           \/ \E e \in EngineErrors : AnswerFailure(r, e)
  /\ UNCHANGED <<process, req, gone, upstream>>

Retrieve(r) ==
  /\ Handling(r, {"retrieve_model_response"})
  /\ \/ Answer(r, 200, "done")
     \/ AnswerFailure(r, WithStatus("ResponsesAPIError", 404))
     \/ AnswerFailure(r, Exception("OperationalError"))
  /\ UNCHANGED <<process, req, gone, upstream, gen, sse>>

(* The list of servers answers 503 for every failure of the runtime; the   *)
(* tools of one also tell an unknown server from one that is unavailable.  *)
McpErrors(endpoint) == IF endpoint = "list_mcp_servers" THEN {503} ELSE {404, 409, 503}
DiscoverMcp(r) ==
  /\ Handling(r, {"list_mcp_servers", "list_mcp_server_tools"})
  /\ \/ Answer(r, 200, "done")
     \/ \E s \in McpErrors(Endpoint(r)) : AnswerFailure(r, WithStatus("HTTPException", s))
  /\ UNCHANGED <<process, req, gone, upstream, gen, sse>>
------------------------------------------------------------------------------
(* The proxy.  Its clients are made when first needed.                     *)
ClientFor(r) == IF Endpoint(r) = "proxy_chat_completions" THEN "stream" ELSE "non_stream"
Proxy(r) ==
  /\ Handling(r, {"proxy_models", "proxy_chat_completions"})
  /\ open' = open \cup {ClientFor(r)}
  /\ at' = [at EXCEPT ![r] = "sending"]
  /\ UNCHANGED <<config, worker, interpreter, req, gone, status, upstream, gen, metrics>>

SendFails(r) ==
  /\ at[r] = "sending"
  /\ \E s \in {502, 504} : Answer(r, s, "done")
  /\ UNCHANGED <<process, req, gone, upstream, gen, sse>>

HeadersArrive(r) ==
  /\ at[r] = "sending"
  /\ upstream' = [upstream EXCEPT ![r] = "open"]
  /\ \/ /\ Endpoint(r) = "proxy_chat_completions"
        /\ gen' = [gen EXCEPT ![r] = "awaiting"]
        /\ \E s \in Statuses : Answer(r, s, "streaming")
     \/ /\ at' = [at EXCEPT ![r] = "reading"]
        /\ UNCHANGED <<gen, status, http, counted>>
  /\ UNCHANGED <<process, req, gone, sse>>

(* A transport that fails closes the response by itself.                   *)
ReadBody(r) ==
  /\ at[r] = "reading"
  /\ upstream' = [upstream EXCEPT ![r] = "closed"]
  /\ \/ \E s \in Statuses : Answer(r, s, "done")
     \/ \E class \in {"TimeoutException", "RequestError"} : AnswerFailure(r, Exception(class))
  /\ UNCHANGED <<process, req, gone, gen, sse>>
------------------------------------------------------------------------------
(* Streams.  The server pulls from a generator, sends, and pulls again.    *)
(* When the client goes it cancels the task: the exception reaches a       *)
(* generator that awaits, while one that has yielded is only dropped, and  *)
(* closed later by the event loop.  A generator is entered in any case: a  *)
(* task that sends is started before it can be cancelled, and it pulls     *)
(* without waiting.  (Dropped before it was entered, it would run no       *)
(* finally clause.)                                                        *)
Yields(r) ==
  /\ at[r] = "streaming" /\ gen[r] = "awaiting"
  /\ gen' = [gen EXCEPT ![r] = "yielded"]
  /\ UNCHANGED <<process, req, at, gone, status, upstream, metrics>>
Pull(r) ==
  /\ at[r] = "streaming" /\ gen[r] = "yielded"
  /\ gen' = [gen EXCEPT ![r] = "awaiting"]
  /\ UNCHANGED <<process, req, at, gone, status, upstream, metrics>>

(* Mutant: the proxy's generator closes the upstream response only when it *)
(* has run to its end.                                                     *)
CloseOnlyAtEnd(r) ==
  /\ gen' = [gen EXCEPT ![r] = "closed"]
  /\ IF Endpoint(r) = "create_model_response"
       THEN StreamCloses /\ UNCHANGED upstream
       ELSE /\ upstream' = [upstream EXCEPT ![r] = IF gen[r] = "dropped" THEN @ ELSE "closed"]
            /\ UNCHANGED sse

(* The finally clauses of the generators.                                  *)
CloseGenerator(r) ==
  /\ gen' = [gen EXCEPT ![r] = "closed"]
  /\ IF Endpoint(r) = "create_model_response"
       THEN StreamCloses /\ UNCHANGED upstream
       ELSE upstream' = [upstream EXCEPT ![r] = "closed"] /\ UNCHANGED sse

(* The generator returns, or fails: what was sent stays all that is sent.  *)
StreamEnds(r) ==
  /\ at[r] = "streaming" /\ gen[r] = "awaiting"
  /\ CloseGenerator(r)
  /\ at' = [at EXCEPT ![r] = "done"]
  /\ UNCHANGED <<process, req, gone, status, http, counted>>

Disconnect(r) ==
  /\ at[r] \notin {"idle", "done"} /\ ~gone[r]
  /\ gone' = [gone EXCEPT ![r] = TRUE]
  /\ UNCHANGED <<process, req, at, status, upstream, gen, metrics>>

CancelStream(r) ==
  /\ at[r] = "streaming" /\ (gone[r] \/ worker \in {"draining", "abandoned"})
  /\ at' = [at EXCEPT ![r] = "done"]
  /\ IF gen[r] = "awaiting"
       THEN CloseGenerator(r)
       ELSE gen' = [gen EXCEPT ![r] = "dropped"] /\ UNCHANGED <<sse, upstream>>
  /\ UNCHANGED <<process, req, gone, status, http, counted>>

FinalizeDropped(r) ==
  /\ gen[r] = "dropped"
  /\ CloseGenerator(r)
  /\ UNCHANGED <<process, req, at, gone, status, http, counted>>

(* The server's patience with a handler is over while it shuts down, and   *)
(* what is left when the loop ends is cancelled.                           *)
CancelHandler(r) ==
  /\ worker \in {"draining", "abandoned"} /\ at[r] \in {"handling", "first chunk", "sending", "reading"}
  /\ at' = [at EXCEPT ![r] = "done"]
  /\ finish_gateway_http_request(r, 500)
  /\ IF gen[r] = "awaiting" THEN CloseGenerator(r) ELSE
       /\ upstream' = [upstream EXCEPT ![r] = IF @ = "open" THEN "closed" ELSE @]
       /\ UNCHANGED <<gen, sse>>
  /\ UNCHANGED <<process, req, gone, status>>
------------------------------------------------------------------------------
(* The process.  Without another server for code it starts one of its own, *)
(* unless it is one worker of several.  The schema of the store may not be *)
(* had, and the interpreter may not be there to be run.                    *)
Requested == UNCHANGED <<req, at, gone, status, upstream, gen, metrics>>

Start ==
  /\ worker = "starting"
  /\ IF config.mode = "integrated"
       THEN /\ worker' = IF App.ok THEN "serving" ELSE "failed"
            /\ open' = {"mcp"} /\ UNCHANGED interpreter
       ELSE \/ /\ open' = {"tracing", "http"}
               /\ worker' = "failed" /\ UNCHANGED interpreter
            \/ /\ open' = {"tracing", "mcp", "http"}
               /\ \/ /\ worker' = IF config.spawn THEN "failed" ELSE "serving"
                     /\ UNCHANGED interpreter
                  \/ /\ config.spawn /\ ~config.many
                     /\ worker' = "booting" /\ interpreter' = "booting"
  /\ UNCHANGED config /\ Requested

(* Mutant: a start that takes too long is given up and nothing stopped.    *)
StartServerLeaving ==
  /\ worker = "booting"
  /\ \/ worker' = "serving" /\ interpreter' = "ready"
     \/ worker' = "failed" /\ interpreter' \in {"exited", "booting"}
     \/ worker' = "giving up" /\ interpreter' = "quitting"
  /\ UNCHANGED <<config, open>> /\ Requested

StartServer ==
  /\ worker = "booting"
  /\ \/ worker' = "serving" /\ interpreter' = "ready"
     \/ worker' = "failed" /\ interpreter' = "exited"
     \/ worker' = "giving up" /\ interpreter' = "quitting"
  /\ UNCHANGED <<config, open>> /\ Requested

InterpreterEnds ==
  /\ interpreter \in {"ready", "quitting"} \/ (worker = "abandoned" /\ interpreter = "booting")
  /\ interpreter' = "exited"
  /\ UNCHANGED <<config, worker, open>> /\ Requested

(* Asked to stop, it has ten seconds.                                      *)
KillInterpreter ==
  /\ worker \in {"giving up", "closing"} /\ interpreter = "quitting"
  /\ interpreter' = "exited"
  /\ UNCHANGED <<config, worker, open>> /\ Requested

GiveUp ==
  /\ worker = "giving up" /\ interpreter = "exited"
  /\ worker' = "failed"
  /\ UNCHANGED <<config, interpreter, open>> /\ Requested

Terminate ==
  /\ worker = "serving"
  /\ worker' = "draining"
  /\ UNCHANGED <<config, interpreter, open>> /\ Requested

ShutDown ==
  /\ worker = "draining" /\ \A r \in Requests : at[r] \in {"idle", "done"}
  /\ worker' = "closing"
  /\ open' = open \ {"tracing"}
  /\ interpreter' = IF interpreter = "ready" THEN "quitting" ELSE interpreter
  /\ UNCHANGED config /\ Requested

(* The lifespan is cancelled instead of continued, while it polls, at its  *)
(* yield or after it: a stop during the start, or a second one.  Nothing   *)
(* in it or in start_server is a finally clause, so all that was left to   *)
(* do is not done.                                                         *)
Abandon ==
  /\ worker \in {"booting", "giving up", "serving", "draining", "closing"}
  /\ worker' = "abandoned"
  /\ UNCHANGED <<config, interpreter, open>> /\ Requested

CloseClients ==
  /\ worker = "closing" /\ interpreter # "quitting"
  /\ worker' = "stopped"
  /\ open' = open \ {"mcp", "http", "stream", "non_stream"}
  /\ UNCHANGED <<config, interpreter>> /\ Requested
------------------------------------------------------------------------------
HandlerStep(r) ==
  \/ RefuseBody(r) \/ RunPlain(r) \/ OpenStream(r) \/ FirstChunk(r)
  \/ Retrieve(r) \/ DiscoverMcp(r)
  \/ Proxy(r) \/ SendFails(r) \/ HeadersArrive(r) \/ ReadBody(r)
StreamStep(r) ==
  Yields(r) \/ Pull(r) \/ StreamEnds(r) \/ CancelStream(r) \/ FinalizeDropped(r)
ProcessStep ==
  \/ Start \/ StartServer \/ InterpreterEnds \/ KillInterpreter \/ GiveUp
  \/ Terminate \/ ShutDown \/ CloseClients \/ Abandon

Next ==
  \/ \E r \in Requests :
       Receive(r) \/ HandlerStep(r) \/ StreamStep(r) \/ Disconnect(r) \/ CancelHandler(r)
  \/ ProcessStep

(* The event loop closes the generators nobody holds any more.             *)
Spec == Init /\ [][Next]_vars /\ \A r \in Requests : WF_vars(FinalizeDropped(r))
------------------------------------------------------------------------------
InHandler == {"handling", "first chunk", "sending", "reading"}

(***************************************************************************)
(* The gauges show the work there is -- the requests whose handlers run    *)
(* and the open streams of responses -- and a request counts once, with    *)
(* the status its client was told, however it ends: by an answer, an       *)
(* exception before or after the first chunk, a client that leaves or a    *)
(* cancelled task.                                                         *)
(***************************************************************************)
MetricsAgree ==
  LET busy == {r \in Requests : at[r] \in InHandler /\ Measured(req[r])}
      live == {r \in Requests : /\ Endpoint(r) = "create_model_response"
                                /\ gen[r] \in {"awaiting", "yielded", "dropped"}}
  IN /\ http = Cardinality(busy)
     /\ sse = IF config.metrics THEN Cardinality(live) ELSE 0
     /\ \A r \in Requests :
          /\ status[r] # 0 /\ Route_(req[r]).wrapped /\ Measured(req[r]) => counted[r] = {status[r]}
          /\ status[r] = 0 => counted[r] \in {{}, {500}}

(***************************************************************************)
(* Whichever application the gateway runs in, the public responses routes  *)
(* are served by the gateway and vLLM's only by requests it makes itself.  *)
(***************************************************************************)
ResponsesAreTheGateways ==
  \A r \in Requests :
    /\ at[r] # "idle" /\ <<req[r].method, req[r].path>> \in _RESPONSES_ROUTE_FAMILY
         => Endpoint(r) \in {"create_model_response", "retrieve_model_response", "path_not_found"}
    /\ Endpoint(r) \in NativeResponses /\ status[r] = 200 => req[r].internal

(***************************************************************************)
(* A start that failed, at whatever step, and a shutdown that went its way *)
(* leave no interpreter behind, and the shutdown no client open; requests  *)
(* are only taken once the interpreter was ready.  A process whose         *)
(* lifespan is cancelled is excepted: it may well leave both behind.       *)
(***************************************************************************)
NothingOutlivesTheWorker ==
  /\ worker \in {"failed", "stopped"} => interpreter \in {"none", "exited"}
  /\ worker \in {"serving", "draining"} => interpreter \notin {"booting", "quitting"}
  /\ worker = "stopped" => open = {}

(***************************************************************************)
(* The upstream response of a request that is over gets closed, also when  *)
(* the client left between two chunks.                                     *)
(***************************************************************************)
UpstreamsAreClosed ==
  \A r \in Requests : at[r] = "done" /\ upstream[r] = "open" ~> upstream[r] = "closed"

=============================================================================
