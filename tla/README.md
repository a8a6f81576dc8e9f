# A TLA+ model of vLLM Responses

The repository (`src/responses/`) is a gateway that offers the OpenAI Responses
API in front of a vLLM server. It runs the model and its tools in a loop,
streams what happens as typed server-sent events, stores finished responses so
that later requests can continue them, and supervises the helper processes its
built-in tools need. The modules here describe the parts in which order,
concurrency and failure matter, check them with TLC on small instances, and
prove the most important properties for all instances with TLAPS.

Paths below are relative to `src/responses/python/vllm_responses/` unless they
begin with `src/`.

## The system

| Component | State | Operations | Talks to | What is hard |
|---|---|---|---|---|
| Supervisors (`entrypoints/_serve/_runtime.py`, `entrypoints/vllm/_runtime.py`, `_helper_runtime.py`, `_serve_utils.py`) | child processes, ports, signals, metrics directories | start in order, wait, watch, stop | all processes of a host | signals between two steps, helpers that die during start-up, two threads that stop the same children |
| Configuration and command line (`configs/`, `entrypoints/_serve/_spec.py`, `entrypoints/vllm/_spec.py`) | command line, environment, configuration file | resolve, hand to children through their environment | supervisors, gateway, MCP runtime | a worker that reads something else than its launcher was told |
| Schema set-up (`responses_core/store.py` `ensure_schema`, `db.py`) | tables, advisory lock | lock, create, commit | database shared by processes | processes that create at the same time, faults |
| Gateway application (`entrypoints/gateway/_app.py`, `entrypoints/api.py`, `routers/`, `utils/handlers.py`) | requests, generators, clients, gauges | serve, answer an exception, start, stop | clients, engine, upstream | clients that leave, gauges on every path, routes of vLLM behind the same paths |
| Upstream proxy (`routers/upstream_proxy.py`) | open upstream responses | forward, close | upstream | closing on every path |
| Run settings (`types/openai.py` `as_run_settings`) | none | history, tools, tool_choice to a run | engine, MCP resolution | combinations of tool_choice and tools; names over several turns |
| Event normaliser (`responses_core/normalizer.py`) | item key per part and per call id, kind of each item, buffers of parts that may turn out to be tool calls | part start, delta, end; tool call; tool result; end of run | fed by the pydantic_ai run, feeds the composer | keys restart in every model turn; results of concurrent tools come late and in any order; text held back must be replayed |
| Composer (`responses_core/composer.py`) | items by key, next output index, finished items, the one reasoning item | `feed` of each normalised event, completion, failure | fed by the engine, its frames go to the client | added, delta, done in this order for every item; `response.output` lists every item once |
| Engine (`lm.py`, `responses_core/sse.py`, `routers/serving.py`) | where the request is, its response | build, stream or collect, persist, fail, close | run, composer, store, client | which exceptions end in which frames; persistence before the terminal frame; disconnects |
| Response store (`responses_core/store.py`, `utils/cache.py`) | table of rows, cache entries | rehydrate a request, get, put | database and cache shared with other gateway processes | a cache that fails, expires or is written late; fields inherited one by one; commits whose outcome is unknown |
| Worker pool of the code interpreter (`tools/code_interpreter/src/worker-pool.ts`, `worker.ts`) | slots with a generation, pending requests, timers | execute, answer, timeout, failure, replacement, terminate | worker threads by messages, HTTP clients | messages of dead workers, timeouts racing answers, replacement that fails |
| Single-thread runtime (`tools/code_interpreter/src/server.ts`, `pyodide-manager.ts`) | the manager, a recovery promise, the execution lock | execute, recover, health | HTTP clients | an old execution that ends after recovery |
| Pyodide cache set-up (`pyodide-manager.ts`) | lock file, directory, version marker | acquire, download, extract, release | other processes on the same directory | stale locks, crash half-way |
| MCP registry and runtime (`tools/mcp/managed_registry.py`, `entrypoints/mcp_runtime.py`) | availability and tools of each server | startup, list, call with refresh | MCP servers, gateways | concurrent refreshes |
| MCP resolution, names and backends (`tools/mcp/`) | name maps of one request | resolve declarations, call | registry, remote servers | errors as results, name clashes |
| Web search (`tools/web_search/`) | page cache of a request | search, open, find | providers, MCP runtime | concurrent calls on one cache, spellings of a URL, positions in a text |

What makes each correct, and where it bites, is listed as the hazards in
`PROJECT.json`, each with the properties that would catch it.

## The modules

| Module | Models | Extends or implements |
|---|---|---|
| `Host` | the processes of one host | |
| `SchemaInit` | `ensure_schema` by several processes | extends `Host` |
| `HelperRuntime` | children of a supervisor: start, await, stop; their ports | extends `Host` |
| `ServeSupervisor` | `vllm-responses serve` | extends `HelperRuntime`, `SchemaInit` |
| `IntegratedServe` | `vllm serve --responses` with its watchdog thread | extends `ServeSupervisor` |
| `Supervisors` | supervisors of both kinds on one host | extends `IntegratedServe` |
| `McpServerEntries` | which entries of an MCP configuration file are accepted | |
| `Configuration` | command line and environment to the configurations of all processes | extends `McpServerEntries` |
| `ErrorResponses` | exceptions to answers | |
| `GatewayRoutes` | the routes of the two applications | |
| `GatewayApp` | one gateway process: requests, proxy, metrics, start and stop | extends `ErrorResponses`, `GatewayRoutes` |
| `McpNames` | the names MCP tools are shown under | |
| `RunSettings` | a client's requests over several turns, as runs | extends `McpNames` |
| `ResponseComposer` | `ResponseComposer.feed` and its handlers | |
| `PydanticAINormalizer` | the `_on_*` handlers of the normaliser | extends `ResponseComposer` |
| `ResponseStream` | one request: run, engine, persistence, client | extends `PydanticAINormalizer`, implements `StreamContract` |
| `StreamContract` | what a request promises its client | |
| `ResponseStore` | concurrent requests over rows and cache | implements `ConversationStore` |
| `ConversationStore` | what the store promises | |
| `WorkerPool` | main thread and worker threads of the code interpreter | |
| `SingleThreadServer` | the code interpreter server without workers | |
| `PyodideCache` | the set-up of the cache by several interpreter processes | |
| `McpRegistry` | registry of built-in MCP servers in the helper process | |
| `McpGateway` | MCP tools of one request: declarations, hosted and remote calls | extends `McpRegistry`, implements `ToolCallContract` |
| `ToolCallContract` | what the model is told of a tool call | |
| `WebSearch` | concurrent calls of the web search tool | |
| `*Proofs` | the theorems about the module they are named after; `SupervisorsProofs` also holds those about `Configuration` | |
| `ToolProofs` | the theorems about `RunSettings`, `WebSearch` and `PyodideCache` | |
| `MC*` | the small instances for TLC | |

### Supervisors

`Supervisors` puts two supervisors on one host. Each runs the steps of its main
thread in the order of `run_serve_spec` or `run_integrated_serve`: metrics
directory, schema, ports, helpers, gateway, serving, clean-up. A child is
`booting` until it binds the port of its role, which only one child on the host
can hold, then `ready`, and ends of its own accord or because it is told to.
`Signal` may come at any place; in `serve` it raises `SystemExit` there, so
that a child started and not yet registered is lost, which the variable `cut`
records together with kills. The integrated server has a second thread, the
watchdog, which polls the helpers and, when one has ended, sets the exit code,
signals the process and stops the others while the main thread may be doing the
same; `stopping` keeps what each thread has still to stop. The metrics directory
is created in one step and named to the clean-up in the next. `SchemaInit` is
`ensure_schema` of every process, with the advisory lock taken and released
inside the transaction that creates the tables; on SQLite there is neither. A
process whose environment carries `VR_DB_SCHEMA_READY` takes the tables for given,
and creating them may fail for any reason: `unheard` are the processes whose
failure the release of the lock swallowed.

### Configuration

`Launches` are command lines with the environment they are given in. The
actions are the steps in which configurations come about: `Supervise` or
`Integrate` resolves flags over environment over defaults, `StartInterpreter`
and `StartMcpRuntime` build the helpers' command lines and environments,
`StartGateway` lets a worker read the environment it is handed back into a
configuration of its own, `StartStandalone` does so without a launcher.
Whatever the code refuses ends in `refused` or `worker_died`; the properties
compare the configurations of the processes that serve. `McpServerEntries`
states which entries of the configuration file are refused.

### GatewayApp

A step runs from one await to the next. A request is received, matched against
the route table of the application (`GatewayRoutes`: routes in the order in
which they are added, vLLM's own attached early or late), and handled by its
endpoint; `at` says which await its handler is at, `gen` where the generator of
a streamed answer is (it outlives the handler, and is dropped, not closed, when
the client leaves between two chunks). `status` is what the client was told, by
the tests of `exception_handler` in their order (`ErrorResponses`) when the
handler ended with an exception. `http`, `sse` and `counted` are the gauges and
counters. The process around the requests sets up its schema, starts its
interpreter, serves, drains and closes what it holds. Schema and interpreter may
fail; and the task that does all this may be cancelled wherever it waits
(`Abandon`: a stop during start-up, or a second one), which leaves behind what it
had, because the lifespan of the application has no `finally`.

### RunSettings and McpNames

The specification follows a client: a request is converted as by `as_run_settings`
into a history, the tools that are offered, the instructions and what is forced on
the upstream; the model calls one of the tools offered; the call becomes an item
of the next request's input. An item of the history keeps its part, name and id.
The client is assumed to keep what it was sent: an output comes after the call it
answers, and two calls of the gateway's own tools with one id are the same item
(`IsHistory`, `RequestsAssumption`); the code passes on what other clients send as
it finds it. `McpNames` models the internal names: sanitised, cut to a length, and
made distinct with a digest. Names are sequences of characters here, because
collisions are what the properties are about.

### ResponseStream

One behaviour is one `POST /v1/responses` request. The pydantic_ai run is not
code of this repository; its actions (`PartStart` ... `RunRaises`) are the event
sequences the normaliser's code is written for: parts of a model turn with
start, deltas and end, then the calls of the turn, whose results come in any
order, then the next turn. Each of them calls the handler of the normaliser,
which leaves its events in `pending`; `FeedPending` is the inner loop of
`_iter_responses_events_stream` that gives them to the composer one by one, so
that a disconnect or a failure can come between any two.

A text is its number of chunks: `sent` counts the chunks streamed as deltas and
`text` those of the final text, which is what the properties compare. An item of
the client's view (`client`) is kept for every output index: its kind, its call,
what was streamed, how often it was done and whether a frame came after that.
Thoughts come as content, or as the raw text a provider keeps in the details of
its parts (`raw`): a list of chunks, each a draft and a length, of which the
normaliser sends what is new against the list it had. A delta need not append to
what was sent before, because raw text may be rewritten, shortened, grow in an
earlier chunk, or meet content; `rewrites` counts such deltas. A row may exist
although its commit raised (`PersistRaises`). What is said inside a tool result is
reduced to `Results`: retry prompt, unreadable, mismatched, error, ok. When
`probe` is set, which a request decides at its start, the normaliser holds text
back to look for tool calls in it, as for a forced tool choice on a Responses
upstream.

### ResponseStore

One behaviour is a set of concurrent requests in any number of gateway processes.
Every `await` at which a request accesses database or cache is a place of `pc`,
and between two of them the others act. Faults are actions of their own or
alternatives: cache writes that are lost, entries that expire, a commit that
raises and may have taken effect all the same, a client that leaves with a commit
or a cache write under way. Resolving the MCP tools of a request may refuse it
(`unresolved`), whether it declares them or inherits them: a stored tool has lost
its authorization, and the registry may be away. An input item is its role and the
request that brought it; tools and tool choices are reduced to the kinds that
inheritance, sanitising and the tool_choice check tell apart.

### WorkerPool

Each thread (slot and generation) has a mailbox of what it posted and the main
thread has not taken; the callbacks of the main thread are atomic because the
code does not await between their steps (`handleWorkerFailure` registers the
next generation before its first await, which is why the `terminating` flag of
a slot is never seen set and is not a variable). An execution has no bound on
its length. A timeout can fire at any time after `execute`. The promise of a
request takes its first answer and ignores others, as promises do (`Answer`).

### SingleThreadServer

The same server with `workerCount` 0. A manager is a number: the first one is
loaded before the port opens, each recovery creates the next. A request holds
on to the manager it was given (`on`), so it may find that manager poisoned
after another one took its place. Whatever happens between two awaits is one
action; `Poll` is the 10 ms timer of an execution that waits for the lock and
finds it free. What the user's code computes is left out; it ends normally
(`Complete`), ends the runtime (`Exit`), or lets a background task raise
`SystemExit` later (`Escape`).

### PyodideCache

Every interpreter process that starts runs `Step` after `Step` of
`setupPyodideCache`: create the lock file or find it stale, remove a stale one,
look for the marker, download, extract, write the marker, release. A crash can
come anywhere and leaves the lock and what was extracted; `Age` makes the lock
file old. The directory is only its files (none, some, all), its marker and the
archive. `stolen` records that the lock of a live process was removed.

### McpRegistry and McpGateway

`McpRegistry` is the helper process: servers are entered and asked for their
tools in the configured order, each with a timeout, and every one of them ends
available or not before the HTTP server starts. A server may at any time offer
another version of a tool or withdraw it; the registry keeps the infos it lists
and the handles it calls, and replaces both after a call found a tool stale.
`McpGateway` is the side of the gateway: a declaration is resolved to an
inventory, arguments are checked, hosted calls go through the runtime client
with its timeout and remote calls over a connection of the request, with a
refresh of their own. `executed` counts how often the tool really ran for a call and `told` is what the
model run hears. `ToolCallContract` relates the two: a tool runs at most once for a
call, a result is reported only of a tool that ran, and a call reported as not made
is never made later; a failure or a lost answer leaves it open.

### WebSearch

A request makes its calls in rounds; the calls of a round wait for their
answers at the same time and fill the page cache of the request in the order in
which they are answered. A URL is its page, its spelling and its host, so that
`canonicalize_url` and the tests of the allowed domains are what the code does.
Texts are short sequences with letters of two cases and one that folds to two,
which is what the positions of matches depend on.

## What is checked

Each run is listed in `PROJECT.json` with its question.

| Run | States | Bounds | Why they are enough |
|---|---|---|---|
| `response_stream` | 9.5 M | 2 turns, 2 parts per turn, 2 calls, 1 chunk, one tool of every kind, text held back or not, 2 raw texts, 1 delta that does not append | key reuse needs two turns; reordering of results needs two calls; a second thinking segment needs two parts; a second chunk would only repeat a delta; one raw text extends the other, so that a delta grows or shortens it; what other raw texts do is left to the proof |
| `response_store` | 570 k | 3 requests, 6 bodies, cache on | a reader, the writer it reads, and a third that refills, reads what was refilled, or continues the chain a second time; the bodies give and omit every inherited field |
| `worker_pool` | 66 k | 2 slots, 2 executions, 1 crash, no symmetry | a running and a queued execution on one worker, or one on each, with a worker replaced up to three times; liveness admits no symmetry reduction |
| `single_thread_server` | 31 k | 4 requests, 1 escaped error, 6 runtimes | two executions that wait on one runtime while a third ends it, and one that comes after the recovery; each request and each error starts at most one recovery, so 1 + 4 + 1 runtimes are never exceeded |
| `pyodide_cache` | 191 k | 3 processes, 2 crashes | one that died with the lock, one that removes it, one that waits; the directory at first absent, outdated or half extracted |
| `mcp_gateway` | 484 k | 2 hosted and 1 remote server, one tool, 2 calls of one request, 2 versions, 3 changes | two calls overlap in every way, with a change before the first call, one before the second and one before a refresh; servers do not share state, so more tools add nothing |
| `run_settings` | 120 k | 3 turns; every pair of items, every pair of tools, every tool_choice with up to two entries; labels and names that collide once sanitised or cut | the filters treat entries one by one, and a collision needs two names; a third turn replays what the second replayed |
| `configuration` | 37 k | command lines of up to 3 flags over 4 kinds of environment and all single wrong variables, 3 ways to start | values are resolved flag by flag; profile, configuration file and one more flag are what interact |
| `gateway_app` | 550 k | 2 requests of 12 kinds, 6 ways to start the process, each of which may fail or be cancelled | a gauge can only be wrong by what one request does beside another; routes do not depend on the number of requests |
| `supervisors` | 418 k | 2 supervisors in 4 pairs of configurations, one of them told by its environment that the schema is ready; metrics where `serve` runs without MCP; SQLite in the pair with two workers, Postgres in the others; 1 death of a child, 1 signal to each | one death at every step and one signal at every step, with another supervisor that competes for ports, schema and directories |
| `web_search` | 1.75 M | 2 requests, 2 calls at a time, 3 calls in all | open, open again and find are three calls; two requests show that pages are not shared |
| `web_search_retry` | | as `response_stream`, with retried web searches | a disagreement, see below |

Deadlock is checked in the stream runs, where a finished request has an explicit
stuttering step; it is not checked where the system may stop: all requests are
answered, or the process has ended.

Some properties leave behaviours out on purpose, because the code then does what
"Disagreements found" describes and the property about everything else would
drown in it. They happen in the model all the same, and each exception is named
in the property:

- `DeltasSpellText` says of thoughts nothing once a delta did not append to them
  (`rewrites`);
- `SchemaReadyMeansTables` excepts the processes told by their environment and
  those whose failure was swallowed (`unheard`);
- `CleansUpAfterItself` and `SupervisorsSettle` except what a signal or a kill cut
  short (`cut`), `NothingOutlivesTheWorker` a process whose lifespan was cancelled
  (`Abandon`), `UsedCacheIsComplete` behaviours in which the lock of a live process
  was removed (`stolen`), `CapacityReturns` slots whose replacement did not load;
- `FindsEveryMatch` speaks of texts whose folding keeps their length.

One constant does the same: `RetriedTools` leaves `web_search` out of
`response_stream`, in which both built-in tools are enabled, and puts it in in
`web_search_retry`.

Safety that a unit test would hardly reach: `FramesReachTheirCall` and
`NoKeyError` (keys reused over turns), `TerminalIsDurable` (no `completed`
frame without its row), `DeltasSpellText`, `OutputListsEachItem`,
`CacheIsTransparent`, `ContinuesConversation` (each turn inherits only from the
one before, yet the model sees the whole chain), `InheritedFieldsAreAccepted`,
`RunsAreAwaited` (no worker runs code nobody waits for, and every thread that
lives belongs to the current generation of its slot), `WaitsAreOwed` (who waits for
a worker has an answer, or the news of its death, on its way),
`TerminatedIsUnused`, `UsedCacheIsComplete`, `HandlesMatchInfos` and
`MissingIsJustified` (refreshes that overlap), `OffersObeyChoice`,
`ReplayIsConsistent` and `UpstreamAgrees` (tools over every tool_choice, names
over several turns), `GatewayFollowsLauncher` and `HelpersAreThere` (what a
launcher was told is what all its processes run with), `MetricsAgree`,
`ResponsesAreTheGateways`, `NothingOutlivesTheWorker`,
`CleansUpAfterItself` and `NoFalseAlarm` (two threads and a signal at any step),
`SchemaReadyMeansTables`, `FindsWhatWasOpened` and `FindsEveryMatch`.

`KeepsContract`, `IsConversationStore` and `KeepsToolCallContract` show that the
detailed modules implement the abstract ones. For `KeepsContract` an item of the
client's view that was done twice, or touched after it was done, maps to a state
that no item of `StreamContract` can be in (the shared reasoning item excepted,
see below).

### Fairness

The stream, the store, the run settings, the configuration and web search are
checked for safety only: whether a model run, a query or a provider ends is not
up to this code.

- `WorkerPool!FairSpec` assumes that timers fire (`WF` of `Timeout`), that the
  event loop takes every message (`WF` of `Deliver`) and that loading a runtime
  ends in success or failure (`WF` of `Load`). Nothing is assumed about
  executions ending. `EveryRequestSettles` is therefore the work of the timer;
  `CapacityReturns` that of the replacement.
- `SingleThreadServer!FairSpec` assumes that a recovery ends one way or the
  other and that timers fire; there is no timeout in this mode, so nothing is
  claimed about a request whose predecessor runs for ever.
- `McpGateway!FairSpec` assumes the timeouts the code sets: entering a server
  and listing its tools at startup ends (`FailServerStartup` is always
  possible), the helper then serves, and the gateway gives a hosted call up
  after 60 seconds (`Timeout`). Calls to a server that the request declares have
  no timeout in this code, so `HostedCallsAnswered` is about hosted calls only.
- `Supervisors!Spec` assumes that the two threads of a supervisor are scheduled
  (`WF` of `MainStep` and `WatchdogStep`; their waits end by their timeouts, and
  a child that ignores SIGTERM is killed after 10 s) and that a child that boots
  binds its port or ends. Nobody has to signal, to die or to stop vLLM.
- `PyodideCache!Spec` assumes that every process goes on (a download ends, well
  or not) and that time passes, so that a lock gets old.
- `GatewayApp!Spec` assumes only that the event loop finalises generators that
  nobody holds any more, which is what asyncio does with them; that is how the
  upstream response of a client that left is closed.

### Disagreements found

`web_search_retry` expects a violation and shows it with a trace: a web search
answered with a retry prompt is never done and is missing from
`response.output`, although "Each level closes gracefully"
(`src/docs/usage/streaming-events.md:83`).

The models contain the following as well; no property contradicts them, and
where one would, its comment or the section above says what is excluded.

Stream:
- Later thinking segments send frames about the reasoning item after its
  `output_item.done` (`responses_core/composer.py:360`).
- An exception other than the two the engine translates ends the stream without
  a terminal event and without `[DONE]` (`lm.py:378`;
  `streaming-events.md:123, 188`).
- The commit of a row may raise after it took effect: the stream breaks off
  without its terminal frame, and the response it did not finish telling can be
  continued from (`responses_core/store.py:454`; `PersistRaises`).
- Raw reasoning text is streamed as the difference to what came before
  (`normalizer.py:603-611`). Where it does not grow at its end, or mixes with
  content, the deltas do not add up to the final text (`rewrites`).
- A function call that starts without arguments streams `{}` before its real
  arguments (`normalizer.py:214`).
- Calling `code_interpreter` when it is not enabled finishes a function call
  item twice (`normalizer.py:411`).

Store:
- A stored MCP tool has lost its authorization (`responses_core/store.py:154`), so
  a continuation that inherits it may be refused, which the documentation says
  (`src/docs/reference/api-reference.md:148, 153`): hence the ending `unresolved`.

Run settings and MCP:
- `allowed_tools` in mode `required` that names a namespaced or custom tool,
  when no plain function tool is declared, forces `required` on the upstream
  beside a text format and for harmony models, which the code refuses in every
  other combination (`types/openai.py:2709-2776`).
- The names of Codex namespaces are not checked against the reserved `mcp__`
  prefix (`types/openai.py:2484` against `2452-2455`).
- Historical MCP calls are reserved under the mode of hosted servers, so a tool
  of a server declared by URL changes its name once it was called
  (`types/openai.py:2052-2062`).
- The toolset of a server declared by URL has no timeouts
  (`tools/mcp/resolver.py:60`), and a tool one refresh did not find is dropped
  until the helper restarts (`tools/mcp/managed_registry.py:197`).

Code interpreter:
- A worker that fails to initialise is not recognised and the server waits for
  ever (`worker.ts:61`, `worker-pool.ts:90, 102-103`).
- Two processes that find the same stale set-up lock, or one that works longer
  than ten minutes, remove the lock of a live process (`pyodide-manager.ts:46,
  475`); `stolen` marks these behaviours.
- A standalone gateway pipes the output of the interpreter it starts and never
  reads it (`tools/code_interpreter/__init__.py:157`).

Supervisors, schema and configuration:
- When creating the tables fails on Postgres, a `return` in a `finally` swallows
  the error and the process believes the schema is ready (`db.py:206-207`), although
  "DDL must be committed" (`responses_core/store.py:355`): hence `unheard`.
- `serve --gateway-workers 2` on SQLite is refused by the supervisor's own
  `ensure_schema` (`responses_core/store.py:350`;
  `src/docs/deployment/configuration.md:89`).
- A signal between the start of a child and its registration leaves the child
  running (`cut`).
- A stale environment can stop the MCP runtime, which reads it before the
  values it is given (`entrypoints/_serve/_runtime.py:226-234`,
  `entrypoints/mcp_runtime.py:35`).
- In the integrated mode a blank value of an interpreter flag ends in an
  assertion (`configs/startup.py:448-455`), while the supervisor takes the
  default; a blank `--codex-approval-model` counts in the integrated mode and is
  lost on its way through the environment of a worker.
- A `--gateway-host` of spaces is what the supervisor binds the gateway to, while
  the worker reads its `VR_HOST` as not set and takes the default for its own
  configuration (`configs/builders.py:357, 266`; `configs/sources.py:23-30`); a
  blank `--upstream` makes the supervisor ask `/models` until its time is up
  (`entrypoints/_serve/_spec.py:107`). The proof of `GatewayFollowsLauncher`
  found the first: the property says of the host, as of the approval model, that
  a blank one is not handed on.
- The check of vLLM's `--api-server-count` looks at the first value given,
  although a later one may win.
- Entries of the configuration file replace the profile's own `exa` and `fetch`
  servers.

Gateway:
- A stop while the lifespan polls for its interpreter lets the start-up finish and
  then skips the shutdown; that and a second stop leave the interpreter running and
  the clients open (`tools/code_interpreter/__init__.py:170-196`,
  `entrypoints/api.py:71-112`, which have no `finally`): `Abandon`.
- `exception_handler` answers errors of the operating system (`PermissionError`,
  `FileNotFoundError`, `FileExistsError`; `utils/handlers.py:299, 344, 362`) with
  4xx, and the engine raises `BadInputError` for a condition of its own
  (`lm.py:149`): the caller is told that it is his fault.
- A transport failure while the body of an upstream answer is read becomes 500
  instead of 502 or 504 (`routers/upstream_proxy.py:195`), and so does a request
  whose upstream answers 4xx inside a run (`ModelHTTPError`).
- `VR_METRICS_PATH` and `VR_METRICS_ENABLED` have no effect on the metrics
  endpoint of the standalone gateway (`src/docs/deployment/observability.md:19`).
- Errors other than `ResponsesAPIError` do not follow the OpenAI format.
- The request id is reset when the handler returns, so the upstream calls of a
  streamed request carry none (`utils/io.py`).

Web search:
- The adapters catch transport and runtime errors; a tool missing at the MCP
  runtime is a `KeyError` (`runtime_client.py:47`) and a malformed URL a `ValueError`
  (`tools/web_search/page_cache.py:10`). Both end the whole run (`ToolRaises`).
- Positions are found in the folded text and applied to the text itself
  (`tools/web_search/executor.py:240-257`); where folding changes the length they
  are off, and the text shown may be wrong or empty.

## What is proved

The theorems hold for all values of the constants that satisfy the named
assumptions (`CallIdsAssumption`, `BoundsAssumption` and the assumptions on the
tool sets in the stream; `StoreAssumption` in the store; `PoolAssumption`,
`CacheAssumption` and the bounds of the other modules).

**ResponseStream.** `TypeCorrect` proves `TypeOK` through `TypeInv`, which adds
that every index the composer holds lies in the client's view and that an open
tool part has a call id. `Durability` proves `TerminalIsDurable` through
`DurableInv`: which of `stored`, `output` and `lifecycle` each place of the engine
allows; the property alone is not inductive because it does not say that a row,
whether its commit returned or raised, exists only once the response is at its end
(`AtEnd`), when neither its status nor its output changes any more. `KeysAgree`
proves `NoKeyError` and `FramesReachTheirCall` through `KeyInv`: the events of a
batch share one key and one call, an open part's key leads to an item unless its
text is held back (`PartInv`), and every call that is not answered has a key whose
item is that call's (`CallsInv`). The last is the reason why reusing keys in a
later turn is safe: a turn ends only when its calls are answered.

What the client is promised about items needs more than that keys agree: somebody
must still be going to finish every item that is open. `FinishInv` says who. A
source (a tool call, or the text of the model) *owes* an item while it is spoken
about and its end is to come (`Awaits`) or while a batch that ends it is being fed
(`Finishes`). Whoever owes has its item, open, under its key, or the next event
announces it (`DutyInv`); whatever is open is owed (`OpenInv`); events are about
items that are owed and only the last of a batch frees one (`EventsInv`); a
terminal event comes when nothing is owed (`FinalInv`). `ItemInv` and `ListedInv`
add what the client's record and the output list look like, with the reasoning
item as the exception every clause has to name: all thinking segments share it,
and only the first of them finishes it. The proof follows the code: one lemma per
handler says which events it returns, `HandlerFinish` that any such batch keeps
what is owed, and `NewItem`, `SharedItem` and `TouchedItem` what feeding one
event does. From it follow `EachItemListed`, `ItemsClosed` and the refinement
`ContractKept`: under the mapping of `KeepsContract` every step is a step of
`StreamContract` or leaves its variables alone.

`DeltasAddUp` adds `SpellInv`: of the words of the model, what was sent plus what
the batch still delivers in deltas is as long as what the open part has so far,
or as the text the closing event carries (`MessageInv`; for thoughts, summed over
all segments and as long as every delta appended, `ThoughtInv`). `RawInv` says that
raw text is kept of the open thinking part only, so that a reused key never finds
the text of an earlier part; that the difference the normaliser sends is then what
the text grew by is `RawGrows`.

These four hold under `BuiltinsAnswer`: the built-in tools the model may name are
enabled, and a web search is not answered with a retry prompt. Both halves are
needed and neither is assured by the code. A call of a built-in that is not
enabled is finished twice, and a retried search never, which is what the run
`web_search_retry` shows; the instances of the other runs satisfy the hypothesis.

**ResponseStore.** `CacheTransparent`, `AnsweredFound` and `InheritedAccepted`
follow from one invariant, `StoreInv`. Its core is that a row is written once
(`WrittenOnce`): before a request commits there is neither row nor entry under
its id, afterwards both can only be what it wrote, so a late refill, a lost
write or an abandoned one cannot make them differ (`GotIsStored`,
`PublishedIsStored`). `StoredIsRunnable` carries that the stored tools contain
what the stored tool_choice names.

`ConversationContinued` (`ContinuesConversation`) and `StoreIsOneMap` (the
refinement of `ConversationStore`) follow from a second one, `TalkInv`. What a
follow-up should see is said by its chain of turns, along `previous_response_id`
back to the first. `ChainInv` says that the chains exist, that each ends with its
request and that everybody on it has arrived, so an arrival extends one chain and
changes no other. `HandedInv` ties what is hydrated to where the handler is, and
`RowInv` says that a row is what its request composes from its body and what it
was given. `HeardInv` is the property itself, stated of one request's chain
(`ContinuesAs`), so that it can be carried from the turn before to the next one:
the row found for the turn before continues its own conversation, and adding that
turn's text and the new message continues the longer one. The filters of stored
inputs (`WithRoles`) and the chain are recursive functions. That they exist, what
they contain and that they agree on appended sequences is proved with `LeastNat`
and `InductNat`, which say that a set with 0 and the successor of each of its
members contains every number: an induction rule over sets, which first-order
provers can instantiate where they cannot one over predicates.

**McpGateway.** `TypeCorrect`, `HandlesAgree`, `StartupIsolated`,
`MissingJustified` and the refinement `CallsKeepContract` follow from `McpInv`.
`BootInv` says that startup leaves every server it is done with either open or
failed with nothing listed, whatever happened to the ones before it. `FlightInv`
says that a hosted call is under way only in a serving helper and on an open
server, `CallInv` that a call which is not over has not run and has been told
nothing but a lost answer; without it the refinement fails, because a second call
after a refresh could repeat the first. `WithdrawnInv` traces every place where a
tool can look missing (the server, the registry's list, an answer on its way) back
to a moment at which the server did not offer it.

**SingleThreadServer.** `TypeCorrect`, `ExecutionsTakeTurns`, `TerminatedIsOut`
and `RefusedRecovers` follow from `ServerInv`, whose addition is `FreshInv`: the
runtime that a recovery loads is not one that anybody waits for or has ended.
Without it a recovery could put an ended runtime into service.

**WorkerPool.** `TypeCorrect`, `RunsAwaited` and `NobodyWaitsInVain` follow
from `PoolInv`. `RunsAreAwaited` alone is not inductive, because a timeout or an
answer could settle a request that a thread is about to begin. `HomeInv` says
that a request is at one thread only, and there either posted, executed or
answered with the answer under way, `PendingInv` that whoever waits waits for a
current generation, and `AwaitInv` that what a living thread has been given is
waited for; `UnbornInv` makes the thread that takes over start with nothing to
do. Every way in which a generation ends goes through one lemma, `FailureStep`.

**PyodideCache.** `TypeCorrect` and `CompleteCacheUsed` follow from `CacheInv`:
whoever is at work holds the lock (`HolderInv`), the marker stands in complete
directories only and what a process has in hand is what its place says
(`WorkInv`), so that a process which checks the directory while others use it
finds the marker and does not rebuild it under them (`UseInv`).

**GatewayApp.** `TypeCorrect`, `GaugesShowTheWork`, `EndsClean` and
`PublicRoutesAreTheGateways` follow from `GatewayInv`, `ProcessInv` and `NativeInv`.
`GaugeInv` says what the gauges count, as cardinalities of the sets of requests that
are in a handler (`Busy`) or hold an open stream (`Live`); `RequestInv` says for each
request what its place tells of its generator (`GenInv`), that nothing is answered or
counted before the handler is through (`AnswerInv`), and that it is counted once,
with the status the client was told (`CountInv`). A step moves one request, so
the gauges follow from whether that one enters or leaves the two sets. Of the
exceptions nothing is assumed but that those which carry a status carry one of HTTP.
`EndsClean` is about processes that end by themselves; one whose lifespan was
cancelled leaves what it had.

The routes are proved about for requests of any method and path. `AppSound` says
that, whatever vLLM's `build_app` put into the application, the responses family
is owned by the gateway, because either the assertion at the end of the build
holds or the clean-up has removed the others, and that every route of vLLM's
Responses API that is left is guarded. `NativeInv` carries this to the requests:
one that such a route serves is over when it arrives, with 404 unless it carries
the internal mark.

**Supervisors.** `TypeCorrect`, `LeavesNothingBehind` and `AlarmsAreTrue` follow
from `SupervisorInv`, per supervisor: where one of its kind can be (`PlaceInv`);
that a running child is registered, unless it is the one being started or a
signal cut the start short (`RegistryInv`); that no child is stopped before the
clean-up (`StopInv`), which is why the watchdog cannot mistake a child that is
being stopped for one that died (`WatchInv`); that whatever a cleaning thread has
not stopped is on its list, the gateway first (`CleanupInv`); and whose directory
exists (`DirsInv`). The main thread and the watchdog may clean up at the same
time: the clauses are stated for each of them. `ReadyMeansTables` follows from
`SchemaInv`, which adds what each place of the set-up has done to the tables
(`TablesInv`) and that no supervisor gets past the schema before it is ready
(`ReadyInv`): a process past the creation saw the tables committed, has created
them in a transaction that is still open, or is one of those whose failure was
swallowed. The advisory lock plays no
part in the argument.

**Configuration.** `TheGatewayFollowsItsLauncher` and `TheHelpersAreThere` follow
from `ConfigurationInv`, which keeps what the two properties have dropped: by
which function of the command line and the environment each configuration came
about. `ConfigInv` says that a launcher's configuration is `Settled`, so that no
value of it is one that an environment variable cannot carry, apart from the two
named above, and that a supervisor has an upstream; `InterpreterInv`, `RuntimeInv`
and `GatewayInv` say what each child was built from. The core of the argument is
that settings survive the way through the environment: `WorkerReadsBack` follows
every field of the gateway through `_build_gateway_worker_env` into
`build_runtime_config_for_standalone`, and `McpRuntimeReads` does so for profile
and file of the MCP runtime. Nothing is assumed about the old environment but that
its variables have values (`LaunchesAssumption`), and of numbers that they are not
blank (`NumbersAssumption`).

**RunSettings.** Three invariants: `ConvertedInv`, a request that was converted
was not one to refuse, and its settings are what `as_run_settings` makes of it;
`ChoiceInv`, what it asks for is of the schema; `HistoryInv`, its items are ones a
client that keeps what it was sent may send, and the ids the model gives are new.
`HistoryInv` is where turns come in: it is kept because the item that a call
becomes, with its answer, extends a history that could be followed to one that can
(`HistoryGrows`). The rest is about what the conversion computes.
`TheChoiceIsObeyed` needs, beside the filters by kind of tool, that a choice
which demands a call is refused or leaves something to call
(`ForcedLeavesOne`), and what exactly the added instructions are
(`ForcedIsTold`). `TheHistoryCanBeFollowed` puts together what `History`, which
flattens one sequence of parts per item, contains (`FlattenedIs`), that an item's
parts are those of its kind (`ReplayIs`), and that `RegisterAll`, a recursion over
all references, keeps names apart and known (`Registered`, `AllRegistered`):
whatever name a tool is given, it stands for that tool and no other, although
sanitised and cut names collide. Labels and names are arbitrary sequences; the
one thing assumed of the digest in a name is that it is injective.
`RequestsAssumption` is what is said above of a client; `InventoryAssumption` and
`NamesAssumption` say that the order of registration lists every tool there is.

**WebSearch.** `WhatWasOpenedIsFound` follows from `SearchInv`, whose core is
`PageCacheInv`: under a canonical URL the cache holds what was opened last, or
nothing if nothing was opened. With several pages of a round answered in any
order "last" is a round and not a moment, so `CacheIs` compares rounds, and a call that
finds a page may see what its own round opened before it. `OpeningInv`
and `OpenedInv` say that only allowed URLs are being opened or were opened, without
which the find of a page that was opened could be refused.
`NoMatchIsMissed` follows from `MatchInv`: what a call reports is `Matches` of the
text it found. `Matches` is a recursive function over positions; `SearchExists`
shows that it exists, `ReportsStep` that a search from one position reports
occurrences in order and apart, and misses none from there on, when those from all
later positions do; the induction goes from the end of the text to its beginning
(`MatchesReport`). That a position
in the folded text is the same position in the text is `FoldKeeps`: a text whose
folding has its length is folded letter by letter. The theorem says nothing of
other texts, for which it would be false. `TextsAssumption` says that texts are
sequences, `UrlsAssumption` that `NoUrl` is none of the URLs.

Every invariant the passing runs check is stated by a theorem. Only model-checked
are the temporal properties: all liveness, which holds under fairness only and is
out of the prover's reach.

## What is not modelled

`PROJECT.json` lists every component. Left out for good:

- logging, tracing, failure counters and cassette replay: nothing decides
  anything from what they record;
- the schemas of items, parts and events in `types/`: declarations without
  behaviour, beyond what `RunSettings` reads of a request;
- the egress policy, the REPL and the terminal output of the interpreter: pure
  predicates over addresses and terminal I/O;
- cryptography, redaction of secrets, help and error texts;
- what a database, a provider, vLLM, pydantic_ai or Pyodide do inside: their
  outcomes are choices of the actions that call them.

## Plan

All modules of the table above are written, each with a run, and every invariant
and every refinement are proved. What remains for TLC is liveness. What
would extend the models next: clients that send outputs without their calls, and
the text of later thinking segments once the code gives each an item of its own.
