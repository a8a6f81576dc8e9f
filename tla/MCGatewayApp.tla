---------------------------- MODULE MCGatewayApp ----------------------------
(* Two requests at a time, of every kind the routes tell apart.            *)
EXTENDS GatewayApp

Config(mode) == [mode |-> mode, native |-> "late", metrics |-> TRUE, spawn |-> FALSE, many |-> FALSE]
MCConfigs ==
  {Config("standalone"),
   [Config("standalone") EXCEPT !.metrics = FALSE],
   [Config("standalone") EXCEPT !.spawn = TRUE],
   [Config("standalone") EXCEPT !.spawn = TRUE, !.many = TRUE],
   Config("integrated"),
   [Config("integrated") EXCEPT !.native = "early"]}

Ask(method, path) == [NoKind EXCEPT !.method = method, !.path = path]
MCKinds ==
  {Ask("POST", CreatePath),
   [Ask("POST", CreatePath) EXCEPT !.stream = TRUE],
   [Ask("POST", CreatePath) EXCEPT !.stream = TRUE, !.internal = TRUE],
   Ask("GET", RetrievePath),
   Ask("POST", CancelPath),
   Ask("GET", "/v1/models"),
   Ask("POST", "/v1/chat/completions"),
   Ask("GET", "/v1/mcp/servers"),
   Ask("GET", "/v1/mcp/servers/{server_label}/tools"),
   Ask("GET", "/metrics"),
   Ask("POST", INTEGRATED_INTERNAL_ROUTE_PREFIX \o CreatePath),
   [Ask("POST", INTEGRATED_INTERNAL_ROUTE_PREFIX \o CreatePath) EXCEPT !.internal = TRUE]}

(* What the engine raises: the gateway's own errors, the store's, those of *)
(* the upstream, which reach it as exceptions of other libraries, and one  *)
(* of the operating system.                                                *)
MCEngineErrors ==
  {Exception("BadInputError"), WithStatus("ResponsesAPIError", 400), Exception("IntegrityError"),
   [Exception("IntegrityError") EXCEPT !.unique = TRUE], Exception("ModelHTTPError"),
   Exception("FileNotFoundError")}

=============================================================================
