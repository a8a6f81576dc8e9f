---------------------------- MODULE GatewayRoutes ----------------------------
(***************************************************************************)
(* The routes of the two applications the gateway runs in: its own         *)
(* (entrypoints/gateway/_app.py, entrypoints/api.py) and vLLM's, augmented *)
(* in place (entrypoints/vllm/_runtime.py, entrypoints/vllm/_adapter.py).  *)
(* A route is found by its method and path; routes are tried in the order  *)
(* they were added.  What is left of a list keeps its places in it.        *)
(***************************************************************************)
EXTENDS SequencesExt

(* wrapped: served through the gateway's route class; guarded: refused     *)
(* without the header of internal requests.                                *)
Route(method, path, endpoint, wrapped) ==
  [method |-> method, path |-> path, endpoint |-> endpoint, wrapped |-> wrapped, guarded |-> FALSE]

CreatePath == "/v1/responses"
RetrievePath == "/v1/responses/{response_id}"
CancelPath == "/v1/responses/{response_id}/cancel"
INTEGRATED_INTERNAL_ROUTE_PREFIX == "/_vllm_internal"

serving_routes ==
  <<Route("POST", CreatePath, "create_model_response", TRUE),
    Route("GET", RetrievePath, "retrieve_model_response", TRUE)>>
upstream_proxy_routes ==
  <<Route("GET", "/v1/models", "proxy_models", TRUE),
    Route("POST", "/v1/chat/completions", "proxy_chat_completions", TRUE)>>
mcp_routes ==
  <<Route("GET", "/v1/mcp/servers", "list_mcp_servers", TRUE),
    Route("GET", "/v1/mcp/servers/{server_label}/tools", "list_mcp_server_tools", TRUE)>>

(* vLLM's: its own routes, and its family of responses routes.             *)
native_routes ==
  <<Route("GET", "/metrics", "native_metrics", FALSE),
    Route("GET", "/v1/models", "native_models", FALSE),
    Route("POST", "/v1/chat/completions", "native_chat", FALSE)>>
native_responses_router ==
  <<Route("POST", CreatePath, "native_create", FALSE),
    Route("GET", RetrievePath, "native_retrieve", FALSE),
    Route("POST", CancelPath, "native_cancel", FALSE)>>
NativeResponses == {native_responses_router[i].endpoint : i \in DOMAIN native_responses_router}

(* The gateway's own application.  The route of the metrics is added when  *)
(* the module is imported: before any configuration turned metrics off.    *)
augment_standalone_gateway_app ==
  <<Route("GET", "/metrics", "metrics_endpoint", FALSE)>>
    \o serving_routes \o upstream_proxy_routes \o mcp_routes
standalone_app ==
  [ok |-> TRUE,
   routes |-> Append(augment_standalone_gateway_app, Route("GET", "/health", "health", FALSE))]
------------------------------------------------------------------------------
(* vLLM's build_app attaches its responses routes through the attach       *)
(* function of a module.  The gateway replaces that function for the time  *)
(* of the call, which reaches a build_app that looks it up when called but *)
(* not one ("early") that has bound it before.                             *)
BuildApps == {"late", "early"}
upstream_build_app(native, suppressed) ==
  IF suppressed /\ native # "early" THEN native_routes ELSE native_routes \o native_responses_router

augment_integrated_gateway_app(routes) == routes \o serving_routes \o mcp_routes

(* Mutant: the router is included without its dependency.                  *)
UnguardedNativeResponses ==
  [i \in DOMAIN native_responses_router |->
     [native_responses_router[i] EXCEPT !.path = INTEGRATED_INTERNAL_ROUTE_PREFIX \o @]]

_build_internal_native_responses_router ==
  [i \in DOMAIN native_responses_router |->
     [native_responses_router[i] EXCEPT
        !.path = INTEGRATED_INTERNAL_ROUTE_PREFIX \o @, !.guarded = TRUE]]

_route_matches(route, method, path) == route.method = method /\ route.path = path
Matching(routes, method, path) == {i \in DOMAIN routes : _route_matches(routes[i], method, path)}

_RESPONSES_ROUTE_FAMILY == {<<"POST", CreatePath>>, <<"GET", RetrievePath>>, <<"POST", CancelPath>>}
InFamily(route) ==
  \E mp \in _RESPONSES_ROUTE_FAMILY : _route_matches(route, mp[1], mp[2])

OwnedBy(routes, method, path, endpoint) ==
  LET found == Matching(routes, method, path)
  IN \E i \in found : found = {i} /\ routes[i].endpoint = endpoint
_assert_responses_route_ownership(routes) ==
  /\ OwnedBy(routes, "POST", CreatePath, "create_model_response")
  /\ OwnedBy(routes, "GET", RetrievePath, "retrieve_model_response")
  /\ Matching(routes, "POST", CancelPath) = {}

_cleanup_responses_family_routes(routes) ==
  RestrictValues(routes, LAMBDA route :
    \/ ~InFamily(route)
    \/ route.endpoint \in {"create_model_response", "retrieve_model_response"})

_build_integrated_app(native) ==
  LET built == augment_integrated_gateway_app(upstream_build_app(native, TRUE))
                 \o _build_internal_native_responses_router
      kept == IF _assert_responses_route_ownership(built)
                THEN built ELSE _cleanup_responses_family_routes(built)
  IN [ok |-> _assert_responses_route_ownership(kept), routes |-> kept]

(* Built once, when a process starts.                                      *)
integrated_app == [native \in BuildApps |-> _build_integrated_app(native)]

(* The first route that fits serves a request.                             *)
Serves(routes, method, path) ==
  LET found == Matching(routes, method, path)
  IN IF found = {} THEN Route(method, path, "path_not_found", FALSE) ELSE routes[Min(found)]

=============================================================================
