--------------------------- MODULE MCConfiguration ---------------------------
EXTENDS Configuration, TLC

MCNumbers == {"0", "1", "2", "6111", "6200", "90000", "5970", "5981", "600", "15", "5969", "300", "8000"}
MCPorts == MCNumbers \ {"90000"}
MCMany == MCNumbers \ {"0", "1"}

Exa == [NoEntry EXCEPT !.url = "https", !.transport = "sse"]
Local == [NoEntry EXCEPT !.command = "uvx", !.args = "ok", !.transport = "stdio"]
File(servers) == [readable |-> TRUE, bad_label |-> FALSE, servers |-> servers]
MCFiles == [two |-> File([exa |-> Exa, wiki |-> Local]), empty |-> File(<<>>),
            label |-> [File(<<>>) EXCEPT !.bad_label = TRUE], gone |-> [File(<<>>) EXCEPT !.readable = FALSE],
            b1 |-> File([wiki |-> NoEntry]), b2 |-> File([wiki |-> [Local EXCEPT !.url = "https"]]),
            b3 |-> File([wiki |-> [Local EXCEPT !.command = None]]),
            b4 |-> File([wiki |-> [Local EXCEPT !.transport = "sse"]]),
            b5 |-> File([wiki |-> [Exa EXCEPT !.transport = "stdio"]]),
            b6 |-> File([exa |-> Exa, wiki |-> [Exa EXCEPT !.url = "ftp"]]),
            b7 |-> File([wiki |-> [Exa EXCEPT !.transport = "nested"]])]

Values ==
  [upstream_api_kind |-> {"responses", "chat-completions", "bad", Blank},
   web_search_profile |-> {"exa_mcp", "duckduckgo_plus_fetch", "bad", Blank},
   reasoning_event_format |-> {"openresponses", "bad", Blank},
   code_interpreter_mode |-> {"external", "disabled", "bad", Blank}, code_interpreter_port |-> {"6111", "bad", Blank},
   code_interpreter_workers |-> {"2", Blank}, code_interpreter_startup_timeout_s |-> {"15", "bad"},
   code_interpreter_egress_policy_path |-> {"p", Blank}, mcp_config_path |-> DOMAIN MCFiles \cup {Blank},
   mcp_port |-> {"6200", "90000", "bad", Blank}, codex_approval_model |-> {"m", Blank}]
Options == UNION {{<<f, v>> : v \in Values[f]} : f \in DOMAIN Values}
Lines == {<<>>} \cup {<<o>> : o \in Options} \cup {<<o, p>> : o, p \in Options}
         \cup {<<o, <<"web_search_profile", w>>, <<"mcp_config_path", c>>>> :
                 o \in Options, w \in {"exa_mcp", "duckduckgo_plus_fetch"}, c \in {"two", "b6"}}
Upstream == <<<<"--upstream", "u">>>>
Gateways == {Upstream, Upstream \o <<<<"--gateway-host", Blank>>>>, <<<<"--upstream", Blank>>>>,
             Upstream \o <<<<"--gateway-workers", "2">>, <<"--gateway-port", "8000">>>>, <<>>}
Natives == {<<>>, <<<<"--host", "h">>, <<"--host", "i">>>>, <<<<"--headless", Blank>>>>,
            <<<<"--api-server-count", "2">>>>, <<<<"--api-server-count", "1">>, <<"--api-server-count", "2">>>>,
            <<<<"code_interpreter_port", "missing">>>>}

Empty == [k \in DOMAIN Legal \cup {"VR_HOST", "VR_LLM_API_BASE", "VR_WEB_SEARCH_PROFILE", "VR_MCP_CONFIG_PATH",
            "VR_CODEX_APPROVAL_MODEL", "VR_CODE_INTERPRETER_EGRESS_POLICY_PATH", "VR_DB_SCHEMA_READY"} |-> None]
         @@ [VR_MCP_BUILTIN_RUNTIME_URL |-> NoUrl]
Stale == [Empty EXCEPT !.VR_UPSTREAM_API_KIND = "responses", !.VR_REASONING_EVENT_FORMAT = "openresponses",
            !.VR_CODE_INTERPRETER_MODE = "external", !.VR_CODE_INTERPRETER_PORT = "15", !.VR_CODE_INTERPRETER_WORKERS = "2",
            !.VR_PORT = "15", !.VR_WORKERS = "2", !.VR_HOST = "old", !.VR_LLM_API_BASE = "old",
            !.VR_WEB_SEARCH_PROFILE = "exa_mcp", !.VR_MCP_CONFIG_PATH = "two", !.VR_CODEX_APPROVAL_MODEL = "old",
            !.VR_CODE_INTERPRETER_EGRESS_POLICY_PATH = "old", !.VR_MCP_REQUEST_REMOTE_ENABLED = "false",
            !.VR_MCP_BUILTIN_RUNTIME_URL = [loopback_url_from_port("15") EXCEPT !.scheme = "https"]]
Blanks == [Stale EXCEPT !.VR_UPSTREAM_API_KIND = Blank, !.VR_WEB_SEARCH_PROFILE = "bad", !.VR_HOST = Blank,
            !.VR_MAX_CONCURRENCY = "15", !.VR_CODE_INTERPRETER_EGRESS_POLICY_PATH = Blank]
BadEnvs == {[Empty EXCEPT ![k] = "bad"] : k \in DOMAIN Legal}
Aliased == [Empty EXCEPT !.VR_UPSTREAM_API_KIND = "chat-completions"]

Where(by, args, env) == [by |-> by, args |-> args, env |-> env, built |-> TRUE, bun |-> FALSE]
Short == {<<>>, <<<<"web_search_profile", "exa_mcp">>>>, <<<<"code_interpreter_mode", "disabled">>>>}
MCLaunches ==
  {Where("supervisor", Upstream \o l, e) : l \in Lines, e \in {Empty, Stale, Blanks}}
  \cup {Where("supervisor", g \o l, e) : g \in Gateways, l \in Short, e \in BadEnvs \cup {Stale, Aliased}}
  \cup {Where("integrated", l, e) : l \in Lines, e \in {Empty, Stale}}
  \cup {Where("integrated", n \o l, e) : n \in Natives, l \in Short, e \in BadEnvs \cup {Stale}}
  \cup {Where("standalone", <<>>, e) : e \in BadEnvs \cup {Empty, Stale, Blanks, [Empty EXCEPT !.VR_WORKERS = "2"],
                                                           [Empty EXCEPT !.VR_CODE_INTERPRETER_MODE = "disabled"]}}
  \cup {[Where(by, Upstream, [Empty EXCEPT !.VR_CODE_INTERPRETER_DEV_BUN_FALLBACK = f]) EXCEPT !.built = FALSE, !.bun = b] :
          by \in {"supervisor", "integrated", "standalone"}, f \in {"true", Blank}, b \in BOOLEAN}
==============================================================================
