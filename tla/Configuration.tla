---------------------------- MODULE Configuration ----------------------------
(***************************************************************************)
(* From a command line and an environment to the configurations the        *)
(* processes run with: configs/startup.py and configs/builders.py, the     *)
(* specs the two launchers build, the environments they hand to their      *)
(* children, and what the children -- the gateway worker and the built-in  *)
(* MCP runtime -- make of those (configs/sources.py, entrypoints/api.py,   *)
(* entrypoints/mcp_runtime.py, tools/profile_resolution.py).               *)
(*                                                                         *)
(* Values are strings, None a value that is not there and Blank one of     *)
(* spaces.  A command line is a sequence of <<flag, value>>, the flag      *)
(* named as its field; letter case is left out.                            *)
(***************************************************************************)
EXTENDS McpServerEntries

CONSTANTS Launches,  \* [by, args, env, built, bun]: who starts what, and where
          Numbers,   \* the values that read as numbers,
          Ports,     \*   those of them a URL can have as a port,
          Many,      \*   and those above 1
          Files      \* [path -> what the MCP configuration file there holds]

EnvKeys == {"VR_LLM_API_BASE", "VR_UPSTREAM_API_KIND", "VR_REASONING_EVENT_FORMAT", "VR_HOST", "VR_PORT", "VR_WORKERS",
            "VR_WEB_SEARCH_PROFILE", "VR_CODEX_APPROVAL_MODEL", "VR_MCP_CONFIG_PATH", "VR_MCP_BUILTIN_RUNTIME_URL",
            "VR_CODE_INTERPRETER_MODE", "VR_CODE_INTERPRETER_PORT", "VR_CODE_INTERPRETER_WORKERS",
            "VR_CODE_INTERPRETER_EGRESS_POLICY_PATH", "VR_CODE_INTERPRETER_STARTUP_TIMEOUT", "VR_MAX_CONCURRENCY",
            "VR_MCP_REQUEST_REMOTE_ENABLED", "VR_CODE_INTERPRETER_DEV_BUN_FALLBACK"}

(* Every variable is there, as None when it is not set; a number is not    *)
(* blank and is there.                                                     *)
ASSUME LaunchesAssumption == \A l \in Launches : EnvKeys \subseteq DOMAIN l.env
ASSUME NumbersAssumption == None \notin Numbers /\ "" \notin Numbers

VARIABLES launch, phase, config, ci, mcp, gateway
configurationVars == <<launch, phase, config, ci, mcp, gateway>>

Blank == ""
------------------------------------------------------------------------------
(* The profiles of web search and the built-in MCP servers they require.   *)
_WEB_SEARCH_PROFILES ==
  [exa_mcp |-> {"exa_mcp_search", "exa_mcp_open_page"},
   duckduckgo_plus_fetch |-> {"duckduckgo_common_search", "fetch_mcp_open_page"}]
AdapterLabels ==
  [exa_mcp_search |-> {"exa"}, exa_mcp_open_page |-> {"exa"},
   duckduckgo_common_search |-> {}, fetch_mcp_open_page |-> {"fetch"}]

validate_profile_fails(profile) == profile \notin DOMAIN _WEB_SEARCH_PROFILES \cup {None}
resolve_required_builtin_mcp_server_labels(profile) ==
  IF profile = None THEN {} ELSE UNION {AdapterLabels[a] : a \in _WEB_SEARCH_PROFILES[profile]}
profiled_builtin_requires_mcp(profile) == resolve_required_builtin_mcp_server_labels(profile) # {}

WEB_SEARCH_BUILTIN_MCP_SERVERS ==
  [exa |-> [NoEntry EXCEPT !.url = "https"], fetch |-> [NoEntry EXCEPT !.command = "uvx", !.args = "ok"]]
build_builtin_mcp_runtime_config(profile) ==
  [l \in resolve_required_builtin_mcp_server_labels(profile) |-> WEB_SEARCH_BUILTIN_MCP_SERVERS[l]]
------------------------------------------------------------------------------
(* The command line. *)
Default ==
  [host |-> "0.0.0.0", port |-> "5969", workers |-> "1", base |-> "http://localhost:8080/v1",
   upstream_api_kind |-> "chat_completions", reasoning_event_format |-> "openai",
   code_interpreter_mode |-> "spawn", code_interpreter_port |-> "5970", code_interpreter_workers |-> "0",
   code_interpreter_startup_timeout_s |-> "600", mcp_port |-> "5981",
   max_concurrency |-> "300", mcp_request_remote_enabled |-> "true", dev_bun_fallback |-> "false"]
RESPONSES_CLI_FLAG_SPECS ==
  LET both == {"upstream_api_kind", "web_search_profile", "reasoning_event_format",
               "code_interpreter_mode", "code_interpreter_port", "code_interpreter_workers",
               "code_interpreter_startup_timeout_s", "code_interpreter_egress_policy_path",
               "mcp_config_path", "mcp_port", "codex_approval_model"}
  IN [integrated |-> both,
      supervisor |-> both \cup {"upstream_ready_timeout_s", "upstream_ready_interval_s"}]
Kinds == {"chat_completions", "responses"}
Formats == {"openai", "openresponses"}
Modes == {"spawn", "external", "disabled"}
Numeric == {"code_interpreter_port", "code_interpreter_workers", "code_interpreter_startup_timeout_s",
            "upstream_ready_timeout_s", "upstream_ready_interval_s", "mcp_port"}

Given(args, flag) == SelectSeq(args, LAMBDA a : a[1] = flag)
find_flag_value(args, flag) == IF Given(args, flag) = <<>> THEN None ELSE Head(Given(args, flag))[2]
_parse_optional_flag(args, flag) ==
  IF Given(args, flag) = <<>> THEN None ELSE Given(args, flag)[Len(Given(args, flag))][2]

raw_values(by, args) ==
  [f \in RESPONSES_CLI_FLAG_SPECS[by] |-> _parse_optional_flag(args, f)]

Normalize(f, v) ==
  CASE v = Blank /\ f # "codex_approval_model" -> None
    [] f = "upstream_api_kind" /\ v = "chat-completions" -> "chat_completions"
    [] OTHER -> v
ResponsesCliArgs(raw) ==
  [f \in RESPONSES_CLI_FLAG_SPECS.supervisor |->
     IF f \in DOMAIN raw THEN Normalize(f, raw[f]) ELSE None]

_validate_mcp_port_requires_config(cli) ==
  cli.mcp_port = None \/ cli.mcp_config_path # None \/ profiled_builtin_requires_mcp(cli.web_search_profile)
validate_responses_cli_args_fails(cli) ==
  \/ cli.upstream_api_kind \notin Kinds \cup {None}
  \/ cli.reasoning_event_format \notin Formats \cup {None}
  \/ cli.code_interpreter_mode \notin Modes \cup {None}
  \/ \E f \in Numeric : cli[f] \notin Numbers \cup {None}
  \/ validate_profile_fails(cli.web_search_profile)
  \/ ~_validate_mcp_port_requires_config(cli)

(* The launcher of vLLM puts its defaults in before the flags are checked, *)
(* so a flag that is given but blank has no default.                       *)
Or(v, default) == IF v = None THEN default ELSE v
Defaulted == {"upstream_api_kind", "reasoning_event_format", "code_interpreter_mode", "code_interpreter_port",
              "code_interpreter_workers", "code_interpreter_startup_timeout_s"}
WithDefaults(raw) ==
  [f \in DOMAIN raw |-> IF f \in Defaulted THEN Or(raw[f], Default[f]) ELSE raw[f]]

Unresolved(cli) == \E f \in Defaulted \ {"upstream_api_kind", "reasoning_event_format"} : cli[f] = None
build_integrated_serve_spec_fails(args) ==
  \/ Given(args, "--headless") # <<>>
  \/ find_flag_value(args, "--api-server-count") \notin (Numbers \ Many) \cup {None}
  \/ \E f \in RESPONSES_CLI_FLAG_SPECS.integrated : _parse_optional_flag(args, f) = "missing"
------------------------------------------------------------------------------
(* The environment. *)
get_typed(env, key, default) == IF env[key] \in {None, Blank} THEN default ELSE env[key]
get_optional_str(env, key) == IF env[key] = Blank THEN None ELSE env[key]
Legal == [VR_UPSTREAM_API_KIND |-> Kinds, VR_REASONING_EVENT_FORMAT |-> Formats,
          VR_CODE_INTERPRETER_MODE |-> Modes, VR_CODE_INTERPRETER_PORT |-> Numbers,
          VR_CODE_INTERPRETER_WORKERS |-> Numbers, VR_CODE_INTERPRETER_STARTUP_TIMEOUT |-> Numbers,
          VR_PORT |-> Numbers, VR_WORKERS |-> Numbers, VR_MAX_CONCURRENCY |-> Numbers,
          VR_MCP_REQUEST_REMOTE_ENABLED |-> {"true", "false"},
          VR_CODE_INTERPRETER_DEV_BUN_FALLBACK |-> {"true", "false"}]
BadEnv(env, keys) == \E k \in keys : env[k] \notin Legal[k] \cup {None, Blank}
------------------------------------------------------------------------------
(* The built-in MCP runtime's URL. *)
NoUrl == [scheme |-> None, host |-> None, port |-> None, bare |-> FALSE]
loopback_url_from_port(port) == [scheme |-> "http", host |-> "127.0.0.1", port |-> port, bare |-> TRUE]
DefaultMcpUrl == loopback_url_from_port(Default.mcp_port)
needs_mcp(c) == c.mcp_config_path # None \/ profiled_builtin_requires_mcp(c.web_search_profile)
build_mcp_runtime_spec_fails(c) ==
  needs_mcp(c) /\ ~(/\ c.mcp_url.scheme = "http" /\ c.mcp_url.host \in {"127.0.0.1", "localhost"}
                    /\ c.mcp_url.port \in Ports /\ c.mcp_url.bare)
build_mcp_runtime_spec(c) == IF needs_mcp(c) THEN loopback_url_from_port(c.mcp_url.port) ELSE NoUrl

(* What every configuration takes from the environment. *)
EnvOwned == {"VR_MAX_CONCURRENCY", "VR_MCP_REQUEST_REMOTE_ENABLED", "VR_CODE_INTERPRETER_DEV_BUN_FALLBACK"}
build_common_runtime_config_fails(env, profile) == BadEnv(env, EnvOwned) \/ validate_profile_fails(profile)
build_common_runtime_config(env, c) ==
  [c EXCEPT !.mcp_url = IF needs_mcp(c) /\ c.mcp_url = NoUrl THEN DefaultMcpUrl ELSE c.mcp_url,
            !.egress = Or(c.egress, get_optional_str(env, "VR_CODE_INTERPRETER_EGRESS_POLICY_PATH")),
            !.max_concurrency = get_typed(env, "VR_MAX_CONCURRENCY", Default.max_concurrency),
            !.request_remote = get_typed(env, "VR_MCP_REQUEST_REMOTE_ENABLED", Default.mcp_request_remote_enabled),
            !.bun_fallback = get_typed(env, "VR_CODE_INTERPRETER_DEV_BUN_FALLBACK", Default.dev_bun_fallback)]
IfEnabled(mode, v) == IF mode = "disabled" THEN None ELSE v

StandaloneMode(env) == get_typed(env, "VR_CODE_INTERPRETER_MODE", Default.code_interpreter_mode)
build_runtime_config_for_standalone_fails(env) ==
  \/ BadEnv(env, {"VR_UPSTREAM_API_KIND", "VR_REASONING_EVENT_FORMAT", "VR_CODE_INTERPRETER_MODE", "VR_PORT",
                  "VR_WORKERS", "VR_CODE_INTERPRETER_STARTUP_TIMEOUT"})
  \/ StandaloneMode(env) # "disabled" /\ BadEnv(env, {"VR_CODE_INTERPRETER_PORT", "VR_CODE_INTERPRETER_WORKERS"})
  \/ build_common_runtime_config_fails(env, get_optional_str(env, "VR_WEB_SEARCH_PROFILE"))
build_runtime_config_for_standalone(env) ==
  LET mode == StandaloneMode(env)
  IN build_common_runtime_config(env,
       [kind |-> get_typed(env, "VR_UPSTREAM_API_KIND", Default.upstream_api_kind),
        format |-> get_typed(env, "VR_REASONING_EVENT_FORMAT", Default.reasoning_event_format),
        host |-> get_typed(env, "VR_HOST", Default.host), port |-> get_typed(env, "VR_PORT", Default.port),
        workers |-> get_typed(env, "VR_WORKERS", Default.workers),
        base |-> get_typed(env, "VR_LLM_API_BASE", Default.base),
        web_search_profile |-> get_optional_str(env, "VR_WEB_SEARCH_PROFILE"), mode |-> mode,
        ci_port |-> IfEnabled(mode, get_typed(env, "VR_CODE_INTERPRETER_PORT", Default.code_interpreter_port)),
        ci_workers |-> IfEnabled(mode, get_typed(env, "VR_CODE_INTERPRETER_WORKERS", Default.code_interpreter_workers)),
        timeout |-> get_typed(env, "VR_CODE_INTERPRETER_STARTUP_TIMEOUT", Default.code_interpreter_startup_timeout_s),
        egress |-> None,
        mcp_config_path |-> get_optional_str(env, "VR_MCP_CONFIG_PATH"),
        mcp_url |-> env.VR_MCP_BUILTIN_RUNTIME_URL,
        codex_approval_model |-> get_optional_str(env, "VR_CODEX_APPROVAL_MODEL"),
        max_concurrency |-> None, request_remote |-> None, bun_fallback |-> None])

(* The two launchers take what a flag can say from the command line only.  *)
Launched(env, cli, gateway_of) ==
  LET mode == Or(cli.code_interpreter_mode, Default.code_interpreter_mode)
  IN build_common_runtime_config(env,
       [kind |-> Or(cli.upstream_api_kind, Default.upstream_api_kind),
        format |-> Or(cli.reasoning_event_format, Default.reasoning_event_format),
        host |-> gateway_of.host, port |-> gateway_of.port, workers |-> gateway_of.workers,
        base |-> gateway_of.base,
        web_search_profile |-> cli.web_search_profile, mode |-> mode,
        ci_port |-> IfEnabled(mode, Or(cli.code_interpreter_port, Default.code_interpreter_port)),
        ci_workers |-> IfEnabled(mode, Or(cli.code_interpreter_workers, Default.code_interpreter_workers)),
        timeout |-> Or(cli.code_interpreter_startup_timeout_s, Default.code_interpreter_startup_timeout_s),
        egress |-> cli.code_interpreter_egress_policy_path, mcp_config_path |-> cli.mcp_config_path,
        mcp_url |-> IF cli.mcp_port = None THEN NoUrl ELSE loopback_url_from_port(cli.mcp_port),
        codex_approval_model |-> cli.codex_approval_model,
        max_concurrency |-> None, request_remote |-> None, bun_fallback |-> None])

SupervisorCli(args) == ResponsesCliArgs(raw_values("supervisor", args))
build_runtime_config_for_supervisor_fails(env, args) ==
  \/ \E f \in RESPONSES_CLI_FLAG_SPECS.supervisor : _parse_optional_flag(args, f) = "missing"
  \/ \E f \in {"--gateway-port", "--gateway-workers"} : _parse_optional_flag(args, f) \notin Numbers \cup {None}
  \/ validate_responses_cli_args_fails(SupervisorCli(args))
  \/ _parse_optional_flag(args, "--upstream") = None
  \/ build_common_runtime_config_fails(env, SupervisorCli(args).web_search_profile)
build_runtime_config_for_supervisor(env, args) ==
  Launched(env, SupervisorCli(args),
    [host |-> Or(_parse_optional_flag(args, "--gateway-host"), Default.host),
     port |-> Or(_parse_optional_flag(args, "--gateway-port"), Default.port),
     workers |-> Or(_parse_optional_flag(args, "--gateway-workers"), Default.workers),
     base |-> _parse_optional_flag(args, "--upstream")])

IntegratedCli(args) == ResponsesCliArgs(WithDefaults(raw_values("integrated", args)))
derive_integrated_llm_api_base(kind) == IF kind = "responses" THEN "/_vllm_internal/v1" ELSE "/v1"
build_runtime_config_for_integrated(env, args) ==
  Launched(env, IntegratedCli(args),
    [host |-> Or(find_flag_value(args, "--host"), "127.0.0.1"),
     port |-> Or(find_flag_value(args, "--port"), "8000"),
     workers |-> "1",
     base |-> derive_integrated_llm_api_base(Or(IntegratedCli(args).upstream_api_kind, Default.upstream_api_kind))])
------------------------------------------------------------------------------
(* What the children are given. *)
build_code_interpreter_spawn_spec_fails(c) == ~launch.built /\ ~(c.bun_fallback = "true" /\ launch.bun)
_get_spawn_command_fails(c) == build_code_interpreter_spawn_spec_fails(c)   \* written twice in the code
Interpreter(c) == [port |-> c.ci_port, workers |-> c.ci_workers, egress |-> c.egress]
NoInterpreter == [port |-> None, workers |-> None, egress |-> None]

(* A worker whose environment keeps a configuration file it was not given. *)
WorkerEnvKeepingFile(c) ==
  LET asked == c.mode # "disabled"
  IN [launch.env EXCEPT
        !.VR_LLM_API_BASE = c.base, !.VR_UPSTREAM_API_KIND = c.kind, !.VR_REASONING_EVENT_FORMAT = c.format,
        !.VR_HOST = c.host, !.VR_PORT = c.port, !.VR_WORKERS = c.workers, !.VR_DB_SCHEMA_READY = "1",
        !.VR_WEB_SEARCH_PROFILE = c.web_search_profile, !.VR_CODEX_APPROVAL_MODEL = c.codex_approval_model,
        !.VR_MCP_CONFIG_PATH = Or(c.mcp_config_path, @), !.VR_CODE_INTERPRETER_EGRESS_POLICY_PATH = c.egress,
        !.VR_MCP_BUILTIN_RUNTIME_URL = build_mcp_runtime_spec(c),
        !.VR_CODE_INTERPRETER_MODE = IF asked THEN "external" ELSE "disabled",
        !.VR_CODE_INTERPRETER_PORT = c.ci_port, !.VR_CODE_INTERPRETER_WORKERS = c.ci_workers]

_build_gateway_worker_env(c) ==
  LET asked == c.mode # "disabled"
  IN [launch.env EXCEPT
        !.VR_LLM_API_BASE = c.base, !.VR_UPSTREAM_API_KIND = c.kind, !.VR_REASONING_EVENT_FORMAT = c.format,
        !.VR_HOST = c.host, !.VR_PORT = c.port, !.VR_WORKERS = c.workers, !.VR_DB_SCHEMA_READY = "1",
        !.VR_WEB_SEARCH_PROFILE = c.web_search_profile, !.VR_CODEX_APPROVAL_MODEL = c.codex_approval_model,
        !.VR_MCP_CONFIG_PATH = c.mcp_config_path, !.VR_CODE_INTERPRETER_EGRESS_POLICY_PATH = c.egress,
        !.VR_MCP_BUILTIN_RUNTIME_URL = build_mcp_runtime_spec(c),
        !.VR_CODE_INTERPRETER_MODE = IF asked THEN "external" ELSE "disabled",
        !.VR_CODE_INTERPRETER_PORT = c.ci_port, !.VR_CODE_INTERPRETER_WORKERS = c.ci_workers]

(* A runtime that keeps a stale profile of the environment. *)
McpRuntimeEnvInherited(c) == [launch.env EXCEPT !.VR_MCP_CONFIG_PATH = c.mcp_config_path]

McpRuntimeEnv(c) == [launch.env EXCEPT !.VR_WEB_SEARCH_PROFILE = c.web_search_profile,
                                       !.VR_MCP_CONFIG_PATH = c.mcp_config_path]

(* The MCP runtime builds a whole configuration of its own, and serves the *)
(* profile's servers and the file's, the file's over the profile's.        *)
NoMcp == [url |-> NoUrl, servers |-> <<>>]
FileAt(path) == IF path = None THEN [readable |-> TRUE, bad_label |-> FALSE, servers |-> <<>>] ELSE Files[path]
McpRuntimeFails(env) ==
  \/ build_runtime_config_for_standalone_fails(env)
  \/ load_mcp_runtime_config_fails(FileAt(get_optional_str(env, "VR_MCP_CONFIG_PATH")))
McpRuntime(env, url) ==
  LET own == build_runtime_config_for_standalone(env)
  IN [url |-> url, servers |-> merge_mcp_runtime_configs(build_builtin_mcp_runtime_config(own.web_search_profile),
                                                         FileAt(own.mcp_config_path).servers)]
------------------------------------------------------------------------------
NoConfig == <<>>
ConfigurationInit ==
  /\ launch \in Launches
  /\ phase = "launched" /\ config = NoConfig /\ gateway = NoConfig
  /\ ci = NoInterpreter /\ mcp = NoMcp

Stop(end) == phase' = end /\ UNCHANGED <<launch, config, ci, mcp, gateway>>

(* vllm-responses serve *)
Supervise ==
  /\ phase = "launched" /\ launch.by = "supervisor"
  /\ IF build_runtime_config_for_supervisor_fails(launch.env, launch.args) THEN Stop("refused")
     ELSE /\ config' = build_runtime_config_for_supervisor(launch.env, launch.args) /\ phase' = "configured"
          /\ UNCHANGED <<launch, ci, mcp, gateway>>

(* vllm serve --responses: a default that is missing is an assertion of    *)
(* the code, and not one of the errors the command line reports.           *)
Integrate ==
  /\ phase = "launched" /\ launch.by = "integrated"
  /\ LET cli == IntegratedCli(launch.args)
     IN IF build_integrated_serve_spec_fails(launch.args) \/ validate_responses_cli_args_fails(cli) THEN Stop("refused")
        ELSE IF Unresolved(cli) THEN Stop("unresolved")
        ELSE IF build_common_runtime_config_fails(launch.env, cli.web_search_profile) THEN Stop("refused")
        ELSE /\ config' = build_runtime_config_for_integrated(launch.env, launch.args) /\ phase' = "configured"
             /\ UNCHANGED <<launch, ci, mcp, gateway>>

(* build_serve_spec, the supervisor's wait for its upstream -- of a blank  *)
(* one, "/models" is asked until the time is up -- and the interpreter.    *)
StartInterpreter ==
  /\ phase = "configured"
  /\ IF (config.mode = "spawn" /\ build_code_interpreter_spawn_spec_fails(config)) \/ build_mcp_runtime_spec_fails(config)
     THEN Stop("refused")
     ELSE IF launch.by = "supervisor" /\ config.base = Blank THEN Stop("upstream_never_ready")
     ELSE /\ ci' = IF config.mode = "spawn" THEN Interpreter(config) ELSE NoInterpreter
          /\ phase' = "interpreter" /\ UNCHANGED <<launch, config, mcp, gateway>>

StartMcpRuntime ==
  /\ phase = "interpreter"
  /\ IF needs_mcp(config) /\ McpRuntimeFails(McpRuntimeEnv(config)) THEN Stop("helper_died")
     ELSE /\ mcp' = IF needs_mcp(config) THEN McpRuntime(McpRuntimeEnv(config), build_mcp_runtime_spec(config)) ELSE NoMcp
          /\ phase' = "helped" /\ UNCHANGED <<launch, config, ci, gateway>>

(* A worker of the supervisor reads its configuration from the environment *)
(* it is given; in the integrated mode the application has it directly.    *)
StartGateway ==
  /\ phase = "helped"
  /\ LET env == _build_gateway_worker_env(config)
     IN IF launch.by = "supervisor" /\ build_runtime_config_for_standalone_fails(env) THEN Stop("worker_died")
        ELSE /\ gateway' = IF launch.by = "supervisor" THEN build_runtime_config_for_standalone(env) ELSE config
             /\ phase' = "serving" /\ UNCHANGED <<launch, config, ci, mcp>>

(* Without a launcher: the environment is all there is, and the one worker *)
(* starts the interpreter.                                                 *)
StartStandalone ==
  /\ phase = "launched" /\ launch.by = "standalone"
  /\ LET env == launch.env
         c == build_runtime_config_for_standalone(env)
     IN IF \/ build_runtime_config_for_standalone_fails(env)
           \/ c.mode = "spawn" /\ (c.workers \in Many \/ _get_spawn_command_fails(c))
        THEN Stop("worker_died")
        ELSE /\ gateway' = c /\ ci' = IF c.mode = "spawn" THEN Interpreter(c) ELSE NoInterpreter
             /\ phase' = "serving" /\ UNCHANGED <<launch, config, mcp>>

ConfigurationNext ==
  \/ Supervise \/ Integrate \/ StartInterpreter \/ StartMcpRuntime \/ StartGateway \/ StartStandalone
ConfigurationSpec == ConfigurationInit /\ [][ConfigurationNext]_configurationVars
------------------------------------------------------------------------------
Serving == phase = "serving" /\ launch.by # "standalone"

(* The gateway runs with what its launcher was told, whatever the          *)
(* environment held: a worker of the supervisor, which has its settings    *)
(* from environment variables only, reads the launcher's configuration     *)
(* back, except that it never starts an interpreter of its own and that a  *)
(* host or an approval model of spaces counts as none in its environment.  *)
GatewayFollowsLauncher == Serving =>
  LET told == [config EXCEPT !.mode = IF @ = "spawn" THEN gateway.mode ELSE @,
                             !.codex_approval_model = IF @ = Blank THEN gateway.codex_approval_model ELSE @,
                             !.host = IF @ = Blank THEN gateway.host ELSE @,
                             !.timeout = gateway.timeout]
  IN /\ gateway = told
     /\ (config.mode = "disabled") = (gateway.mode = "disabled")
     /\ launch.by = "supervisor" => gateway.mode # "spawn"

(* What the gateway calls is there: the interpreter at the port it was     *)
(* spawned on, the MCP runtime at the URL it has, serving every server the *)
(* profile's adapters call and every one of the configuration file.        *)
HelpersAreThere == Serving =>
  /\ config.mode = "spawn" => ci.port = gateway.ci_port /\ ci.egress = gateway.egress
  /\ (mcp = NoMcp) = (gateway.mcp_url = NoUrl) /\ mcp.url = gateway.mcp_url
  /\ mcp # NoMcp => DOMAIN mcp.servers = resolve_required_builtin_mcp_server_labels(gateway.web_search_profile)
                                         \cup DOMAIN FileAt(gateway.mcp_config_path).servers

==============================================================================
