-------------------------- MODULE McpServerEntries --------------------------
(***************************************************************************)
(* tools/mcp/config.py: which entries of an MCP configuration file are     *)
(* accepted, and as what.  A field that is not given is None; one of the   *)
(* wrong JSON type is "wrong", an empty string "blank".                    *)
(***************************************************************************)
EXTENDS Sequences, FiniteSets, Naturals

None == "none"

(* One server of the file. *)
NoEntry == [transport |-> None, command |-> None, args |-> None, env |-> None, cwd |-> None,
            url |-> None, headers |-> None, auth |-> None]

HasCommandKeys(e) == {e.command, e.args, e.env, e.cwd} # {None}
WrongTransport(e) == e.transport \in {"blank", "wrong", "nested"}

_validate_stdio_entry_fails(e) ==
  \/ e.url # None \/ e.headers # None
  \/ e.command \in {None, "blank", "wrong"}
  \/ "wrong" \in {e.args, e.env, e.cwd}
  \/ e.transport \notin {None, "stdio"}

_validate_http_entry_fails(e) ==
  \/ e.url \notin {"http", "https"}     \* else absent, blank, relative or of another scheme
  \/ "wrong" \in {e.headers, e.auth}
  \/ WrongTransport(e) \/ e.transport = "stdio"

split_managed_server_entry_fails(e) ==
  \/ e.transport = "nested"
  \/ IF HasCommandKeys(e) THEN _validate_stdio_entry_fails(e) ELSE _validate_http_entry_fails(e)

(* A file: whether it exists and is an object with mcpServers, and the     *)
(* server at each label; a label with a character outside a-z, 0-9, _ and  *)
(* - refuses the whole file, as one bad entry does.                        *)
load_mcp_runtime_config_fails(file) ==
  \/ ~file.readable \/ file.bad_label
  \/ \E l \in DOMAIN file.servers : split_managed_server_entry_fails(file.servers[l])

merge_mcp_runtime_configs(first, second) ==
  [l \in DOMAIN first \cup DOMAIN second |-> IF l \in DOMAIN second THEN second[l] ELSE first[l]]
=============================================================================
