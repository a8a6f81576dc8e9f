------------------------------ MODULE McpNames ------------------------------
(***************************************************************************)
(* tools/mcp/utils.py and assembly.py: the names under which MCP tools are *)
(* shown to the model.  A name is a sequence of characters and, when the   *)
(* plain name is taken, the digest of the reference it stands for (sha1,   *)
(* taken to be injective, so that two digests never collide).              *)
(***************************************************************************)
EXTENDS Integers, Sequences, SequencesExt, Functions, TLC

CONSTANTS MaxToolNameLen,   \* HOSTED_MCP_MAX_TOOL_NAME_LEN, in characters of the model
          RefOrder          \* every <<server_label, tool_name>>, in sorted order

ASSUME NamesAssumption == /\ MaxToolNameLen \in Nat /\ MaxToolNameLen > 0
                          /\ RefOrder \in Seq(Range(RefOrder))
                          /\ \A p \in Range(RefOrder) : p = <<p[1], p[2]>>

HostedPrefix == <<"mcp", "_", "_">>
Plain(text) == [text |-> text, digest |-> {}]
McpToolRef(pair, mode) == [server |-> pair[1], tool |-> pair[2], mode |-> mode]

(* Characters outside [a-zA-Z0-9_-] become "_"; the rest is cut off. *)
Unsafe == {".", " "}
Cut(text, n) == SubSeq(text, 1, IF n < Len(text) THEN n ELSE Len(text))
sanitize_internal_tool_name(text) ==
  Cut([i \in DOMAIN text |-> IF text[i] \in Unsafe THEN "_" ELSE text[i]], MaxToolNameLen)

build_internal_mcp_tool_name(ref, names) ==
  LET base == sanitize_internal_tool_name(HostedPrefix \o ref.server \o <<"_", "_">> \o ref.tool)
      free == Plain(base) \in DOMAIN names => names[Plain(base)] = ref
  IN IF free THEN Plain(base)
     ELSE [text |-> Cut(base, MaxToolNameLen - 1), digest |-> {ref}]

NameOf(ref, names) == CHOOSE n \in DOMAIN names : names[n] = ref

(* names maps every name given so far to its reference. *)
register_internal_mcp_tool_name(names, ref) ==
  IF ref \in Range(names) THEN names
  ELSE LET new == build_internal_mcp_tool_name(ref, names)
       IN [n \in DOMAIN names \cup {new} |-> IF n = new THEN ref ELSE names[n]]

(* mode gives the mode of each server label. *)
RegisterAll(names, pairs, mode) ==
  LET upTo[n \in 0 .. Len(RefOrder)] ==
        IF n = 0 THEN names
        ELSE IF RefOrder[n] \in pairs
        THEN register_internal_mcp_tool_name(upTo[n - 1], McpToolRef(RefOrder[n], mode[RefOrder[n][1]]))
        ELSE upTo[n - 1]
  IN upTo[Len(RefOrder)]
=============================================================================
