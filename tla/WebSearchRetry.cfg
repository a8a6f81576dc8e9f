SPECIFICATION Spec
CONSTANTS
  c1 = c1
  c2 = c2
  CallIds <- MCCallIds
  RawContents <- MCRawContents
  MaxParts = 2
  MaxTurns = 2
  MaxChunks = 1
  MaxRewrites = 1
  ToolNames = {"code_interpreter", "web_search", "mcp__t", "apply_patch", "lookup"}
  McpTools = {"mcp__t"}
  BuiltinTools = {"code_interpreter", "web_search"}
  CustomTools = {"apply_patch"}
  FunctionTools = {"lookup"}
  RetriedTools = {"code_interpreter", "web_search", "mcp__t"}
SYMMETRY MCSymmetry
INVARIANT TerminalClosesItems
