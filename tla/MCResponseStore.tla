--------------------------- MODULE MCResponseStore ---------------------------
(***************************************************************************)
(* Small instances of ResponseStore for TLC.                               *)
(***************************************************************************)
EXTENDS ResponseStore, TLC

CONSTANTS r1, r2, r3

MCRequests == {r1, r2, r3}
MCSymmetry == Permutations(MCRequests)

Says(system, developer, tools, choice, store) ==
  [system |-> system, developer |-> developer, tools |-> tools, choice |-> choice,
   store |-> store]

(* Every kind of tools, given with, without and by a tool_choice, given    *)
(* before and after another; a response that is not stored; and a choice   *)
(* that is refused.                                                        *)
MCBodies ==
  { Says(TRUE,  FALSE, "mcp with credentials", "mcp",      TRUE),
    Says(FALSE, TRUE,  "omitted",              "omitted",  TRUE),
    Says(TRUE,  FALSE, "omitted",              "auto",     TRUE),
    Says(FALSE, FALSE, "function",             "omitted",  TRUE),
    Says(FALSE, TRUE,  "function",             "function", FALSE),
    Says(FALSE, FALSE, "omitted",              "function", TRUE) }
=============================================================================
