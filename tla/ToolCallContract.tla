-------------------------- MODULE ToolCallContract --------------------------
(***************************************************************************)
(* What running a tool on somebody else's server promises a model run: the  *)
(* tool runs at most once for a call, a result is reported only of a tool   *)
(* that ran, and a call reported as not made is never made later.          *)
(***************************************************************************)
EXTENDS Naturals

CONSTANT Calls

VARIABLES
  executed,   \* how often the tool ran for each call
  told        \* what the model run was told

vars == <<executed, told>>

(* Reports that say the tool was not called. *)
NotCalled == {"invalid", "missing", "unavailable"}
(* Reports that leave open whether it was. *)
Unsure == {"failed", "lost"}

Init == executed = [c \in Calls |-> 0] /\ told = [c \in Calls |-> "none"]

Run(c) ==
  /\ executed[c] = 0 /\ told[c] \notin NotCalled
  /\ executed' = [executed EXCEPT ![c] = 1]
  /\ UNCHANGED told

RunAndReport(c) ==
  /\ executed[c] = 0 /\ told[c] = "none"
  /\ executed' = [executed EXCEPT ![c] = 1]
  /\ \E how \in Unsure \cup {"ok"} : told' = [told EXCEPT ![c] = how]

(* Every call of a set is reported as one of these. *)
Report(cs) ==
  /\ \A c \in cs : told[c] = "none"
  /\ \/ told' = [c \in Calls |-> IF c \in cs THEN "lost" ELSE told[c]]
     \/ \E c \in cs, how \in Unsure : told' = [told EXCEPT ![c] = how]
     \/ \E c \in cs, how \in NotCalled : executed[c] = 0 /\ told' = [told EXCEPT ![c] = how]
  /\ UNCHANGED executed

Next ==
  \/ \E c \in Calls : Run(c) \/ RunAndReport(c)
  \/ \E cs \in SUBSET Calls : Report(cs)

Spec == Init /\ [][Next]_vars
=============================================================================
