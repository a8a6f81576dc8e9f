-------------------------- MODULE ConversationStore --------------------------
(***************************************************************************)
(* What the response store promises: a map from response ids to            *)
(* conversations.  A conversation is the sequence of the turns it is made  *)
(* of.  A request starts a conversation or continues a saved one; saving   *)
(* happens at most once per id, is never undone, and takes effect for all  *)
(* readers at one instant.                                                 *)
(***************************************************************************)
EXTENDS Sequences

CONSTANTS
  Requests,
  None      \* no request

VARIABLES
  asked,    \* the request whose conversation each request continues
  saved,    \* the conversation saved under each id, or <<>>
  convo     \* the conversation each request is working on, or <<>>

vars == <<asked, saved, convo>>

Init ==
  /\ asked = [r \in Requests |-> None]
  /\ saved = [id \in Requests |-> <<>>]
  /\ convo = [r \in Requests |-> <<>>]

Ask(r, id) ==
  /\ asked[r] = None /\ convo[r] = <<>>
  /\ asked' = [asked EXCEPT ![r] = id]
  /\ UNCHANGED <<saved, convo>>

Start(r) ==
  /\ asked[r] = None /\ convo[r] = <<>>
  /\ convo' = [convo EXCEPT ![r] = <<r>>]
  /\ UNCHANGED <<asked, saved>>

Continue(r) ==
  /\ asked[r] # None /\ convo[r] = <<>> /\ saved[asked[r]] # <<>>
  /\ convo' = [convo EXCEPT ![r] = Append(saved[asked[r]], r)]
  /\ UNCHANGED <<asked, saved>>

Save(r) ==
  /\ convo[r] # <<>> /\ saved[r] = <<>>
  /\ saved' = [saved EXCEPT ![r] = convo[r]]
  /\ UNCHANGED <<asked, convo>>

Next ==
  \E r \in Requests :
    Start(r) \/ Continue(r) \/ Save(r) \/ \E id \in Requests : Ask(r, id)

Spec == Init /\ [][Next]_vars
=============================================================================
