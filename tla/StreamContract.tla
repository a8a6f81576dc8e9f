--------------------------- MODULE StreamContract ---------------------------
(***************************************************************************)
(* What a POST /v1/responses request promises its client, without parts,   *)
(* keys, normalised events or a composer: items are announced in           *)
(* output_index order and finished once each, a response is concluded only *)
(* when all of them are finished, and concluding it makes it continuable.  *)
(***************************************************************************)
EXTENDS Naturals, Sequences

VARIABLES
  view,     \* the items by output_index: "open" or "done"
  phase,    \* the request as the client sees it
  wanted,   \* the client asked for the response to be stored
  saved     \* the response can be retrieved and continued

vars == <<view, phase, wanted, saved>>

AllDone == \A i \in DOMAIN view : view[i] = "done"

Init == view = <<>> /\ phase = "waiting" /\ wanted \in BOOLEAN /\ saved = FALSE

Begin ==
  /\ phase = "waiting" /\ phase' \in {"live", "refused"}
  /\ UNCHANGED <<view, wanted, saved>>

Announce ==
  /\ phase = "live" /\ view' = Append(view, "open")
  /\ UNCHANGED <<phase, wanted, saved>>

Finish(i) ==
  /\ phase = "live" /\ view[i] = "open" /\ view' = [view EXCEPT ![i] = "done"]
  /\ UNCHANGED <<phase, wanted, saved>>

Conclude ==
  /\ phase = "live" /\ AllDone
  /\ phase' = "concluded" /\ saved' = wanted
  /\ UNCHANGED <<view, wanted>>

(* A response that was complete may be saved although it could not be      *)
(* delivered.                                                              *)
SavedAnyway ==
  \/ UNCHANGED saved
  \/ phase = "live" /\ AllDone /\ wanted /\ saved' = TRUE

(* The request is answered with a failure: one that is told as the end of  *)
(* the response saves nothing, an error may come after the save.           *)
Fail ==
  /\ phase = "live"
  /\ \/ phase' = "failed" /\ UNCHANGED saved
     \/ phase' = "refused" /\ SavedAnyway
  /\ UNCHANGED <<view, wanted>>

(* The connection is lost.                                                 *)
Lose ==
  /\ phase \in {"live", "concluded", "failed"} /\ phase' = "lost"
  /\ SavedAnyway
  /\ UNCHANGED <<view, wanted>>

Next ==
  \/ Begin \/ Announce \/ Conclude \/ Fail \/ Lose
  \/ \E i \in DOMAIN view : Finish(i)

Spec == Init /\ [][Next]_vars
=============================================================================
