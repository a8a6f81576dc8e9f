-------------------------------- MODULE Host --------------------------------
(***************************************************************************)
(* The gateway processes of one host: supervisors of either kind, or       *)
(* gateways started without one, that share a database and its ports.      *)
(***************************************************************************)
CONSTANTS
  Proc,   \* the processes
  NoProc  \* none of them

ASSUME HostAssumption == NoProc \notin Proc

=============================================================================
