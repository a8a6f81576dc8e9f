---------------------------- MODULE MCMcpGateway ----------------------------
(***************************************************************************)
(* Small instances of McpGateway for TLC.                                  *)
(***************************************************************************)
EXTENDS McpGateway, TLC

CONSTANTS h1, h2, x1, t1, c1, c2, r1

MCOrder == <<h1, h2>>
MCRequestOf == c1 :> r1 @@ c2 :> r1
=============================================================================
