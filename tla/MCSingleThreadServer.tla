------------------------ MODULE MCSingleThreadServer ------------------------
(***************************************************************************)
(* Small instances of SingleThreadServer for TLC.                          *)
(***************************************************************************)
EXTENDS SingleThreadServer

CONSTANTS r1, r2, r3, r4
=============================================================================
