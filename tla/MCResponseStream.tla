-------------------------- MODULE MCResponseStream --------------------------
(***************************************************************************)
(* Small instances of ResponseStream for TLC.                              *)
(***************************************************************************)
EXTENDS ResponseStream, TLC

CONSTANTS c1, c2

MCCallIds == {c1, c2}

Raw(draft, len) == [draft |-> draft, len |-> len]
MCRawContents == {<<Raw(1, 1)>>, <<Raw(1, 1), Raw(2, 1)>>}
MCSymmetry == Permutations(MCCallIds)
=============================================================================
