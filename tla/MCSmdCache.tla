----------------------------- MODULE MCSmdCache -----------------------------
(***************************************************************************)
(* Small instances of SmdCache for TLC.                                    *)
(***************************************************************************)
EXTENDS SmdCache

CONSTANTS n1, r1, r2

MCNode1   == {n1}
MCReader2 == {r1, r2}

=============================================================================
