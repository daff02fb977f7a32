--------------------------- MODULE MCPatchEngine ----------------------------
(***************************************************************************)
(* Instances of PatchEngine for TLC: two patches, so that one can fail     *)
(* after another was applied.                                              *)
(***************************************************************************)
EXTENDS PatchEngine

CONSTANTS p1, p2

MCPatches == {p1, p2}
MCSeries == <<p1, p2>>
=============================================================================
