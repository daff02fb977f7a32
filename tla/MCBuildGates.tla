---------------------------- MODULE MCBuildGates ----------------------------
(***************************************************************************)
(* Instances of BuildGates for TLC.  The second manifest asks for fewer    *)
(* arguments than the first, so that its policy is also satisfied by the   *)
(* args.gn of the first.                                                   *)
(***************************************************************************)
EXTENDS BuildGates, TLC

CONSTANTS all, fewer

MCArgs == {all, fewer}
MCArgsOf == [m \in Versions |-> IF m = 0 THEN all ELSE fewer]
MCWider == {<<all, fewer>>}

\* Collectors, and paths, differ in their names only.
GateSymmetry == Permutations(Collectors) \cup Permutations(Paths)
=============================================================================
