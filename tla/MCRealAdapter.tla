---------------------------- MODULE MCRealAdapter ---------------------------
(***************************************************************************)
(* An instance of RealAdapter for TLC: two runs, given one workspace path  *)
(* or two, two candidates, so that evidence and tree can be of different   *)
(* ones, and two patches, so that one can fail after another was applied.  *)
(* People edit a file the evidence lists, a new file it does not list, and *)
(* one that .gitignore hides.                                              *)
(***************************************************************************)
EXTENDS RealAdapter, TLC

CONSTANTS p1, p2

MCSeries == <<p1, p2>>

\* Runs, workspaces and commits differ in their names only.
Names == Permutations(Runs) \cup Permutations(Workspaces) \cup Permutations(Commits)
=============================================================================
