------------------------------- MODULE MCBuild -------------------------------
(***************************************************************************)
(* Instances of Build for TLC.                                              *)
(***************************************************************************)
EXTENDS Build, TLC

\* The entries of the index stay as they are.
StableSpec == BuildInit /\ [][BuildNext /\ UNCHANGED indexVars]_buildVars

BuildSymmetry == Permutations(Builders) \union Permutations(Keepers) \union Permutations(Inodes)
==============================================================================
