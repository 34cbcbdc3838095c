---------------------------- MODULE MCBuildLock ------------------------------
(***************************************************************************)
(* Instances of BuildLock for TLC.  As many inodes as there are clients are  *)
(* enough: a client that creates the file has none open, and each of the     *)
(* others one at most, so it finds an unused one.                            *)
(***************************************************************************)
EXTENDS BuildLock, TLC

Symmetry == Permutations(Clients) \union Permutations(Inodes)
==============================================================================
