------------------------------ MODULE MCIndexAdd ------------------------------
(***************************************************************************)
(* Instances of IndexAdd for TLC.                                           *)
(***************************************************************************)
EXTENDS IndexAdd, TLC

IndexSymmetry == Permutations(Adders) \union Permutations(Files) \union Permutations(Hashes)
==============================================================================
