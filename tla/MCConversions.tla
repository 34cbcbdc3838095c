---------------------------- MODULE MCConversions ----------------------------
(***************************************************************************)
(* Two threads of one process, each function alone and some of them twice.  *)
(***************************************************************************)
EXTENDS Conversions

CONSTANTS t1, t2
Symmetry == Permutations(Threads)
==============================================================================
