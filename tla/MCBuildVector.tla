---------------------------- MODULE MCBuildVector ----------------------------
(***************************************************************************)
(* An instance of Build for TLC, with which TLC also evaluates what Flows     *)
(* assumes of the programs of the functions.                                 *)
(***************************************************************************)
EXTENDS MCBuild, Flows
==============================================================================
