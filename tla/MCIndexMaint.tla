----------------------------- MODULE MCIndexMaint -----------------------------
(***************************************************************************)
(* An instance of IndexMaint for TLC: two folders, one of which may go into  *)
(* the other, with one file name.  LIKE takes the name e for the pattern d.   *)
(***************************************************************************)
EXTENDS IndexMaint, TLC

MaintNames == {"d", "e", "a"}
MaintAlike == {<<n, n>> : n \in MaintNames} \union {<<"d", "e">>}
MaintPaths == {<<"d">>, <<"e">>, <<"d", "a">>, <<"e", "a">>, <<"e", "d">>, <<"e", "d", "a">>}
MaintIds == 1 .. 2
MaintDumps ==
  {{[id |-> 2, path |-> <<"d", "a">>, key |-> "note", mtime |-> t]} : t \in 0 .. MaxTime}
\* A file in d, perhaps the folder e, perhaps with a file, and nothing else.
MaintStart ==
  /\ MaintInit
  /\ <<"d", "a">> \in FilesIn(disk)
  /\ disk[<<"e", "d">>] = None
MaintRunSpec == MaintStart /\ [][MaintNext]_maintVars

MaintSymmetry == Permutations(Workers) \union Permutations(Hashes)
==============================================================================
