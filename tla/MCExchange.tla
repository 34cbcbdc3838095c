----------------------------- MODULE MCExchange ------------------------------
(***************************************************************************)
(* An instance of Exchange for TLC: a folder with two files, two clients.     *)
(***************************************************************************)
EXTENDS Exchange, TLC

ExchangeFolders == {<<"d">>}
ExchangeFiles == {<<"d", "a">>, <<"d", "b">>}
\* Clients that have no stamp, of an empty dataset, or that have the stamp of the
\* folder with a file and a record of it.
ExchangeStart ==
  /\ ExchangeInit
  /\ \A c \in Clients, n \in Nodes :
       IF stamp[c] = None
         THEN rows[n] = Nowhere
         ELSE /\ rows[n][<<"d", "a">>] # None /\ rows[n][<<"d", "b">>] = None
              /\ Kept(metas[n]) = Ids /\ \A i \in Ids : metas[n][i] \in Files
ExchangeRunSpec == ExchangeStart /\ [][ExchangeNext]_exchangeVars

ExchangeSymmetry == Permutations(Clients) \union Permutations(Hashes)
==============================================================================
