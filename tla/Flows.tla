-------------------------------- MODULE Flows --------------------------------
(***************************************************************************)
(* What a run of a function can come to, whatever else goes on: what it holds, *)
(* the files it has to itself, and what failed.  Programs only lead forward,   *)
(* so that the states a run may be in at a step follow from those at the steps *)
(* before it.  The assumptions say that these are all its states, and that     *)
(* what a function owes holds in those at its ends.  They are about the text   *)
(* of the programs alone: no constant occurs in them, TLC finds them true once *)
(* and for all, and ConversionsProofs concludes from them what the functions    *)
(* give in any number of threads.                                            *)
(***************************************************************************)
EXTENDS Catalogue, FiniteSetsExt

\* The names of files that anyone may touch meanwhile: those in the caches, but for
\* the temporary ones while nobody else runs.
Shared(alone) == IF alone THEN Cached \ Temps ELSE Cached

FileKinds == {"begin", "finish", "settle", "drop", "shed", "move", "aside", "there", "missing"}
Named(p) ==
  LET Of(kinds) == {n \in DOMAIN Code[p] : Code[p][n].do \in kinds}
  IN Outputs(p) \union {Code[p][n].on : n \in Of(FileKinds)}
                \union {Code[p][n].to : n \in Of({"move", "aside"})}
Names == Temps \union UNION {Named(p) : p \in Programs}

\* What is complete and what is not of the files that a run has to itself, when it
\* begins: anything, but what is only ever there as a whole.
Unbroken == PublishedAside \union {"backup.vec", "backup.mvt"}
Found(p, alone) ==
  LET own == Named(p) \ Shared(alone)
  IN {f \in (SUBSET own) \X (SUBSET (own \ Unbroken)) : f[1] \intersect f[2] = {}}

------------------------------------------------------------------------------
\* A run: the handles that are open, the files as they are and were, and the kind of
\* step that failed, or "more" where several did.
Run(held, whole, partial, blame, had) ==
  [held |-> held, whole |-> whole, partial |-> partial, blame |-> blame, had |-> had]
Begun(p, files) ==
  Run({}, files[1], files[2], "none",
      (Outputs(p) \intersect files[1]) \union (Temps \intersect (files[1] \union files[2])))

Opened(c, s) == [s EXCEPT !.held = @ \union {c.on}]
Closed(c, s) == [s EXCEPT !.held = @ \ c.closes]
Blamed(s, kind) == [s EXCEPT !.blame = IF @ = "none" THEN kind ELSE "more"]
Thrown(c, s) ==
  IF c.do = "fail" /\ s.blame # "none" THEN Closed(c, s) ELSE Blamed(Closed(c, s), c.do)

\* Whether a file may be there, and a run with other files.
MayBe(f, s, alone) ==
  {is \in BOOLEAN : f \notin Shared(alone) => (is <=> f \in s.whole \union s.partial)}
With(s, whole, partial, alone) ==
  Run(s.held, whole \ Shared(alone), partial \ Shared(alone), s.blame, s.had)
Torn(s, f, alone) == With(s, s.whole \ {f}, s.partial \union {f}, alone)
Completed(s, f, alone) == With(s, s.whole \union {f}, s.partial \ {f}, alone)
Gone(s, f, alone) == With(s, s.whole \ {f}, s.partial \ {f}, alone)
Renamed(files, f, g) == (files \ {f, g}) \union (IF f \in files THEN {g} ELSE {})

\* How far a step may lead, and in what it leaves the run.
QuietKinds ==
  {"may", "find", "count", "acquire", "unlock", "load", "forget", "note", "raise", "restore"}
Passes(c, s, alone) ==
  CASE c.do \in {"open", "take"} -> {<<1, Opened(c, s)>>}
    [] c.do = "close" -> {<<1, Closed(c, s)>>}
    [] c.do = "leave" -> {<<c.skip, Closed(c, s)>>}
    [] c.do \in QuietKinds -> {<<1, s>>}
    [] c.do = "fork" -> {<<1, s>>, <<c.skip, s>>}
    [] c.do = "jump" -> {<<c.skip, s>>}
    [] c.do = "there" -> {<<IF is THEN 1 ELSE c.skip, s>> : is \in MayBe(c.on, s, alone)}
    [] c.do = "missing" -> {<<IF is THEN c.skip ELSE 1, s>> : is \in MayBe(c.on, s, alone)}
    [] c.do = "begin" -> {<<1, Torn(s, c.on, alone)>>}
    [] c.do = "finish" ->
         {<<1, IF is THEN Completed(s, c.on, alone) ELSE s>> : is \in MayBe(c.on, s, alone)}
    [] c.do = "settle" -> {<<1, Completed(s, c.on, alone)>>, <<1, s>>}
    [] c.do = "drop" -> {<<1, Gone(s, c.on, alone)>>}
    [] c.do = "shed" -> {<<1, Gone(s, c.on, alone)>>, <<1, Blamed(s, "shed")>>}
    [] c.do \in {"move", "aside"} ->
         {<<1, With(s, Renamed(s.whole, c.on, c.to), Renamed(s.partial, c.on, c.to), alone)>> :
            is \in MayBe(c.on, s, alone) \ {FALSE}}
    [] OTHER -> {}
After(c, s, alone) ==
  Passes(c, s, alone)
  \union (IF MayThrow(c) /\ c.handler # 0 THEN {<<c.handler, Thrown(c, s)>>} ELSE {})

\* The states that a run may be in at each step.
Reach(p, alone) ==
  LET Near(m, n) == n - m \in {1, Code[p][m].skip, Code[p][m].handler}
      From(m, n, states) ==
        UNION {{w[2] : w \in {v \in After(Code[p][m], s, alone) : m + v[1] = n}} : s \in states}
      upto[n \in 0 .. Len(Code[p])] ==
        IF n = 0 THEN <<>>
        ELSE LET before == upto[n - 1]
                 some == IF n = 1
                         THEN {Begun(p, files) : files \in Found(p, alone)}
                         ELSE UNION {From(m, n, before[m]) : m \in {m \in 1 .. n - 1 : Near(m, n)}}
             IN Append(before, some \union {Gone(s, f, alone) : s \in some, f \in Cached})
  IN upto[Len(Code[p])]
Reached == [p \in Programs |-> [alone \in BOOLEAN |-> Reach(p, alone)]]

\* What the function has last done to the size of the cache before a step.
CacheKinds == {"note", "raise", "restore"}
Level(p, n) ==
  LET before == {m \in 1 .. n - 1 : Code[p][m].do \in CacheKinds}
  IN IF before = {} THEN "restore" ELSE Code[p][Max(before)].do
LevelAfter(c, level) == IF c.do \in CacheKinds THEN c.do ELSE level

------------------------------------------------------------------------------
\* What is owed where a function returns, and where it throws.
TempsGone(p, s) ==
  s.blame \notin {"more", "drop", "shed", "move", "aside"}
  => (s.whole \union s.partial) \intersect (Temps \ LeftBehind(p)) \subseteq s.had
ReturnsWell(p, s) ==
  /\ s.held \subseteq KeptOnReturn(p)
  /\ p \in Reliable => Outputs(p) \subseteq s.whole
  /\ TempsGone(p, s)
ThrowsWell(p, s) ==
  /\ s.held \subseteq KeptOnThrow(p)
  /\ p \in KeepOld /\ s.blame \notin {"none", "more", "aside"} => s.had \ Temps \subseteq s.whole
  /\ TempsGone(p, s)

\* The names of files that functions publish, and the paths of the caches.
ASSUME NamesOK ==
  /\ PublishedAside \intersect Cached = {}
  /\ \A p \in Programs :
       /\ p \in Reliable \union KeepOld => Outputs(p) \intersect Cached = {}
       /\ \A n \in DOMAIN Code[p], alone \in BOOLEAN :
            Code[p][n].do \in {"move", "aside"} /\ Code[p][n].on \in Shared(alone)
            => Code[p][n].to \in Shared(alone)

\* Every run is at first in a state that is reached ...
ASSUME FlowsBegin ==
  \A p \in Programs, alone \in BOOLEAN :
    /\ 1 \in DOMAIN Code[p] /\ DOMAIN Code[p] \subseteq Nat \ {0}
    /\ Level(p, 1) = "restore"
    /\ \A files \in Found(p, alone) : Begun(p, files) \in Reached[p][alone][1]

\* ... and so it is after each step, also when the caches are cleaned; a run that dies
\* leaves what another may find.
ASSUME FlowsGoOn ==
  \A p \in Programs, alone \in BOOLEAN : \A n \in DOMAIN Code[p] :
    \A s \in Reached[p][alone][n] :
      /\ \A w \in After(Code[p][n], s, alone) :
           /\ n + w[1] \in DOMAIN Code[p]
           /\ w[2] \in Reached[p][alone][n + w[1]]
           /\ Level(p, n + w[1]) = LevelAfter(Code[p][n], Level(p, n))
      /\ \A f \in Cached : Gone(s, f, alone) \in Reached[p][alone][n]
      /\ <<s.whole, s.partial>> \in Found(p, alone)

\* The size of the cache is raised by who has noted it, and put back by who has raised it.
ASSUME FlowsOfCache ==
  \A p \in Programs : \A n \in DOMAIN Code[p] :
    /\ Code[p][n].do = "note" => Level(p, n) = "restore"
    /\ Code[p][n].do = "raise" => Level(p, n) = "note"
    /\ Code[p][n].do = "restore" => Level(p, n) = "raise"

\* Where a function ends, what it owes holds.
ASSUME FlowsEnd ==
  \A p \in Programs, alone \in BOOLEAN : \A n \in DOMAIN Code[p] :
    \A s \in Reached[p][alone][n] :
      /\ Code[p][n].do = "return" => ReturnsWell(p, Closed(Code[p][n], s)) /\ Level(p, n) = "restore"
      /\ MayThrow(Code[p][n]) /\ Code[p][n].handler = 0
         => ThrowsWell(p, Thrown(Code[p][n], s)) /\ Level(p, n) = "restore"
==============================================================================
