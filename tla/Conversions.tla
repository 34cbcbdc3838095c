----------------------------- MODULE Conversions -----------------------------
(***************************************************************************)
(* The functions that make files of other files, run step by step: builds,   *)
(* thumbnails, tiles, exports and analyses.  Any step that may throw does,   *)
(* perhaps several in a run; the process may die at any step and what is on   *)
(* disk stays.  Programs of Steps say what each function does; this module   *)
(* says what a step does, and what the functions owe to those that call them: *)
(* to close what they open, to leave no temporary file, to publish only what  *)
(* is complete, and to keep what was there before when they fail.             *)
(***************************************************************************)
EXTENDS ThreadLock, Sequences, Catalogue

CONSTANTS
  Everyone,    \* where files lie that all threads see
  Together,    \* the functions that several threads run at once
  Often,       \* those of them that the threads run several times
  MaxRuns,     \* bounds the runs of a thread
  MaxCache,    \* the size that a build wants for GDAL's cache
  FirstCache   \* the size that the cache has before

\* The paths that functions lock are keys.
ASSUME ConversionConstantsOK ==
  /\ {"tif", "download"} \subseteq Keys
  /\ Often \subseteq Together
  /\ {FirstCache, MaxCache} \subseteq Nat \ {0} /\ FirstCache <= MaxCache

\* Files in the caches of the user are those of all threads; a build has its
\* output to itself (BuildLock).  That other files have names of their own is not so
\* of what build-lod makes beside its input, <stem>-lod.rad: inputs that differ in
\* their extensions share it, it may be a file of the user, and a build removes what
\* it finds there (buildlod_runner.cpp:219).  Here it is as if no other had that stem.
Place(t, f) == IF f \in Cached THEN <<Everyone, f>> ELSE <<t, f>>

VARIABLES
  prog,        \* per thread, the function it runs
  pc,          \* per thread, where in its program it is
  now,         \* per thread, the step that is there
  held,        \* per thread, the handles that are open
  outcome,     \* per thread, whether it runs, and how it ended
  whole,       \* the files that are complete
  partial,     \* the files that are not
  had,         \* per thread, complete outputs and temporary files there when it began
  first,       \* per thread, the kind of step that threw first
  faults,      \* per thread, the steps that threw, 2 for more
  runs,        \* per thread, how often it ran
  cache,       \* GDALGetCacheMax64()
  saved        \* per thread, the size that it will put back

conversionVars == <<prog, pc, now, held, outcome, whole, partial, had, first, faults, runs,
                    cache, saved, lockVars>>
\* What steps leave alone, by theme.
runVars == <<prog, had, runs>>
diskVars == <<whole, partial>>
cacheVars == <<cache, saved>>

ConversionsInit ==
  /\ LockInit
  /\ \E p \in Programs : prog = [t \in Threads |-> p]
  /\ pc = [t \in Threads |-> 0]
  /\ now = [t \in Threads |-> Idle]
  /\ held = [t \in Threads |-> {}]
  /\ outcome = [t \in Threads |-> "idle"]
  /\ partial = {}
  /\ \E t \in Threads : whole \in {{}, {Place(t, f) : f \in Outputs(prog[t])}}
  /\ had = [t \in Threads |-> {}]
  /\ first = [t \in Threads |-> "none"]
  /\ faults = [t \in Threads |-> 0]
  /\ runs = [t \in Threads |-> 0]
  /\ cache = FirstCache
  /\ saved = [t \in Threads |-> 0]

There(t, f) == Place(t, f) \in whole \union partial
Is(t, kinds) == now[t].do \in kinds

GoTo(t, n) ==
  /\ pc' = [pc EXCEPT ![t] = @ + n]
  /\ now' = [now EXCEPT ![t] = Code[prog[t]][pc[t] + n]]
Ends(t, how) ==
  /\ outcome' = [outcome EXCEPT ![t] = how]
  /\ pc' = [pc EXCEPT ![t] = 0]
  /\ now' = [now EXCEPT ![t] = Idle]
On(t) == GoTo(t, 1) /\ UNCHANGED <<outcome, first, faults>>
Least(m, n) == IF m < n THEN m ELSE n

\* What went wrong first, and how much did.
Failed(t, what) ==
  /\ first' = [first EXCEPT ![t] = IF @ = "none" THEN what ELSE @]
  /\ faults' = [faults EXCEPT ![t] = Least(@ + 1, 2)]

\* An exception goes to the catch block of the step, or out of the function.
Throw(t) ==
  /\ held' = [held EXCEPT ![t] = @ \ now[t].closes]
  /\ IF now[t].handler = 0
     THEN Ends(t, "thrown")
     ELSE GoTo(t, now[t].handler) /\ outcome' = outcome
  /\ IF now[t].do = "fail" /\ faults[t] > 0
     THEN UNCHANGED <<first, faults>>
     ELSE Failed(t, now[t].do)
  /\ UNCHANGED <<runVars, diskVars, cacheVars, lockVars>>

Throws(t) == MayThrow(now[t]) /\ Throw(t)

\* Handles.
Opens(t) ==
  /\ Is(t, {"open", "take"})
  /\ held' = [held EXCEPT ![t] = @ \union {now[t].on}]
  /\ On(t)
  /\ UNCHANGED <<runVars, diskVars, cacheVars, lockVars>>

Closes(t) ==
  /\ Is(t, {"close"})
  /\ held' = [held EXCEPT ![t] = @ \ now[t].closes]
  /\ On(t)
  /\ UNCHANGED <<runVars, diskVars, cacheVars, lockVars>>

\* Ways through.
Goes(t) ==
  /\ \/ Is(t, {"may", "fork"}) /\ GoTo(t, 1)
     \/ Is(t, {"fork", "jump"}) /\ GoTo(t, now[t].skip)
     \/ Is(t, {"there"}) /\ GoTo(t, IF There(t, now[t].on) THEN 1 ELSE now[t].skip)
     \/ Is(t, {"missing"}) /\ GoTo(t, IF There(t, now[t].on) THEN now[t].skip ELSE 1)
  /\ UNCHANGED <<held, outcome, first, faults, runVars, diskVars, cacheVars, lockVars>>

Leaves(t) ==
  /\ Is(t, {"leave"})
  /\ held' = [held EXCEPT ![t] = @ \ now[t].closes]
  /\ GoTo(t, now[t].skip)
  /\ UNCHANGED <<outcome, first, faults, runVars, diskVars, cacheVars, lockVars>>

Returns(t) ==
  /\ Is(t, {"return"})
  /\ held' = [held EXCEPT ![t] = @ \ now[t].closes]
  /\ Ends(t, "returned")
  /\ UNCHANGED <<first, faults, runVars, diskVars, cacheVars, lockVars>>

\* Files.
Begins(t) ==
  /\ Is(t, {"begin"})
  /\ whole' = whole \ {Place(t, now[t].on)}
  /\ partial' = partial \union {Place(t, now[t].on)}
  /\ On(t)
  /\ UNCHANGED <<held, runVars, cacheVars, lockVars>>

\* As it must not be: what is complete may also be taken for incomplete.
FinishesBoth(t) ==
  /\ Is(t, {"finish", "settle"})
  /\ whole' = whole \union {Place(t, now[t].on)}
  /\ partial' = partial
  /\ On(t)
  /\ UNCHANGED <<held, runVars, cacheVars, lockVars>>

Finishes(t) ==
  /\ Is(t, {"finish", "settle"})
  /\ There(t, now[t].on)
  /\ whole' = whole \union {Place(t, now[t].on)}
  /\ partial' = partial \ {Place(t, now[t].on)}
  /\ On(t)
  /\ UNCHANGED <<held, runVars, cacheVars, lockVars>>

\* The result of a writer is not looked at, or the file goes before it is written;
\* what cannot be removed stays, and is a fault that nobody is told.
Shrugs(t) ==
  /\ \/ (Is(t, {"settle"}) \/ (Is(t, {"finish"}) /\ ~There(t, now[t].on))) /\ On(t)
     \/ /\ Is(t, {"shed"})
        /\ There(t, now[t].on)
        /\ GoTo(t, 1)
        /\ Failed(t, "shed")
        /\ outcome' = outcome
  /\ UNCHANGED <<held, runVars, diskVars, cacheVars, lockVars>>

Removes(t) ==
  /\ Is(t, {"drop", "shed"})
  /\ whole' = whole \ {Place(t, now[t].on)}
  /\ partial' = partial \ {Place(t, now[t].on)}
  /\ On(t)
  /\ UNCHANGED <<held, runVars, cacheVars, lockVars>>

Moved(files, f, g) == (files \ {f, g}) \union (IF f \in files THEN {g} ELSE {})

Moves(t) ==
  LET f == Place(t, now[t].on)
      g == Place(t, now[t].to)
  IN /\ Is(t, {"move", "aside"})
     /\ There(t, now[t].on)
     /\ whole' = Moved(whole, f, g)
     /\ partial' = Moved(partial, f, g)
     /\ On(t)
     /\ UNCHANGED <<held, runVars, cacheVars, lockVars>>

\* The locks by path.
Locks(t) ==
  /\ \/ Is(t, {"find"}) /\ \E k \in Keys : k = now[t].on /\ Find(t, k)
     \/ Is(t, {"count"}) /\ Count(t)
     \/ Is(t, {"acquire"}) /\ Acquire(t)
     \/ Is(t, {"unlock"}) /\ Unlock(t)
     \/ Is(t, {"load"}) /\ Load(t)
     \/ Is(t, {"forget"}) /\ Forget(t)
  /\ On(t)
  /\ UNCHANGED <<held, runVars, diskVars, cacheVars>>

\* The cache of GDAL is that of the process: a build notes its size, raises it
\* if it is smaller than it wants, and puts back what it noted if it raised it.
\* As it must not be: a build that finds it large enough puts it back too.
RaisedAlways(size) == size <= MaxCache

Raised(size) == size < MaxCache

Caches(t) ==
  /\ \/ /\ Is(t, {"note"})
        /\ saved' = [saved EXCEPT ![t] = cache]
        /\ cache' = cache
     \/ /\ Is(t, {"raise"})
        /\ cache' = IF Raised(saved[t]) THEN MaxCache ELSE cache
        /\ saved' = saved
     \/ /\ Is(t, {"restore"})
        /\ cache' = IF Raised(saved[t]) THEN saved[t] ELSE cache
        /\ saved' = saved
  /\ On(t)
  /\ UNCHANGED <<held, runVars, diskVars, lockVars>>

\* Anything else in the process may be told to clean the caches of the user.
CleansUp ==
  /\ \E f \in Cached :
       /\ <<Everyone, f>> \in whole \union partial
       /\ whole' = whole \ {<<Everyone, f>>}
       /\ partial' = partial \ {<<Everyone, f>>}
  /\ UNCHANGED <<pc, now, held, outcome, first, faults, runVars, cacheVars, lockVars>>

\* The process dies, with all its threads; nobody learns what their calls came to.
Dies ==
  /\ \E t \in Threads : outcome[t] = "running"
  /\ outcome' = [t \in Threads |-> IF outcome[t] = "idle" THEN "idle" ELSE "died"]
  /\ held' = [t \in Threads |-> {}]
  /\ count' = [k \in Keys |-> NoCount]
  /\ mutex' = [k \in Keys |-> 0]
  /\ at' = [t \in Threads |-> "idle"]
  /\ seen' = [t \in Threads |-> NoCount]
  /\ object' = [t \in Threads |-> 0]
  /\ raced' = FALSE
  /\ cache' = FirstCache
  /\ saved' = [t \in Threads |-> 0]
  /\ pc' = [t \in Threads |-> 0]
  /\ now' = [t \in Threads |-> Idle]
  /\ first' = [t \in Threads |-> "none"]
  /\ faults' = [t \in Threads |-> 0]
  /\ had' = [t \in Threads |-> {}]
  /\ UNCHANGED <<on, prog, runs, diskVars>>

\* No other thread runs anything, nor has it.
Alone(t) == \A u \in Threads \ {t} : runs[u] = 0

\* Somebody asks, perhaps again.
Starts(t) ==
  /\ outcome[t] # "running"
  /\ Alone(t) \/ prog[t] \in Together
  /\ runs[t] < IF prog[t] \in Together \ Often THEN 1 ELSE MaxRuns
  /\ runs' = [runs EXCEPT ![t] = @ + 1]
  /\ outcome' = [outcome EXCEPT ![t] = "running"]
  /\ GoTo(t, 1)
  /\ held' = [held EXCEPT ![t] = {}]
  /\ first' = [first EXCEPT ![t] = "none"]
  /\ faults' = [faults EXCEPT ![t] = 0]
  /\ had' = [had EXCEPT ![t] = {f \in Outputs(prog[t]) : Place(t, f) \in whole}
                              \union {f \in Temps : There(t, f)}]
  /\ UNCHANGED <<prog, diskVars, cacheVars, lockVars>>

\* Nothing is left to do.
Rests == (\A t \in Threads : outcome[t] # "running") /\ UNCHANGED conversionVars

Advances(t) ==
  \/ Throws(t) \/ Opens(t) \/ Closes(t) \/ Goes(t) \/ Leaves(t) \/ Returns(t)
  \/ Begins(t) \/ Finishes(t) \/ Shrugs(t) \/ Removes(t) \/ Moves(t)
  \/ Locks(t) \/ Caches(t) \/ Starts(t)

ConversionsNext == (\E t \in Threads : Advances(t)) \/ CleansUp \/ Dies \/ Rests

ConversionsSpec == ConversionsInit /\ [][ConversionsNext]_conversionVars

------------------------------------------------------------------------------
Ended(t) == outcome[t] \in {"returned", "thrown"}

ConversionsTypeOK ==
  /\ ThreadLockTypeOK
  /\ prog \in [Threads -> Programs]
  /\ \A t \in Threads :
       /\ outcome[t] = "running" <=> pc[t] > 0
       /\ now[t] = IF pc[t] = 0 THEN Idle ELSE Code[prog[t]][pc[t]]
  /\ outcome \in [Threads -> {"idle", "running", "returned", "thrown", "died"}]
  /\ whole \intersect partial = {}
  /\ \A t \in Threads : faults[t] \in 0 .. 2 /\ (faults[t] = 0 <=> first[t] = "none")
  /\ cache \in {FirstCache, MaxCache}
  /\ \A t \in Threads : saved[t] \in {0, FirstCache, MaxCache}

\* Who ends has closed what it opened: every dataset, option, stream, pipe and file
\* in memory, whichever of its steps failed, but for those that are listed above.
HandlesClosed ==
  \A t \in Threads :
    /\ outcome[t] = "returned" => held[t] \subseteq KeptOnReturn(prog[t])
    /\ outcome[t] = "thrown" => held[t] \subseteq KeptOnThrow(prog[t])

\* What is made aside and then moved to its place is never seen in part there: not
\* while it is made, not when that fails, and not after a crash (vector.cpp:560-600,
\* 3d.cpp:480-510).
PublishedWhole == \A f \in partial : f[2] \notin PublishedAside

\* A function that fails, by one failure, leaves the output of the run before as it
\* was, if it is one of these.  The failure must not be that what is there cannot be
\* moved away: the rollback then removes it (vector.cpp:579).
OldOutputKept ==
  \A t \in Threads :
    outcome[t] = "thrown" /\ prog[t] \in KeepOld /\ faults[t] = 1 /\ first[t] # "aside"
    => \A f \in had[t] \ Temps : Place(t, f) \in whole

\* No temporary file of a run outlives a function that ends, whatever failed in it,
\* unless a file could not be moved or removed, but those that it is known to leave, and
\* those in the caches while other threads use them too.
TempsRemoved ==
  \A t \in Threads :
    Ended(t) /\ faults[t] < 2 /\ first[t] \notin {"drop", "shed", "move", "aside"}
    => \A f \in Temps \ LeftBehind(prog[t]) :
         There(t, f) => f \in had[t] \/ (f \in Cached /\ ~Alone(t))

\* Who says that it made its outputs has made all of them: no failure of a step is
\* taken for success, in these.  What is lost when a file is closed is left out, as
\* nobody looks at it.
ReturnsWhole ==
  \A t \in Threads :
    outcome[t] = "returned" /\ prog[t] \in Reliable
    => \A f \in Outputs(prog[t]) : Place(t, f) \in whole

\* When nobody builds, the cache of GDAL has the size that it had at first, however
\* builds that overlap have raised it and put it back.
CacheRestored ==
  (\A t \in Threads : outcome[t] # "running") => cache = FirstCache
==============================================================================
