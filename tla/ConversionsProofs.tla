--------------------------- MODULE ConversionsProofs ---------------------------
(***************************************************************************)
(* The functions give what they owe in any threads, however they fail, and    *)
(* keep the mutual exclusion of ThreadLock.  What they do to its variables are *)
(* its own steps, or the end of the process; what they do to handles and files *)
(* is what Flows says of a run, whatever other threads do meanwhile: they      *)
(* share only what lies in the caches and the size of GDAL's cache.           *)
(***************************************************************************)
EXTENDS Conversions, ThreadLockProofs, Flows

\* A process that died leaves nothing of its locks: the next one begins anew.
LEMMA DiesIInv == IInv /\ Dies => IInv'
<1> SUFFICES ASSUME IInv, Dies PROVE IInv'
  OBVIOUS
<1>1. 0 \in Mutexes
  BY FS_CardinalityType, ThreadLockConstantsOK DEF Mutexes
<1>2. /\ count' = [k \in Keys |-> NoCount]
      /\ mutex' = [k \in Keys |-> 0]
      /\ at' = [t \in Threads |-> "idle"]
      /\ seen' = [t \in Threads |-> NoCount]
      /\ object' = [t \in Threads |-> 0]
      /\ raced' = FALSE
      /\ on' = on
  BY DEF Dies
<1>3. ThreadLockTypeOK'
  BY <1>1, <1>2 DEF IInv, ThreadLockTypeOK, Phases
<1>4. MutexTaken'
  BY <1>2 DEF MutexTaken, Engaged
<1>5. \A k \in Keys : Registered(k)' = {}
  BY <1>2 DEF Registered, Engaged
<1>6. LockInv'
  BY <1>2, <1>5 DEF LockInv, Updating, Engaged
<1>7. QED
  BY <1>3, <1>4, <1>6 DEF IInv

\* A step of a function is a step of the lock, or leaves it alone.
LEMMA StepsOfLock ==
  ASSUME NEW t \in Threads, Advances(t)
  PROVE  [LockNext]_lockVars
<1>1. CASE Throws(t)
  BY <1>1 DEF Throws, Throw
<1>2. CASE Opens(t) \/ Closes(t) \/ Goes(t) \/ Leaves(t) \/ Returns(t)
  BY <1>2 DEF Opens, Closes, Goes, Leaves, Returns
<1>3. CASE Begins(t) \/ Finishes(t) \/ Shrugs(t) \/ Removes(t) \/ Moves(t)
  BY <1>3 DEF Begins, Finishes, Shrugs, Removes, Moves
<1>4. CASE Locks(t)
  BY <1>4 DEF Locks, LockNext
<1>5. CASE Caches(t) \/ Starts(t)
  BY <1>5 DEF Caches, Starts
<1>6. QED
  BY <1>1, <1>2, <1>3, <1>4, <1>5 DEF Advances

LEMMA NextIInv == IInv /\ [ConversionsNext]_conversionVars => IInv'
<1> SUFFICES ASSUME IInv, [ConversionsNext]_conversionVars PROVE IInv'
  OBVIOUS
<1>1. CASE \E t \in Threads : Advances(t)
  BY <1>1, StepsOfLock, LockStepIInv
<1>2. CASE CleansUp \/ Rests \/ UNCHANGED conversionVars
  <2>1. UNCHANGED lockVars
    BY <1>2 DEF CleansUp, Rests, conversionVars
  <2>2. QED
    BY <2>1, LockStepIInv
<1>3. CASE Dies
  BY <1>3, DiesIInv
<1>4. QED
  BY <1>1, <1>2, <1>3 DEF ConversionsNext

\* Whatever functions the threads of a process run, whichever of their steps fail and
\* whenever the process dies: of those that lock a path one at a time works on it, while
\* the maps of the lock are used by one thread at a time (tilerhelper.cpp:139-242).
THEOREM ConversionsExclude == ConversionsSpec => []LocksExclude
<1>1. ConversionsInit => IInv
  BY InitIInv DEF ConversionsInit
<1>2. IInv /\ [ConversionsNext]_conversionVars => IInv'
  BY NextIInv
<1>3. QED
  BY <1>1, <1>2, IInvExcludes, PTL DEF ConversionsSpec

------------------------------------------------------------------------------
(***************************************************************************)
(* Each thread goes through its program as Flows says that a run does.        *)
(***************************************************************************)
\* A run as a thread of the process sees it.
Sees(t, alone, files) == {f \in Names \ Shared(alone) : Place(t, f) \in files}
Blame(t) == IF faults[t] = 0 THEN "none" ELSE IF faults[t] = 1 THEN first[t] ELSE "more"
View(t, alone) ==
  Run(held[t], Sees(t, alone, whole), Sees(t, alone, partial), Blame(t), had[t] \ Shared(alone))

\* Where a thread is, what it runs, and what the variables are.
ControlInv ==
  /\ prog \in [Threads -> Programs]
  /\ pc \in [Threads -> Nat]
  /\ now = [t \in Threads |-> IF pc[t] = 0 THEN Idle ELSE Code[prog[t]][pc[t]]]
  /\ outcome \in [Threads -> {"idle", "running", "returned", "thrown", "died"}]
  /\ faults \in [Threads -> 0 .. 2]
  /\ runs \in [Threads -> Nat]
  /\ DOMAIN held = Threads /\ DOMAIN first = Threads /\ DOMAIN had = Threads
  /\ \A t \in Threads :
       /\ outcome[t] = "running" <=> pc[t] > 0
       /\ pc[t] = 0 \/ pc[t] \in DOMAIN Code[prog[t]]
       /\ (faults[t] = 0 <=> first[t] = "none") /\ first[t] # "more"
       /\ outcome[t] # "idle" => runs[t] > 0
       /\ had[t] \subseteq Outputs(prog[t]) \union Temps

\* Files have the names that functions use, and are complete or not.
DiskInv ==
  /\ whole \intersect partial = {}
  /\ whole \union partial \subseteq {Place(t, f) : t \in Threads, f \in Names}

\* A run is in a state that is reached; what it owes holds when it has ended.
Sound(t, alone) ==
  /\ outcome[t] = "running" => View(t, alone) \in Reached[prog[t]][alone][pc[t]]
  /\ outcome[t] # "running"
     => <<Sees(t, alone, whole), Sees(t, alone, partial)>> \in Found(prog[t], alone)
  /\ outcome[t] = "returned" => ReturnsWell(prog[t], View(t, alone))
  /\ outcome[t] = "thrown" => ThrowsWell(prog[t], View(t, alone))
FlowInv == \A t \in Threads, alone \in BOOLEAN : (alone => Alone(t)) => Sound(t, alone)

FlowsInv == ControlInv /\ DiskInv /\ FlowInv

------------------------------------------------------------------------------
LEMMA Places ==
  ASSUME NEW t, NEW u, NEW f, NEW g, Place(t, f) = Place(u, g)
  PROVE  f = g /\ (f \notin Cached => t = u)
BY DEF Place

LEMMA SeesLess ==
  ASSUME NEW t, NEW alone \in BOOLEAN, NEW S, NEW f
  PROVE  Sees(t, alone, S \ {Place(t, f)}) = (Sees(t, alone, S) \ {f}) \ Shared(alone)
BY Places DEF Sees

LEMMA SeesMore ==
  ASSUME NEW t, NEW alone \in BOOLEAN, NEW S, NEW f \in Names
  PROVE  Sees(t, alone, S \union {Place(t, f)}) = (Sees(t, alone, S) \union {f}) \ Shared(alone)
BY Places DEF Sees

LEMMA SeesMoved ==
  ASSUME NEW t, NEW alone \in BOOLEAN, NEW S, NEW f \in Names, NEW g \in Names,
         f \in Shared(alone) => g \in Shared(alone)
  PROVE  Sees(t, alone, Moved(S, Place(t, f), Place(t, g)))
         = Renamed(Sees(t, alone, S), f, g) \ Shared(alone)
BY Places DEF Sees, Moved, Renamed

LEMMA SeesThere ==
  ASSUME NEW t, NEW alone \in BOOLEAN, NEW f \in Names
  PROVE  There(t, f) \in MayBe(f, View(t, alone), alone)
<1>1. f \notin Shared(alone)
      => (There(t, f) <=> f \in Sees(t, alone, whole) \union Sees(t, alone, partial))
  BY DEF Sees, There
<1>2. View(t, alone).whole = Sees(t, alone, whole)
      /\ View(t, alone).partial = Sees(t, alone, partial)
  BY DEF View, Run
<1>3. There(t, f) \in BOOLEAN
  BY DEF There
<1>4. QED
  BY <1>1, <1>2, <1>3 DEF MayBe

\* What a step of a thread leaves alone.
Local(t) ==
  /\ UNCHANGED <<prog, had, runs>>
  /\ DOMAIN held' = Threads /\ DOMAIN first' = Threads
  /\ faults' \in [Threads -> 0 .. 2] /\ (faults'[t] = 0 <=> first'[t] = "none") /\ first'[t] # "more"
  /\ \A u \in Threads \ {t} :
       held'[u] = held[u] /\ first'[u] = first[u] /\ faults'[u] = faults[u]
  /\ whole' \intersect partial' = {}
  /\ whole' \union partial' \subseteq {Place(u, f) : u \in Threads, f \in Names}
  /\ \A u \in Threads \ {t}, f \in Names \ Cached :
       (Place(u, f) \in whole' <=> Place(u, f) \in whole)
       /\ (Place(u, f) \in partial' <=> Place(u, f) \in partial)

\* A step goes on as Flows says, or ends the run.
GoesOn(t) ==
  \E k : /\ GoTo(t, k) /\ outcome' = outcome
         /\ \A alone \in BOOLEAN :
              <<k, View(t, alone)'>> \in After(now[t], View(t, alone), alone)
ReturnsNow(t) ==
  /\ now[t].do = "return" /\ Ends(t, "returned")
  /\ \A alone \in BOOLEAN : View(t, alone)' = Closed(now[t], View(t, alone))
ThrowsNow(t) ==
  /\ MayThrow(now[t]) /\ now[t].handler = 0 /\ Ends(t, "thrown")
  /\ \A alone \in BOOLEAN : View(t, alone)' = Thrown(now[t], View(t, alone))
RunStep(t) ==
  outcome[t] = "running" /\ Local(t) /\ (GoesOn(t) \/ ReturnsNow(t) \/ ThrowsNow(t))

LEMMA IsRunning ==
  ASSUME ControlInv, NEW t \in Threads, now[t].do # "idle"
  PROVE  /\ outcome[t] = "running"
         /\ pc[t] \in DOMAIN Code[prog[t]] /\ now[t] = Code[prog[t]][pc[t]]
         /\ prog[t] \in Programs
<1>1. now[t] = IF pc[t] = 0 THEN Idle ELSE Code[prog[t]][pc[t]]
  BY DEF ControlInv
<1>2. Idle.do = "idle"
  BY DEF Idle, Step
<1>3. pc[t] # 0 /\ pc[t] \in Nat
  BY <1>1, <1>2 DEF ControlInv
<1>4. now[t] = Code[prog[t]][pc[t]] /\ pc[t] > 0
  BY <1>1, <1>3
<1>5. QED
  BY <1>3, <1>4 DEF ControlInv

LEMMA NameOfStep ==
  ASSUME ControlInv, NEW t \in Threads, now[t].do \in FileKinds
  PROVE  now[t].on \in Names
<1>1. now[t].do # "idle"
  BY DEF FileKinds
<1>2. now[t].on \in Named(prog[t])
  BY <1>1, IsRunning DEF Named
<1>3. QED
  BY <1>1, <1>2, IsRunning DEF Names

LEMMA NamesOfMove ==
  ASSUME ControlInv, NEW t \in Threads, now[t].do \in {"move", "aside"}
  PROVE  /\ now[t].on \in Names /\ now[t].to \in Names
         /\ \A alone \in BOOLEAN : now[t].on \in Shared(alone) => now[t].to \in Shared(alone)
<1>1. now[t].do # "idle" /\ now[t].do \in FileKinds
  BY DEF FileKinds
<1>2. now[t].to \in Named(prog[t])
  BY <1>1, IsRunning DEF Named
<1>3. now[t].to \in Names
  BY <1>1, <1>2, IsRunning DEF Names
<1>4. QED
  BY <1>1, <1>3, NameOfStep, IsRunning, NamesOK

------------------------------------------------------------------------------
\* What failed, as a run sees it.
LEMMA FaultStays ==
  ASSUME ControlInv, NEW t \in Threads, UNCHANGED <<first, faults>>
  PROVE  /\ Blame(t)' = Blame(t)
         /\ DOMAIN first' = Threads /\ faults' \in [Threads -> 0 .. 2]
         /\ (faults'[t] = 0 <=> first'[t] = "none") /\ first'[t] # "more"
         /\ \A u \in Threads \ {t} : first'[u] = first[u] /\ faults'[u] = faults[u]
BY DEF ControlInv, Blame

LEMMA Blameless ==
  ASSUME ControlInv, NEW t \in Threads
  PROVE  Blame(t) = "none" <=> faults[t] = 0
BY DEF ControlInv, Blame

LEMMA FaultAdded ==
  ASSUME ControlInv, NEW t \in Threads, NEW what, what \notin {"none", "more"}, Failed(t, what)
  PROVE  /\ Blame(t)' = (IF Blame(t) = "none" THEN what ELSE "more")
         /\ DOMAIN first' = Threads /\ faults' \in [Threads -> 0 .. 2]
         /\ (faults'[t] = 0 <=> first'[t] = "none") /\ first'[t] # "more"
         /\ \A u \in Threads \ {t} : first'[u] = first[u] /\ faults'[u] = faults[u]
<1>1. faults[t] \in 0 .. 2 /\ (faults[t] = 0 <=> first[t] = "none") /\ first[t] # "more"
      /\ faults \in [Threads -> 0 .. 2] /\ DOMAIN first = Threads
  BY DEF ControlInv
<1>2. faults'[t] = (IF faults[t] + 1 < 2 THEN faults[t] + 1 ELSE 2)
      /\ faults' = [faults EXCEPT ![t] = faults'[t]]
  BY <1>1 DEF Failed, Least
<1>3. first'[t] = (IF first[t] = "none" THEN what ELSE first[t])
      /\ first' = [first EXCEPT ![t] = first'[t]]
  BY <1>1 DEF Failed
<1>4. faults'[t] \in 0 .. 2 /\ faults'[t] # 0 /\ (faults'[t] = 1 <=> faults[t] = 0)
  <2>1. faults[t] = 0 \/ faults[t] = 1 \/ faults[t] = 2
    BY <1>1
  <2>2. QED
    BY <1>2, <2>1
<1>5. first'[t] \notin {"none", "more"}
  BY <1>1, <1>3
<1>6. faults' \in [Threads -> 0 .. 2] /\ DOMAIN first' = Threads
      /\ \A u \in Threads \ {t} : first'[u] = first[u] /\ faults'[u] = faults[u]
  BY <1>1, <1>2, <1>3, <1>4
<1>7. Blame(t)' = IF faults'[t] = 1 THEN first'[t] ELSE "more"
  BY <1>4 DEF Blame
<1>8. Blame(t)' = (IF Blame(t) = "none" THEN what ELSE "more")
  BY <1>1, <1>3, <1>4, <1>7, Blameless
<1>9. QED
  BY <1>4, <1>5, <1>6, <1>8

\* A step that leaves the files alone is local if it is so to the handles and faults.
LEMMA QuietLocal ==
  ASSUME ControlInv, DiskInv, NEW t \in Threads,
         UNCHANGED <<prog, had, runs, whole, partial>>,
         held' = held \/ \E h : held' = [held EXCEPT ![t] = h],
         DOMAIN first' = Threads, faults' \in [Threads -> 0 .. 2],
         (faults'[t] = 0 <=> first'[t] = "none") /\ first'[t] # "more",
         \A u \in Threads \ {t} : first'[u] = first[u] /\ faults'[u] = faults[u]
  PROVE  Local(t)
<1>1. DOMAIN held' = Threads /\ \A u \in Threads \ {t} : held'[u] = held[u]
  BY DEF ControlInv
<1>2. whole' \intersect partial' = {}
      /\ whole' \union partial' \subseteq {Place(u, f) : u \in Threads, f \in Names}
  BY DEF DiskInv
<1>3. QED
  BY <1>1, <1>2 DEF Local

\* What a thread sees then.
LEMMA QuietView ==
  ASSUME NEW t \in Threads, NEW alone \in BOOLEAN, UNCHANGED <<prog, had, runs, whole, partial>>
  PROVE  View(t, alone)' = Run(held'[t], Sees(t, alone, whole), Sees(t, alone, partial),
                               Blame(t)', had[t] \ Shared(alone))
BY DEF View, Sees

\* What steps make of a run.
LEMMA Runs ==
  ASSUME NEW h, NEW w, NEW q, NEW b, NEW d
  PROVE  /\ \A c : Opened(c, Run(h, w, q, b, d)) = Run(h \union {c.on}, w, q, b, d)
         /\ \A c : Closed(c, Run(h, w, q, b, d)) = Run(h \ c.closes, w, q, b, d)
         /\ \A kind : Blamed(Run(h, w, q, b, d), kind)
                      = Run(h, w, q, IF b = "none" THEN kind ELSE "more", d)
         /\ \A x, y, alone : With(Run(h, w, q, b, d), x, y, alone)
                      = Run(h, x \ Shared(alone), y \ Shared(alone), b, d)
         /\ Run(h, w, q, b, d).held = h /\ Run(h, w, q, b, d).whole = w
         /\ Run(h, w, q, b, d).partial = q /\ Run(h, w, q, b, d).blame = b
         /\ Run(h, w, q, b, d).had = d
<1>1. /\ Run(h, w, q, b, d).held = h /\ Run(h, w, q, b, d).whole = w
      /\ Run(h, w, q, b, d).partial = q /\ Run(h, w, q, b, d).blame = b
      /\ Run(h, w, q, b, d).had = d
  BY DEF Run
<1>2. \A c : Opened(c, Run(h, w, q, b, d)) = Run(h \union {c.on}, w, q, b, d)
  BY DEF Run, Opened
<1>3. \A c : Closed(c, Run(h, w, q, b, d)) = Run(h \ c.closes, w, q, b, d)
  BY DEF Run, Closed
<1>4. \A kind : Blamed(Run(h, w, q, b, d), kind)
               = Run(h, w, q, IF b = "none" THEN kind ELSE "more", d)
  BY DEF Run, Blamed
<1>5. \A x, y, alone : With(Run(h, w, q, b, d), x, y, alone)
               = Run(h, x \ Shared(alone), y \ Shared(alone), b, d)
  BY <1>1 DEF With
<1>6. QED
  BY <1>1, <1>2, <1>3, <1>4, <1>5

LEMMA OpensStep ==
  ASSUME ControlInv, DiskInv, NEW t \in Threads, Opens(t)
  PROVE  RunStep(t)
<1>1. now[t].do # "idle" /\ UNCHANGED <<prog, had, runs, whole, partial>> /\ On(t)
      /\ held' = [held EXCEPT ![t] = held[t] \union {now[t].on}]
  BY DEF Opens, Is, diskVars, runVars
<1>2. outcome[t] = "running" /\ held'[t] = held[t] \union {now[t].on}
  BY <1>1, IsRunning DEF ControlInv
<1>3. UNCHANGED <<first, faults>> /\ GoTo(t, 1) /\ outcome' = outcome
  BY <1>1 DEF On
<1>4. Local(t) /\ Blame(t)' = Blame(t)
  BY <1>1, <1>3, FaultStays, QuietLocal
<1>5. ASSUME NEW alone \in BOOLEAN
      PROVE  <<1, View(t, alone)'>> \in After(now[t], View(t, alone), alone)
  <2>1. View(t, alone)' = Opened(now[t], View(t, alone))
    BY <1>1, <1>2, <1>4, QuietView, Runs DEF View
  <2>2. now[t].do \in {"open", "take"}
    BY DEF Opens, Is
  <2>3. QED
    BY <2>1, <2>2 DEF After, Passes, QuietKinds
<1>6. QED
  BY <1>2, <1>3, <1>4, <1>5 DEF RunStep, GoesOn

LEMMA ClosesStep ==
  ASSUME ControlInv, DiskInv, NEW t \in Threads, Closes(t) \/ Leaves(t)
  PROVE  RunStep(t)
<1> DEFINE n == IF now[t].do = "close" THEN 1 ELSE now[t].skip
<1>1. now[t].do \in {"close", "leave"} /\ UNCHANGED <<prog, had, runs, whole, partial>> /\ GoTo(t, n)
      /\ held' = [held EXCEPT ![t] = held[t] \ now[t].closes]
      /\ UNCHANGED <<first, faults>> /\ outcome' = outcome
  BY DEF Closes, Leaves, Is, On, diskVars, runVars
<1>2. outcome[t] = "running" /\ held'[t] = held[t] \ now[t].closes
  BY <1>1, IsRunning DEF ControlInv
<1>4. Local(t) /\ Blame(t)' = Blame(t)
  BY <1>1, FaultStays, QuietLocal
<1>5. ASSUME NEW alone \in BOOLEAN
      PROVE  <<n, View(t, alone)'>> \in After(now[t], View(t, alone), alone)
  <2>1. View(t, alone)' = Closed(now[t], View(t, alone))
    BY <1>1, <1>2, <1>4, QuietView, Runs DEF View
  <2>2. QED
    BY <1>1, <2>1 DEF After, Passes, QuietKinds
<1>6. QED
  BY <1>1, <1>2, <1>4, <1>5 DEF RunStep, GoesOn

LEMMA GoesStep ==
  ASSUME ControlInv, DiskInv, NEW t \in Threads, Goes(t)
  PROVE  RunStep(t)
<1>1. now[t].do \in {"may", "fork", "jump", "there", "missing"}
      /\ UNCHANGED <<prog, had, runs, whole, partial>> /\ held' = held
      /\ UNCHANGED <<first, faults>> /\ outcome' = outcome
  BY DEF Goes, Is, diskVars, runVars
<1>2. outcome[t] = "running"
  BY <1>1, IsRunning
<1>3. Local(t) /\ Blame(t)' = Blame(t)
  BY <1>1, FaultStays, QuietLocal
<1>4. \A alone \in BOOLEAN : View(t, alone)' = View(t, alone)
  BY <1>1, <1>3, QuietView DEF View
<1>5. PICK k : /\ GoTo(t, k)
               /\ \/ now[t].do \in {"may", "fork"} /\ k = 1
                  \/ now[t].do \in {"fork", "jump"} /\ k = now[t].skip
                  \/ now[t].do = "there" /\ k = IF There(t, now[t].on) THEN 1 ELSE now[t].skip
                  \/ now[t].do = "missing" /\ k = IF There(t, now[t].on) THEN now[t].skip ELSE 1
  BY DEF Goes, Is
<1>6. ASSUME NEW alone \in BOOLEAN
      PROVE  <<k, View(t, alone)>> \in After(now[t], View(t, alone), alone)
  <2>1. CASE now[t].do \in {"may", "fork", "jump"}
    BY <1>5, <2>1 DEF After, Passes, QuietKinds
  <2>2. CASE now[t].do \in {"there", "missing"}
    <3>1. now[t].on \in Names
      BY <2>2, NameOfStep DEF FileKinds
    <3>2. There(t, now[t].on) \in MayBe(now[t].on, View(t, alone), alone)
      BY <3>1, SeesThere
    <3>3. QED
      BY <1>5, <2>2, <3>2 DEF After, Passes, QuietKinds
  <2>3. QED
    BY <1>1, <2>1, <2>2
<1>7. QED
  BY <1>1, <1>2, <1>3, <1>4, <1>5, <1>6 DEF RunStep, GoesOn

LEMMA ReturnsStep ==
  ASSUME ControlInv, DiskInv, NEW t \in Threads, Returns(t)
  PROVE  RunStep(t)
<1>1. now[t].do = "return" /\ UNCHANGED <<prog, had, runs, whole, partial>> /\ Ends(t, "returned")
      /\ held' = [held EXCEPT ![t] = held[t] \ now[t].closes] /\ UNCHANGED <<first, faults>>
  BY DEF Returns, Is, diskVars, runVars
<1>2. outcome[t] = "running" /\ held'[t] = held[t] \ now[t].closes
  BY <1>1, IsRunning DEF ControlInv
<1>3. Local(t) /\ Blame(t)' = Blame(t)
  BY <1>1, FaultStays, QuietLocal
<1>4. \A alone \in BOOLEAN : View(t, alone)' = Closed(now[t], View(t, alone))
  BY <1>1, <1>2, <1>3, QuietView, Runs DEF View
<1>5. QED
  BY <1>1, <1>2, <1>3, <1>4 DEF RunStep, ReturnsNow

LEMMA ThrowsStep ==
  ASSUME ControlInv, DiskInv, NEW t \in Threads, Throws(t)
  PROVE  RunStep(t)
<1>1. now[t].do \in {"open", "may", "fail", "finish", "drop", "move", "aside"}
      /\ UNCHANGED <<prog, had, runs, whole, partial>>
      /\ held' = [held EXCEPT ![t] = held[t] \ now[t].closes]
  BY DEF Throws, Throw, MayThrow, diskVars, runVars
<1>2. outcome[t] = "running" /\ held'[t] = held[t] \ now[t].closes
  BY <1>1, IsRunning DEF ControlInv
<1>3. Local(t) /\ Blame(t)' = IF now[t].do = "fail" /\ Blame(t) # "none" THEN Blame(t)
                              ELSE IF Blame(t) = "none" THEN now[t].do ELSE "more"
  <2>1. CASE now[t].do = "fail" /\ faults[t] > 0
    <3>1. UNCHANGED <<first, faults>> /\ Blame(t) # "none"
      BY <2>1, Blameless DEF Throws, Throw
    <3>2. QED
      BY <1>1, <2>1, <3>1, FaultStays, QuietLocal
  <2>2. CASE ~(now[t].do = "fail" /\ faults[t] > 0)
    <3>1. Failed(t, now[t].do) /\ ~(now[t].do = "fail" /\ Blame(t) # "none")
      BY <2>2, Blameless DEF Throws, Throw, ControlInv
    <3>2. now[t].do \notin {"none", "more"}
      BY <1>1
    <3>3. QED
      BY <1>1, <3>1, <3>2, FaultAdded, QuietLocal
  <2>3. QED
    BY <2>1, <2>2
<1>4. ASSUME NEW alone \in BOOLEAN
      PROVE  View(t, alone)' = Thrown(now[t], View(t, alone))
  <2> DEFINE s == View(t, alone)
  <2>1. Closed(now[t], s) = Run(held'[t], Sees(t, alone, whole), Sees(t, alone, partial),
                                Blame(t), had[t] \ Shared(alone))
        /\ s.blame = Blame(t)
    BY <1>2, Runs DEF View
  <2>2. View(t, alone)' = Run(held'[t], Sees(t, alone, whole), Sees(t, alone, partial),
                              Blame(t)', had[t] \ Shared(alone))
    BY <1>1, QuietView
  <2>3. CASE now[t].do = "fail" /\ Blame(t) # "none"
    BY <1>3, <2>1, <2>2, <2>3 DEF Thrown
  <2>4. CASE ~(now[t].do = "fail" /\ Blame(t) # "none")
    BY <1>3, <2>1, <2>2, <2>4, Runs DEF Thrown
  <2>5. QED
    BY <2>3, <2>4
<1>5. CASE now[t].handler = 0
  BY <1>2, <1>3, <1>4, <1>5 DEF RunStep, ThrowsNow, Throws, Throw
<1>6. CASE now[t].handler # 0
  <2>1. GoTo(t, now[t].handler) /\ outcome' = outcome /\ MayThrow(now[t])
    BY <1>6 DEF Throws, Throw
  <2>2. \A alone \in BOOLEAN :
          <<now[t].handler, View(t, alone)'>> \in After(now[t], View(t, alone), alone)
    BY <1>4, <1>6, <2>1 DEF After
  <2>3. QED
    BY <1>2, <1>3, <2>1, <2>2 DEF RunStep, GoesOn
<1>7. QED
  BY <1>5, <1>6

\* A step at one file, or from one to another, is local.
LEMMA DiskLocal ==
  ASSUME ControlInv, DiskInv, NEW t \in Threads, NEW f \in Names, NEW g \in Names,
         UNCHANGED <<prog, had, runs, held, first, faults>>,
         \A x : x \notin {Place(t, f), Place(t, g)}
                => (x \in whole' <=> x \in whole) /\ (x \in partial' <=> x \in partial),
         whole' \intersect partial' = {}
  PROVE  Local(t)
<1>1. whole' \union partial' \subseteq {Place(u, n) : u \in Threads, n \in Names}
  BY DEF DiskInv
<1>2. \A u \in Threads \ {t}, n \in Names \ Cached : Place(u, n) \notin {Place(t, f), Place(t, g)}
  BY Places
<1>3. faults' \in [Threads -> 0 .. 2] /\ (faults'[t] = 0 <=> first'[t] = "none") /\ first'[t] # "more"
      /\ DOMAIN held' = Threads /\ DOMAIN first' = Threads
  BY DEF ControlInv
<1>4. QED
  BY <1>1, <1>2, <1>3 DEF Local

LEMMA DiskView ==
  ASSUME NEW t \in Threads, NEW alone \in BOOLEAN, UNCHANGED <<had, held, first, faults>>
  PROVE  View(t, alone)' = Run(held[t], Sees(t, alone, whole'), Sees(t, alone, partial'),
                               Blame(t), had[t] \ Shared(alone))
BY DEF View, Sees, Blame

LEMMA FileSteps ==
  ASSUME NEW t \in Threads, NEW alone \in BOOLEAN, NEW f \in Names
  PROVE  LET Stood(w, q) == Run(held[t], w, q, Blame(t), had[t] \ Shared(alone))
             p == Place(t, f)
         IN /\ Torn(View(t, alone), f, alone)
               = Stood(Sees(t, alone, whole \ {p}), Sees(t, alone, partial \union {p}))
            /\ Completed(View(t, alone), f, alone)
               = Stood(Sees(t, alone, whole \union {p}), Sees(t, alone, partial \ {p}))
            /\ Gone(View(t, alone), f, alone)
               = Stood(Sees(t, alone, whole \ {p}), Sees(t, alone, partial \ {p}))
<1> DEFINE v == View(t, alone)
           p == Place(t, f)
           W == Sees(t, alone, whole)
           Q == Sees(t, alone, partial)
<1>1. /\ Sees(t, alone, whole \ {p}) = (W \ {f}) \ Shared(alone)
      /\ Sees(t, alone, partial \ {p}) = (Q \ {f}) \ Shared(alone)
      /\ Sees(t, alone, whole \union {p}) = (W \union {f}) \ Shared(alone)
      /\ Sees(t, alone, partial \union {p}) = (Q \union {f}) \ Shared(alone)
  BY SeesLess, SeesMore
<1>2. v.whole = W /\ v.partial = Q
  BY Runs DEF View
<1>3. \A w, q : With(v, w, q, alone)
                = Run(held[t], w \ Shared(alone), q \ Shared(alone), Blame(t), had[t] \ Shared(alone))
  BY Runs DEF View
<1>4. QED
  BY <1>1, <1>2, <1>3 DEF Torn, Completed, Gone

LEMMA BeginsStep ==
  ASSUME ControlInv, DiskInv, NEW t \in Threads, Begins(t) \/ Removes(t) \/ Finishes(t)
  PROVE  RunStep(t)
<1> DEFINE f == now[t].on
           p == Place(t, f)
<1>1. now[t].do \in {"begin", "drop", "shed", "finish", "settle"} /\ GoTo(t, 1) /\ outcome' = outcome
      /\ UNCHANGED <<prog, had, runs, held, first, faults>>
  BY DEF Begins, Removes, Finishes, Is, On, runVars
<1>2. outcome[t] = "running" /\ f \in Names
  BY <1>1, IsRunning, NameOfStep DEF FileKinds
<1>3. \/ now[t].do = "begin" /\ whole' = whole \ {p} /\ partial' = partial \union {p}
      \/ now[t].do \in {"drop", "shed"} /\ whole' = whole \ {p} /\ partial' = partial \ {p}
      \/ now[t].do \in {"finish", "settle"} /\ There(t, f)
         /\ whole' = whole \union {p} /\ partial' = partial \ {p}
  BY DEF Begins, Removes, Finishes, Is
<1>4. \A x : x \notin {p} => (x \in whole' <=> x \in whole) /\ (x \in partial' <=> x \in partial)
  BY <1>3
<1>5. whole' \intersect partial' = {}
  BY <1>3 DEF DiskInv
<1>6. Local(t)
  BY <1>1, <1>2, <1>4, <1>5, DiskLocal
<1>7. ASSUME NEW alone \in BOOLEAN
      PROVE  <<1, View(t, alone)'>> \in After(now[t], View(t, alone), alone)
  <2> DEFINE v == View(t, alone)
  <2>1. View(t, alone)' = Run(held[t], Sees(t, alone, whole'), Sees(t, alone, partial'),
                              Blame(t), had[t] \ Shared(alone))
    BY <1>1, DiskView
  <2>2. CASE now[t].do = "begin"
    <3>1. View(t, alone)' = Torn(v, f, alone)
      BY <1>2, <1>3, <2>1, <2>2, FileSteps
    <3>2. QED
      BY <2>2, <3>1 DEF After, Passes, QuietKinds
  <2>3. CASE now[t].do \in {"drop", "shed"}
    <3>1. View(t, alone)' = Gone(v, f, alone)
      BY <1>2, <1>3, <2>1, <2>3, FileSteps
    <3>2. QED
      BY <2>3, <3>1 DEF After, Passes, QuietKinds
  <2>4. CASE now[t].do \in {"finish", "settle"}
    <3>1. View(t, alone)' = Completed(v, f, alone)
      BY <1>2, <1>3, <2>1, <2>4, FileSteps
    <3>2. TRUE \in MayBe(f, v, alone)
      BY <1>2, <1>3, <2>4, SeesThere DEF There, MayBe
    <3>3. QED
      BY <2>4, <3>1, <3>2 DEF After, Passes, QuietKinds
  <2>5. QED
    BY <1>1, <2>2, <2>3, <2>4
<1>8. QED
  BY <1>1, <1>2, <1>6, <1>7 DEF RunStep, GoesOn

LEMMA ShrugsStep ==
  ASSUME ControlInv, DiskInv, NEW t \in Threads, Shrugs(t)
  PROVE  RunStep(t)
<1>1. now[t].do \in {"settle", "finish", "shed"} /\ GoTo(t, 1) /\ outcome' = outcome
      /\ UNCHANGED <<prog, had, runs, whole, partial>> /\ held' = held
  BY DEF Shrugs, Is, On, runVars, diskVars
<1>2. outcome[t] = "running" /\ now[t].on \in Names
  BY <1>1, IsRunning, NameOfStep DEF FileKinds
<1>3. CASE now[t].do # "shed"
  <2>1. UNCHANGED <<first, faults>> /\ (now[t].do = "finish" => ~There(t, now[t].on))
    BY <1>1, <1>3 DEF Shrugs, Is, On
  <2>2. Local(t) /\ Blame(t)' = Blame(t)
    BY <1>1, <2>1, FaultStays, QuietLocal
  <2>3. \A alone \in BOOLEAN : View(t, alone)' = View(t, alone)
    BY <1>1, <2>2, QuietView DEF View
  <2>4. ASSUME NEW alone \in BOOLEAN
        PROVE  <<1, View(t, alone)>> \in After(now[t], View(t, alone), alone)
    <3>1. now[t].do = "finish" => FALSE \in MayBe(now[t].on, View(t, alone), alone)
      BY <1>2, <2>1, SeesThere DEF MayBe, There
    <3>2. QED
      BY <1>1, <1>3, <3>1 DEF After, Passes, QuietKinds
  <2>5. QED
    BY <1>1, <1>2, <2>2, <2>3, <2>4 DEF RunStep, GoesOn
<1>4. CASE now[t].do = "shed"
  <2>1. Failed(t, "shed")
    BY <1>4 DEF Shrugs, Is
  <2>2. Local(t) /\ Blame(t)' = (IF Blame(t) = "none" THEN "shed" ELSE "more")
    BY <1>1, <2>1, FaultAdded, QuietLocal
  <2>3. \A alone \in BOOLEAN : View(t, alone)' = Blamed(View(t, alone), "shed")
    BY <1>1, <2>2, QuietView, Runs DEF View
  <2>4. \A alone \in BOOLEAN :
          <<1, View(t, alone)'>> \in After(now[t], View(t, alone), alone)
    BY <1>4, <2>3 DEF After, Passes, QuietKinds
  <2>5. QED
    BY <1>1, <1>2, <2>2, <2>4 DEF RunStep, GoesOn
<1>5. QED
  BY <1>3, <1>4

LEMMA MovesStep ==
  ASSUME ControlInv, DiskInv, NEW t \in Threads, Moves(t)
  PROVE  RunStep(t)
<1> DEFINE f == now[t].on
           g == now[t].to
           p == Place(t, f)
           r == Place(t, g)
<1>1. now[t].do \in {"move", "aside"} /\ GoTo(t, 1) /\ outcome' = outcome
      /\ UNCHANGED <<prog, had, runs, held, first, faults>> /\ There(t, f)
      /\ whole' = Moved(whole, p, r) /\ partial' = Moved(partial, p, r)
  BY DEF Moves, Is, On, runVars
<1>2. outcome[t] = "running" /\ f \in Names /\ g \in Names
      /\ \A alone \in BOOLEAN : f \in Shared(alone) => g \in Shared(alone)
  BY <1>1, IsRunning, NamesOfMove
<1>3. \A x : x \notin {p, r} => (x \in whole' <=> x \in whole) /\ (x \in partial' <=> x \in partial)
  BY <1>1 DEF Moved
<1>4. whole' \intersect partial' = {}
  BY <1>1 DEF DiskInv, Moved
<1>5. Local(t)
  BY <1>1, <1>2, <1>3, <1>4, DiskLocal
<1>6. ASSUME NEW alone \in BOOLEAN
      PROVE  <<1, View(t, alone)'>> \in After(now[t], View(t, alone), alone)
  <2> DEFINE v == View(t, alone)
  <2>1. View(t, alone)' = Run(held[t], Sees(t, alone, whole'), Sees(t, alone, partial'),
                              Blame(t), had[t] \ Shared(alone))
    BY <1>1, DiskView
  <2>2. Sees(t, alone, whole') = Renamed(Sees(t, alone, whole), f, g) \ Shared(alone)
        /\ Sees(t, alone, partial') = Renamed(Sees(t, alone, partial), f, g) \ Shared(alone)
    BY <1>1, <1>2, SeesMoved
  <2>3. v.whole = Sees(t, alone, whole) /\ v.partial = Sees(t, alone, partial)
    BY Runs DEF View
  <2>4. View(t, alone)' = With(v, Renamed(v.whole, f, g), Renamed(v.partial, f, g), alone)
    BY <2>1, <2>2, <2>3, Runs DEF View
  <2>5. TRUE \in MayBe(f, v, alone) \ {FALSE}
    BY <1>1, <1>2, SeesThere DEF There, MayBe
  <2>6. QED
    BY <1>1, <2>4, <2>5 DEF After, Passes, QuietKinds
<1>7. QED
  BY <1>1, <1>2, <1>5, <1>6 DEF RunStep, GoesOn

LEMMA LocksStep ==
  ASSUME ControlInv, DiskInv, NEW t \in Threads, Locks(t) \/ Caches(t)
  PROVE  RunStep(t)
<1>1. now[t].do \in QuietKinds /\ now[t].do # "idle" /\ GoTo(t, 1) /\ outcome' = outcome
      /\ UNCHANGED <<prog, had, runs, whole, partial>> /\ held' = held
      /\ UNCHANGED <<first, faults>>
  BY DEF Locks, Caches, Is, On, runVars, diskVars, QuietKinds
<1>2. outcome[t] = "running"
  BY <1>1, IsRunning
<1>3. Local(t) /\ Blame(t)' = Blame(t)
  BY <1>1, FaultStays, QuietLocal
<1>4. \A alone \in BOOLEAN : View(t, alone)' = View(t, alone)
  BY <1>1, <1>3, QuietView DEF View
<1>5. \A alone \in BOOLEAN : <<1, View(t, alone)>> \in After(now[t], View(t, alone), alone)
  BY <1>1 DEF After, Passes, QuietKinds
<1>6. QED
  BY <1>1, <1>2, <1>3, <1>4, <1>5 DEF RunStep, GoesOn

------------------------------------------------------------------------------
\* Where a run of a thread is, as Flows has it.
LEMMA InReached ==
  ASSUME FlowsInv, NEW t \in Threads, outcome[t] = "running",
         NEW alone \in BOOLEAN, alone => Alone(t)
  PROVE  /\ prog[t] \in Programs /\ pc[t] \in DOMAIN Code[prog[t]]
         /\ now[t] = Code[prog[t]][pc[t]]
         /\ View(t, alone) \in Reached[prog[t]][alone][pc[t]]
<1>1. pc[t] > 0 /\ pc[t] \in DOMAIN Code[prog[t]] /\ prog[t] \in Programs
      /\ now[t] = IF pc[t] = 0 THEN Idle ELSE Code[prog[t]][pc[t]]
  BY DEF FlowsInv, ControlInv
<1>2. now[t] = Code[prog[t]][pc[t]]
  BY <1>1
<1>3. View(t, alone) \in Reached[prog[t]][alone][pc[t]]
  BY DEF FlowsInv, FlowInv, Sound
<1>4. QED
  BY <1>1, <1>2, <1>3

\* The other threads see nothing of a step of one that runs.
LEMMA OthersSee ==
  ASSUME FlowsInv, NEW t \in Threads, Local(t), runs[t] > 0,
         NEW u \in Threads \ {t}, outcome'[u] = outcome[u], pc'[u] = pc[u],
         NEW alone \in BOOLEAN, (alone => Alone(u))'
  PROVE  Sound(u, alone)'
<1>1. runs' = runs /\ prog' = prog /\ had' = had
  BY DEF Local
<1>2. ~Alone(u) /\ alone = FALSE
  <2>1. Alone(u)' <=> Alone(u)
    BY <1>1 DEF Alone
  <2>2. runs[t] # 0 /\ t \in Threads \ {u}
    BY DEF FlowsInv, ControlInv
  <2>3. ~Alone(u)
    BY <2>2 DEF Alone
  <2>4. QED
    BY <2>1, <2>3
<1>3. Shared(alone) = Cached
  BY <1>2 DEF Shared
<1>4. Sees(u, alone, whole)' = Sees(u, alone, whole)
      /\ Sees(u, alone, partial)' = Sees(u, alone, partial)
  <2>1. \A f \in Names \ Shared(alone) :
          (Place(u, f) \in whole' <=> Place(u, f) \in whole)
          /\ (Place(u, f) \in partial' <=> Place(u, f) \in partial)
    BY <1>3 DEF Local
  <2>2. QED
    BY <2>1 DEF Sees
<1>5. View(u, alone)' = View(u, alone)
  BY <1>1, <1>4 DEF View, Blame, Local
<1>6. Sound(u, alone)
  BY <1>2 DEF FlowsInv, FlowInv
<1>7. QED
  BY <1>1, <1>4, <1>5, <1>6 DEF Sound

\* How far a run goes on.
LEMMA GoesOnIn ==
  ASSUME FlowsInv, NEW t \in Threads, outcome[t] = "running", NEW k,
         NEW alone \in BOOLEAN, alone => Alone(t),
         NEW v, <<k, v>> \in After(now[t], View(t, alone), alone)
  PROVE  /\ pc[t] + k \in DOMAIN Code[prog[t]] /\ pc[t] + k \in Nat \ {0}
         /\ v \in Reached[prog[t]][alone][pc[t] + k]
         /\ Level(prog[t], pc[t] + k) = LevelAfter(now[t], Level(prog[t], pc[t]))
<1>1. /\ prog[t] \in Programs /\ pc[t] \in DOMAIN Code[prog[t]]
      /\ now[t] = Code[prog[t]][pc[t]]
      /\ View(t, alone) \in Reached[prog[t]][alone][pc[t]]
  BY InReached
<1>2. ASSUME NEW p \in Programs, NEW n \in DOMAIN Code[p],
             NEW s \in Reached[p][alone][n], NEW w \in After(Code[p][n], s, alone)
      PROVE  /\ n + w[1] \in DOMAIN Code[p]
             /\ w[2] \in Reached[p][alone][n + w[1]]
             /\ Level(p, n + w[1]) = LevelAfter(Code[p][n], Level(p, n))
  BY FlowsGoOn
<1>3. <<k, v>>[1] = k /\ <<k, v>>[2] = v
  OBVIOUS
<1>4. /\ pc[t] + k \in DOMAIN Code[prog[t]]
      /\ v \in Reached[prog[t]][alone][pc[t] + k]
      /\ Level(prog[t], pc[t] + k) = LevelAfter(now[t], Level(prog[t], pc[t]))
  BY <1>1, <1>2, <1>3
<1>5. DOMAIN Code[prog[t]] \subseteq Nat \ {0}
  BY <1>1, FlowsBegin
<1>6. QED
  BY <1>4, <1>5

LEMMA GoesOnInv ==
  ASSUME FlowsInv, NEW t \in Threads, RunStep(t), GoesOn(t)
  PROVE  ControlInv' /\ FlowInv'
<1>1. PICK k : /\ GoTo(t, k) /\ outcome' = outcome
               /\ \A alone \in BOOLEAN :
                    <<k, View(t, alone)'>> \in After(now[t], View(t, alone), alone)
  BY DEF GoesOn
<1>2. outcome[t] = "running" /\ Local(t) /\ ControlInv
  BY DEF RunStep, FlowsInv
<1>3. \A alone \in BOOLEAN : (alone => Alone(t)) =>
        /\ pc[t] + k \in DOMAIN Code[prog[t]] /\ pc[t] + k \in Nat \ {0}
        /\ View(t, alone)' \in Reached[prog[t]][alone][pc[t] + k]
  BY <1>1, <1>2, GoesOnIn
<1>4. pc[t] + k \in DOMAIN Code[prog[t]] /\ pc[t] + k \in Nat \ {0}
  BY <1>3
<1>5. pc' = [pc EXCEPT ![t] = pc[t] + k]
      /\ now' = [now EXCEPT ![t] = Code[prog[t]][pc[t] + k]]
  BY <1>1 DEF GoTo
<1>6. ControlInv'
  <2>1. pc' \in [Threads -> Nat] /\ prog' = prog /\ had' = had /\ runs' = runs
    BY <1>2, <1>4, <1>5 DEF ControlInv, Local
  <2>2. now' = [u \in Threads |-> IF pc'[u] = 0 THEN Idle ELSE Code[prog'[u]][pc'[u]]]
    <3>1. now = [u \in Threads |-> IF pc[u] = 0 THEN Idle ELSE Code[prog[u]][pc[u]]]
          /\ pc \in [Threads -> Nat]
      BY <1>2 DEF ControlInv
    <3>2. QED
      BY <3>1, <2>1, <1>4, <1>5
  <2>3. \A u \in Threads : (outcome'[u] = "running" <=> pc'[u] > 0)
                           /\ (pc'[u] = 0 \/ pc'[u] \in DOMAIN Code[prog'[u]])
    BY <1>1, <1>2, <1>4, <1>5, <2>1 DEF ControlInv
  <2>4. \A u \in Threads : (faults'[u] = 0 <=> first'[u] = "none") /\ first'[u] # "more"
    BY <1>2 DEF ControlInv, Local
  <2>5. QED
    BY <1>1, <1>2, <2>1, <2>2, <2>3, <2>4 DEF ControlInv, Local
<1>7. FlowInv'
  <2>1. ASSUME NEW u \in Threads, NEW alone \in BOOLEAN, (alone => Alone(u))'
        PROVE  Sound(u, alone)'
    <3>1. CASE u = t
      <4>1. alone => Alone(t)
        BY <1>2, <2>1, <3>1 DEF Alone, Local
      <4>2. View(t, alone)' \in Reached[prog[t]][alone][pc'[t]]
        BY <1>2, <1>3, <1>5, <4>1 DEF ControlInv
      <4>3. QED
        BY <1>1, <1>2, <3>1, <4>2 DEF Sound, Local
    <3>2. CASE u # t
      <4>1. runs[t] > 0 /\ pc'[u] = pc[u]
        BY <1>2, <1>5, <3>2 DEF ControlInv
      <4>2. QED
        BY <1>1, <1>2, <2>1, <3>2, <4>1, OthersSee
    <3>3. QED
      BY <3>1, <3>2
  <2>2. QED
    BY <2>1 DEF FlowInv
<1>8. QED
  BY <1>6, <1>7

LEMMA EndsInv ==
  ASSUME FlowsInv, NEW t \in Threads, RunStep(t), ReturnsNow(t) \/ ThrowsNow(t)
  PROVE  ControlInv' /\ FlowInv'
<1> DEFINE how == IF ReturnsNow(t) THEN "returned" ELSE "thrown"
<1>1. outcome[t] = "running" /\ Local(t) /\ ControlInv /\ Ends(t, how) /\ how \in {"returned", "thrown"}
  BY DEF RunStep, FlowsInv, ReturnsNow, ThrowsNow
<1>2. /\ pc' = [pc EXCEPT ![t] = 0] /\ now' = [now EXCEPT ![t] = Idle]
      /\ outcome' = [outcome EXCEPT ![t] = how]
  BY <1>1 DEF Ends
<1>3. ControlInv'
  <2>1. pc' \in [Threads -> Nat] /\ prog' = prog /\ had' = had /\ runs' = runs
        /\ outcome' \in [Threads -> {"idle", "running", "returned", "thrown", "died"}]
    BY <1>1, <1>2 DEF ControlInv, Local
  <2>2. now' = [u \in Threads |-> IF pc'[u] = 0 THEN Idle ELSE Code[prog'[u]][pc'[u]]]
    <3>1. now = [u \in Threads |-> IF pc[u] = 0 THEN Idle ELSE Code[prog[u]][pc[u]]]
          /\ pc \in [Threads -> Nat]
      BY <1>1 DEF ControlInv
    <3>2. QED
      BY <3>1, <2>1, <1>2
  <2>3. \A u \in Threads : (outcome'[u] = "running" <=> pc'[u] > 0)
                           /\ (pc'[u] = 0 \/ pc'[u] \in DOMAIN Code[prog'[u]])
                           /\ (outcome'[u] # "idle" => runs'[u] > 0)
    BY <1>1, <1>2, <2>1 DEF ControlInv
  <2>4. \A u \in Threads : (faults'[u] = 0 <=> first'[u] = "none") /\ first'[u] # "more"
    BY <1>1 DEF ControlInv, Local
  <2>5. QED
    BY <1>1, <2>1, <2>2, <2>3, <2>4 DEF ControlInv, Local
<1>4. ASSUME NEW alone \in BOOLEAN, (alone => Alone(t))'
      PROVE  Sound(t, alone)'
  <2> DEFINE c == now[t]
             s == View(t, alone)
             p == prog[t]
  <2>1. alone => Alone(t)
    BY <1>1, <1>4 DEF Alone, Local
  <2>2. s \in Reached[p][alone][pc[t]] /\ p \in Programs /\ pc[t] \in DOMAIN Code[p]
        /\ c = Code[p][pc[t]]
    BY <1>1, <2>1, InReached
  <2>3. <<s.whole, s.partial>> \in Found(p, alone)
    BY <2>2, FlowsGoOn
  <2>4. s = Run(held[t], Sees(t, alone, whole), Sees(t, alone, partial), Blame(t), had[t] \ Shared(alone))
    BY DEF View
  <2>5. Closed(c, s) = Run(held[t] \ c.closes, s.whole, s.partial, s.blame, s.had)
    BY <2>4, Runs
  <2>6. View(t, alone)'.whole = s.whole /\ View(t, alone)'.partial = s.partial
    <3>1. Closed(c, s).whole = s.whole /\ Closed(c, s).partial = s.partial
      BY <2>5, Runs
    <3>2. \A kind : Blamed(Closed(c, s), kind).whole = s.whole
                    /\ Blamed(Closed(c, s), kind).partial = s.partial
      BY <2>5, Runs
    <3>3. QED
      BY <3>1, <3>2 DEF ReturnsNow, ThrowsNow, Thrown
  <2>7. View(t, alone)'.whole = Sees(t, alone, whole)'
        /\ View(t, alone)'.partial = Sees(t, alone, partial)'
    BY Runs DEF View
  <2>8. <<Sees(t, alone, whole)', Sees(t, alone, partial)'>> \in Found(p, alone)
    BY <2>3, <2>6, <2>7
  <2>9. outcome'[t] = how /\ prog' = prog
    BY <1>1, <1>2 DEF ControlInv, Local
  <2>10. CASE ReturnsNow(t)
    <3>1. ReturnsWell(p, View(t, alone)')
      BY <2>2, <2>10, FlowsEnd DEF ReturnsNow
    <3>2. QED
      BY <2>8, <2>9, <2>10, <3>1 DEF Sound
  <2>11. CASE ~ReturnsNow(t)
    <3>1. ThrowsWell(p, View(t, alone)')
      BY <2>2, <2>11, FlowsEnd DEF ThrowsNow
    <3>2. QED
      BY <2>8, <2>9, <2>11, <3>1 DEF Sound
  <2>12. QED
    BY <2>10, <2>11
<1>5. ASSUME NEW u \in Threads \ {t}, NEW alone \in BOOLEAN, (alone => Alone(u))'
      PROVE  Sound(u, alone)'
  <2>1. runs[t] > 0 /\ pc'[u] = pc[u] /\ outcome'[u] = outcome[u]
    BY <1>1, <1>2 DEF ControlInv
  <2>2. QED
    BY <1>1, <1>5, <2>1, OthersSee
<1>6. FlowInv'
  BY <1>4, <1>5 DEF FlowInv
<1>7. QED
  BY <1>3, <1>6

LEMMA RunStepInv ==
  ASSUME FlowsInv, NEW t \in Threads, RunStep(t)
  PROVE  FlowsInv'
<1>1. DiskInv'
  BY DEF RunStep, Local, DiskInv
<1>2. ControlInv' /\ FlowInv'
  BY GoesOnInv, EndsInv DEF RunStep
<1>3. QED
  BY <1>1, <1>2 DEF FlowsInv

\* Every step of a function but its first.
LEMMA AdvancesInv ==
  ASSUME FlowsInv, NEW t \in Threads, Advances(t), ~Starts(t)
  PROVE  FlowsInv'
<1>1. ControlInv /\ DiskInv
  BY DEF FlowsInv
<1>2. CASE Throws(t) \/ Opens(t) \/ Closes(t) \/ Goes(t) \/ Leaves(t) \/ Returns(t)
  BY <1>1, <1>2, ThrowsStep, OpensStep, ClosesStep, GoesStep, ReturnsStep, RunStepInv
<1>3. CASE Begins(t) \/ Finishes(t) \/ Shrugs(t) \/ Removes(t) \/ Moves(t)
  BY <1>1, <1>3, BeginsStep, ShrugsStep, MovesStep, RunStepInv
<1>4. CASE Locks(t) \/ Caches(t)
  BY <1>1, <1>4, LocksStep, RunStepInv
<1>5. QED
  BY <1>2, <1>3, <1>4 DEF Advances

\* What a thread that does not run may find, and one that runs leaves when it dies.
LEMMA AnyFound ==
  ASSUME FlowsInv, NEW t \in Threads, NEW alone \in BOOLEAN, alone => Alone(t)
  PROVE  <<Sees(t, alone, whole), Sees(t, alone, partial)>> \in Found(prog[t], alone)
<1>1. CASE outcome[t] = "running"
  <2>1. <<View(t, alone).whole, View(t, alone).partial>> \in Found(prog[t], alone)
    BY <1>1, InReached, FlowsGoOn
  <2>2. QED
    BY <2>1, Runs DEF View
<1>2. CASE outcome[t] # "running"
  BY <1>2 DEF FlowsInv, FlowInv, Sound
<1>3. QED
  BY <1>1, <1>2

LEMMA DiesInv ==
  ASSUME FlowsInv, Dies
  PROVE  FlowsInv'
<1>1. /\ UNCHANGED <<prog, runs, whole, partial>>
      /\ outcome' = [t \in Threads |-> IF outcome[t] = "idle" THEN "idle" ELSE "died"]
      /\ held' = [t \in Threads |-> {}] /\ pc' = [t \in Threads |-> 0]
      /\ now' = [t \in Threads |-> Idle] /\ first' = [t \in Threads |-> "none"]
      /\ faults' = [t \in Threads |-> 0] /\ had' = [t \in Threads |-> {}]
  BY DEF Dies, diskVars
<1>2. DiskInv'
  BY <1>1 DEF FlowsInv, DiskInv
<1>3. ControlInv'
  BY <1>1 DEF FlowsInv, ControlInv
<1>4. ASSUME NEW t \in Threads, NEW alone \in BOOLEAN, (alone => Alone(t))'
      PROVE  Sound(t, alone)'
  <2>1. alone => Alone(t)
    BY <1>1, <1>4 DEF Alone
  <2>2. Sees(t, alone, whole)' = Sees(t, alone, whole)
        /\ Sees(t, alone, partial)' = Sees(t, alone, partial)
    BY <1>1 DEF Sees
  <2>3. outcome'[t] \notin {"running", "returned", "thrown"}
    BY <1>1
  <2>4. QED
    BY <1>1, <2>1, <2>2, <2>3, AnyFound DEF Sound
<1>5. QED
  BY <1>2, <1>3, <1>4 DEF FlowsInv, FlowInv

LEMMA StartsInv ==
  ASSUME FlowsInv, NEW t \in Threads, Starts(t)
  PROVE  FlowsInv'
<1> DEFINE p == prog[t]
           old == {f \in Outputs(p) : Place(t, f) \in whole} \union {f \in Temps : There(t, f)}
<1>1. ControlInv /\ DiskInv /\ p \in Programs /\ outcome[t] # "running" /\ pc[t] = 0
  BY DEF FlowsInv, ControlInv, Starts
<1>2. /\ UNCHANGED <<prog, whole, partial>>
      /\ runs' = [runs EXCEPT ![t] = runs[t] + 1]
      /\ outcome' = [outcome EXCEPT ![t] = "running"]
      /\ held' = [held EXCEPT ![t] = {}] /\ first' = [first EXCEPT ![t] = "none"]
      /\ faults' = [faults EXCEPT ![t] = 0] /\ had' = [had EXCEPT ![t] = old]
      /\ pc' = [pc EXCEPT ![t] = 1] /\ now' = [now EXCEPT ![t] = Code[p][1]]
  BY <1>1 DEF Starts, GoTo, diskVars
<1>3. DiskInv'
  BY <1>1, <1>2 DEF DiskInv
<1>4. 1 \in DOMAIN Code[p]
  BY <1>1, FlowsBegin
<1>5. ControlInv'
  <2>1. /\ prog' \in [Threads -> Programs] /\ pc' \in [Threads -> Nat]
        /\ outcome' \in [Threads -> {"idle", "running", "returned", "thrown", "died"}]
        /\ faults' \in [Threads -> 0 .. 2] /\ runs' \in [Threads -> Nat]
        /\ DOMAIN held' = Threads /\ DOMAIN first' = Threads /\ DOMAIN had' = Threads
    BY <1>1, <1>2 DEF ControlInv
  <2>2. now' = [u \in Threads |-> IF pc'[u] = 0 THEN Idle ELSE Code[prog'[u]][pc'[u]]]
    <3>1. now = [u \in Threads |-> IF pc[u] = 0 THEN Idle ELSE Code[prog[u]][pc[u]]]
          /\ pc \in [Threads -> Nat]
      BY <1>1 DEF ControlInv
    <3>2. QED
      BY <3>1, <1>2
  <2>3. ASSUME NEW u \in Threads
        PROVE  /\ outcome'[u] = "running" <=> pc'[u] > 0
               /\ pc'[u] = 0 \/ pc'[u] \in DOMAIN Code[prog'[u]]
               /\ (faults'[u] = 0 <=> first'[u] = "none") /\ first'[u] # "more"
               /\ outcome'[u] # "idle" => runs'[u] > 0
    BY <1>1, <1>2, <1>4 DEF ControlInv
  <2>4. old \subseteq Outputs(p) \union Temps
    OBVIOUS
  <2>5. \A u \in Threads : had'[u] \subseteq Outputs(prog'[u]) \union Temps
    BY <1>1, <1>2, <2>4 DEF ControlInv
  <2>6. QED
    BY <2>1, <2>2, <2>3, <2>5 DEF ControlInv
<1>6. runs'[t] # 0
  BY <1>1, <1>2 DEF ControlInv
<1>7. ASSUME NEW alone \in BOOLEAN, (alone => Alone(t))'
      PROVE  Sound(t, alone)'
  <2> DEFINE W == Sees(t, alone, whole)
             Q == Sees(t, alone, partial)
  <2>1. alone => Alone(t)
    BY <1>1, <1>2, <1>7 DEF Alone, ControlInv
  <2>2. <<W, Q>> \in Found(p, alone)
    BY <2>1, AnyFound
  <2>3. Begun(p, <<W, Q>>) \in Reached[p][alone][1]
    BY <1>1, <2>2, FlowsBegin
  <2>4. Outputs(p) \subseteq Names /\ Temps \subseteq Names
    BY <1>1 DEF Names, Named
  <2>5. old \ Shared(alone) = (Outputs(p) \intersect W) \union (Temps \intersect (W \union Q))
    BY <2>4 DEF Sees, There
  <2>6. held'[t] = {} /\ had'[t] = old /\ faults'[t] = 0
    BY <1>1, <1>2 DEF ControlInv
  <2>7. View(t, alone)' = Begun(p, <<W, Q>>)
    BY <1>2, <2>5, <2>6 DEF View, Begun, Blame, Sees
  <2>8. outcome'[t] = "running" /\ pc'[t] = 1
    BY <1>1, <1>2 DEF ControlInv
  <2>9. QED
    BY <1>2, <2>3, <2>7, <2>8 DEF Sound
<1>8. ASSUME NEW u \in Threads \ {t}, NEW alone \in BOOLEAN, (alone => Alone(u))'
      PROVE  Sound(u, alone)'
  <2>1. alone = FALSE
    BY <1>6, <1>8 DEF Alone
  <2>2. outcome'[u] = outcome[u] /\ pc'[u] = pc[u] /\ held'[u] = held[u]
        /\ first'[u] = first[u] /\ faults'[u] = faults[u] /\ had'[u] = had[u]
    BY <1>1, <1>2 DEF ControlInv
  <2>3. View(u, alone)' = View(u, alone)
        /\ Sees(u, alone, whole)' = Sees(u, alone, whole)
        /\ Sees(u, alone, partial)' = Sees(u, alone, partial)
    BY <1>2, <2>2 DEF View, Blame, Sees
  <2>4. Sound(u, alone)
    BY <2>1 DEF FlowsInv, FlowInv
  <2>5. QED
    BY <1>2, <2>2, <2>3, <2>4 DEF Sound
<1>9. QED
  BY <1>3, <1>5, <1>7, <1>8 DEF FlowsInv, FlowInv

\* A file fewer leaves what a function owes as it is, if it is in the caches.
LEMMA GoneLess ==
  ASSUME NEW p \in Programs, NEW alone \in BOOLEAN, NEW f \in Cached,
         NEW h, NEW w, NEW q, NEW b, NEW d, d \subseteq Outputs(p) \union Temps
  PROVE  LET s == Run(h, w, q, b, d)
             r == Run(h, w \ {f}, q \ {f}, b, d)
         IN (ReturnsWell(p, s) => ReturnsWell(p, r)) /\ (ThrowsWell(p, s) => ThrowsWell(p, r))
<1> DEFINE s == Run(h, w, q, b, d)
           r == Run(h, w \ {f}, q \ {f}, b, d)
<1>1. /\ s.held = h /\ s.whole = w /\ s.partial = q /\ s.blame = b /\ s.had = d
      /\ r.held = h /\ r.whole = w \ {f} /\ r.partial = q \ {f} /\ r.blame = b /\ r.had = d
  BY Runs
<1>2. TempsGone(p, s) => TempsGone(p, r)
  BY <1>1 DEF TempsGone
<1>3. p \in Reliable \union KeepOld => f \notin Outputs(p)
  BY NamesOK
<1>4. ReturnsWell(p, s) => ReturnsWell(p, r)
  BY <1>1, <1>2, <1>3 DEF ReturnsWell
<1>5. ThrowsWell(p, s) => ThrowsWell(p, r)
  BY <1>1, <1>2, <1>3 DEF ThrowsWell
<1>6. QED
  BY <1>4, <1>5

\* When the caches are cleaned, a run that sees the file is where it was without it.
LEMMA CleansUpInv ==
  ASSUME FlowsInv, CleansUp
  PROVE  FlowsInv'
<1>1. UNCHANGED <<pc, now, held, outcome, first, faults, prog, had, runs>>
  BY DEF CleansUp, runVars
<1>2. PICK f \in Cached : /\ <<Everyone, f>> \in whole \union partial
                          /\ whole' = whole \ {<<Everyone, f>>}
                          /\ partial' = partial \ {<<Everyone, f>>}
  BY DEF CleansUp
<1>3. DiskInv'
  BY <1>2 DEF FlowsInv, DiskInv
<1>4. ControlInv'
  BY <1>1 DEF FlowsInv, ControlInv
<1>5. ASSUME NEW t \in Threads, NEW alone \in BOOLEAN, (alone => Alone(t))'
      PROVE  Sound(t, alone)'
  <2> DEFINE W == Sees(t, alone, whole)
             Q == Sees(t, alone, partial)
             s == View(t, alone)
             p == prog[t]
  <2>1. Sound(t, alone) /\ (alone => Alone(t)) /\ p \in Programs
    BY <1>1, <1>5 DEF FlowsInv, FlowInv, ControlInv, Alone
  <2>2. Place(t, f) = <<Everyone, f>>
    BY DEF Place
  <2>3. Sees(t, alone, whole)' = W \ {f} /\ Sees(t, alone, partial)' = Q \ {f}
    <3>1. W \intersect Shared(alone) = {} /\ Q \intersect Shared(alone) = {}
      BY DEF Sees
    <3>2. Sees(t, alone, whole') = (W \ {f}) \ Shared(alone)
          /\ Sees(t, alone, partial') = (Q \ {f}) \ Shared(alone)
      BY <1>2, <2>2, SeesLess
    <3>3. Sees(t, alone, whole)' = Sees(t, alone, whole')
          /\ Sees(t, alone, partial)' = Sees(t, alone, partial')
      BY DEF Sees
    <3>4. QED
      BY <3>1, <3>2, <3>3
  <2>4. s = Run(held[t], W, Q, Blame(t), had[t] \ Shared(alone))
    BY DEF View
  <2>5. View(t, alone)' = Run(held[t], W \ {f}, Q \ {f}, Blame(t), had[t] \ Shared(alone))
    BY <1>1, <2>3 DEF View, Blame
  <2>6. outcome[t] = "running" => View(t, alone)' \in Reached[p][alone][pc[t]]
    <3>1. (W \ {f}) \ Shared(alone) = W \ {f} /\ (Q \ {f}) \ Shared(alone) = Q \ {f}
      BY DEF Sees
    <3>2. Gone(s, f, alone) = With(s, W \ {f}, Q \ {f}, alone)
      BY SMTT(20), <2>4, Runs DEF Gone
    <3>3. Gone(s, f, alone) = View(t, alone)'
      BY <2>4, <2>5, <3>1, <3>2, Runs
    <3>4. ASSUME outcome[t] = "running"
          PROVE  Gone(s, f, alone) \in Reached[p][alone][pc[t]]
      <4>1. s \in Reached[p][alone][pc[t]] /\ pc[t] \in DOMAIN Code[p]
        BY <2>1, <3>4, InReached
      <4>2. \A n \in DOMAIN Code[p] : \A x \in Reached[p][alone][n] :
              \A g \in Cached : Gone(x, g, alone) \in Reached[p][alone][n]
        BY <2>1, FlowsGoOn
      <4>3. QED
        BY <4>1, <4>2
    <3>5. QED
      BY <3>3, <3>4
  <2>7. <<W \ {f}, Q \ {f}>> \in Found(p, alone)
    <3>1. <<W, Q>> \in Found(p, alone)
      BY <2>1, AnyFound
    <3>2. QED
      BY <3>1 DEF Found
  <2>8. had[t] \ Shared(alone) \subseteq Outputs(p) \union Temps
    BY DEF FlowsInv, ControlInv
  <2>9. (ReturnsWell(p, s) => ReturnsWell(p, View(t, alone)'))
        /\ (ThrowsWell(p, s) => ThrowsWell(p, View(t, alone)'))
    BY <2>1, <2>4, <2>5, <2>8, GoneLess
  <2>10. QED
    BY <1>1, <2>1, <2>3, <2>6, <2>7, <2>9 DEF Sound
<1>6. QED
  BY <1>3, <1>4, <1>5 DEF FlowsInv, FlowInv

LEMMA InitFlowsInv == ConversionsInit => FlowsInv
<1> SUFFICES ASSUME ConversionsInit PROVE FlowsInv
  OBVIOUS
<1>1. PICK p \in Programs : prog = [t \in Threads |-> p]
  BY DEF ConversionsInit
<1>2. /\ pc = [t \in Threads |-> 0] /\ now = [t \in Threads |-> Idle]
      /\ held = [t \in Threads |-> {}] /\ outcome = [t \in Threads |-> "idle"]
      /\ had = [t \in Threads |-> {}] /\ first = [t \in Threads |-> "none"]
      /\ faults = [t \in Threads |-> 0] /\ runs = [t \in Threads |-> 0] /\ partial = {}
  BY DEF ConversionsInit
<1>3. PICK t \in Threads : whole \in {{}, {Place(t, f) : f \in Outputs(prog[t])}}
  BY DEF ConversionsInit
<1>4. whole \subseteq {Place(t, f) : f \in Outputs(p)} /\ Outputs(p) \subseteq Named(p)
      /\ Outputs(p) \subseteq Names
  BY <1>1, <1>3 DEF Named, Names
<1>5. ControlInv
  BY <1>1, <1>2 DEF ControlInv
<1>6. DiskInv
  BY <1>2, <1>4 DEF DiskInv
<1>7. ASSUME NEW u \in Threads, NEW alone \in BOOLEAN
      PROVE  Sound(u, alone)
  <2>1. Sees(u, alone, whole) \subseteq Named(p) \ Shared(alone) /\ Sees(u, alone, partial) = {}
    BY <1>2, <1>4, Places DEF Sees
  <2>2. <<Sees(u, alone, whole), Sees(u, alone, partial)>> \in Found(p, alone)
    BY <2>1 DEF Found
  <2>3. QED
    BY <1>1, <1>2, <2>2 DEF Sound
<1>8. QED
  BY <1>5, <1>6, <1>7 DEF FlowsInv, FlowInv

LEMMA SameFlows ==
  ASSUME FlowsInv,
         UNCHANGED <<pc, now, held, outcome, first, faults, prog, had, runs, whole, partial>>
  PROVE  FlowsInv'
<1>1. ControlInv' /\ DiskInv'
  BY DEF FlowsInv, ControlInv, DiskInv
<1>2. ASSUME NEW t \in Threads, NEW alone \in BOOLEAN, (alone => Alone(t))'
      PROVE  Sound(t, alone)'
  <2>1. Sound(t, alone)
    BY <1>2 DEF FlowsInv, FlowInv, Alone
  <2>2. Sees(t, alone, whole)' = Sees(t, alone, whole)
        /\ Sees(t, alone, partial)' = Sees(t, alone, partial)
        /\ View(t, alone)' = View(t, alone)
    BY DEF View, Sees, Blame
  <2>3. QED
    BY <2>1, <2>2 DEF Sound
<1>3. QED
  BY <1>1, <1>2 DEF FlowsInv, FlowInv

LEMMA NextFlowsInv == FlowsInv /\ [ConversionsNext]_conversionVars => FlowsInv'
<1> SUFFICES ASSUME FlowsInv, [ConversionsNext]_conversionVars PROVE FlowsInv'
  OBVIOUS
<1>1. CASE \E t \in Threads : Advances(t)
  BY <1>1, AdvancesInv, StartsInv
<1>2. CASE CleansUp \/ Dies
  BY <1>2, CleansUpInv, DiesInv
<1>3. CASE Rests \/ UNCHANGED conversionVars
  <2>1. UNCHANGED <<pc, now, held, outcome, first, faults, prog, had, runs, whole, partial>>
    BY <1>3 DEF Rests, conversionVars
  <2>2. QED
    BY <2>1, SameFlows
<1>4. QED
  BY <1>1, <1>2, <1>3 DEF ConversionsNext

------------------------------------------------------------------------------
(***************************************************************************)
(* The size of the cache.  Of builds that overlap only the first to note it    *)
(* finds it as it was and puts it back; until it does it is running.          *)
(***************************************************************************)
LevelOf(t) == Level(prog[t], pc[t])
Holder(t) == outcome[t] = "running" /\ LevelOf(t) = "raise" /\ saved[t] = FirstCache
CacheInv ==
  /\ cache \in {FirstCache, MaxCache}
  /\ saved \in [Threads -> {0, FirstCache, MaxCache}]
  /\ \A t \in Threads :
       outcome[t] = "running" /\ LevelOf(t) \in {"note", "raise"}
       => saved[t] \in {FirstCache, MaxCache}
  /\ cache # FirstCache => \E t \in Threads : Holder(t)

\* What a step other than those at the cache leaves of it.
LEMMA LevelMoves ==
  ASSUME FlowsInv, NEW t \in Threads, RunStep(t)
  PROVE  /\ outcome'[t] = "running"
            => LevelOf(t)' = LevelAfter(now[t], LevelOf(t))
         /\ outcome'[t] # "running" => LevelOf(t) = "restore"
         /\ \A u \in Threads \ {t} : LevelOf(u)' = LevelOf(u) /\ outcome'[u] = outcome[u]
<1>1. outcome[t] = "running" /\ prog' = prog /\ ControlInv
  BY DEF RunStep, Local, FlowsInv
<1>2. FALSE => Alone(t)
  OBVIOUS
<1>3. CASE GoesOn(t)
  <2>1. PICK k : /\ GoTo(t, k) /\ outcome' = outcome
                 /\ <<k, View(t, FALSE)'>> \in After(now[t], View(t, FALSE), FALSE)
    BY <1>3 DEF GoesOn
  <2>2. Level(prog[t], pc[t] + k) = LevelAfter(now[t], Level(prog[t], pc[t]))
    BY <1>1, <1>2, <2>1, GoesOnIn
  <2>3. pc'[t] = pc[t] + k /\ \A u \in Threads \ {t} : pc'[u] = pc[u]
    BY <1>1, <2>1 DEF GoTo, ControlInv
  <2>4. QED
    BY <1>1, <2>1, <2>2, <2>3 DEF LevelOf
<1>4. CASE ReturnsNow(t) \/ ThrowsNow(t)
  <2>1. /\ prog[t] \in Programs /\ pc[t] \in DOMAIN Code[prog[t]] /\ now[t] = Code[prog[t]][pc[t]]
        /\ View(t, FALSE) \in Reached[prog[t]][FALSE][pc[t]]
    BY <1>1, <1>2, InReached
  <2>2. LevelOf(t) = "restore"
    BY <1>4, <2>1, FlowsEnd DEF LevelOf, ReturnsNow, ThrowsNow
  <2>3. /\ outcome'[t] # "running"
        /\ \A u \in Threads \ {t} : pc'[u] = pc[u] /\ outcome'[u] = outcome[u]
    BY <1>1, <1>4 DEF ReturnsNow, ThrowsNow, Ends, ControlInv
  <2>4. QED
    BY <1>1, <2>2, <2>3 DEF LevelOf
<1>5. QED
  BY <1>3, <1>4 DEF RunStep

\* A step that leaves the cache alone.
LEMMA CacheStays ==
  ASSUME FlowsInv, CacheInv, NEW t \in Threads, RunStep(t), UNCHANGED cacheVars,
         now[t].do \notin CacheKinds
  PROVE  CacheInv'
<1>1. cache' = cache /\ saved' = saved
  BY DEF cacheVars
<1>2. outcome[t] = "running" /\ (outcome'[t] = "running" => LevelOf(t)' = LevelOf(t))
  BY LevelMoves DEF LevelAfter, RunStep
<1>3. \A u \in Threads : outcome'[u] = "running" => outcome[u] = "running" /\ LevelOf(u)' = LevelOf(u)
  BY <1>2, LevelMoves
<1>4. \A u \in Threads : Holder(u) => Holder(u)'
  <2>1. Holder(t) => outcome'[t] = "running"
    BY LevelMoves DEF Holder
  <2>2. QED
    BY <1>1, <1>3, <2>1, LevelMoves DEF Holder
<1>5. QED
  BY <1>1, <1>3, <1>4 DEF CacheInv

LEMMA CachesInv ==
  ASSUME FlowsInv, CacheInv, NEW t \in Threads, Caches(t)
  PROVE  CacheInv'
<1>1. RunStep(t) /\ ControlInv /\ now[t].do \in CacheKinds /\ GoTo(t, 1) /\ outcome' = outcome
  BY LocksStep DEF Caches, Is, On, CacheKinds, FlowsInv
<1>2. outcome[t] = "running" /\ LevelOf(t)' = now[t].do
      /\ \A u \in Threads \ {t} : LevelOf(u)' = LevelOf(u) /\ outcome'[u] = outcome[u]
  BY <1>1, LevelMoves DEF LevelAfter, RunStep
<1>3. /\ now[t].do = "note" => LevelOf(t) = "restore"
      /\ now[t].do = "raise" => LevelOf(t) = "note"
      /\ now[t].do = "restore" => LevelOf(t) = "raise"
  <2>1. prog[t] \in Programs /\ pc[t] \in DOMAIN Code[prog[t]] /\ now[t] = Code[prog[t]][pc[t]]
    BY <1>1, <1>2, IsRunning DEF CacheKinds
  <2>2. QED
    BY <2>1, FlowsOfCache DEF LevelOf
<1>4. FirstCache \in Nat \ {0} /\ MaxCache \in Nat \ {0} /\ FirstCache <= MaxCache
  BY ConversionConstantsOK
<1>5. cache \in {FirstCache, MaxCache} /\ saved \in [Threads -> {0, FirstCache, MaxCache}]
      /\ (LevelOf(t) \in {"note", "raise"} => saved[t] \in {FirstCache, MaxCache})
  BY <1>2 DEF CacheInv
<1>6. CASE now[t].do = "note"
  <2>1. cache' = cache /\ saved' = [saved EXCEPT ![t] = cache]
    BY <1>6 DEF Caches, Is
  <2>2. \A u \in Threads : Holder(u) => Holder(u)'
    BY <1>1, <1>2, <1>3, <1>5, <1>6, <2>1 DEF Holder
  <2>3. QED
    BY <1>1, <1>2, <1>5, <2>1, <2>2 DEF CacheInv
<1>7. CASE now[t].do = "raise"
  <2>1. saved' = saved /\ cache' = IF saved[t] < MaxCache THEN MaxCache ELSE cache
    BY <1>7 DEF Caches, Is, Raised
  <2>2. \A u \in Threads : Holder(u) => Holder(u)'
    BY <1>1, <1>2, <1>3, <1>7, <2>1 DEF Holder
  <2>3. cache' \in {FirstCache, MaxCache} /\ saved[t] \in {FirstCache, MaxCache}
    BY <1>3, <1>5, <1>7, <2>1
  <2>4. cache' # FirstCache => \E u \in Threads : Holder(u)'
    <3>1. CASE saved[t] < MaxCache
      <4>1. saved[t] = FirstCache
        BY <1>4, <2>3, <3>1
      <4>2. Holder(t)'
        BY <1>1, <1>2, <1>7, <2>1, <4>1 DEF Holder
      <4>3. QED
        BY <4>2
    <3>2. CASE ~(saved[t] < MaxCache)
      BY <2>1, <2>2, <3>2 DEF CacheInv
    <3>3. QED
      BY <3>1, <3>2
  <2>5. QED
    BY <1>1, <1>2, <1>3, <1>5, <1>7, <2>1, <2>3, <2>4 DEF CacheInv
<1>8. CASE now[t].do = "restore"
  <2>1. saved' = saved /\ cache' = IF saved[t] < MaxCache THEN saved[t] ELSE cache
    BY <1>8 DEF Caches, Is, Raised
  <2>2. saved[t] \in {FirstCache, MaxCache}
    BY <1>3, <1>5, <1>8
  <2>3. CASE saved[t] < MaxCache
    <3>1. cache' = FirstCache
      BY <1>4, <2>1, <2>2, <2>3
    <3>2. QED
      BY <1>1, <1>2, <1>5, <1>8, <2>1, <3>1 DEF CacheInv
  <2>4. CASE ~(saved[t] < MaxCache)
    <3>1. saved[t] = MaxCache /\ cache' = cache
      BY <1>4, <2>1, <2>2, <2>4
    <3>2. cache # FirstCache => ~Holder(t)
      BY <1>5, <3>1 DEF Holder
    <3>3. \A u \in Threads \ {t} : Holder(u) => Holder(u)'
      BY <1>2, <2>1 DEF Holder
    <3>4. cache' # FirstCache => \E u \in Threads : Holder(u)'
      BY <3>1, <3>2, <3>3 DEF CacheInv
    <3>5. QED
      BY <1>1, <1>2, <1>5, <1>8, <2>1, <3>1, <3>4 DEF CacheInv
  <2>5. QED
    BY <2>3, <2>4
<1>9. QED
  BY <1>1, <1>6, <1>7, <1>8 DEF CacheKinds

LEMMA StartsCache ==
  ASSUME FlowsInv, CacheInv, NEW t \in Threads, Starts(t)
  PROVE  CacheInv'
<1>1. ControlInv /\ outcome[t] # "running" /\ pc[t] = 0 /\ prog[t] \in Programs
  BY DEF FlowsInv, ControlInv, Starts
<1>2. /\ cache' = cache /\ saved' = saved /\ prog' = prog
      /\ outcome' = [outcome EXCEPT ![t] = "running"] /\ pc' = [pc EXCEPT ![t] = 1]
  BY <1>1 DEF Starts, GoTo, cacheVars
<1>3. LevelOf(t)' = "restore"
  BY <1>1, <1>2, FlowsBegin DEF LevelOf, ControlInv
<1>4. \A u \in Threads \ {t} : LevelOf(u)' = LevelOf(u) /\ outcome'[u] = outcome[u]
  BY <1>1, <1>2 DEF LevelOf, ControlInv
<1>5. \A u \in Threads : Holder(u) => Holder(u)'
  BY <1>1, <1>2, <1>4 DEF Holder
<1>6. QED
  BY <1>2, <1>3, <1>4, <1>5 DEF CacheInv

LEMMA AdvancesCache ==
  ASSUME FlowsInv, CacheInv, NEW t \in Threads, Advances(t)
  PROVE  CacheInv'
<1>1. ControlInv /\ DiskInv
  BY DEF FlowsInv
<1>2. CASE Throws(t) \/ Opens(t) \/ Closes(t) \/ Goes(t) \/ Leaves(t) \/ Returns(t)
  <2>1. RunStep(t)
    BY <1>1, <1>2, ThrowsStep, OpensStep, ClosesStep, GoesStep, ReturnsStep
  <2>2. UNCHANGED cacheVars
    BY <1>2 DEF Throws, Throw, Opens, Closes, Goes, Leaves, Returns
  <2>3. now[t].do \notin CacheKinds
    BY <1>2 DEF Throws, MayThrow, Opens, Closes, Goes, Leaves, Returns, Is, CacheKinds
  <2>4. QED
    BY <2>1, <2>2, <2>3, CacheStays
<1>3. CASE Begins(t) \/ Finishes(t) \/ Shrugs(t) \/ Removes(t) \/ Moves(t) \/ Locks(t)
  <2>1. RunStep(t)
    BY <1>1, <1>3, BeginsStep, ShrugsStep, MovesStep, LocksStep
  <2>2. UNCHANGED cacheVars
    BY <1>3 DEF Begins, Finishes, Shrugs, Removes, Moves, Locks
  <2>3. now[t].do \notin CacheKinds
    BY <1>3 DEF Begins, Finishes, Shrugs, Removes, Moves, Locks, Is, CacheKinds
  <2>4. QED
    BY <2>1, <2>2, <2>3, CacheStays
<1>4. CASE Caches(t) \/ Starts(t)
  BY <1>4, CachesInv, StartsCache
<1>5. QED
  BY <1>2, <1>3, <1>4 DEF Advances

LEMMA NextCacheInv == FlowsInv /\ CacheInv /\ [ConversionsNext]_conversionVars => CacheInv'
<1> SUFFICES ASSUME FlowsInv, CacheInv, [ConversionsNext]_conversionVars PROVE CacheInv'
  OBVIOUS
<1>1. CASE \E t \in Threads : Advances(t)
  BY <1>1, AdvancesCache
<1>2. CASE Dies
  BY <1>2 DEF Dies, CacheInv
<1>3. CASE CleansUp \/ Rests \/ UNCHANGED conversionVars
  <2>1. UNCHANGED <<cache, saved, prog, pc, outcome>>
    BY <1>3 DEF CleansUp, Rests, conversionVars, runVars, cacheVars
  <2>2. QED
    BY <2>1 DEF CacheInv, Holder, LevelOf
<1>4. QED
  BY <1>1, <1>2, <1>3 DEF ConversionsNext

------------------------------------------------------------------------------
(***************************************************************************)
(* What the functions owe, of any threads.                                   *)
(***************************************************************************)
ConversionsInv == IInv /\ FlowsInv /\ CacheInv

LEMMA InvHolds == ConversionsSpec => []ConversionsInv
<1>1. ConversionsInit => ConversionsInv
  <2>1. ConversionsInit => IInv
    BY InitIInv DEF ConversionsInit
  <2>2. ConversionsInit => CacheInv
    BY DEF ConversionsInit, CacheInv
  <2>3. QED
    BY <2>1, <2>2, InitFlowsInv DEF ConversionsInv
<1>2. ConversionsInv /\ [ConversionsNext]_conversionVars => ConversionsInv'
  BY NextIInv, NextFlowsInv, NextCacheInv DEF ConversionsInv
<1>3. QED
  BY <1>1, <1>2, PTL DEF ConversionsSpec

\* Every thread runs a function and is at a step of it exactly while it runs; files are
\* complete or not; faults are counted with their first.
THEOREM ConversionsTypeCorrect == ConversionsSpec => []ConversionsTypeOK
<1>1. ConversionsInv => ConversionsTypeOK
  <2> SUFFICES ASSUME ConversionsInv PROVE ConversionsTypeOK
    OBVIOUS
  <2>1. ThreadLockTypeOK /\ ControlInv /\ DiskInv /\ CacheInv
    BY DEF ConversionsInv, IInv, FlowsInv
  <2>2. \A t \in Threads : now[t] = IF pc[t] = 0 THEN Idle ELSE Code[prog[t]][pc[t]]
    BY <2>1 DEF ControlInv
  <2>3. QED
    BY <2>1, <2>2 DEF ConversionsTypeOK, ControlInv, DiskInv, CacheInv
<1>2. QED
  BY <1>1, InvHolds, PTL

\* Who returns or throws has closed what it opened, whichever of its steps failed and
\* whatever other threads did, but for what is listed of it.
THEOREM HandlesAreClosed == ConversionsSpec => []HandlesClosed
<1>1. ConversionsInv => HandlesClosed
  <2> SUFFICES ASSUME ConversionsInv, NEW t \in Threads
               PROVE  /\ outcome[t] = "returned" => held[t] \subseteq KeptOnReturn(prog[t])
                      /\ outcome[t] = "thrown" => held[t] \subseteq KeptOnThrow(prog[t])
    BY DEF HandlesClosed
  <2>1. Sound(t, FALSE)
    BY DEF ConversionsInv, FlowsInv, FlowInv
  <2>2. View(t, FALSE).held = held[t]
    BY DEF View, Run
  <2>3. QED
    BY <2>1, <2>2 DEF Sound, ReturnsWell, ThrowsWell
<1>2. QED
  BY <1>1, InvHolds, PTL

\* What is made aside and moved to its place is never there in part, whatever failed
\* and whenever the process died (vector.cpp:560-600, 3d.cpp:480-510).
THEOREM WholeIsPublished == ConversionsSpec => []PublishedWhole
<1>1. ConversionsInv => PublishedWhole
  <2> SUFFICES ASSUME ConversionsInv, NEW x \in partial, x[2] \in PublishedAside
               PROVE  FALSE
    BY DEF PublishedWhole
  <2>1. PICK t \in Threads, f \in Names : x = Place(t, f)
    BY DEF ConversionsInv, FlowsInv, DiskInv
  <2>2. x[2] = f
    BY <2>1 DEF Place
  <2>3. f \notin Cached
    BY <2>2, NamesOK
  <2>4. f \in Sees(t, FALSE, partial)
    BY <2>1, <2>3 DEF Sees, Shared
  <2>5. <<Sees(t, FALSE, whole), Sees(t, FALSE, partial)>> \in Found(prog[t], FALSE)
    BY AnyFound DEF ConversionsInv
  <2>6. f \notin Unbroken
    BY <2>4, <2>5 DEF Found
  <2>7. QED
    BY <2>2, <2>6 DEF Unbroken
<1>2. QED
  BY <1>1, InvHolds, PTL

\* A function that fails by one failure leaves the output of the run before, if it is
\* one of those that promise it.
THEOREM OutputsAreKept == ConversionsSpec => []OldOutputKept
<1>1. ConversionsInv => OldOutputKept
  <2> SUFFICES ASSUME ConversionsInv, NEW t \in Threads, outcome[t] = "thrown",
                      prog[t] \in KeepOld, faults[t] = 1, first[t] # "aside",
                      NEW f \in had[t] \ Temps
               PROVE  Place(t, f) \in whole
    BY DEF OldOutputKept
  <2> DEFINE s == View(t, FALSE)
  <2>1. ThrowsWell(prog[t], s) /\ ControlInv
    BY DEF ConversionsInv, FlowsInv, FlowInv, Sound
  <2>2. s.blame = first[t] /\ first[t] \notin {"none", "more"}
    <3>1. s.blame = Blame(t)
      BY DEF View, Run
    <3>2. Blame(t) = first[t] /\ first[t] # "none" /\ first[t] # "more"
      BY <2>1 DEF Blame, ControlInv
    <3>3. QED
      BY <3>1, <3>2
  <2>3. s.had = had[t] \ Cached /\ s.whole = Sees(t, FALSE, whole)
    BY DEF View, Run, Shared
  <2>4. f \in Outputs(prog[t]) /\ Outputs(prog[t]) \intersect Cached = {}
    BY <2>1, NamesOK DEF ControlInv
  <2>5. f \in s.had \ Temps
    BY <2>3, <2>4
  <2>6. s.had \ Temps \subseteq s.whole
    BY <2>1, <2>2 DEF ThrowsWell
  <2>7. QED
    BY <2>3, <2>5, <2>6 DEF Sees
<1>2. QED
  BY <1>1, InvHolds, PTL

\* A function that says that it made its outputs has made all of them.
THEOREM ReturnsAreWhole == ConversionsSpec => []ReturnsWhole
<1>1. ConversionsInv => ReturnsWhole
  <2> SUFFICES ASSUME ConversionsInv, NEW t \in Threads, outcome[t] = "returned",
                      prog[t] \in Reliable, NEW f \in Outputs(prog[t])
               PROVE  Place(t, f) \in whole
    BY DEF ReturnsWhole
  <2> DEFINE s == View(t, FALSE)
  <2>1. ReturnsWell(prog[t], s)
    BY DEF ConversionsInv, FlowsInv, FlowInv, Sound
  <2>2. s.whole = Sees(t, FALSE, whole)
    BY DEF View, Run
  <2>3. QED
    BY <2>1, <2>2 DEF ReturnsWell, Sees
<1>2. QED
  BY <1>1, InvHolds, PTL

\* No temporary file outlives a function that ends, but those in the caches that other
\* threads use, and those that are known to be left.
THEOREM TempsAreRemoved == ConversionsSpec => []TempsRemoved
<1>1. ConversionsInv => TempsRemoved
  <2> SUFFICES ASSUME ConversionsInv, NEW t \in Threads, Ended(t), faults[t] < 2,
                      first[t] \notin {"drop", "shed", "move", "aside"},
                      NEW f \in Temps \ LeftBehind(prog[t]), There(t, f),
                      ~(f \in Cached /\ ~Alone(t))
               PROVE  f \in had[t]
    BY DEF TempsRemoved
  <2> DEFINE alone == f \in Cached
             s == View(t, alone)
  <2>1. alone \in BOOLEAN /\ (alone => Alone(t)) /\ f \notin Shared(alone) /\ f \in Names
    BY DEF Shared, Names
  <2>2. Sound(t, alone) /\ ControlInv
    BY <2>1 DEF ConversionsInv, FlowsInv, FlowInv
  <2>3. TempsGone(prog[t], s)
    BY <2>2 DEF Sound, ReturnsWell, ThrowsWell, Ended
  <2>4. /\ s.whole = Sees(t, alone, whole) /\ s.partial = Sees(t, alone, partial)
        /\ s.had = had[t] \ Shared(alone) /\ s.blame = Blame(t)
    BY DEF View, Run
  <2>5. Blame(t) \notin {"more", "drop", "shed", "move", "aside"}
    <3>1. faults[t] = 0 \/ faults[t] = 1
      BY <2>2 DEF ControlInv
    <3>2. QED
      BY <2>2, <3>1 DEF Blame, ControlInv
  <2>6. f \in s.whole \union s.partial
    BY <2>1, <2>4 DEF Sees, There
  <2>7. QED
    BY <2>3, <2>4, <2>5, <2>6 DEF TempsGone
<1>2. QED
  BY <1>1, InvHolds, PTL

\* When nobody runs, the cache of GDAL has the size that it had at first, however many
\* builds have overlapped and however they ended (cog.cpp:286-308).
THEOREM CacheIsRestored == ConversionsSpec => []CacheRestored
<1>1. ConversionsInv => CacheRestored
  BY DEF ConversionsInv, CacheInv, Holder, CacheRestored
<1>2. QED
  BY <1>1, InvHolds, PTL
==============================================================================
