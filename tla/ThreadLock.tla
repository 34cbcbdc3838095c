------------------------------ MODULE ThreadLock ------------------------------
(***************************************************************************)
(* threadlock.cpp: a lock by key between the threads of one process.  The    *)
(* mutex of a key is made when it is first asked for and forgotten when the  *)
(* last thread that counted itself is gone.  The two maps that hold the      *)
(* counts and the mutexes are shared by all threads and guarded by nothing:  *)
(* a count is read by one step and written by another.                       *)
(* What two threads do to the buckets of the maps when they are there at the *)
(* same time is beyond this model: raced remembers that it happened.         *)
(***************************************************************************)
EXTENDS Integers, FiniteSets

CONSTANTS
  Threads,     \* of one process
  Keys,        \* paths that are locked
  NoCount      \* a key that is not in the map

ASSUME ThreadLockConstantsOK ==
  /\ IsFiniteSet(Threads)
  /\ NoCount \notin Int

\* Mutex objects; 0 is no mutex.  There is one to spare for each thread.
Mutexes == 0 .. Cardinality(Threads)
Phases == {"idle", "found", "waiting", "in", "unlocked", "loaded"}

VARIABLES
  count,       \* _mutexesCount
  mutex,       \* _mutexes: the object of each key
  at,          \* per thread, where its lock is
  on,          \* per thread, the key of its lock
  seen,        \* per thread, the count that it has read and not yet written
  object,      \* per thread, the mutex that it locks
  raced        \* whether two threads were ever in the maps together

lockVars == <<count, mutex, at, on, seen, object, raced>>

Updating(t) == at[t] \in {"found", "loaded"}
Engaged(t) == at[t] \in {"waiting", "in", "unlocked", "loaded"}
Registered(k) == {t \in Threads : Engaged(t) /\ on[t] = k}
Holders(k) == {t \in Threads : at[t] = "in" /\ on[t] = k}
RacedBy(t) == raced \/ \E u \in Threads \ {t} : Updating(u)

LockInit ==
  /\ count = [k \in Keys |-> NoCount]
  /\ mutex = [k \in Keys |-> 0]
  /\ at = [t \in Threads |-> "idle"]
  /\ on \in [Threads -> Keys]
  /\ seen = [t \in Threads |-> NoCount]
  /\ object = [t \in Threads |-> 0]
  /\ raced = FALSE

\* The constructor looks the key up ...
Find(t, k) ==
  /\ at[t] = "idle"
  /\ at' = [at EXCEPT ![t] = "found"]
  /\ on' = [on EXCEPT ![t] = k]
  /\ seen' = [seen EXCEPT ![t] = count[k]]
  /\ raced' = RacedBy(t)
  /\ UNCHANGED <<count, mutex, object>>

\* ... counts itself, and takes the mutex of the key, a new one if there is none ...
Counted(n) == IF n = NoCount THEN 1 ELSE n + 1
Fresh(t) ==
  CHOOSE g \in Mutexes \ {0} : \A u \in Threads \ {t} : Engaged(u) => object[u] # g

Count(t) ==
  LET k == on[t]
      g == IF mutex[k] = 0 THEN Fresh(t) ELSE mutex[k]
  IN /\ at[t] = "found"
     /\ at' = [at EXCEPT ![t] = "waiting"]
     /\ count' = [count EXCEPT ![k] = Counted(seen[t])]
     /\ mutex' = [mutex EXCEPT ![k] = g]
     /\ object' = [object EXCEPT ![t] = g]
     /\ seen' = [seen EXCEPT ![t] = NoCount]
     /\ UNCHANGED <<on, raced>>

\* ... that it waits for.
Acquire(t) ==
  /\ at[t] = "waiting"
  /\ \A u \in Threads : at[u] = "in" => object[u] # object[t]
  /\ at' = [at EXCEPT ![t] = "in"]
  /\ UNCHANGED <<count, mutex, on, seen, object, raced>>

\* The destructor unlocks ...
Unlock(t) ==
  /\ at[t] = "in"
  /\ at' = [at EXCEPT ![t] = "unlocked"]
  /\ UNCHANGED <<count, mutex, on, seen, object, raced>>

Load(t) ==
  /\ at[t] = "unlocked"
  /\ at' = [at EXCEPT ![t] = "loaded"]
  /\ seen' = [seen EXCEPT ![t] = count[on[t]]]
  /\ raced' = RacedBy(t)
  /\ UNCHANGED <<count, mutex, on, object>>

\* ... and the last one takes the key out of both maps.
Left(n) == IF n = NoCount THEN -1 ELSE n - 1

\* As it must not be: the mutex of those that wait is forgotten too.
ForgetAlways(t) ==
  LET k == on[t]
  IN /\ at[t] = "loaded"
     /\ at' = [at EXCEPT ![t] = "idle"]
     /\ count' = [count EXCEPT ![k] = NoCount]
     /\ mutex' = [mutex EXCEPT ![k] = 0]
     /\ seen' = [seen EXCEPT ![t] = NoCount]
     /\ object' = [object EXCEPT ![t] = 0]
     /\ UNCHANGED <<on, raced>>

Forget(t) ==
  LET k == on[t]
      last == Left(seen[t]) <= 0
  IN /\ at[t] = "loaded"
     /\ at' = [at EXCEPT ![t] = "idle"]
     /\ count' = [count EXCEPT ![k] = IF last THEN NoCount ELSE Left(seen[t])]
     /\ mutex' = [mutex EXCEPT ![k] = IF last THEN 0 ELSE @]
     /\ seen' = [seen EXCEPT ![t] = NoCount]
     /\ object' = [object EXCEPT ![t] = 0]
     /\ UNCHANGED <<on, raced>>

LockNext ==
  \E t \in Threads :
    \/ \E k \in Keys : Find(t, k)
    \/ Count(t)
    \/ Acquire(t)
    \/ Unlock(t)
    \/ Load(t)
    \/ Forget(t)

LockSpec == LockInit /\ [][LockNext]_lockVars

------------------------------------------------------------------------------
ThreadLockTypeOK ==
  /\ count \in [Keys -> Int \union {NoCount}]
  /\ mutex \in [Keys -> Mutexes]
  /\ at \in [Threads -> Phases]
  /\ on \in [Threads -> Keys]
  /\ seen \in [Threads -> Int \union {NoCount}]
  /\ object \in [Threads -> Mutexes]
  /\ raced \in BOOLEAN

\* What ThreadLock is for: of the threads that lock a path one at a time works
\* on it.  It needs the maps to be used by one thread at a time, which nothing
\* in the code sees to.
LocksExclude == ~raced => \A k \in Keys : \A t, u \in Holders(k) : t = u

\* The counts are true and nothing is left behind: a key has as many users as
\* its count says, and none when it is not in the maps.
LockInv ==
  ~raced =>
    /\ \A t, u \in Threads : Updating(t) /\ Updating(u) => t = u
    /\ \A t \in Threads : Updating(t) => seen[t] = count[on[t]]
    /\ \A k \in Keys :
         count[k] = IF Registered(k) = {} THEN NoCount ELSE Cardinality(Registered(k))
    /\ \A t \in Threads : Engaged(t) => object[t] = mutex[on[t]]
    /\ \A t, u \in Threads : at[t] = "in" /\ at[u] = "in" /\ object[t] = object[u] => t = u
==============================================================================
