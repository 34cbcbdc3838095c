--------------------------- MODULE ThreadLockProofs ---------------------------
(***************************************************************************)
(* The mutual exclusion of ThreadLock for any set of threads and keys, as    *)
(* long as no two threads are in its maps at once.                           *)
(***************************************************************************)
EXTENDS ThreadLock, FiniteSetTheorems, TLAPS

\* Who counted itself has a mutex.
MutexTaken == \A t \in Threads : Engaged(t) => object[t] # 0

\* The inductive invariant.  LocksExclude speaks of keys and the mutexes exclude
\* by object: that those who use a key have the mutex of the key is in LockInv, and
\* needs the counts to be true, for the mutex is forgotten when one says so.
IInv == ThreadLockTypeOK /\ MutexTaken /\ LockInv

USE ThreadLockConstantsOK

\* There is a mutex to spare: fewer threads than mutexes have one.
LEMMA FreshExists ==
  ASSUME ThreadLockTypeOK, NEW t \in Threads
  PROVE  Fresh(t) \in Mutexes \ {0}
<1> DEFINE N == Cardinality(Threads)
           Others == Threads \ {t}
<1>1. /\ N \in Nat
      /\ IsFiniteSet(Others) /\ Cardinality(Others) = N - 1
  BY FS_CardinalityType, FS_RemoveElement, Zenon
<1>2. IsFiniteSet(1 .. N) /\ Cardinality(1 .. N) = N
  <2>1. N > 0
    BY <1>1, FS_EmptySet, FS_CardinalityType
  <2>2. QED
    BY <1>1, <2>1, FS_Interval
<1>3. \E g \in 1 .. N : \A u \in Others : Engaged(u) => object[u] # g
  <2> SUFFICES ASSUME \A g \in 1 .. N : \E u \in Others : object[u] = g
               PROVE  FALSE
    OBVIOUS
  <2> DEFINE f == [g \in 1 .. N |-> CHOOSE u \in Others : object[u] = g]
  <2>1. \A g \in 1 .. N : f[g] \in Others /\ object[f[g]] = g
    OBVIOUS
  <2>2. f \in [1 .. N -> Others]
    BY <2>1
  <2> HIDE DEF f
  <2>3. Cardinality(Others) < Cardinality(1 .. N)
    BY <1>1, <1>2
  <2>4. PICK x, y \in 1 .. N : x # y /\ f[x] = f[y]
    BY <1>1, <1>2, <2>2, <2>3, FS_PigeonHole
  <2>5. QED
    BY <2>1, <2>4
<1>4. \E g \in Mutexes \ {0} : \A u \in Threads \ {t} : Engaged(u) => object[u] # g
  BY <1>1, <1>3 DEF Mutexes
<1>5. QED
  BY <1>4 DEF Fresh

\* Who uses a key is counted; the count of its users is a number.
LEMMA Users ==
  ASSUME NEW k \in Keys
  PROVE  IsFiniteSet(Registered(k)) /\ Cardinality(Registered(k)) \in Nat
<1>1. Registered(k) \in SUBSET Threads
  BY DEF Registered
<1>2. IsFiniteSet(Registered(k))
  BY <1>1, FS_Subset
<1>3. QED
  BY <1>2, FS_CardinalityType

\* The invariant holds at first.
LEMMA InitIInv == LockInit => IInv
<1> SUFFICES ASSUME LockInit PROVE IInv
  OBVIOUS
<1>1. 0 \in Mutexes
  BY FS_CardinalityType DEF Mutexes
<1>2. ThreadLockTypeOK
  BY <1>1 DEF LockInit, ThreadLockTypeOK, Phases
<1>3. MutexTaken
  BY DEF LockInit, MutexTaken, Engaged
<1>4. \A k \in Keys : Registered(k) = {}
  BY DEF LockInit, Registered, Engaged
<1>5. LockInv
  BY <1>4 DEF LockInit, LockInv, Updating, Engaged
<1>6. QED
  BY <1>2, <1>3, <1>5 DEF IInv

\* The key is looked up by one thread at a time, or the maps have been raced.
LEMMA FindIInv ==
  ASSUME IInv, NEW t \in Threads, NEW k \in Keys, Find(t, k)
  PROVE  IInv'
<1> USE DEF IInv, Find
<1>1. ThreadLockTypeOK'
  BY DEF ThreadLockTypeOK, Phases, RacedBy
<1>2. \A u \in Threads : Engaged(u)' <=> Engaged(u)
  BY DEF ThreadLockTypeOK, Engaged
<1>3. MutexTaken'
  BY <1>2 DEF MutexTaken
<1>4. \A u \in Threads : Engaged(u) => u # t /\ on'[u] = on[u]
  BY DEF ThreadLockTypeOK, Engaged
<1>5. \A j \in Keys : Registered(j)' = Registered(j)
  BY <1>2, <1>4 DEF Registered
<1>6. LockInv'
  <2> SUFFICES ASSUME ~raced' PROVE LockInv'
    BY DEF LockInv
  <2>1. ~raced /\ \A u \in Threads \ {t} : ~Updating(u)
    BY DEF RacedBy
  <2>2. \A u \in Threads : Updating(u)' => u = t
    BY <2>1 DEF Updating, ThreadLockTypeOK
  <2>3. seen'[t] = count'[on'[t]]
    BY DEF ThreadLockTypeOK
  <2>4. \A j \in Keys :
          count'[j] = IF Registered(j)' = {} THEN NoCount ELSE Cardinality(Registered(j)')
    BY <1>5, <2>1 DEF LockInv
  <2>5. \A u \in Threads : Engaged(u)' => object'[u] = mutex'[on'[u]]
    BY <1>2, <1>4, <2>1 DEF LockInv
  <2>6. \A u \in Threads : at'[u] = "in" => at[u] = "in"
    BY DEF ThreadLockTypeOK
  <2>7. \A u, v \in Threads : at'[u] = "in" /\ at'[v] = "in" /\ object'[u] = object'[v] => u = v
    BY <2>1, <2>6 DEF LockInv
  <2>8. QED
    BY <2>2, <2>3, <2>4, <2>5, <2>7 DEF LockInv
<1>7. QED
  BY <1>1, <1>3, <1>6

\* A thread counts itself: what it read is still true, and if the key has no mutex
\* nobody uses it.
LEMMA CountIInv ==
  ASSUME IInv, NEW t \in Threads, Count(t)
  PROVE  IInv'
<1> USE DEF IInv
<1>0. PICK k \in Keys : k = on[t]
  BY DEF ThreadLockTypeOK
<1> DEFINE g == IF mutex[k] = 0 THEN Fresh(t) ELSE mutex[k]
<1>1. g \in Mutexes \ {0}
  BY FreshExists DEF ThreadLockTypeOK
<1>2. /\ at[t] = "found"
      /\ at' = [at EXCEPT ![t] = "waiting"]
      /\ count' = [count EXCEPT ![k] = Counted(seen[t])]
      /\ mutex' = [mutex EXCEPT ![k] = g]
      /\ object' = [object EXCEPT ![t] = g]
      /\ seen' = [seen EXCEPT ![t] = NoCount]
      /\ on' = on /\ raced' = raced
  BY <1>0 DEF Count
<1> HIDE DEF g
<1>3. Counted(seen[t]) \in Int
  BY DEF ThreadLockTypeOK, Counted
<1>4. ThreadLockTypeOK'
  BY <1>1, <1>2, <1>3 DEF ThreadLockTypeOK, Phases
<1>5. \A u \in Threads : Engaged(u)' <=> Engaged(u) \/ u = t
  BY <1>2 DEF ThreadLockTypeOK, Engaged
<1>6. MutexTaken'
  BY <1>1, <1>2, <1>5 DEF MutexTaken, ThreadLockTypeOK
<1>7. LockInv'
  <2> SUFFICES ASSUME ~raced PROVE LockInv'
    BY <1>2 DEF LockInv
  <2>1. \A u \in Threads : ~Updating(u)'
    BY <1>2 DEF LockInv, Updating, ThreadLockTypeOK
  <2>2. /\ Registered(k)' = Registered(k) \union {t}
        /\ t \notin Registered(k)
        /\ \A j \in Keys \ {k} : Registered(j)' = Registered(j)
    BY <1>0, <1>2, <1>5 DEF Registered, Engaged
  <2>3. seen[t] = count[k]
    BY <1>0, <1>2 DEF LockInv, Updating
  <2>4. Cardinality(Registered(k)') = Cardinality(Registered(k)) + 1
    BY <1>1, <2>2, Users, FS_AddElement
  <2>5. count'[k] = Cardinality(Registered(k)')
    <3>1. CASE Registered(k) = {}
      BY <1>1, <1>2, <2>3, <2>4, <3>1, FS_EmptySet DEF LockInv, Counted, ThreadLockTypeOK
    <3>2. CASE Registered(k) # {}
      <4>1. seen[t] = Cardinality(Registered(k)) /\ seen[t] \in Int
        BY <1>1, <2>3, <3>2, Users DEF LockInv
      <4>2. Counted(seen[t]) = Cardinality(Registered(k)) + 1
        BY <4>1 DEF Counted
      <4>3. QED
        BY <1>1, <1>2, <2>4, <4>2 DEF ThreadLockTypeOK
    <3>3. QED
      BY <3>1, <3>2
  <2>6. \A j \in Keys :
          count'[j] = IF Registered(j)' = {} THEN NoCount ELSE Cardinality(Registered(j)')
    <3> SUFFICES ASSUME NEW j \in Keys
                 PROVE  count'[j] = IF Registered(j)' = {} THEN NoCount
                                    ELSE Cardinality(Registered(j)')
      OBVIOUS
    <3>1. CASE j = k
      BY <2>2, <2>5, <3>1
    <3>2. CASE j # k
      BY <1>2, <2>2, <3>2 DEF LockInv, ThreadLockTypeOK
    <3>3. QED
      BY <3>1, <3>2
  <2>7. \A u \in Threads : Engaged(u)' => object'[u] = mutex'[on'[u]]
    <3> SUFFICES ASSUME NEW u \in Threads, Engaged(u)'
                 PROVE  object'[u] = mutex'[on[u]]
      BY <1>2
    <3>1. CASE u = t
      BY <1>0, <1>1, <1>2, <3>1 DEF ThreadLockTypeOK
    <3>2. CASE u # t
      <4>1. Engaged(u) /\ object[u] = mutex[on[u]] /\ object[u] # 0
        BY <1>5, <3>2 DEF LockInv, MutexTaken
      <4>2. on[u] = k => g = mutex[k]
        BY <4>1 DEF g
      <4>3. QED
        BY <1>1, <1>2, <3>2, <4>1, <4>2 DEF ThreadLockTypeOK
    <3>3. QED
      BY <3>1, <3>2
  <2>8. \A u, v \in Threads : at'[u] = "in" /\ at'[v] = "in" /\ object'[u] = object'[v] => u = v
    BY <1>2 DEF LockInv, ThreadLockTypeOK
  <2>9. QED
    BY <2>1, <2>6, <2>7, <2>8 DEF LockInv
<1>8. QED
  BY <1>4, <1>6, <1>7

\* Taking the mutex, letting it go and reading the count change no map.
LEMMA WaitingIInv ==
  ASSUME IInv, NEW t \in Threads, Acquire(t) \/ Unlock(t) \/ Load(t)
  PROVE  IInv'
<1> USE DEF IInv, Acquire, Unlock, Load
<1>1. ThreadLockTypeOK'
  BY DEF ThreadLockTypeOK, Phases, RacedBy
<1>2. \A u \in Threads : Engaged(u)' <=> Engaged(u)
  BY DEF ThreadLockTypeOK, Engaged
<1>3. MutexTaken'
  BY <1>2 DEF MutexTaken
<1>4. \A j \in Keys : Registered(j)' = Registered(j)
  BY <1>2 DEF Registered
<1>5. LockInv'
  <2> SUFFICES ASSUME ~raced' PROVE LockInv'
    BY DEF LockInv
  <2>1. ~raced
    BY DEF RacedBy
  <2>2. \A u \in Threads : Updating(u)' => Updating(u) \/ (Load(t) /\ u = t)
    BY DEF Updating, ThreadLockTypeOK
  <2>3. Load(t) => \A u \in Threads \ {t} : ~Updating(u)
    BY DEF RacedBy
  <2>4. \A u, v \in Threads : Updating(u) /\ Updating(v) => u = v
    BY <2>1 DEF LockInv
  <2>5. \A u, v \in Threads : Updating(u)' /\ Updating(v)' => u = v
    BY <2>2, <2>3, <2>4
  <2>6. \A u \in Threads : Updating(u)' => seen'[u] = count'[on'[u]]
    BY <2>1 DEF LockInv, Updating, ThreadLockTypeOK
  <2>7. \A j \in Keys :
          count'[j] = IF Registered(j)' = {} THEN NoCount ELSE Cardinality(Registered(j)')
    BY <1>4, <2>1 DEF LockInv
  <2>8. \A u \in Threads : Engaged(u)' => object'[u] = mutex'[on'[u]]
    BY <1>2, <2>1 DEF LockInv
  <2>9. \A u, v \in Threads : at'[u] = "in" /\ at'[v] = "in" /\ object'[u] = object'[v] => u = v
    BY <2>1 DEF LockInv, ThreadLockTypeOK
  <2>10. QED
    BY <2>5, <2>6, <2>7, <2>8, <2>9 DEF LockInv
<1>6. QED
  BY <1>1, <1>3, <1>5

\* The last one takes the key out of the maps: what it read says that it is the last.
LEMMA ForgetIInv ==
  ASSUME IInv, NEW t \in Threads, Forget(t)
  PROVE  IInv'
<1> USE DEF IInv
<1>1. PICK k \in Keys : k = on[t]
  BY DEF ThreadLockTypeOK
<1> DEFINE last == Left(seen[t]) <= 0
<1>2. /\ at[t] = "loaded"
      /\ at' = [at EXCEPT ![t] = "idle"]
      /\ count' = [count EXCEPT ![k] = IF last THEN NoCount ELSE Left(seen[t])]
      /\ mutex' = [mutex EXCEPT ![k] = IF last THEN 0 ELSE @]
      /\ seen' = [seen EXCEPT ![t] = NoCount]
      /\ object' = [object EXCEPT ![t] = 0]
      /\ on' = on /\ raced' = raced
  BY <1>1 DEF Forget
<1>3. Left(seen[t]) \in Int
  BY DEF ThreadLockTypeOK, Left
<1>4. 0 \in Mutexes
  BY FS_CardinalityType DEF Mutexes
<1>5. ThreadLockTypeOK'
  BY <1>1, <1>2, <1>3, <1>4 DEF ThreadLockTypeOK, Phases
<1>6. \A u \in Threads : Engaged(u)' <=> Engaged(u) /\ u # t
  BY <1>2 DEF ThreadLockTypeOK, Engaged
<1>7. MutexTaken'
  BY <1>2, <1>6 DEF MutexTaken, ThreadLockTypeOK
<1>8. LockInv'
  <2> SUFFICES ASSUME ~raced PROVE LockInv'
    BY <1>2 DEF LockInv
  <2>1. \A u \in Threads : ~Updating(u)'
    BY <1>2 DEF LockInv, Updating, ThreadLockTypeOK
  <2>2. /\ t \in Registered(k)
        /\ Registered(k)' = Registered(k) \ {t}
        /\ \A j \in Keys \ {k} : Registered(j)' = Registered(j)
    BY <1>1, <1>2, <1>6 DEF Registered, Engaged
  <2>3. seen[t] = Cardinality(Registered(k)) /\ seen[t] \in Nat
    BY <1>1, <1>2, <2>2, Users DEF LockInv, Updating
  <2>4. Left(seen[t]) = Cardinality(Registered(k)')
    <3>1. Left(seen[t]) = seen[t] - 1
      BY <2>3 DEF Left
    <3>2. Cardinality(Registered(k)') = Cardinality(Registered(k)) - 1
      BY <1>1, <2>2, Users, FS_RemoveElement
    <3>3. QED
      BY <2>3, <3>1, <3>2
  <2>5. IsFiniteSet(Registered(k)')
    BY <1>1, <2>2, Users, FS_RemoveElement
  <2>6. last <=> Registered(k)' = {}
    BY <2>4, <2>5, FS_EmptySet, FS_CardinalityType
  <2> HIDE DEF last
  <2>7. \A j \in Keys :
          count'[j] = IF Registered(j)' = {} THEN NoCount ELSE Cardinality(Registered(j)')
    <3> SUFFICES ASSUME NEW j \in Keys
                 PROVE  count'[j] = IF Registered(j)' = {} THEN NoCount
                                    ELSE Cardinality(Registered(j)')
      OBVIOUS
    <3>1. CASE j = k
      BY <1>1, <1>2, <2>4, <2>6, <3>1 DEF ThreadLockTypeOK
    <3>2. CASE j # k
      BY <1>2, <2>2, <3>2 DEF LockInv, ThreadLockTypeOK
    <3>3. QED
      BY <3>1, <3>2
  <2>8. \A u \in Threads : Engaged(u)' => object'[u] = mutex'[on'[u]]
    <3> SUFFICES ASSUME NEW u \in Threads, Engaged(u), u # t
                 PROVE  object[u] = mutex'[on[u]]
      BY <1>2, <1>6 DEF ThreadLockTypeOK
    <3>1. on[u] = k => ~last
      BY <2>2, <2>6 DEF Registered
    <3>2. object[u] = mutex[on[u]]
      BY DEF LockInv
    <3>3. QED
      BY <1>1, <1>2, <3>1, <3>2 DEF ThreadLockTypeOK
  <2>9. \A u, v \in Threads : at'[u] = "in" /\ at'[v] = "in" /\ object'[u] = object'[v] => u = v
    BY <1>2 DEF LockInv, ThreadLockTypeOK
  <2>10. QED
    BY <2>1, <2>7, <2>8, <2>9 DEF LockInv
<1>9. QED
  BY <1>5, <1>7, <1>8

\* Every step of the lock keeps the invariant.
LEMMA LockStepIInv == IInv /\ [LockNext]_lockVars => IInv'
<1> SUFFICES ASSUME IInv, [LockNext]_lockVars PROVE IInv'
  OBVIOUS
<1>1. CASE UNCHANGED lockVars
  <2>1. \A k \in Keys : Registered(k)' = Registered(k)
    BY <1>1 DEF lockVars, Registered, Engaged
  <2>2. LockInv'
    BY <1>1, <2>1 DEF lockVars, IInv, LockInv, Engaged, Updating
  <2>3. QED
    BY <1>1, <2>2 DEF lockVars, IInv, ThreadLockTypeOK, MutexTaken, Engaged
<1>2. ASSUME NEW t \in Threads, NEW k \in Keys, Find(t, k) PROVE IInv'
  BY <1>2, FindIInv
<1>3. ASSUME NEW t \in Threads, Count(t) PROVE IInv'
  BY <1>3, CountIInv
<1>4. ASSUME NEW t \in Threads, Acquire(t) \/ Unlock(t) \/ Load(t) PROVE IInv'
  BY <1>4, WaitingIInv
<1>5. ASSUME NEW t \in Threads, Forget(t) PROVE IInv'
  BY <1>5, ForgetIInv
<1>6. QED
  BY <1>1, <1>2, <1>3, <1>4, <1>5 DEF LockNext

\* Of the threads that lock a path one at a time is inside: they have the same mutex.
LEMMA IInvExcludes == IInv => LocksExclude
BY DEF IInv, LockInv, LocksExclude, Holders, Engaged

\* The variables of the lock have their types (threadlock.cpp:8-35).
THEOREM LockTypeCorrect == LockSpec => []ThreadLockTypeOK
<1>1. IInv => ThreadLockTypeOK
  BY DEF IInv
<1>2. QED
  BY InitIInv, LockStepIInv, <1>1, PTL DEF LockSpec

\* While the maps are used by one thread at a time, a path is worked on by one thread
\* at a time, however many of them wait for it (threadlock.cpp:14-24).
THEOREM LockMutualExclusion == LockSpec => []LocksExclude
BY InitIInv, LockStepIInv, IInvExcludes, PTL DEF LockSpec

\* While the maps are used by one thread at a time, the counts are true, and the last
\* thread that leaves takes its key out of both (threadlock.cpp:29-34).
THEOREM LockCountsTrue == LockSpec => []LockInv
<1>1. IInv => LockInv
  BY DEF IInv
<1>2. QED
  BY InitIInv, LockStepIInv, <1>1, PTL DEF LockSpec
==============================================================================
