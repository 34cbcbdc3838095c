----------------------------- MODULE BuildProofs -----------------------------
(***************************************************************************)
(* Build implements BuildLock, and inherits its exclusion; hence, until an   *)
(* unlink leaves a builder on an inode without a name, neither a cleanup nor *)
(* an eviction gets at the temp folder of a live build, a build that returns  *)
(* has its output, and an output goes only when its successor is ready.      *)
(***************************************************************************)
EXTENDS Build, BuildLockProofs

USE BuildConstantsOK

------------------------------------------------------------------------------

\* What a builder does is a step of its lock, or none.
LEMMA BuilderImplements ==
  ASSUME NEW b \in Builders,
         RequestBuild(b) \/ ReadPending(b) \/ BuilderSteps(b) \/ RunsBuilder(b)
  PROVE  LockNext \/ UNCHANGED lockVars
<1>1. CASE AcquireLock(b) \/ LockThrew(b) \/ Release(b)
  BY <1>1 DEF AcquireLock, LockThrew, Release, LockNext, Releasing
<1>2. CASE Prepare(b) \/ CreateTemp(b) \/ Rename(b) \/ BackUp(b)
  BY <1>2 DEF Prepare, CreateTemp, Rename, BackUp, AssureParent, LockNext
<1>3. CASE \/ RequestBuild(b) \/ ReadPending(b) \/ TakePending(b) \/ Recheck(b) \/ DiskFull(b)
           \/ ClearMarker(b) \/ ClearMarkerFails(b) \/ Publish(b) \/ OldRemoved(b)
           \/ RemoveOwnTemp(b) \/ Built(b) \/ BuildsNothing(b) \/ DepMissing(b) \/ BuildFails(b)
           \/ OldRemovalFails(b) \/ Promote(b) \/ PutBack(b) \/ OwnTempStays(b)
  BY <1>3 DEF RequestBuild, ReadPending, TakePending, Recheck, DiskFull, ClearMarker,
              ClearMarkerFails, Publish, OldRemoved, RemoveOwnTemp, Built, BuildsNothing,
              DepMissing, BuildFails, OldRemovalFails, Promote, PutBack, OwnTempStays
<1>4. QED
  BY <1>1, <1>2, <1>3 DEF BuilderSteps, RunsBuilder

\* The same of a keeper.
LEMMA KeeperImplements ==
  ASSUME NEW k \in Keepers, KeeperSteps(k)
  PROVE  LockNext \/ UNCHANGED lockVars
<1>1. CASE ProbeSteps(k)
  BY <1>1 DEF ProbeSteps, ProbeVanished, Probe, ProbeThrew, ProbeReleased, LockNext, Releasing
<1>2. CASE RemoveLockFile(k) \/ RemoveTree(k)
  BY <1>2 DEF RemoveLockFile, RemoveTree, RemoveFolder, LockNext
<1>3. CASE \/ WatchBuild(k) \/ StartCleanup(k) \/ VisitTemp(k) \/ VisitTree(k) \/ RemoveTemp(k)
           \/ RemoveMarker(k) \/ EndCleanup(k)
  BY <1>3 DEF WatchBuild, StartCleanup, VisitTemp, VisitTree, RemoveTemp, RemoveMarker, EndCleanup
<1>4. QED
  BY <1>1, <1>2, <1>3 DEF KeeperSteps

\* Every step of Build is a step of the lock, or leaves the lock alone.
LEMMA StepImplements == [BuildNext]_buildVars => [LockNext]_lockVars
<1> SUFFICES ASSUME BuildNext
             PROVE  LockNext \/ UNCHANGED lockVars
  BY DEF buildVars
<1>1. ASSUME NEW c \in Clients, Crash(c)
      PROVE  LockNext \/ UNCHANGED lockVars
  BY <1>1 DEF Crash, LockNext
<1>2. CASE IndexSteps
  BY <1>2 DEF IndexSteps, AddEntry, DeleteEntry, EvictBuild, RemoveFolder, LockNext
<1>3. QED
  BY <1>1, <1>2, BuilderImplements, KeeperImplements DEF BuildNext

\* The processes of build.cpp use the lock as buildlock.cpp means it: Build
\* implements BuildLock.
THEOREM BuildImplementsLock == BuildSpec => LockSpec
<1>1. BuildInit => LockInit
  BY DEF BuildInit
<1>2. QED
  BY <1>1, StepImplements, PTL DEF BuildSpec, LockSpec

\* The invariant of the lock holds of Build.
LEMMA BuildIInv == BuildSpec => []IInv
BY BuildImplementsLock, Invariance

\* Builders and keepers exclude each other from the output folder until an
\* unlink leaves one of them on an inode without a name.
THEOREM BuildExclusion == BuildSpec => []ExclusiveUnlessOrphaned
BY BuildImplementsLock, Exclusion

------------------------------------------------------------------------------

\* The steps of a builder keep the types.
LEMMA BuilderTypes ==
  ASSUME BuildTypeOK, TypeOK', NEW b \in Builders,
         RequestBuild(b) \/ ReadPending(b) \/ BuilderSteps(b) \/ RunsBuilder(b)
  PROVE  BuildTypeOK'
<1> USE DEF BuildTypeOK, BuilderStates, KeeperStates, BuildJobs, KeeperJobs, Goto, Leave,
            outVars, indexVars, lockVars, TempGone, TempLeft
<1>1. CASE RequestBuild(b) \/ ReadPending(b) \/ TakePending(b)
  <2>1. CASE RequestBuild(b)
    BY <1>1, <2>1 DEF RequestBuild
  <2>2. CASE ReadPending(b)
    BY <1>1, <2>2 DEF ReadPending
  <2>3. CASE TakePending(b)
    <3>1. marker' = FALSE /\ UNCHANGED <<temp, target, out, indexed, evicting, parent>>
      BY <2>3 DEF TakePending
    <3>2. \/ pc' = [pc EXCEPT ![b] = "prepare"] /\ job' = job
          \/ pc' = [pc EXCEPT ![b] = "idle"] /\ job' = [job EXCEPT ![b] = "none"]
      BY <2>3 DEF TakePending
    <3>3. pc[b] = "pending"
      BY <2>3 DEF TakePending
    <3>4. \A c \in Clients : pc'[c] = "idle" <=> job'[c] = "none"
      BY <3>2, <3>3
    <3>5. pc' \in [Clients -> BuilderStates \union KeeperStates]
      BY <3>2
    <3>6. job' \in [Clients -> BuildJobs \union KeeperJobs \union {"none"}]
      BY <3>2
    <3>7. /\ \A c \in Builders : pc'[c] \in BuilderStates /\ job'[c] \in BuildJobs \union {"none"}
          /\ \A c \in Keepers : pc'[c] \in KeeperStates /\ job'[c] \in KeeperJobs \union {"none"}
      BY <3>2
    <3>8. QED
      BY <3>1, <3>4, <3>5, <3>6, <3>7
  <2>4. QED
    BY <1>1, <2>1, <2>2, <2>3
<1>2. CASE Prepare(b) \/ AcquireLock(b)
  BY <1>2 DEF Prepare, AssureParent, MakeParent, AcquireLock, Acquiring, CheckParent, OpenFile,
              OpenFails, LockGranted, LockRefused, LockFails
<1>3. CASE LockThrew(b) \/ Release(b)
  BY <1>3 DEF LockThrew, Catch, Release, CleanupUnlink, CleanupUnlock
<1>4. CASE Recheck(b) \/ DiskFull(b) \/ BuildsNothing(b) \/ BuildFails(b)
  BY <1>4 DEF Recheck, DiskFull, BuildsNothing, BuildFails
<1>5. CASE ClearMarker(b) \/ DepMissing(b) \/ Publish(b) \/ OldRemoved(b)
  <2>1. CASE ClearMarker(b)
    BY <1>5, <2>1 DEF ClearMarker
  <2>2. CASE DepMissing(b)
    BY <1>5, <2>2 DEF DepMissing
  <2>3. CASE Publish(b)
    BY <1>5, <2>3 DEF Publish
  <2>4. CASE OldRemoved(b)
    BY <1>5, <2>4 DEF OldRemoved
  <2>5. QED
    BY <1>5, <2>1, <2>2, <2>3, <2>4
<1>6. CASE CreateTemp(b) \/ BackUp(b)
  <2>1. CASE CreateTemp(b)
    BY <2>1 DEF CreateTemp, AssureParent, MakeParent
  <2>2. CASE BackUp(b)
    BY <2>2 DEF BackUp, AssureParent, MakeParent
  <2>3. QED
    BY <1>6, <2>1, <2>2
<1>7. CASE ClearMarkerFails(b) \/ RemoveOwnTemp(b) \/ OwnTempStays(b)
  BY <1>7 DEF ClearMarkerFails, RemoveOwnTemp, OwnTempStays
<1>8. CASE Built(b)
  BY <1>8 DEF Built
<1>9. CASE Rename(b)
  BY <1>9 DEF Rename, AssureParent, MakeParent
<1>10. CASE OldRemovalFails(b) \/ Promote(b) \/ PutBack(b)
  <2>1. CASE OldRemovalFails(b)
    BY <2>1 DEF OldRemovalFails, Remains
  <2>2. CASE Promote(b)
    BY <2>2 DEF Promote
  <2>3. CASE PutBack(b)
    BY <2>3 DEF PutBack
  <2>4. QED
    BY <1>10, <2>1, <2>2, <2>3
<1>11. QED
  BY <1>1, <1>2, <1>3, <1>4, <1>5, <1>6, <1>7, <1>8, <1>9, <1>10
  DEF BuilderSteps, RunsBuilder

\* The steps of a keeper keep the types.
LEMMA KeeperTypes ==
  ASSUME BuildTypeOK, TypeOK', NEW k \in Keepers, KeeperSteps(k)
  PROVE  BuildTypeOK'
<1> USE DEF BuildTypeOK, BuilderStates, KeeperStates, BuildJobs, KeeperJobs, Goto, Leave,
            outVars, indexVars, lockVars
<1>1. CASE WatchBuild(k) \/ StartCleanup(k) \/ EndCleanup(k) \/ RemoveMarker(k)
  <2>1. CASE WatchBuild(k)
    BY <1>1, <2>1 DEF WatchBuild
  <2>2. CASE StartCleanup(k)
    BY <1>1, <2>2 DEF StartCleanup
  <2>3. CASE EndCleanup(k)
    BY <1>1, <2>3 DEF EndCleanup
  <2>4. CASE RemoveMarker(k)
    BY <1>1, <2>4 DEF RemoveMarker
  <2>5. QED
    BY <1>1, <2>1, <2>2, <2>3, <2>4
<1>2. CASE VisitTemp(k) \/ VisitTree(k)
  BY <1>2 DEF VisitTemp, VisitTree, Visit
<1>3. CASE ProbeVanished(k) \/ ProbeThrew(k)
  BY <1>3 DEF ProbeVanished, ProbeThrew, NotStale, Catch
<1>4. CASE Probe(k)
  BY <1>4 DEF Probe, Acquiring, CheckParent, OpenFile, OpenFails, LockGranted, LockRefused,
              LockFails
<1>5. CASE ProbeReleased(k) \/ RemoveLockFile(k)
  BY <1>5 DEF ProbeReleased, CleanupUnlink, CleanupUnlock, RemoveLockFile, StrayUnlink
<1>6. CASE RemoveTemp(k)
  BY <1>6 DEF RemoveTemp, TempGone
<1>7. CASE RemoveTree(k)
  BY <1>7 DEF RemoveTree, RemoveFolder
<1>8. QED
  BY <1>1, <1>2, <1>3, <1>4, <1>5, <1>6, <1>7 DEF KeeperSteps, ProbeSteps

\* Crashes and the index keep the types.
LEMMA OtherTypes ==
  ASSUME BuildTypeOK, TypeOK', IndexSteps \/ \E c \in Clients : Crash(c)
  PROVE  BuildTypeOK'
<1> USE DEF BuildTypeOK, BuilderStates, KeeperStates, BuildJobs, KeeperJobs, Goto, Leave,
            outVars, indexVars, lockVars
<1>1. ASSUME NEW c \in Clients, Crash(c)
      PROVE  BuildTypeOK'
  <2>1. parent' = parent
    BY <1>1 DEF Crash, Die
  <2>2. CASE c \in Builders
    BY <1>1, <2>1, <2>2 DEF Crash, TempLeft, Remains
  <2>3. CASE c \in Keepers
    BY <1>1, <2>1, <2>3 DEF Crash, Remains
  <2>4. QED
    BY <2>2, <2>3
<1>2. CASE IndexSteps
  <2>1. CASE AddEntry
    BY <2>1 DEF AddEntry
  <2>2. CASE DeleteEntry
    BY <2>2 DEF DeleteEntry
  <2>3. CASE EvictBuild
    <3>1. UNCHANGED <<pc, job, marker, indexed>> /\ evicting' = FALSE
      BY <2>3 DEF EvictBuild
    <3>2. \/ UNCHANGED <<parent, temp, target, out>>
          \/ /\ temp' = [b \in Builders |-> "none"]
             /\ target' = [k \in Keepers |-> "gone"]
             /\ out' = "none"
      BY <2>3 DEF EvictBuild, RemoveFolder
    <3>3. QED
      BY ZenonT(40), <3>1, <3>2
  <2>4. QED
    BY <1>2, <2>1, <2>2, <2>3 DEF IndexSteps
<1>3. QED
  BY <1>1, <1>2

\* The variables of Build keep their types, and every step those of the lock.
THEOREM BuildTypeCorrect == BuildSpec => []BuildTypeOK
<1>1. BuildInit => BuildTypeOK
  <2>1. LockInit => TypeOK
    BY InitIInv DEF IInv
  <2>2. QED
    BY ZenonT(40), <2>1 DEF BuildInit, BuildTypeOK, BuilderStates, KeeperStates, BuildJobs, KeeperJobs
<1>2. BuildTypeOK /\ TypeOK' /\ [BuildNext]_buildVars => BuildTypeOK'
  <2> SUFFICES ASSUME BuildTypeOK, TypeOK', [BuildNext]_buildVars
               PROVE  BuildTypeOK'
    OBVIOUS
  <2>1. CASE UNCHANGED buildVars
    BY <2>1 DEF buildVars, outVars, indexVars, lockVars, BuildTypeOK
  <2>2. CASE BuildNext
    BY <2>2, BuilderTypes, KeeperTypes, OtherTypes DEF BuildNext
  <2>3. QED
    BY <2>1, <2>2
<1>3. IInv => TypeOK
  BY DEF IInv
<1>4. QED
  BY <1>1, <1>2, <1>3, BuildIInv, PTL DEF BuildSpec

------------------------------------------------------------------------------

\* Between the recheck and the release.
Busy == {"creating", "clearing", "running", "publish", "removing", "renaming", "promoting",
         "replacing", "finishing", "failing"}

\* How far a process is tells how far it is with the lock.
PhaseOK ==
  /\ \A b \in Builders :
       /\ pc[b] \in {"idle", "pending", "prepare"} => lk[b] = "idle"
       /\ pc[b] = "locking" => lk[b] # "unlinked"
       /\ pc[b] \in Busy => lk[b] = "held"
       /\ temp[b] # "none" => pc[b] \in Busy \ {"creating"}
  /\ \A k \in Keepers : pc[k] # "probing" => lk[k] = "idle"

\* The steps of a builder keep the phases.
LEMMA BuilderPhases ==
  ASSUME BuildTypeOK, PhaseOK, NEW b \in Builders,
         RequestBuild(b) \/ ReadPending(b) \/ BuilderSteps(b) \/ RunsBuilder(b)
  PROVE  PhaseOK'
<1> USE DEF BuildTypeOK, TypeOK, PhaseOK, Busy, Goto, Leave, outVars, indexVars, lockVars
<1>1. CASE RequestBuild(b) \/ ReadPending(b)
  BY <1>1 DEF RequestBuild, ReadPending
<1>2. CASE TakePending(b)
  BY <1>2 DEF TakePending
<1>3. CASE Prepare(b) \/ CreateTemp(b) \/ BackUp(b)
  BY <1>3 DEF Prepare, CreateTemp, BackUp, AssureParent, MakeParent
<1>4. CASE AcquireLock(b)
  BY <1>4 DEF AcquireLock, Acquiring, CheckParent, OpenFile, OpenFails, LockGranted,
              LockRefused, LockFails
<1>5. CASE LockThrew(b) \/ Release(b)
  BY <1>5 DEF LockThrew, Catch, Release, CleanupUnlink, CleanupUnlock
<1>6. CASE Recheck(b) \/ DiskFull(b) \/ ClearMarker(b)
  <2>1. CASE Recheck(b)
    BY <2>1 DEF Recheck, InSection
  <2>2. CASE DiskFull(b)
    BY <2>2 DEF DiskFull
  <2>3. CASE ClearMarker(b)
    BY <2>3 DEF ClearMarker
  <2>4. QED
    BY <1>6, <2>1, <2>2, <2>3
<1>7. CASE ClearMarkerFails(b) \/ RemoveOwnTemp(b) \/ OwnTempStays(b)
  BY <1>7 DEF ClearMarkerFails, TempLeft, RemoveOwnTemp, TempGone, OwnTempStays
<1>8. CASE Built(b) \/ BuildsNothing(b) \/ DepMissing(b) \/ BuildFails(b)
  BY <1>8 DEF Built, BuildsNothing, DepMissing, BuildFails
<1>9. CASE Publish(b) \/ OldRemoved(b) \/ OldRemovalFails(b) \/ Promote(b) \/ PutBack(b)
  BY <1>9 DEF Publish, OldRemoved, OldRemovalFails, Promote, PutBack
<1>10. CASE Rename(b)
  BY <1>10 DEF Rename, TempGone, AssureParent, MakeParent
<1>11. QED
  BY <1>1, <1>2, <1>3, <1>4, <1>5, <1>6, <1>7, <1>8, <1>9, <1>10 DEF BuilderSteps, RunsBuilder

\* The steps of a keeper keep the phases.
LEMMA KeeperPhases ==
  ASSUME BuildTypeOK, PhaseOK, NEW k \in Keepers, KeeperSteps(k)
  PROVE  PhaseOK'
<1> USE DEF BuildTypeOK, TypeOK, PhaseOK, Busy, Goto, Leave, outVars, indexVars, lockVars
<1>1. CASE WatchBuild(k) \/ StartCleanup(k) \/ EndCleanup(k) \/ RemoveMarker(k)
  BY <1>1 DEF WatchBuild, StartCleanup, EndCleanup, RemoveMarker
<1>2. CASE VisitTemp(k) \/ VisitTree(k)
  BY <1>2 DEF VisitTemp, VisitTree, Visit
<1>3. CASE ProbeVanished(k) \/ ProbeThrew(k)
  BY <1>3 DEF ProbeVanished, ProbeThrew, NotStale, Catch
<1>4. CASE Probe(k)
  BY <1>4 DEF Probe, Acquiring, CheckParent, OpenFile, OpenFails, LockGranted, LockRefused,
              LockFails
<1>5. CASE ProbeReleased(k) \/ RemoveLockFile(k)
  BY <1>5 DEF ProbeReleased, CleanupUnlink, CleanupUnlock, RemoveLockFile, StrayUnlink
<1>6. CASE RemoveTemp(k)
  BY <1>6 DEF RemoveTemp, TempGone
<1>7. CASE RemoveTree(k)
  BY <1>7 DEF RemoveTree, RemoveFolder, EvictParent
<1>8. QED
  BY <1>1, <1>2, <1>3, <1>4, <1>5, <1>6, <1>7 DEF KeeperSteps, ProbeSteps

\* Crashes and the index keep the phases.
LEMMA OtherPhases ==
  ASSUME BuildTypeOK, PhaseOK, IndexSteps \/ \E c \in Clients : Crash(c)
  PROVE  PhaseOK'
<1> USE DEF BuildTypeOK, TypeOK, PhaseOK, Busy, Goto, Leave, outVars, indexVars, lockVars
<1>1. ASSUME NEW c \in Clients, Crash(c)
      PROVE  PhaseOK'
  <2>1. lk' = [lk EXCEPT ![c] = "idle"] /\ pc' = [pc EXCEPT ![c] = "idle"]
    BY <1>1 DEF Crash, Die
  <2>2. \A b \in Builders : temp'[b] = IF b = c THEN "none" ELSE temp[b]
    BY <1>1 DEF Crash, TempLeft
  <2>3. ASSUME NEW b \in Builders
        PROVE  /\ pc'[b] \in {"idle", "pending", "prepare"} => lk'[b] = "idle"
               /\ pc'[b] = "locking" => lk'[b] # "unlinked"
               /\ pc'[b] \in Busy => lk'[b] = "held"
               /\ temp'[b] # "none" => pc'[b] \in Busy \ {"creating"}
    <3>1. CASE b = c
      BY <2>1, <2>2, <3>1
    <3>2. CASE b # c
      BY <2>1, <2>2, <3>2
    <3>3. QED
      BY <3>1, <3>2
  <2>4. \A k \in Keepers : pc'[k] # "probing" => lk'[k] = "idle"
    BY <2>1
  <2>5. QED
    BY <2>3, <2>4
<1>2. CASE IndexSteps
  BY <1>2 DEF IndexSteps, AddEntry, DeleteEntry, EvictBuild, RemoveFolder, EvictParent
<1>3. QED
  BY <1>1, <1>2

\* The phases are an invariant of Build.
LEMMA Phases == BuildSpec => []PhaseOK
<1>1. BuildInit => PhaseOK
  BY DEF BuildInit, LockInit, PhaseOK, Busy
<1>2. BuildTypeOK /\ PhaseOK /\ [BuildNext]_buildVars => PhaseOK'
  <2> SUFFICES ASSUME BuildTypeOK, PhaseOK, [BuildNext]_buildVars
               PROVE  PhaseOK'
    OBVIOUS
  <2>1. CASE UNCHANGED buildVars
    BY <2>1 DEF buildVars, outVars, lockVars, PhaseOK
  <2>2. CASE BuildNext
    BY <2>2, BuilderPhases, KeeperPhases, OtherPhases DEF BuildNext
  <2>3. QED
    BY <2>1, <2>2
<1>3. QED
  BY <1>1, <1>2, BuildTypeCorrect, PTL DEF BuildSpec

\* A builder has a temp folder only inside its section: no path out of
\* buildInternal() forgets to remove it or to give it up.
THEOREM TempsInSection == BuildSpec => []TempInSection
<1>1. PhaseOK => TempInSection
  BY DEF PhaseOK, TempInSection, InSection
<1>2. QED
  BY <1>1, Phases, PTL

------------------------------------------------------------------------------

\* A keeper that looks at the temp folder of a live builder is stuck before the
\* lock: this is what keeps it from removing the folder.
TargetOK ==
  ~orphaned =>
    \A k \in Keepers :
      target[k] \in Builders =>
        pc[k] = "probing" /\ lk[k] \notin {"held", "unlinked"} /\ temp[target[k]] # "none"

\* An unlink that hit a client that relied on the file is not forgotten.
LEMMA OrphanedStays == ASSUME [LockNext]_lockVars, orphaned PROVE orphaned'
BY DEF LockNext, Acquiring, CheckParent, OpenFile, OpenFails, LockGranted, LockRefused,
       LockFails, Releasing, CleanupUnlink, CleanupUnlock, UnlinkPath, Catch, Die, MoveTo,
       MakeParent, EvictParent, StrayUnlink, lockVars

\* What a builder does to its temp folder, and to the keepers: nothing, but that
\* the keepers' target goes with the folder.
LEMMA BuilderFrame ==
  ASSUME BuildTypeOK, PhaseOK, NEW b \in Builders,
         RequestBuild(b) \/ ReadPending(b) \/ BuilderSteps(b) \/ RunsBuilder(b)
  PROVE  /\ \A k \in Keepers : pc'[k] = pc[k] /\ lk'[k] = lk[k]
         /\ \/ target' = target /\ \A d \in Builders : temp[d] # "none" => temp'[d] # "none"
            \/ (TempGone(b) \/ TempLeft(b)) /\ pc'[b] \in {"finishing", "returning", "throwing"}
<1> USE DEF BuildTypeOK, TypeOK, Goto, Leave, outVars, indexVars, lockVars
<1>1. CASE RequestBuild(b) \/ ReadPending(b) \/ TakePending(b)
  BY <1>1 DEF RequestBuild, ReadPending, TakePending
<1>2. CASE Prepare(b) \/ CreateTemp(b) \/ BackUp(b)
  BY <1>2 DEF Prepare, CreateTemp, BackUp, AssureParent, MakeParent
<1>3. CASE AcquireLock(b)
  BY <1>3 DEF AcquireLock, Acquiring, CheckParent, OpenFile, OpenFails, LockGranted,
              LockRefused, LockFails
<1>4. CASE LockThrew(b) \/ Release(b)
  BY <1>4 DEF LockThrew, Catch, Release, CleanupUnlink, CleanupUnlock
<1>5. CASE Recheck(b) \/ DiskFull(b) \/ ClearMarker(b) \/ Publish(b) \/ OldRemoved(b)
           \/ OldRemovalFails(b) \/ Promote(b) \/ PutBack(b)
  BY <1>5 DEF Recheck, DiskFull, ClearMarker, Publish, OldRemoved, OldRemovalFails, Promote,
              PutBack
<1>6. CASE ClearMarkerFails(b) \/ RemoveOwnTemp(b) \/ OwnTempStays(b)
  BY <1>6 DEF ClearMarkerFails, RemoveOwnTemp, OwnTempStays
<1>7. CASE Built(b) \/ BuildsNothing(b) \/ DepMissing(b) \/ BuildFails(b)
  BY <1>7 DEF Built, BuildsNothing, DepMissing, BuildFails
<1>8. CASE Rename(b)
  <2>1. CASE temp[b] = "ready" /\ out = "none"
    BY <1>8, <2>1 DEF Rename, AssureParent, MakeParent
  <2>2. CASE ~(temp[b] = "ready" /\ out = "none")
    BY <1>8, <2>2 DEF Rename, AssureParent, MakeParent
  <2>3. QED
    BY <2>1, <2>2
<1>9. QED
  BY <1>1, <1>2, <1>3, <1>4, <1>5, <1>6, <1>7, <1>8 DEF BuilderSteps, RunsBuilder

\* A builder does not get a keeper past the lock.
LEMMA BuilderTarget ==
  ASSUME BuildTypeOK, PhaseOK, TargetOK, ~orphaned, NEW b \in Builders,
         RequestBuild(b) \/ ReadPending(b) \/ BuilderSteps(b) \/ RunsBuilder(b)
  PROVE  TargetOK'
<1>1. CASE target' = target /\ \A d \in Builders : temp[d] # "none" => temp'[d] # "none"
  BY <1>1, BuilderFrame DEF TargetOK
<1>2. CASE TempGone(b) \/ TempLeft(b)
  BY <1>2, BuilderFrame DEF TargetOK, TempGone, TempLeft, BuildTypeOK
<1>3. QED
  BY <1>1, <1>2, BuilderFrame

\* Until an unlink misses somebody, the lock file of a live build is there.
LEMMA LiveBuildHasFile ==
  ASSUME IInv, BuildTypeOK, PhaseOK, ~orphaned, NEW b \in Builders, temp[b] # "none"
  PROVE  lk[b] = "held" /\ fd[b] = link /\ link # NoInode
BY DEF PhaseOK, Busy, IInv, NameIsCurrent, Relies, DescriptorOpen

\* A keeper does not get past the lock of a live build, and what it removes is
\* not the temp folder of one.
LEMMA KeeperTarget ==
  ASSUME IInv, ExclusiveUnlessOrphaned', BuildTypeOK, PhaseOK, TargetOK, ~orphaned, ~orphaned',
         NEW k \in Keepers, KeeperSteps(k)
  PROVE  TargetOK' /\ temp' = temp
<1> USE DEF BuildTypeOK, TypeOK, Goto, Leave, outVars, indexVars, lockVars
<1>1. CASE WatchBuild(k) \/ StartCleanup(k) \/ EndCleanup(k) \/ RemoveMarker(k) \/ VisitTree(k)
  BY <1>1 DEF WatchBuild, StartCleanup, EndCleanup, RemoveMarker, VisitTree, Visit, TargetOK
<1>2. CASE VisitTemp(k)
  <2>1. lk[k] = "idle"
    BY <1>2 DEF VisitTemp, PhaseOK
  <2>2. ASSUME NEW b \in Builders, temp[b] # "none", target' = [target EXCEPT ![k] = b]
        PROVE  TargetOK'
    BY <1>2, <2>1, <2>2, LiveBuildHasFile DEF VisitTemp, Visit, TargetOK
  <2>3. ASSUME target' = [target EXCEPT ![k] = "litter"]
        PROVE  TargetOK'
    BY <1>2, <2>3 DEF VisitTemp, Visit, TargetOK
  <2>4. QED
    BY <1>2, <2>2, <2>3 DEF VisitTemp
<1>3. CASE ProbeVanished(k) \/ ProbeThrew(k)
  BY <1>3 DEF ProbeVanished, ProbeThrew, NotStale, Catch, TargetOK
<1>4. CASE Probe(k)
  <2>1. \A c \in Clients : c # k => lk'[c] = lk[c]
    BY <1>4 DEF Probe, Acquiring, CheckParent, OpenFile, OpenFails, LockGranted, LockRefused,
                LockFails
  <2>2. UNCHANGED <<pc, temp, target>>
    BY <1>4 DEF Probe
  <2>3. lk'[k] # "unlinked"
    BY <1>4 DEF Probe, Acquiring, CheckParent, OpenFile, OpenFails, LockGranted, LockRefused,
                LockFails
  <2>4. ASSUME target[k] \in Builders, lk'[k] = "held"
        PROVE  FALSE
    <3>1. temp[target[k]] # "none" /\ target[k] # k
      BY <2>4 DEF TargetOK
    <3>2. lk'[target[k]] = "held"
      BY <2>1, <2>4, <3>1, LiveBuildHasFile
    <3>3. QED
      BY <2>4, <3>1, <3>2 DEF ExclusiveUnlessOrphaned, MutualExclusion, InSection
  <2>5. QED
    BY <2>1, <2>2, <2>3, <2>4 DEF TargetOK
<1>5. CASE ProbeReleased(k)
  BY <1>5 DEF ProbeReleased, CleanupUnlink, CleanupUnlock, TargetOK
<1>6. CASE RemoveLockFile(k)
  BY <1>6 DEF RemoveLockFile, StrayUnlink, TargetOK
<1>7. CASE RemoveTemp(k)
  <2>1. target[k] \notin Builders
    BY <1>7 DEF RemoveTemp, TargetOK
  <2>2. QED
    BY <1>7, <2>1 DEF RemoveTemp, TargetOK
<1>8. CASE RemoveTree(k)
  <2>1. CASE parent
    <3>1. RemoveFolder
      BY <1>8, <2>1 DEF RemoveTree
    <3>2. \A b \in Builders : temp[b] = "none"
      BY <3>1, LiveBuildHasFile DEF RemoveFolder, EvictParent, UnlinkPath, Relies
    <3>3. QED
      BY <3>1, <3>2 DEF RemoveFolder, TargetOK
  <2>2. CASE ~parent
    BY <1>8, <2>2 DEF RemoveTree, TargetOK
  <2>3. QED
    BY <2>1, <2>2
<1>9. QED
  BY <1>1, <1>2, <1>3, <1>4, <1>5, <1>6, <1>7, <1>8 DEF KeeperSteps, ProbeSteps

\* Neither does an eviction, or a crash of somebody else.
LEMMA OtherTarget ==
  ASSUME IInv, BuildTypeOK, PhaseOK, TargetOK, ~orphaned, ~orphaned'
  PROVE  /\ IndexSteps => TargetOK' /\ temp' = temp
         /\ \A c \in Clients : Crash(c) =>
              TargetOK' /\ \A b \in Builders : b # c => temp'[b] = temp[b]
<1> USE DEF BuildTypeOK, TypeOK, Goto, Leave, outVars, indexVars, lockVars
<1>1. ASSUME IndexSteps
      PROVE  TargetOK' /\ temp' = temp
  <2>1. CASE AddEntry \/ DeleteEntry
    BY <2>1 DEF AddEntry, DeleteEntry, TargetOK
  <2>2. CASE EvictBuild /\ parent
    <3>1. RemoveFolder
      BY <2>2 DEF EvictBuild
    <3>2. \A b \in Builders : temp[b] = "none"
      BY <3>1, LiveBuildHasFile DEF RemoveFolder, EvictParent, UnlinkPath, Relies
    <3>3. QED
      BY <3>1, <3>2 DEF RemoveFolder, TargetOK
  <2>3. CASE EvictBuild /\ ~parent
    BY <2>3 DEF EvictBuild, TargetOK
  <2>4. QED
    BY <1>1, <2>1, <2>2, <2>3 DEF IndexSteps
<1>2. ASSUME NEW c \in Clients, Crash(c)
      PROVE  TargetOK' /\ \A b \in Builders : b # c => temp'[b] = temp[b]
  <2>1. \A k \in Keepers : k # c => pc'[k] = pc[k] /\ lk'[k] = lk[k]
    BY <1>2 DEF Crash, Die
  <2>2. CASE c \in Builders
    BY <1>2, <2>1, <2>2 DEF Crash, TempLeft, TargetOK
  <2>3. CASE c \in Keepers
    BY <1>2, <2>1, <2>3 DEF Crash, TargetOK
  <2>4. QED
    BY <2>2, <2>3
<1>3. QED
  BY <1>1, <1>2

\* A step with which no unlink misses anybody keeps TargetOK, and does away with
\* no temp folder but that of the builder that takes the step.
LEMMA TargetStep ==
  ASSUME IInv, IInv', BuildTypeOK, PhaseOK, TargetOK, [BuildNext]_buildVars, ~orphaned'
  PROVE  /\ TargetOK'
         /\ \A b \in Builders :
              temp[b] # "none" /\ temp'[b] = "none" =>
                pc'[b] \in {"idle", "finishing", "returning", "throwing"}
<1> DEFINE Safe == \A b \in Builders :
              temp[b] # "none" /\ temp'[b] = "none" =>
                pc'[b] \in {"idle", "finishing", "returning", "throwing"}
<1>1. ~orphaned /\ ExclusiveUnlessOrphaned'
  BY StepImplements, OrphanedStays, IInvExclusive, PTL
<1>2. ASSUME NEW b \in Builders,
             RequestBuild(b) \/ ReadPending(b) \/ BuilderSteps(b) \/ RunsBuilder(b)
      PROVE  TargetOK' /\ Safe
  <2>1. TargetOK'
    BY <1>1, <1>2, BuilderTarget
  <2>2. CASE \A d \in Builders : temp[d] # "none" => temp'[d] # "none"
    BY <2>1, <2>2
  <2>3. CASE (TempGone(b) \/ TempLeft(b)) /\ pc'[b] \in {"finishing", "returning", "throwing"}
    BY <2>1, <2>3 DEF TempGone, TempLeft, BuildTypeOK
  <2>4. QED
    BY <1>2, <2>2, <2>3, BuilderFrame
<1>3. ASSUME NEW k \in Keepers, KeeperSteps(k)
      PROVE  TargetOK' /\ Safe
  BY <1>1, <1>3, KeeperTarget
<1>4. ASSUME NEW c \in Clients, Crash(c)
      PROVE  TargetOK' /\ Safe
  <2>1. pc'[c] = "idle"
    BY <1>4 DEF Crash, Leave, Goto, BuildTypeOK
  <2>2. QED
    BY <1>1, <1>4, <2>1, OtherTarget
<1>5. CASE IndexSteps
  BY <1>1, <1>5, OtherTarget
<1>6. CASE UNCHANGED buildVars
  BY <1>6 DEF buildVars, outVars, lockVars, TargetOK
<1>7. QED
  BY <1>2, <1>3, <1>4, <1>5, <1>6 DEF BuildNext

\* For as long as no unlink has left a builder on an inode without a name,
\* neither a cleanup nor an eviction gets at the temp folder of a live build.
THEOREM LiveBuildUndisturbed == BuildSpec => UndisturbedUnlessOrphaned
<1> DEFINE A == orphaned' \/ \A b \in Builders :
       temp[b] # "none" /\ temp'[b] = "none" =>
         pc'[b] \in {"idle", "finishing", "returning", "throwing"}
<1>1. BuildInit => TargetOK
  BY DEF BuildInit, LockInit, TargetOK
<1>2. IInv /\ IInv' /\ BuildTypeOK /\ PhaseOK /\ TargetOK /\ [BuildNext]_buildVars => TargetOK'
  BY TargetStep DEF TargetOK
<1>3. IInv /\ IInv' /\ BuildTypeOK /\ PhaseOK /\ TargetOK /\ [BuildNext]_buildVars => [A]_buildVars
  BY TargetStep
<1>4. QED
  BY <1>1, <1>2, <1>3, BuildIInv, BuildTypeCorrect, Phases, PTL
     DEF BuildSpec, UndisturbedUnlessOrphaned

------------------------------------------------------------------------------

\* How far a builder is tells what the output and its temp folder hold, until an
\* unlink lets others in.
OutputOK(b) ==
  /\ pc[b] = "removing" => out = "partial"
  /\ pc[b] \in {"promoting", "replacing"} => out = "none"
  /\ pc[b] = "finishing" /\ job[b] # "dependency" => out = "whole"
  /\ pc[b] \in {"clearing", "running"} => temp[b] # "none"
  /\ pc[b] = "publish" => temp[b] = "ready"

\* An output is half removed only while somebody is removing it.
OutputInv ==
  ~orphaned =>
    /\ out = "partial" => \E b \in Builders : pc[b] = "removing"
    /\ \A b \in Builders : OutputOK(b)

\* Until then one process at most is in its section.
LEMMA SectionAlone ==
  ASSUME IInv, ~orphaned, NEW c \in Clients, NEW d \in Clients, lk[c] = "held", lk[d] = "held"
  PROVE  c = d
BY IInvExclusive DEF ExclusiveUnlessOrphaned, MutualExclusion, InSection

\* A builder at work has the others wait.
LEMMA BusyAlone ==
  ASSUME IInv, PhaseOK, ~orphaned, NEW b \in Builders, pc[b] \in Busy
  PROVE  \A d \in Builders \ {b} : pc[d] \notin Busy
BY SectionAlone DEF PhaseOK

\* A step of a builder leaves the others where they are.
LEMMA BuilderAlone ==
  ASSUME BuildTypeOK, NEW b \in Builders,
         RequestBuild(b) \/ ReadPending(b) \/ BuilderSteps(b) \/ RunsBuilder(b)
  PROVE  \A d \in Builders \ {b} : pc'[d] = pc[d] /\ job'[d] = job[d] /\ temp'[d] = temp[d]
<1> USE DEF BuildTypeOK, TypeOK, Goto, Leave, outVars, indexVars, TempGone, TempLeft
<1>1. CASE RequestBuild(b) \/ ReadPending(b) \/ TakePending(b) \/ Prepare(b) \/ AcquireLock(b)
           \/ LockThrew(b) \/ Release(b)
  BY <1>1 DEF RequestBuild, ReadPending, TakePending, Prepare, AcquireLock, LockThrew, Release
<1>2. CASE Recheck(b) \/ DiskFull(b) \/ CreateTemp(b) \/ ClearMarker(b) \/ ClearMarkerFails(b)
  BY <1>2 DEF Recheck, DiskFull, CreateTemp, ClearMarker, ClearMarkerFails
<1>3. CASE Publish(b) \/ OldRemoved(b) \/ OldRemovalFails(b) \/ Rename(b) \/ Promote(b)
           \/ PutBack(b) \/ RemoveOwnTemp(b) \/ OwnTempStays(b)
  BY <1>3 DEF Publish, OldRemoved, OldRemovalFails, Rename, Promote, PutBack, RemoveOwnTemp,
              OwnTempStays
<1>4. CASE RunsBuilder(b)
  BY <1>4 DEF RunsBuilder, Built, BackUp, BuildsNothing, DepMissing, BuildFails
<1>5. QED
  BY <1>1, <1>2, <1>3, <1>4 DEF BuilderSteps

\* What a builder that takes a step knows after it, and when it touches the output.
LEMMA BuilderOwnOutput ==
  ASSUME BuildTypeOK, PhaseOK, NEW b \in Builders, OutputOK(b),
         RequestBuild(b) \/ ReadPending(b) \/ BuilderSteps(b) \/ RunsBuilder(b)
  PROVE  /\ OutputOK(b)'
         /\ \/ out' = out /\ pc[b] # "removing"
            \/ pc[b] \in Busy /\ (out' = "partial" => pc'[b] = "removing")
<1> USE DEF BuildTypeOK, TypeOK, PhaseOK, Goto, Leave, outVars, indexVars, Busy, OutputOK
<1>1. CASE \/ RequestBuild(b) \/ ReadPending(b) \/ TakePending(b) \/ Prepare(b)
           \/ AcquireLock(b) \/ LockThrew(b)
  <2>1. /\ pc'[b] \in {"prepare", "pending", "idle", "locking"}
        /\ out' = out /\ pc[b] \in {"idle", "pending", "prepare", "locking"}
    BY <1>1 DEF RequestBuild, ReadPending, TakePending, Prepare, AcquireLock, LockThrew
  <2>2. QED
    BY <2>1
<1>2. CASE Release(b) \/ Recheck(b) \/ DiskFull(b) \/ ClearMarkerFails(b) \/ RemoveOwnTemp(b)
           \/ OwnTempStays(b)
  <2>1. /\ pc'[b] \in {"returning", "throwing", "idle", "creating", "failing"}
        /\ out' = out /\ pc[b] # "removing"
    BY <1>2 DEF Release, Recheck, DiskFull, ClearMarkerFails, RemoveOwnTemp, OwnTempStays
  <2>2. QED
    BY <2>1
<1>3. CASE CreateTemp(b)
  BY <1>3 DEF CreateTemp
<1>4. CASE ClearMarker(b)
  BY <1>4 DEF ClearMarker
<1>5. CASE Publish(b) \/ OldRemoved(b) \/ OldRemovalFails(b)
  BY <1>5 DEF Publish, OldRemoved, OldRemovalFails, Remains
<1>6. CASE Rename(b)
  BY <1>6 DEF Rename
<1>7. CASE Built(b)
  BY <1>7 DEF Built
<1>8. CASE BackUp(b) \/ Promote(b) \/ PutBack(b)
  BY <1>8 DEF BackUp, Promote, PutBack
<1>9. CASE BuildsNothing(b) \/ DepMissing(b) \/ BuildFails(b)
  BY <1>9 DEF BuildsNothing, DepMissing, BuildFails
<1>10. QED
  BY <1>1, <1>2, <1>3, <1>4, <1>5, <1>6, <1>7, <1>8, <1>9 DEF BuilderSteps, RunsBuilder

\* The steps of a builder keep what all builders know.
LEMMA BuilderOutput ==
  ASSUME IInv, BuildTypeOK, PhaseOK, OutputInv, ~orphaned, NEW b \in Builders,
         RequestBuild(b) \/ ReadPending(b) \/ BuilderSteps(b) \/ RunsBuilder(b)
  PROVE  OutputInv'
<1>1. /\ OutputOK(b)'
      /\ \/ out' = out /\ pc[b] # "removing"
         \/ pc[b] \in Busy /\ (out' = "partial" => pc'[b] = "removing")
  BY BuilderOwnOutput DEF OutputInv
<1>2. \A d \in Builders \ {b} : pc'[d] = pc[d] /\ job'[d] = job[d] /\ temp'[d] = temp[d]
  BY BuilderAlone
<1>3. CASE out' = out /\ pc[b] # "removing"
  BY <1>1, <1>2, <1>3 DEF OutputInv, OutputOK
<1>4. CASE pc[b] \in Busy /\ (out' = "partial" => pc'[b] = "removing")
  <2>1. \A d \in Builders \ {b} : pc[d] \notin Busy
    BY <1>4, BusyAlone
  <2>2. QED
    BY <1>1, <1>2, <1>4, <2>1 DEF OutputInv, OutputOK, Busy
<1>5. QED
  BY <1>1, <1>3, <1>4

\* Who removes the hash directory under a builder unlinks the lock file it needs.
LEMMA EvictedUnused ==
  ASSUME IInv, BuildTypeOK, PhaseOK, ~orphaned, ~orphaned', RemoveFolder
  PROVE  \A b \in Builders : pc[b] \notin Busy
<1> SUFFICES ASSUME NEW b \in Builders, pc[b] \in Busy
             PROVE  FALSE
  OBVIOUS
<1>1. lk[b] = "held" /\ fd[b] = link /\ link # NoInode
  BY DEF PhaseOK, IInv, NameIsCurrent, Relies, DescriptorOpen
<1>2. QED
  BY <1>1 DEF RemoveFolder, EvictParent, UnlinkPath, Relies

\* Neither do keepers and the index get at what a builder at work knows ...
LEMMA KeeperOutput ==
  ASSUME IInv, ExclusiveUnlessOrphaned', BuildTypeOK, PhaseOK, TargetOK, OutputInv,
         ~orphaned, ~orphaned', NEW k \in Keepers, KeeperSteps(k)
  PROVE  OutputInv'
<1>1. temp' = temp
  BY KeeperTarget
<1>2. \A b \in Builders : pc'[b] = pc[b] /\ job'[b] = job[b]
  BY DEF KeeperSteps, ProbeSteps, WatchBuild, StartCleanup, VisitTemp, VisitTree, Visit,
         ProbeVanished, Probe, ProbeThrew, NotStale, ProbeReleased, RemoveLockFile, RemoveTemp,
         RemoveTree, RemoveMarker, EndCleanup, Goto, Leave, BuildTypeOK
<1>3. CASE out' = out
  BY <1>1, <1>2, <1>3 DEF OutputInv, OutputOK
<1>4. CASE RemoveFolder
  <2>1. \A b \in Builders : pc[b] \notin Busy
    BY <1>4, EvictedUnused
  <2>2. QED
    BY <1>2, <1>4, <2>1 DEF OutputInv, OutputOK, Busy, RemoveFolder
<1>5. out' = out \/ RemoveFolder
  BY DEF KeeperSteps, ProbeSteps, WatchBuild, StartCleanup, VisitTemp, VisitTree,
         ProbeVanished, Probe, ProbeThrew, NotStale, ProbeReleased, RemoveLockFile, RemoveTemp,
         RemoveTree, RemoveMarker, EndCleanup, outVars
<1>6. QED
  BY <1>3, <1>4, <1>5

\* ... nor do crashes of others.
LEMMA OtherOutput ==
  ASSUME IInv, BuildTypeOK, PhaseOK, OutputInv, ~orphaned, ~orphaned',
         IndexSteps \/ \E c \in Clients : Crash(c)
  PROVE  OutputInv'
<1>1. ASSUME NEW c \in Clients, Crash(c)
      PROVE  OutputInv'
  <2>1. /\ pc' = [pc EXCEPT ![c] = "idle"]
        /\ job' = [job EXCEPT ![c] = "none"]
        /\ out' = IF pc[c] = "removing" /\ out = "partial" THEN "damaged" ELSE out
    BY <1>1 DEF Crash, Leave, Goto, Remains
  <2>2. \A b \in Builders \ {c} :
          pc'[b] = pc[b] /\ job'[b] = job[b] /\ temp'[b] = temp[b]
    BY <1>1, <2>1 DEF Crash, TempLeft, BuildTypeOK
  <2>3. c \in Builders => pc'[c] = "idle"
    BY <2>1 DEF BuildTypeOK
  <2>4. CASE pc[c] = "removing" /\ out = "partial"
    <3>1. c \in Builders
      BY <2>4 DEF BuildTypeOK, KeeperStates
    <3>2. \A d \in Builders \ {c} : pc[d] \notin Busy
      BY <2>4, <3>1, BusyAlone DEF Busy
    <3>3. QED
      BY <2>1, <2>2, <2>3, <2>4, <3>1, <3>2 DEF OutputInv, OutputOK, Busy
  <2>5. CASE ~(pc[c] = "removing" /\ out = "partial")
    <3>1. \A b \in Builders : OutputOK(b)'
      BY <2>1, <2>2, <2>3, <2>5 DEF OutputInv, OutputOK
    <3>2. ASSUME out' = "partial"
          PROVE  \E b \in Builders : pc'[b] = "removing"
      <4>1. PICK b \in Builders : pc[b] = "removing"
        BY <2>1, <2>5, <3>2 DEF OutputInv
      <4>2. QED
        BY <2>1, <2>2, <2>5, <3>2, <4>1
    <3>3. QED
      BY <3>1, <3>2 DEF OutputInv
  <2>6. QED
    BY <2>4, <2>5
<1>2. ASSUME IndexSteps, UNCHANGED <<temp, out>>
      PROVE  OutputInv'
  <2>1. UNCHANGED <<pc, job>>
    BY <1>2 DEF IndexSteps, AddEntry, DeleteEntry, EvictBuild
  <2>2. QED
    BY <1>2, <2>1 DEF OutputInv, OutputOK
<1>3. ASSUME IndexSteps, RemoveFolder
      PROVE  OutputInv'
  <2>1. UNCHANGED <<pc, job>>
    BY <1>3 DEF IndexSteps, AddEntry, DeleteEntry, EvictBuild
  <2>2. \A b \in Builders : pc[b] \notin Busy
    BY <1>3, EvictedUnused
  <2>3. QED
    BY <1>3, <2>1, <2>2 DEF OutputInv, OutputOK, Busy, RemoveFolder
<1>4. QED
  BY <1>1, <1>2, <1>3 DEF IndexSteps, AddEntry, DeleteEntry, EvictBuild, outVars

\* What builders know of the output is an invariant of Build.
LEMMA Outputs == BuildSpec => [](TargetOK /\ OutputInv)
<1>1. BuildInit => TargetOK /\ OutputInv
  BY DEF BuildInit, LockInit, TargetOK, OutputInv, OutputOK
<1>2. IInv /\ IInv' /\ BuildTypeOK /\ PhaseOK /\ TargetOK /\ OutputInv /\ [BuildNext]_buildVars
        => (TargetOK /\ OutputInv)'
  <2> SUFFICES ASSUME IInv, IInv', BuildTypeOK, PhaseOK, TargetOK, OutputInv,
                      [BuildNext]_buildVars, ~orphaned'
               PROVE  (TargetOK /\ OutputInv)'
    BY DEF TargetOK, OutputInv
  <2>1. ~orphaned /\ ExclusiveUnlessOrphaned' /\ TargetOK'
    BY StepImplements, OrphanedStays, IInvExclusive, TargetStep, PTL
  <2>2. CASE UNCHANGED buildVars
    BY <2>1, <2>2 DEF buildVars, outVars, lockVars, OutputInv, OutputOK
  <2>3. CASE BuildNext
    BY <2>1, <2>3, BuilderOutput, KeeperOutput, OtherOutput DEF BuildNext
  <2>4. QED
    BY <2>1, <2>2, <2>3
<1>3. QED
  BY <1>1, <1>2, BuildIInv, BuildTypeCorrect, Phases, PTL DEF BuildSpec

\* build.cpp: buildInternal() returns normally only if its output is there and
\* whole, until an unlink leaves a builder on an inode without a name; the rest of
\* an output whose removal died or failed is what an unforced build takes for it.
THEOREM BuildsReturnOutput == BuildSpec => ReturnsWithOutput
<1> DEFINE A == \A b \in Builders :
       pc[b] # "returning" /\ pc'[b] = "returning" /\ job[b] # "dependency" =>
         out' = "whole" \/ orphaned' \/ (out' = "damaged" /\ job[b] = "build")
<1>1. IInv /\ IInv' /\ BuildTypeOK /\ PhaseOK /\ OutputInv /\ [BuildNext]_buildVars => [A]_buildVars
  <2> SUFFICES ASSUME IInv, BuildTypeOK, PhaseOK, OutputInv, BuildNext, NEW b \in Builders,
                      pc[b] # "returning", pc'[b] = "returning", job[b] # "dependency",
                      ~orphaned'
               PROVE  out' = "whole" \/ (out' = "damaged" /\ job[b] = "build")
    OBVIOUS
  <2>1. ~orphaned
    BY StepImplements, OrphanedStays
  <2>2. CASE Recheck(b)
    <3>1. Complete /\ ~Forced(b) /\ lk[b] = "held" /\ pc[b] = "locking" /\ out' = out
      BY <2>2 DEF Recheck, Goto, BuildTypeOK, InSection, outVars
    <3>2. job[b] = "build"
      BY <3>1 DEF Forced, BuildTypeOK, BuildJobs
    <3>3. out # "partial"
      <4>1. ASSUME NEW d \in Builders, pc[d] = "removing"
            PROVE  FALSE
        BY <2>1, <3>1, <4>1, SectionAlone DEF PhaseOK, Busy
      <4>2. QED
        BY <2>1, <4>1 DEF OutputInv
    <3>4. QED
      BY <3>1, <3>2, <3>3 DEF Complete, BuildTypeOK
  <2>3. CASE RemoveOwnTemp(b)
    <3>1. pc[b] = "finishing" /\ out' = out
      BY <2>3 DEF RemoveOwnTemp, Goto, BuildTypeOK
    <3>2. QED
      BY <2>1, <3>1 DEF OutputInv, OutputOK
  <2>4. ASSUME NEW d \in Builders,
               RequestBuild(d) \/ ReadPending(d) \/ BuilderSteps(d) \/ RunsBuilder(d)
        PROVE  Recheck(b) \/ RemoveOwnTemp(b)
    <3>1. d = b
      BY <2>4, BuilderAlone
    <3>2. QED
      BY <2>4, <3>1
         DEF BuilderSteps, RunsBuilder, RequestBuild, ReadPending, TakePending, Prepare,
             AcquireLock, LockThrew, DiskFull, CreateTemp, ClearMarker, ClearMarkerFails,
             Publish, OldRemoved, OldRemovalFails, Rename, Promote, PutBack, OwnTempStays,
             Release, Built, BackUp, BuildsNothing, DepMissing, BuildFails, Goto, Leave, BuildTypeOK
  <2>5. ASSUME NEW k \in Keepers, KeeperSteps(k)
        PROVE  FALSE
    <3>1. pc'[b] = pc[b]
      BY <2>5
         DEF KeeperSteps, ProbeSteps, WatchBuild, StartCleanup, VisitTemp, VisitTree, Visit,
             ProbeVanished, Probe, ProbeThrew, NotStale, ProbeReleased, RemoveLockFile,
             RemoveTemp, RemoveTree, RemoveMarker, EndCleanup, Goto, Leave, BuildTypeOK
    <3>2. QED
      BY <3>1
  <2>6. ASSUME NEW c \in Clients, Crash(c)
        PROVE  FALSE
    BY <2>6 DEF Crash, Goto, Leave, BuildTypeOK
  <2>7. CASE IndexSteps
    BY <2>7 DEF IndexSteps, AddEntry, DeleteEntry, EvictBuild
  <2>8. QED
    BY <2>2, <2>3, <2>4, <2>5, <2>6, <2>7 DEF BuildNext
<1>2. QED
  BY <1>1, BuildIInv, BuildTypeCorrect, Phases, Outputs, PTL DEF BuildSpec, ReturnsWithOutput

\* build.cpp, vector.cpp: a whole output is given up only by a builder that has its
\* successor ready or staged, or with the hash directory, until an unlink lets
\* others in: no other failure, crash or recheck costs an output.
THEOREM OutputsAreReplaced == BuildSpec => ReplacedOnlyWhenReady
<1> DEFINE A == out = "whole" /\ out' # "whole" =>
       \/ \E b \in Builders :
            /\ InSection(b)
            /\ \/ pc'[b] = "removing" /\ temp[b] = "ready"
               \/ pc'[b] = "replacing" /\ pc[b] = "running" /\ Forced(b)
       \/ ~parent'
       \/ orphaned'
<1>1. IInv /\ BuildTypeOK /\ PhaseOK /\ OutputInv /\ [BuildNext]_buildVars => [A]_buildVars
  <2> SUFFICES ASSUME IInv, BuildTypeOK, PhaseOK, OutputInv, BuildNext,
                      out = "whole", out' # "whole", parent', ~orphaned'
               PROVE  \E b \in Builders :
                        /\ InSection(b)
                        /\ \/ pc'[b] = "removing" /\ temp[b] = "ready"
                           \/ pc'[b] = "replacing" /\ pc[b] = "running" /\ Forced(b)
    OBVIOUS
  <2>1. ~orphaned
    BY StepImplements, OrphanedStays
  <2>2. ASSUME NEW b \in Builders, Publish(b)
        PROVE  InSection(b) /\ pc'[b] = "removing" /\ temp[b] = "ready"
    <3>1. pc[b] = "publish" /\ pc'[b] = "removing"
      BY <2>2 DEF Publish, Goto, BuildTypeOK
    <3>2. QED
      BY <2>1, <3>1 DEF OutputInv, OutputOK, PhaseOK, Busy, InSection
  <2>3. ASSUME NEW b \in Builders, OldRemoved(b) \/ OldRemovalFails(b) \/ PutBack(b)
        PROVE  FALSE
    BY <2>1, <2>3 DEF OldRemoved, OldRemovalFails, PutBack, OutputInv, OutputOK
  <2>9. ASSUME NEW b \in Builders, BackUp(b)
        PROVE  InSection(b) /\ pc'[b] = "replacing" /\ pc[b] = "running" /\ Forced(b)
    <3>1. pc[b] = "running" /\ pc'[b] = "replacing" /\ Forced(b)
      BY <2>9 DEF BackUp, Goto, BuildTypeOK
    <3>2. QED
      BY <3>1 DEF PhaseOK, Busy, InSection
  <2>4. ASSUME NEW b \in Builders,
               RequestBuild(b) \/ ReadPending(b) \/ BuilderSteps(b) \/ RunsBuilder(b)
        PROVE  Publish(b) \/ OldRemoved(b) \/ OldRemovalFails(b) \/ PutBack(b) \/ BackUp(b)
    BY <2>4
       DEF BuilderSteps, RunsBuilder, RequestBuild, ReadPending, TakePending, Prepare,
           AcquireLock, LockThrew, Recheck, DiskFull, CreateTemp, ClearMarker,
           ClearMarkerFails, Rename, Promote, RemoveOwnTemp, OwnTempStays, Release, Built,
           BuildsNothing, DepMissing, BuildFails, outVars
  <2>5. ASSUME NEW k \in Keepers, KeeperSteps(k)
        PROVE  FALSE
    BY <2>5
       DEF KeeperSteps, ProbeSteps, WatchBuild, StartCleanup, VisitTemp, VisitTree,
           ProbeVanished, Probe, ProbeThrew, NotStale, ProbeReleased, RemoveLockFile,
           RemoveTemp, RemoveTree, RemoveMarker, EndCleanup, RemoveFolder, EvictParent, outVars
  <2>6. ASSUME NEW c \in Clients, Crash(c)
        PROVE  FALSE
    BY <2>6 DEF Crash, Remains
  <2>7. IndexSteps => FALSE
    BY DEF IndexSteps, AddEntry, DeleteEntry, EvictBuild, RemoveFolder, EvictParent, outVars
  <2>8. QED
    BY <2>2, <2>3, <2>4, <2>5, <2>6, <2>7, <2>9 DEF BuildNext
<1>2. QED
  BY <1>1, BuildIInv, BuildTypeCorrect, Phases, Outputs, PTL
     DEF BuildSpec, ReplacedOnlyWhenReady
==============================================================================
