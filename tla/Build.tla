-------------------------------- MODULE Build --------------------------------
(***************************************************************************)
(* The life of one build output, build/<hash>/<subfolder> (build.cpp), among *)
(* the processes that touch it: builders, which run buildInternal() under    *)
(* the BuildLock of the output; keepers, which run isBuildActive() and       *)
(* cleanupBuild() and take the same lock to probe it; and the index          *)
(* (dbops.cpp), which removes the folder when it loses the entry.            *)
(* Most types are built in a temp folder that is renamed onto the output;    *)
(* buildVector() stages and publishes by itself.  Its output are two folders, *)
(* vec/ and mvt/, each moved as a whole: one of them without the other counts *)
(* as no output here, as it does for isBuildOutputComplete().                 *)
(***************************************************************************)
EXTENDS BuildLock

CONSTANTS
  Builders,   \* the processes that build
  Keepers,    \* the processes that watch and clean up
  Type        \* of the entry: see Types

\* GeoRaster, PointCloud, Tiles3D; Model and GaussianSplat, whose build may lack
\* a dependency; Vector, which may also be one that other files belong to.
Types == {"plain", "deferrable", "vector"}

ASSUME BuildConstantsOK ==
  /\ Clients = Builders \union Keepers
  /\ Builders \intersect Keepers = {}
  /\ {"litter", "gone"} \intersect Builders = {}
  /\ Type \in Types
  /\ Eviction

VARIABLES
  pc,         \* per process, where it is
  job,        \* per process, what it was called for
  temp,       \* per builder, its folder <subfolder>-temp-<random>
  target,     \* per keeper, the temp folder it is looking at
  out,        \* the output folder
  marker,     \* <hash>.pending exists
  indexed,    \* the index has an entry with this hash
  evicting    \* an entry was deleted, its build folder not yet

outVars == <<temp, target, out, marker>>
indexVars == <<indexed, evicting>>
buildVars == <<lockVars, pc, job, outVars, indexVars>>

\* build() and buildAll(); with force; of an entry that is only a dependency of
\* this one (a .shp's .dbf); isBuildActive(); cleanupBuild() while the hash is
\* valid, and when it is not.
BuildJobs == {"build", "forced", "dependency"}
KeeperJobs == {"watch", "temps", "tree"}

BuilderStates == {"idle", "pending", "prepare", "locking", "creating", "clearing", "running",
                  "publish", "removing", "renaming", "promoting", "replacing",
                  "finishing", "failing", "returning", "throwing"}
KeeperStates == {"idle", "scan", "probing", "stale"}

\* The types of the variables; whoever is at work has a job, and what a folder
\* holds goes with it.
BuildTypeOK ==
  /\ TypeOK
  /\ pc \in [Clients -> BuilderStates \union KeeperStates]
  /\ job \in [Clients -> BuildJobs \union KeeperJobs \union {"none"}]
  /\ \A b \in Builders : pc[b] \in BuilderStates /\ job[b] \in BuildJobs \union {"none"}
  /\ \A k \in Keepers : pc[k] \in KeeperStates /\ job[k] \in KeeperJobs \union {"none"}
  /\ temp \in [Builders -> {"none", "partial", "ready"}]
  /\ target \in [Keepers -> Builders \union {"litter", "gone"}]
  /\ out \in {"none", "whole", "partial", "damaged"}
  /\ marker \in BOOLEAN
  /\ indexed \in BOOLEAN
  /\ evicting \in BOOLEAN
  /\ \A c \in Clients : pc[c] = "idle" <=> job[c] = "none"
  /\ ~parent => out = "none" /\ \A b \in Builders : temp[b] = "none"

\* The folder may hold what earlier builds, finished or crashed, left there.
BuildInit ==
  /\ LockInit
  /\ pc = [c \in Clients |-> "idle"]
  /\ job = [c \in Clients |-> "none"]
  /\ temp = [b \in Builders |-> "none"]
  /\ target = [k \in Keepers |-> "gone"]
  /\ out \in {"none", "whole"}
  /\ marker \in BOOLEAN
  /\ marker => Type # "plain"
  /\ indexed \in BOOLEAN
  /\ evicting = FALSE
  /\ out = "whole" => parent

------------------------------------------------------------------------------
(* buildInternal(), one action per step.                                     *)

Goto(c, state) == pc' = [pc EXCEPT ![c] = state]
Leave(c) == Goto(c, "idle") /\ job' = [job EXCEPT ![c] = "none"]

\* assureFolderExists(<hash>) or anything below it.
AssureParent == IF parent THEN UNCHANGED lockVars ELSE MakeParent

\* A temp folder that goes is none that a keeper can still remove.
TempGone(b) ==
  /\ temp' = [temp EXCEPT ![b] = "none"]
  /\ target' = [k \in Keepers |-> IF target[k] = b THEN "gone" ELSE target[k]]

\* A temp folder that nobody will come back to.
TempLeft(b) ==
  /\ temp' = [temp EXCEPT ![b] = "none"]
  /\ target' = [k \in Keepers |-> IF target[k] = b THEN "litter" ELSE target[k]]

\* build(), buildAll(): the entry, or one that depends on it, is in the index.
RequestBuild(b) ==
  /\ pc[b] = "idle"
  /\ indexed
  /\ Goto(b, "prepare")
  /\ \E j \in BuildJobs :
       /\ j = "dependency" => Type = "vector"
       /\ job' = [job EXCEPT ![b] = j]
  /\ UNCHANGED <<lockVars, outVars, indexVars>>

\* buildPending() comes across the marker, old enough and with its dependencies
\* in the index, or is forced.
ReadPending(b) ==
  /\ pc[b] = "idle"
  /\ marker
  /\ Goto(b, "pending")
  /\ \E j \in {"build", "forced"} : job' = [job EXCEPT ![b] = j]
  /\ UNCHANGED <<lockVars, outVars, indexVars>>

\* The marker goes before the build is attempted, or because no entry has the hash.
TakePending(b) ==
  /\ pc[b] = "pending"
  /\ marker' = FALSE
  /\ IF indexed THEN Goto(b, "prepare") /\ UNCHANGED job ELSE Leave(b)
  /\ UNCHANGED <<lockVars, temp, target, out, indexVars>>

Prepare(b) ==
  /\ pc[b] = "prepare"
  /\ AssureParent
  /\ Goto(b, "locking")
  /\ UNCHANGED <<job, outVars, indexVars>>

AcquireLock(b) ==
  /\ pc[b] = "locking"
  /\ Acquiring(b)
  /\ UNCHANGED <<pc, job, outVars, indexVars>>

\* The constructor threw: the exception leaves buildInternal().
LockThrew(b) ==
  /\ pc[b] = "locking"
  /\ Catch(b)
  /\ Leave(b)
  /\ UNCHANGED <<outVars, indexVars>>

\* isBuildOutputComplete() asks for a file that is not empty, any file or one of
\* a certain name: what is left of an output may or may not have it.
Complete == out # "none"
Incomplete == out # "whole"

Forced(b) == job[b] \in {"forced", "dependency"}

\* With the lock: somebody else may have completed the build meanwhile.
Recheck(b) ==
  /\ pc[b] = "locking"
  /\ InSection(b)
  /\ \/ Complete /\ ~Forced(b) /\ Goto(b, "returning")
     \/ (Incomplete \/ Forced(b)) /\ Goto(b, "creating")
  /\ UNCHANGED <<lockVars, job, outVars, indexVars>>

\* ensureSufficientDiskSpace() throws.
DiskFull(b) ==
  /\ pc[b] = "creating"
  /\ Goto(b, "throwing")
  /\ UNCHANGED <<lockVars, job, outVars, indexVars>>

\* As it must not be: the old output makes room for the new one right away.
CreateTempInPlace(b) ==
  /\ pc[b] = "creating"
  /\ AssureParent
  /\ temp' = [temp EXCEPT ![b] = "partial"]
  /\ out' = "none"
  /\ Goto(b, "clearing")
  /\ UNCHANGED <<job, target, marker, indexVars>>

CreateTemp(b) ==
  /\ pc[b] = "creating"
  /\ AssureParent
  /\ temp' = [temp EXCEPT ![b] = "partial"]
  /\ Goto(b, "clearing")
  /\ UNCHANGED <<job, target, out, marker, indexVars>>

ClearMarker(b) ==
  /\ pc[b] = "clearing"
  /\ marker' = FALSE
  /\ Goto(b, "running")
  /\ UNCHANGED <<lockVars, job, temp, target, out, indexVars>>

\* The marker cannot be removed: this throws before the try block, so that
\* nobody removes the temp folder.
ClearMarkerFails(b) ==
  /\ pc[b] = "clearing"
  /\ marker
  /\ TempLeft(b)
  /\ Goto(b, "throwing")
  /\ UNCHANGED <<lockVars, job, out, marker, indexVars>>

\* The builder of the type is done.  It writes to the temp folder, if that is
\* still there.
Built(b) ==
  /\ pc[b] = "running"
  /\ Type # "vector"
  /\ temp' = [temp EXCEPT ![b] = IF @ = "none" THEN "none" ELSE "ready"]
  /\ Goto(b, "publish")
  /\ UNCHANGED <<lockVars, job, target, out, marker, indexVars>>

\* buildVector() has both folders staged, and moves those that are in their place
\* to a backup.  It leaves the temp folder alone, and keeps outputs that are there
\* unless it is forced.
BackUp(b) ==
  /\ pc[b] = "running"
  /\ Type = "vector"
  /\ job[b] # "dependency"
  /\ AssureParent
  /\ IF out = "whole" /\ ~Forced(b)
       THEN Goto(b, "finishing") /\ UNCHANGED out
       ELSE Goto(b, IF out = "whole" THEN "replacing" ELSE "promoting") /\ out' = "none"
  /\ UNCHANGED <<job, temp, target, marker, indexVars>>

\* The staged folders are renamed into their place, one and then the other: one
\* without the other is no complete output (build.cpp:157) and counts as none.  That
\* what is left of the staging and of the backup cannot be removed is an exception
\* all the same.
Promote(b) ==
  /\ pc[b] \in {"promoting", "replacing"}
  /\ parent
  /\ out = "none"
  /\ out' = "whole"
  /\ Goto(b, "finishing") \/ Goto(b, "failing")
  /\ UNCHANGED <<lockVars, job, temp, target, marker, indexVars>>

\* A rename failed, the first one maybe.  What is in the place of the outputs is
\* removed, be it new or an old one that had not been moved yet, and the backup is
\* moved back, which may fail too.
PutBack(b) ==
  /\ pc[b] \in {"promoting", "replacing"}
  /\ out' \in {"none"} \union (IF pc[b] = "replacing" /\ parent THEN {"whole"} ELSE {})
  /\ Goto(b, "failing")
  /\ UNCHANGED <<lockVars, job, temp, target, marker, indexVars>>

\* The type looked at is the dependency's own, for which nothing is built.
BuildsNothing(b) ==
  /\ pc[b] = "running"
  /\ job[b] = "dependency"
  /\ Goto(b, "finishing")
  /\ UNCHANGED <<lockVars, job, outVars, indexVars>>

\* As it must not be: a build that is deferred ends like one that is done.
DepMissingReturns(b) ==
  /\ pc[b] = "running"
  /\ Type # "plain"
  /\ job[b] # "dependency"
  /\ marker' = TRUE
  /\ Goto(b, "finishing")
  /\ UNCHANGED <<lockVars, job, temp, target, out, indexVars>>

\* BuildDepMissingException: the build is deferred.
DepMissing(b) ==
  /\ pc[b] = "running"
  /\ Type # "plain"
  /\ job[b] # "dependency"
  /\ marker' = TRUE
  /\ Goto(b, "failing")
  /\ UNCHANGED <<lockVars, job, temp, target, out, indexVars>>

\* As it must not be: the exception is swallowed.
BuildFailsSilently(b) ==
  /\ pc[b] = "running"
  /\ job[b] # "dependency"
  /\ Goto(b, "finishing")
  /\ UNCHANGED <<lockVars, job, outVars, indexVars>>

\* As it must not be: no catch block, so that nobody removes the temp folder.
BuildFailsUncaught(b) ==
  /\ pc[b] = "running"
  /\ job[b] # "dependency"
  /\ Goto(b, "throwing")
  /\ UNCHANGED <<lockVars, job, outVars, indexVars>>

BuildFails(b) ==
  /\ pc[b] = "running"
  /\ job[b] # "dependency"
  /\ Goto(b, "failing")
  /\ UNCHANGED <<lockVars, job, outVars, indexVars>>

\* The old output goes first, file by file, whatever is in the temp folder.
Publish(b) ==
  /\ pc[b] = "publish"
  /\ IF out = "none" THEN Goto(b, "renaming") /\ UNCHANGED out
                     ELSE Goto(b, "removing") /\ out' = "partial"
  /\ UNCHANGED <<lockVars, job, temp, target, marker, indexVars>>

OldRemoved(b) ==
  /\ pc[b] = "removing"
  /\ out' = "none"
  /\ Goto(b, "renaming")
  /\ UNCHANGED <<lockVars, job, temp, target, marker, indexVars>>

\* What is left of an output when its removal ends before its end.
Remains == IF out = "partial" THEN "damaged" ELSE out

\* A file of it cannot be removed: assureIsRemoved() throws, after a few retries.
OldRemovalFails(b) ==
  /\ pc[b] = "removing"
  /\ out' = Remains
  /\ Goto(b, "failing")
  /\ UNCHANGED <<lockVars, job, temp, target, marker, indexVars>>

\* rename() needs its source, and throws if the target has files in it.
Rename(b) ==
  /\ pc[b] = "renaming"
  /\ AssureParent
  /\ IF temp[b] = "ready" /\ out = "none"
       THEN Goto(b, "finishing") /\ out' = "whole" /\ TempGone(b)
       ELSE Goto(b, "failing") /\ UNCHANGED <<out, temp, target>>
  /\ UNCHANGED <<job, marker, indexVars>>

\* assureIsRemoved(tempFolder), on the way out and in every catch block.
RemoveOwnTemp(b) ==
  /\ pc[b] \in {"finishing", "failing"}
  /\ TempGone(b)
  /\ Goto(b, IF pc[b] = "finishing" THEN "returning" ELSE "throwing")
  /\ UNCHANGED <<lockVars, job, out, marker, indexVars>>

\* ... which may throw itself: inside the try block the catch block tries again,
\* from there the exception leaves, and the folder stays.
OwnTempStays(b) ==
  /\ temp[b] # "none"
  /\ \/ pc[b] = "finishing" /\ Goto(b, "failing") /\ UNCHANGED <<temp, target>>
     \/ pc[b] = "failing" /\ Goto(b, "throwing") /\ TempLeft(b)
  /\ UNCHANGED <<lockVars, job, out, marker, indexVars>>

\* As it must not be: released at the end of the function, not by a destructor.
ReleaseOnReturn(b) ==
  /\ pc[b] = "returning"
  /\ \/ CleanupUnlink(b) /\ UNCHANGED <<pc, job>>
     \/ CleanupUnlock(b) /\ Leave(b)
  /\ UNCHANGED <<outVars, indexVars>>

\* ~BuildLock(), with or without an exception under way.
Release(b) ==
  /\ pc[b] \in {"returning", "throwing"}
  /\ \/ CleanupUnlink(b) /\ UNCHANGED <<pc, job>>
     \/ CleanupUnlock(b) /\ Leave(b)
  /\ UNCHANGED <<outVars, indexVars>>

\* The process of a client dies; what it has in the folder stays there.
Crash(c) ==
  /\ pc[c] # "idle"
  /\ IF lk[c] = "idle" THEN UNCHANGED lockVars ELSE Die(c)
  /\ IF c \in Builders
       THEN TempLeft(c)
       ELSE UNCHANGED temp /\ target' = [target EXCEPT ![c] = "gone"]
  /\ out' = IF pc[c] = "removing" THEN Remains ELSE out
  /\ Leave(c)
  /\ UNCHANGED <<marker, indexVars>>

------------------------------------------------------------------------------
(* isBuildActive() and cleanupBuild(), and isLockFileStale() for both.       *)

\* isBuildActive() of an entry in the index whose lock file exists.
WatchBuild(k) ==
  /\ pc[k] = "idle"
  /\ indexed
  /\ link # NoInode
  /\ Goto(k, "probing")
  /\ job' = [job EXCEPT ![k] = "watch"]
  /\ UNCHANGED <<lockVars, outVars, indexVars>>

\* cleanupBuild() reads the valid hashes once, and then visits the folders.
StartCleanup(k) ==
  /\ pc[k] = "idle"
  /\ Goto(k, "scan")
  /\ job' = [job EXCEPT ![k] = IF indexed THEN "temps" ELSE "tree"]
  /\ UNCHANGED <<lockVars, outVars, indexVars>>

\* As it must not be: every folder is taken for an abandoned one.
VisitUnprobed(k) == Goto(k, "stale")

\* A folder without a lock file needs no probe.
Visit(k) == Goto(k, IF link = NoInode THEN "stale" ELSE "probing")

\* removeOrphanTempFolders(): the next temp folder of the hash directory.
VisitTemp(k) ==
  /\ pc[k] = "scan"
  /\ job[k] = "temps"
  /\ \/ \E b \in Builders : temp[b] # "none" /\ target' = [target EXCEPT ![k] = b]
     \/ parent /\ target' = [target EXCEPT ![k] = "litter"]
  /\ Visit(k)
  /\ UNCHANGED <<lockVars, job, temp, out, marker, indexVars>>

\* The directory of a hash that was not valid.
VisitTree(k) ==
  /\ pc[k] = "scan"
  /\ job[k] = "tree"
  /\ parent
  /\ Visit(k)
  /\ UNCHANGED <<lockVars, job, outVars, indexVars>>

\* isBuildActive() returns, cleanupBuild() goes on to what it visits next.
NotStale(k) ==
  /\ IF job[k] = "watch" THEN Leave(k) ELSE Goto(k, "scan") /\ UNCHANGED job
  /\ target' = [target EXCEPT ![k] = "gone"]
  /\ UNCHANGED <<temp, out, marker, indexVars>>

\* isLockFileStale(): the file vanished, which counts as "not stale".
ProbeVanished(k) ==
  /\ pc[k] = "probing"
  /\ lk[k] = "idle"
  /\ link = NoInode
  /\ NotStale(k)
  /\ UNCHANGED lockVars

\* Otherwise a BuildLock is constructed on it ...
Probe(k) ==
  /\ pc[k] = "probing"
  /\ lk[k] = "idle" => link # NoInode
  /\ Acquiring(k)
  /\ UNCHANGED <<pc, job, outVars, indexVars>>

\* ... and if that throws, whatever it throws, the lock is taken to be live ...
ProbeThrew(k) ==
  /\ pc[k] = "probing"
  /\ Catch(k)
  /\ NotStale(k)

\* As it must not be: unlocked before the file is unlinked.
ProbeUnlocksFirst(k) ==
  /\ pc[k] = "probing"
  /\ \/ /\ InSection(k)
        /\ klock' = [klock EXCEPT ![fd[k]] = @ \ {k}]
        /\ lk' = [lk EXCEPT ![k] = "unlinked"]
        /\ UNCHANGED <<parent, link, fd, orphaned, pc>>
     \/ /\ lk[k] = "unlinked"
        /\ UnlinkPath({k})
        /\ fd' = [fd EXCEPT ![k] = NoInode]
        /\ lk' = [lk EXCEPT ![k] = "idle"]
        /\ Goto(k, "stale")
        /\ UNCHANGED <<parent, klock>>
  /\ UNCHANGED <<job, outVars, indexVars>>

\* ... or else it is destructed, unlinking the file, and the lock was stale.
ProbeReleased(k) ==
  /\ pc[k] = "probing"
  /\ \/ CleanupUnlink(k) /\ UNCHANGED pc
     \/ CleanupUnlock(k) /\ Goto(k, "stale")
  /\ UNCHANGED <<job, outVars, indexVars>>

\* isBuildActive() removes the lock file that it holds to be stale.
RemoveLockFile(k) ==
  /\ pc[k] = "stale"
  /\ job[k] = "watch"
  /\ StrayUnlink
  /\ Leave(k)
  /\ UNCHANGED <<outVars, indexVars>>

\* removeOrphanTempFolders() removes the temp folder.
RemoveTemp(k) ==
  /\ pc[k] = "stale"
  /\ job[k] = "temps"
  /\ IF target[k] \in Builders
       THEN TempGone(target[k])
       ELSE UNCHANGED temp /\ target' = [target EXCEPT ![k] = "gone"]
  /\ Goto(k, "scan")
  /\ UNCHANGED <<lockVars, job, out, marker, indexVars>>

\* As it must not be: the directory goes and its contents are still counted on.
RemoveFolderOnly ==
  /\ EvictParent
  /\ UNCHANGED <<temp, target, out>>

\* The hash directory goes, with all that is in it by now.
RemoveFolder ==
  /\ EvictParent
  /\ temp' = [b \in Builders |-> "none"]
  /\ target' = [k \in Keepers |-> "gone"]
  /\ out' = "none"

\* cleanupBuild() removes the directory of a hash that was not valid.
RemoveTree(k) ==
  /\ pc[k] = "stale"
  /\ job[k] = "tree"
  /\ IF parent THEN RemoveFolder
               ELSE UNCHANGED <<lockVars, temp, target, out>>
  /\ Goto(k, "scan")
  /\ UNCHANGED <<job, marker, indexVars>>

\* cleanupBuild() removes the marker of a hash that was not valid.
RemoveMarker(k) ==
  /\ pc[k] = "scan"
  /\ job[k] = "tree"
  /\ marker
  /\ marker' = FALSE
  /\ UNCHANGED <<lockVars, pc, job, temp, target, out, indexVars>>

EndCleanup(k) ==
  /\ pc[k] = "scan"
  /\ Leave(k)
  /\ UNCHANGED <<lockVars, outVars, indexVars>>

------------------------------------------------------------------------------
(* The index.                                                                *)

\* addToIndex() of a file with this content.
AddEntry ==
  /\ ~indexed
  /\ indexed' = TRUE
  /\ UNCHANGED <<lockVars, pc, job, outVars, evicting>>

\* deleteFromIndex(): the rows go in a transaction ...
DeleteEntry ==
  /\ indexed
  /\ indexed' = FALSE
  /\ evicting' = TRUE
  /\ UNCHANGED <<lockVars, pc, job, outVars>>

\* ... and after it the build folder, whether or not somebody builds there.
EvictBuild ==
  /\ evicting
  /\ evicting' = FALSE
  /\ IF parent THEN RemoveFolder
               ELSE UNCHANGED <<lockVars, temp, target, out>>
  /\ UNCHANGED <<pc, job, marker, indexed>>

------------------------------------------------------------------------------

\* The steps that follow from a call; the running of a type's builder is apart.
BuilderSteps(b) ==
  TakePending(b) \/ Prepare(b) \/ AcquireLock(b) \/ LockThrew(b) \/ Recheck(b)
    \/ DiskFull(b) \/ CreateTemp(b) \/ ClearMarker(b) \/ ClearMarkerFails(b) \/ Publish(b)
    \/ OldRemoved(b) \/ OldRemovalFails(b) \/ Rename(b) \/ Promote(b) \/ PutBack(b)
    \/ RemoveOwnTemp(b) \/ OwnTempStays(b) \/ Release(b)

RunsBuilder(b) == Built(b) \/ BackUp(b) \/ BuildsNothing(b) \/ DepMissing(b) \/ BuildFails(b)

ProbeSteps(k) == ProbeVanished(k) \/ Probe(k) \/ ProbeThrew(k) \/ ProbeReleased(k)

KeeperSteps(k) ==
  WatchBuild(k) \/ StartCleanup(k) \/ VisitTemp(k) \/ VisitTree(k) \/ ProbeSteps(k)
    \/ RemoveLockFile(k) \/ RemoveTemp(k) \/ RemoveTree(k) \/ RemoveMarker(k) \/ EndCleanup(k)

IndexSteps == AddEntry \/ DeleteEntry \/ EvictBuild

BuildNext ==
  \/ \E b \in Builders : RequestBuild(b) \/ ReadPending(b) \/ BuilderSteps(b) \/ RunsBuilder(b)
  \/ \E k \in Keepers : KeeperSteps(k)
  \/ \E c \in Clients : Crash(c)
  \/ IndexSteps

BuildSpec == BuildInit /\ [][BuildNext]_buildVars

\* A live process gets on with buildInternal(); nothing is assumed of the
\* type's builder, which may run an external tool for ever.
BuildFairness == \A b \in Builders : WF_buildVars(BuilderSteps(b))

FairBuildSpec == BuildSpec /\ BuildFairness

------------------------------------------------------------------------------

\* "a folder is removed only when there is no live build lock for its subfolder,
\* so an in-progress build is never disturbed" (build.cpp:662): a cleanup does not
\* remove the temp folder of a builder that lives.
InProgressNeverDisturbed ==
  [][\A k \in Keepers :
       pc[k] = "stale" /\ job[k] = "temps" /\ pc'[k] # pc[k] => UNCHANGED temp]_buildVars

\* For as long as no unlink has left a builder on an inode without a name,
\* neither a cleanup nor an eviction gets at the temp folder of a live build.
UndisturbedUnlessOrphaned ==
  [][orphaned' \/ \A b \in Builders :
       temp[b] # "none" /\ temp'[b] = "none" =>
         pc'[b] \in {"idle", "finishing", "returning", "throwing"}]_buildVars

\* buildInternal() returns without an exception only if the output is there and
\* whole: built by this call or found by the recheck.  The exception is what is
\* left of an old output when the builder that removes it dies, or cannot remove
\* all of it and throws: it passes for complete, so that builds that are not
\* forced return and leave it.  A forced build never returns with it.
ReturnsWithOutput ==
  [][\A b \in Builders :
       pc[b] # "returning" /\ pc'[b] = "returning" /\ job[b] # "dependency" =>
         out' = "whole" \/ orphaned' \/ (out' = "damaged" /\ job[b] = "build")]_buildVars

\* An output that is whole is given up only in the section of a builder whose
\* successor is ready, in its temp folder or staged by a forced buildVector(), or
\* with the entire hash directory.  A build that fails before leaves it; that the
\* successor comes is another matter, as its publication may fail (PutBack,
\* OldRemovalFails, Rename) and then the old output is gone, too.
ReplacedOnlyWhenReady ==
  [][out = "whole" /\ out' # "whole" =>
       \/ \E b \in Builders :
            /\ InSection(b)
            /\ \/ pc'[b] = "removing" /\ temp[b] = "ready"
               \/ pc'[b] = "replacing" /\ pc[b] = "running" /\ Forced(b)
       \/ ~parent'
       \/ orphaned']_buildVars

\* Every path out of the try block removes the temp folder, or has tried to and
\* leaves it to the cleanups as litter: a builder has one only inside its section.
TempInSection == \A b \in Builders : temp[b] # "none" => InSection(b)

\* No builder waits for another one or for a keeper: a live call ends, unless
\* it is the type's own builder that does not.
CallsEnd == \A b \in Builders : pc[b] \notin {"idle", "running"} ~> pc[b] \in {"idle", "running"}

\* "Triggering build of <main file> because of <dependency>" (build.cpp:230): a
\* call for a dependency that returns has brought the main file's output about.
DependencyTriggersBuild ==
  \A b \in Builders :
    pc[b] = "returning" /\ lk[b] = "held" /\ job[b] = "dependency" => out # "none"
==============================================================================
