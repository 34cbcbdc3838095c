# DroneDB in TLA+

TLA+ models of the parts of DroneDB whose correctness depends on order: the lock
of a build output, the life of a build output, the addition of files to the index,
the maintenance of the index and its metadata, the exchange of deltas between
datasets, and, step by step, the functions that make files of other files. TLC
checks them on small instances; TLAPS proves most of their safety for every value
of the constants. `PROJECT.json` lists components, runs, the code lines behind
each definition, findings, hazards and theorems.

Paths below are relative to the repository; `build.cpp` and the like are in
`src/library/`, headers in `src/include/`.

To check a run: `tlc -workers 2 -config MCBuild.cfg MCBuild.tla`; a proof:
`tlapm BuildProofs.tla`.

## Inventory

DroneDB keeps, in a directory of drone data, an SQLite database
(`.ddb/dbase.sqlite`: tables `entries`, `entries_meta`, `passwords`) and the
build outputs (`.ddb/build/<hash>/<subfolder>`). Several processes work on one
dataset: the command line, the workers of a registry, and threads in them. They
share the files and the database, and nothing else.

| Part | State | Operations | Interaction | Hard behaviour | What makes it correct |
|---|---|---|---|---|---|
| BuildLock (`buildlock.cpp`) | the file `<output>.building`, the kernel's lock on its inode, a descriptor per object | construct (two modes), release, move, destruct | every build and every probe; others remove the file | path versus inode, crash of the holder | one owner; refusal only while there is one; no attempt hangs |
| build outputs (`build.cpp`) | `build/<hash>/`, temp folders, `<hash>.pending` | build, buildAll, buildPending, isBuildActive, cleanupBuild | BuildLock, ThreadLock, the index, the builders of the types | builders against builders, cleanups and evictions; crash at any step | no live build disturbed, no half output taken for one, no temp folder left by a live process, deferred builds tried again |
| ThreadLock (`threadlock.cpp`) | two global maps | construct, destruct | builds and tiles, threads of one process | the maps are not guarded | one thread per key |
| index (`dbops.cpp`) | rows of `entries` | add, remove, sync, rescan, move, add folder, init | files on disk, SQLite, the eviction of builds | files that change while they are read; several writers; a callback that cancels | rows tell the truth about files; each path is reported once and as what became of it |
| SQLite layer (`database.cpp`, `statement.cpp`, `transaction.cpp`, `retrypolicy.h`) | connections, transactions | begin, commit, roll back, retry; migrate the schema | all of the above | busy databases, deadlines, a crash within a migration | all or nothing; waits end |
| metadata (`metamanager.cpp`) | rows of `entries_meta` | add, set, unset, remove, dump, restore | the index's removals and moves, deltas | set is two statements; ids survive a restore | a record stays with its entry; one record of a singular key |
| synchronisation (`delta.cpp`, `registry.cpp`, `syncmanager.cpp`, `pushmanager.cpp`, `database.cpp` for the stamp) | the last stamp per registry, the session of a push, a temp folder | getDelta, computeDeltaLocals, applyDelta, push; clone and pull | HTTP, index, metadata | conflicts; failures and deaths within a push and an application; several clients | nobody's files are lost silently; the registry becomes what was pushed; stamps tell the truth |
| registry sessions, sharing (`registry.cpp`, `shareservice.cpp`, `authmanager.cpp`) | a token and its expiry, files with credentials | login, share | HTTP | an expired token; files that are written whole | - |
| builders of the types (`cog.cpp`, `pointcloud.cpp`, `nxconv.cpp`, `vector.cpp`, `gsplat.cpp`, `3d.cpp`, ...) | scratch files, GDAL's global cache size | convert | external programs, GDAL, PDAL | failure at any step; two builds at once | an output appears whole or not at all; nothing is left behind |
| tiles and thumbnails (`thumbs.cpp`, `gdaltiler.cpp`, `tilerhelper.cpp`, `pctiler.cpp`) | caches of the user | render, download, look up | ThreadLock, GDAL | two threads at one cache file; cleaning of the cache meanwhile | as above |
| raster, terrain and volume analysis (`align.cpp`, `contour.cpp`, `volume.cpp`, `merge_multispectral.cpp`, `raster_region.cpp`, ...) | datasets in memory, temp files | compute, export | GDAL | a dozen exits per function | every dataset closed, every temp file gone, the old output kept |
| parsing (`entry.cpp`, `sensorprofile.cpp`, `thermal.cpp`) | datasets while they are read | parse, fingerprint | the index | as above | as above |
| archives, paths, geometry (`mzip.cpp`, `mio.cpp`, `geo.cpp`, `coordstransformer.cpp`) | handles | zip, unzip, transform | all of the above | as above | as above |
| command line, C API | - | wrap calls | all of the above | - | - |

## Plan

1. `BuildLock`, with `ExclusiveLock` as what it promises. *Done, proved.*
2. `Build`, which extends `BuildLock` (every step on the lock in it is one of
   `BuildLock`'s actions). *Done, proved.*
3. `IndexAdd`: plan, compute, commit. *Done, proved.*
4. `IndexMaint`: removal, `syncIndex`, `rescanIndex`, `moveEntry`, metadata, and
   the eviction of builds. *Done, proved.*
5. `Exchange`: deltas, their application, the push of two clients to a registry
   with stamps, conflicts and crashes. *Done, proved.*
6. `ThreadLock`, as far as its maps can be taken for atomic. *Done, proved.*
7. `Steps`, the programs, and `Conversions`, which runs them under `ThreadLock`:
   builders, tiles, thumbnails, analysis, parsing. `buildVector`'s staging, backup,
   promotion and rollback are there. *Done, proved.*

All safety that the runs check is proved. Left to do: what readers of the index see
while it is maintained (listings and searches outside any transaction); the walk of
`buildPending()` over a directory that others change; and `Registry::pull`, once it
gets beyond `getStamp()`.

## The modules

### ExclusiveLock, BuildLock

`ExclusiveLock` is what `buildlock.h` promises: a set of owners with at most one
member, acquired, released and handed over.

`BuildLock` is the Unix branch of `buildlock.cpp`. A client is a lock object.

| Variable | Code |
|---|---|
| `parent`, `link` | the directory `build/<hash>`; the inode that the path of the lock file names |
| `klock` | the kernel's record of `F_OFD_SETLK` or `flock` locks, per inode |
| `fd` | `fileDescriptor` |
| `lk` | how far the object is in `acquireLock()` (`checked`, `opened`), `isLocked` (`held`), in `cleanup()` (`unlinked`), or the exception that the attempt ended with |
| `orphaned` | a history variable: an unlink hit a file that another client had opened and counted on |

`acquireLock()` is three actions (the check of the directory, `open`, the lock),
`cleanup()` two (unlink; unlock and close). The write of the PID into the file is
left out: nothing reads it. The environment has the death of a process at any
step, the creation of the directory, and two removals that the code does without
the lock: `EvictParent` (the directory, `dbops.cpp`) and `StrayUnlink`
(`isBuildActive`).

### Build

One output of one hash. It extends `BuildLock`: builders and keepers are its
clients. `pc` follows `buildInternal()` for a builder, and `isBuildActive()` and
`cleanupBuild()` for a keeper; `job` is what the process was called for.

| Variable | Code |
|---|---|
| `temp` | the builder's `<subfolder>-temp-<random>`: partial while the type's builder writes, ready when it is done |
| `target` | the temp folder that a keeper has listed; `litter` for one that a dead builder left |
| `out` | the output folder: none, whole, partial (its removal is under way), damaged (the remover died, or could not remove all of it) |
| `marker` | `<hash>.pending` |
| `indexed`, `evicting` | whether an entry has the hash; an entry was deleted and its build folder is still to go |

The constant `Type` has the three ways in which a type differs here: it never
lacks a dependency, it may be deferred, or it publishes by itself (`buildVector`) and
has files that belong to it. Of `buildVector` there are three steps here: what is in
the place of the outputs is moved to a backup (`BackUp`), the staged folders are
renamed into their place (`Promote`), or a rename fails and the rollback removes what
is in the place and moves the backup back, if it can (`PutBack`); `vec` without `mvt`
counts as no output, as it does for `isBuildOutputComplete()`.

`assureIsRemoved()` throws when it cannot remove all of a folder. Of an old output a
part is then left (`OldRemovalFails`), which later builds that are not forced take
for complete, as they do when the remover dies; of the temp folder, the catch block
tries once more, and then it stays as litter (`OwnTempStays`).

A process dies at any step. The ThreadLock is left
out: two threads of a process that got past the BuildLock of the same output are
apart already. The time since the last attempt (`buildPending`, five minutes) is
left to choice: `ReadPending` may happen at any time. The conversion of a type is
one step that ends well, badly, deferred, or never.

### IndexAdd

`addToIndexEx()`. A file is its modification time in seconds and its hash; sizes
are equal, the worst case for the check at commit. A call has a list of paths:
`getIndexPathList()` does not look for doubles, so that a file may be in it more than
once, and the state of a call is kept by the positions of the list, as in the vectors
of the code. `Skipped` is a path whose file name has a backslash, which the plan
drops (`dbops.cpp:664`).

| Variable | Code |
|---|---|
| `disk`, `now` | the files; the clock |
| `rows`, `writer`, `txRows` | the committed rows, the connection in its immediate transaction, the rows as it sees them |
| `pc`, `pass`, `pathList`, `todo` | the phases and the loop of `addToIndexEx()` |
| `plan`, `computed`, `conflicts`, `tentative` | `PlannedAddItem`, `ComputedAddItem`, and the two lists of `commitAddEntries()` |
| `seen` | the time that `checkUpdate()` or `parseEntry()` read before it hashes |
| `options`, `paths` | `stopOnError` and the callback; the path at each position |
| `result` | for each position, the lists of `AddResult` that it is in |

Beside the calls, somebody writes and deletes files, and `deleteFromIndex()`
removes rows in a transaction of its own, which may be long. An exception is
`Abort`: there is no result, and the transaction's destructor rolls back. The
retry of `BEGIN IMMEDIATE` is the state `begin`; its deadline may strike whenever
the database is busy, and that of `COMMIT` at any commit.

The modification times come from a clock that does not go back. With
`Coarse = FALSE` a file is written once a second at most; a tool that sets old
times is outside.

### IndexMaint

What is done to the index after files were added. A path is the sequence of its
names, so that folders, prefixes and LIKE are what they are in the code:
`sanitize_query_param()` escapes `%` and the separator but not `_`, and LIKE takes
no notice of case, which the constant `Alike` stands for.

| Variable | Code |
|---|---|
| `disk`, `now` | the files; the clock |
| `rows`, `metas`, `builds` | `entries`, `entries_meta`, and the folders `build/<hash>` |
| `writer`, `txRows`, `txMetas` | the connection with the write lock, and the tables as its transaction sees them |
| `pc`, `op`, `todo`, `dirs` | the phase of a worker, its arguments, the statement it iterates over |
| `evict` | the hashes that `deleteFromIndex()` returned and whose folders are still to be removed |
| `dump`, `used` | the records a `restore()` has to go; the ids that exist or existed (random in the code) |
| `steady`, `doubled` | history: no file changed since the scan began; hashes that two rows had at once |

Each operation has the transactions of the code, and nothing wider:
`removeFromIndex()` reads its matches outside any transaction, deletes each in one of
its own, and removes build folders after it; `syncIndex()` and `rescanIndex()` are one
long transaction in which the former removes build folders at once; `moveEntry()`
checks before its transaction; `set()` is two statements. An operation may give up
or die at any step. A file is written, deleted, added to the index, or built
around them.

### Exchange

Datasets of two clients and a registry. `Delta` is `getDelta()`; `PushInit`, `Meta`,
`Upload`, `Commit`, `PushEnd` are the calls of `Registry::push()` through
`PushManager`; `job` is an application of a delta by `applyDelta()`, an index or
disk operation per step, in the code's order, with its three merge strategies, and
with an error or a death at any of them. The registry is another program: it is
what `push()` expects of it, and makes the calls that `ddb.cpp` exports for it.
Of the rows with the hash of an added file `computeDeltaLocals()` looks at the first
only, which may be any of them (`FirstRows`). `stamp` is `sync.json`, `want` the stamp that the push began with, `folder`
and `sent` what it has uploaded, `unlike` a history variable: something else
happened meanwhile. `pull()` and `clone()` never get beyond `getStamp()`, which
takes the text of the answer for a JSON object and throws "Invalid stamp"; `Fetch` is
an application of a registry's delta by another caller of the library.

### ThreadLock

`threadlock.cpp`, a step per access of its two global maps: the count of a key is
found in one step and written in another, as nothing guards the maps. What a race
does to the buckets of a map is undefined; `raced` remembers that there was one,
and the properties are about what holds until then.

### Steps, the programs, Conversions

`Steps` is a vocabulary of steps: open and close a handle, begin and finish a file,
rename, remove, a check that may throw, a fork, a handler, a guard that closes its
handles on every way out, a ThreadLock. Each function is a sequence of such
steps, in `BuilderPrograms` (`cog.cpp`, `vector.cpp`, `nxconv.cpp`, `pointcloud.cpp`,
`gsplat.cpp`, `3d.cpp`), `ImagePrograms` (thumbnails, tiles, projection, regions, merged
bands), `AnalysisPrograms` (alignment, contours, profiles, volumes, exports,
archives, elevations) and `ReaderPrograms` (parsing, sensors, thermal images, point
clouds, coordinates). A loop is one pass of its body.

`Catalogue` puts them together, with the outputs of each, the temporary files, and the
lists of what is known to fall short: handles that stay open, files that stay behind.

`Conversions` runs them. Any step that may throw does; up to two faults are told
apart; the process may die at any step, and what is on disk stays, while nobody
learns what its calls came to; files in the caches of the user are shared by the threads
and may be cleaned away at any time. Other files have names of their own (`Place`),
which is not so of one: `build-lod` makes `<stem>-lod.rad` beside its input, which two
builds of inputs with the same stem share, and which a build removes even if it is a
file of the user (`buildlod_runner.cpp:219`). The models do not have that.

A function that another one of them calls is part of its program (`alignRaster` has
the whole of `buildCog`, with what that leaves open and what it does to GDAL's cache).
Where a failure is told to nobody and the output is made of what there is, `Spoil`
stands for an output that is not what it should be: so `alignRaster`, whose Z offset
may not be computed or not be written (`align.cpp:565`, `574`, `619`, `634-650`), and
which is therefore not among those that return only with their outputs (`Reliable`).
The statistics that `buildCog` writes beside its output are left out, as no code reads
them.

| Variable | Code |
|---|---|
| `prog`, `pc`, `now` | the function a thread runs, and the step it is at |
| `held` | GDAL datasets and options, streams, pipes, `/vsimem/` files that are open |
| `whole`, `partial` | the files that are complete, and those that are not |
| `outcome`, `first`, `faults` | how the call ended; what threw first, and how often something threw |
| `had` | the outputs and temp files there when the call began |
| `cache`, `saved` | `GDALGetCacheMax64()`; what a build will put back (`cog.cpp:286`) |

A file is whole when the call that writes it says so: errors of closing it are
looked at nowhere in the code and are left out.

`Flows` says once more what a step does, this time to a single run of a function: the
handles, the files it has to itself, its first fault. From this it computes the
states that each function may be in at each of its steps (tens of thousands in all),
and states as assumptions that no step leads out of them and that what is owed holds at
the ends. The assumptions contain no constant and no variable: they are about the
text of the programs, and TLC evaluates them completely, with the run `build_vector`.
They are not in the module of `conversions`, whose properties would otherwise never be
reached by a change of a program.

## The runs

| Run | Instance | What it shows |
|---|---|---|
| `lock` | 3 clients, 3 inodes, removals by others | types; kernel locks and objects agree; one owner until an inode is orphaned; refusal only while there is a holder; implementation of `ExclusiveLock` until then; no attempt or release hangs |
| `lock_mutex` | 3 clients, no removals by others | finding: two owners |
| `build` | 2 builders, 1 keeper, a type that publishes by renaming | types; temp folders exist only inside a section; no live build is disturbed unless an inode was orphaned; a call that returns has a whole output, or, if it is not forced, what a removal that failed or died has left of one; an output gives way only to one that is ready |
| `build_vector` | 1 builder, 1 keeper, a shapefile and its dependencies | the processes implement the lock protocol; deferred builds do not look done; calls end; and, before it starts, the assumptions of `Flows` |
| `build_disturbed` | as `build`, the index does not change | finding: a cleanup removes the temp folder of a live build |
| `build_dependency` | as `build_vector` | finding: a dependency's build builds nothing |
| `add` | 2 calls, 1 file, 2 contents, times 0 to 3, 1 retry | types; a row with its file's time has its content; rows move forward in time |
| `add_batch` | 1 call of a list of up to 3 paths, 1 file and 1 path that is skipped, times 0 to 2, 1 retry | each occurrence of a path is reported exactly once, a skipped path never; reported entries are committed; calls end |
| `add_heal` | 1 call, 1 file | finding: an update is inserted, and the call aborts |
| `maint` | 2 workers, 2 operations, 1 event around them, 2 folders one of which may go into the other, 2 contents | types; one record of a singular key, with two exceptions; records stay with their entries; a folder's move takes its files; a build folder goes only with its last entry, unless the hash was doubled; a scan leaves the truth |
| `exchange` | 2 clients, a registry, a folder with 2 files, 1 record, 2 edits, 2 applications, fetches with DontMerge | types; the registry has its files; a push that nothing came between makes the registry what was pushed, and its stamp says so; nothing is removed that the client had not seen; what differs survives |
| `conversions` | 2 threads, each function alone; `buildCog` and the download of a raster twice at once | handles closed, outputs whole, old outputs kept, temp files gone, success means success, the cache size put back, locks exclude |

Bounds. Three clients are a holder that leaves, one that has its file open, and one
that makes a new one, which is what the failure of the lock consists of (the first
may also come back as the last). A client has at most one inode open, and one that creates the file has none, so that as many
inodes as clients never run out. In `build` the two builders and the keeper are the
three; a second keeper does what a probe by the first does. One output is enough:
outputs share nothing but the index entry. In `add` two calls are enough for the
races at commit, for which only one path matters; with times up to 3 the file
changes twice after it was first looked at, once for each pass of a call with one
retry. In `add_batch` the list has up to three positions, with the same file at some of
them and a path that is skipped at others, so that a batch has one that fails or
conflicts and another that does not, before it or after it, and the second occurrence
of a file meets what the first has written in the same transaction. The code's default is two retries; one is enough for a path to be
retried and to be given up.

In `maint` two operations, one of each worker or two of one, interleave at every
step, with one event more; the start has a file in a folder, perhaps another
folder, perhaps with a file of the same name, so that a move may meet nothing, a row, a
folder, or itself, and LIKE takes one folder's name for the other's. In `exchange` an edit
of each client and an application for each, or two of one, are enough for a delta
to be stale, a push to be overtaken, and an application to die and be repeated. In
`conversions` one thread runs one function to all of its ends; the functions that
share something - GDAL's cache, the cache of downloaded files - run in two threads,
and the download a second time, since a first run leaves the file for a second.

Symmetry sets are used in the runs that check no liveness.

Deadlock is checked in all runs but `maint` and `exchange`: there is always a process
that may call again. In those two the numbers of operations are bounded, and
when they are used up nothing is left to do.

Fairness. `LockFairness` and `BuildFairness` assume that a live process gets on
with the straight-line code of an attempt, a release, or `buildInternal()`: no
call there waits for somebody else, both modes of the lock being non-blocking on
Unix (`buildlock.cpp:318`). Nothing is assumed of the conversion, which may run an
external program for ever, of a holder, or of the caller. Since a crash ends the call as well,
it is the same process that makes progress, or none is asked for.
`IndexFairness` assumes that a call goes on; a wait for the write lock ends since
the retry policy has a deadline (`retrypolicy.h:47`), not since the holder lets
go: the remover is not fair.

## What is proved

`BuildLockProofs` proves all safety of `BuildLock`, for any sets of clients and
inodes. `KernelLockOfOne` is not inductive and does not give exclusion: two sections
might have locks of different inodes. The inductive invariant adds that a client has
a descriptor exactly between `open` and `close`, and that until an inode is
orphaned, every client that has the file open before its unlink has the inode that
the path names. Two sections then have the same inode, on which there is one lock.
`Refinement` adds the step simulation with `ExclusiveLock`.

`BuildProofs` proves that each step of `Build` is a step of `BuildLock` or leaves
the lock alone (`BuildImplementsLock`), so that the theorems about the lock hold of
the processes around an output; that temp folders exist only inside a section; and,
from these, that a live build is undisturbed as long as no inode is orphaned. The
invariant behind the last (`TargetOK`) says that a keeper past its probe is never
looking at the folder of a live builder: the builder's lock file is there by its
name, so that the keeper has to probe; the probe is refused while the builder is in
its section; and when the builder leaves, so has its folder.

What a call promises of the output rests on one more invariant (`OutputOK`): how far
a builder is tells what the output and its temp folder hold, and an output that is
partial has its remover at work. It holds while no inode is orphaned: each step of a
builder at the output excludes the others', and a death or an eviction breaks it for
nobody who is still in a section. Hence a build that returns has a whole output
(`BuildsReturnOutput`), or, if it is not forced, the rest of an old one whose removal
failed or died. And a whole output gives way only to a successor that is ready
(`OutputsAreReplaced`): in the temp folder of the builder in its section or, for
vectors, staged by a `buildVector` that is forced. This is of every type, and is all
that the code gives: that the successor then comes is not claimed, since its
publication may fail with the old output gone (`OldRemovalFails`, `Rename`, `PutBack`).

`IndexAddProofs` proves type correctness, that rows move forward in time, and that a
row with its file's time has its content if no file is written twice in a second.
The last rests on an invariant over everything that a call carries from one phase to
the next: what compute has read or computed has a time that is not in the future,
and whatever has the time of the file has the file's content; so has what the
transaction sees. The check of the time at commit then does what it is there for.

The contract of a call (`EveryOccurrenceIsListedOnce`) is about the positions of its
list. `dbops.h:36` promises one list for every path given; that is not the code's of a
path that is skipped, which is in none, nor of one that is given twice, which is in a
list for each time. The contract says what there is: an occurrence of a path is in
exactly one list if it is not skipped, and else in none. Its proof needs to say where
each is. A position *waits* when the pass still has to come to it, or to write it, or wrote it in
the transaction that is open (`Waits`, by phase), and is then in no list; when it
does not wait it is in exactly one. That nothing is lost between phases is
`Handled`: what compute has done is what the transaction has to do, and what it has
done is either a conflict or tentative. `EntriesAreCommittedRows` adds that the open
transaction has, for the tentative paths, what was computed for them.

`IndexMaintProofs` proves, of `IndexMaint`, for any workers, paths, LIKE, contents,
keys and bounds: types, with the agreement of the write lock with the operations
that hold it (`MaintTypeCorrect`); that metadata stays with its entry
(`RecordsStayWithEntries`), since ids are unique and never used twice and the
transaction of a scan or a move carries, record by record, what the index had; that
a build folder goes only with the last entry of its hash unless the hash was doubled
(`BuildsStayWithEntries`), since the hashes of both tables are single, and spared by
the removals under way, but for doubled ones; and that a scan during which nothing
changed leaves the truth (`ScansAreTrue`), by what its loop has established of the
paths behind it. A second record of a singular key (`SecondRecords`) is a record
that is inserted: the open transaction has no two records of one key and path that
the tables did not have (`TwinsInv`). The move of a folder (`FoldersMoveWhole`) is
an invariant over the half-moved folder: of the rows that were below it, those that
the loop is through with are at their new places with their metadata, and all else
is as it was (`MovedSoFar`); new places are distinct, and none is an old one that
the loop has yet to come to, as nothing was at the destination, also when that lies
below the folder itself. The steps are first sorted by what they do to the tables
(`MaintSteps`: quiet, an addition, a deletion, a lock, an end, a read, a move, a
record), and each invariant is proved over those kinds.

`ExchangeProofs` proves of `Exchange`: types; that the registry has the files of its
index (`RegistryKeepsFiles`); that a push removes only what its client had seen and
has no more (`RemovesOnlyTheSeen`); and that what differs from a delta survives all
strategies but KeepTheirs (`DifferencesAreKept`). The invariant says that folders
are folders in every table; that one application runs at a time, and a push that is
being applied is the one of the job; that the registry's tables are closed under the
folders above, and a path whose file is about to go has no row at or below it; and
that what the job and the sessions remove, the client had seen.

That a push makes the registry what it sent the stamp of (`PushesReconcile`), and
that the stamp it keeps is then the registry's (`StampsStayTrue`), rests on two more
parts. While nothing came between, the client's dataset and the registry's are those
of which the delta was made (`Fresh`). And from the first step of the application to
its last, what it has still to do is where the registry differs from the stamp, path
by path and record by record (`FilesWay`, `MetasWay`), the path between two of its
operations excepted, whose row and file differ. Both need that every path has its
folders, in the tables and on disk (`Trees`).

`ThreadLockProofs` proves mutual exclusion for each key as long as the maps were not
raced on, and that counts are then true: the threads that are engaged at a key have
its one mutex object, and the count is their number.

`ConversionsProofs` carries it over to the functions: every step of `Conversions` is
one of `ThreadLock`'s or leaves the lock alone (`ConversionsExclude`). It then
proves all invariants of the run, for any threads, any functions that run together,
any number of runs and any sizes of the cache. What a function leaves depends on the
text of its program, which no prover wants to unfold; that part is in `Flows`, where
it is a finite question about one run, and TLC answers it. What is proved is that
the threads of a process run their functions as `Flows` says: that the *view* of a
thread - its handles, the files that it has to itself, its first fault - is at every
moment one of the states that `Flows` reaches at the step where the thread is
(`FlowInv`), in every interleaving, with faults, deaths, restarts and cleaned
caches. The argument is a simulation, a lemma per kind of step (`OpensStep` to
`LocksStep`), and a frame: a step of another thread changes only its own files and
those in the caches (`OthersSee`), and the latter belong to a view only while the
thread is alone. When a cache is cleaned, a file leaves the view, and the states are
closed under that. After a death, what is on disk is such as a run may find when it
begins (`Found`); in particular what is made aside and moved is never there in part.
`CacheInv` is of another kind, as GDAL's cache is shared: if its size is not the
first, somebody who raised it and noted the first size is still running.

All proofs use only the named assumptions: on the constants, and those of `Flows`.

Attempts at proofs have corrected the models. `Exact` of `Exchange`, when an
application is comparable, missed records that go with the entry which the registry
has, and said too much of datasets that the run does not reach. A death in
`Conversions` kept the outcomes of calls that had ended while it forgot what they
had failed with, so that `TempsRemoved` was false of functions that run together,
outside the run's instance; the property now also makes explicit that the caches
belong to all threads. `SingularKeysStayUnique` used to compare numbers of records
and names the pairs now.

Only model-checked: liveness (`NeverStuck`, `CallsEnd`, `CallsReturn`), which is out
of this prover's reach, as is anything with ENABLED; and, in a sense, the
assumptions of `Flows`, which are evaluated, not proved: they concern what a
recursive function computes, of which these provers cannot show anything for
programs of some length.

## Findings

1. `buildlock.h` promises exclusive access; a release, an attempt that had opened
   the file before it, and one that opens it after it put two clients in their
   sections (`lock_mutex`).
2. A cleanup may remove the temp folder of a build in progress, against the comment
   at `build.cpp:661`: a probe unlinks the lock file that the builder has just
   opened, the builder goes on under the lock of an inode without a name, and the
   cleanup finds no lock file (`build_disturbed`).
3. The build of a dependency locks and forces the build of the main file, removes
   its pending marker, and builds nothing (`build_dependency`).
4. The addition of a changed file whose row is there inserts it again, which fails
   for the primary key and aborts the call (`add_heal`).

Behaviour that contradicts no text, and is part of the models, where a property makes an
exception for it:

- LIKE removes and moves what another folder's name is taken for (`dbops.cpp:966`
  means to prevent that). A second file below a folder that has no row makes any move of
  a folder fail, at the second insertion of that folder. A folder's move onto
  rows without a folder overwrites them. A file's move deletes the row it goes onto
  even if its own has gone meanwhile.
- `set()` of two workers, or a write between its statements, makes two records of a
  singular key. A sync that rolls back has removed build folders already.
- A push deletes the metadata of a file that was moved; a change during a push makes
  the client's stamp claim what the registry lacks; a lost answer to the commit makes
  every later push ask for a pull. Without KeepTheirs a folder's removal takes local
  additions below it along.
- A removal that fails leaves a part of an old output that passes for complete
  (`build.cpp:338`); only a forced build replaces it. `buildVector`'s failed rollback
  leaves none.
- `addToIndexEx()` lists no path with a backslash in its file name, and a path twice that
  it is given twice, against "exactly one" of `dbops.h:36`. `alignRaster` reports
  success when it could not write its Z offset.
- `KeptOnReturn`, `KeptOnThrow` and `LeftBehind` in `Catalogue` list the handles and
  files that stay behind, by function: the dataset in memory of a projection, the
  sources of a build of a raster whose statistics fail, the archive and its buffer
  in `mzip.cpp`, and so on. `buildVector`'s rollback removes outputs that it had not
  yet moved aside (`vector.cpp:579`). Thumbnails and tiles are written in place: one that
  is torn is served.

## Not modelled

- The Windows branch of the lock, whose file is deleted by the system when it is
  closed. Move assignment of locks, which nothing uses. `getPendingBuildInfo` and
  other queries.
- Database schema and migration (SQLite's DDL; it is not in one transaction), the
  C API's and the command line's conversion of arguments and errors.
- HTTP, sessions, tokens, sharing, and the files of credentials and tags: requests and
  answers without a state that a second actor shares. `pull` and `clone`, see above.
- What is computed: pixels, tiles' coordinates, terrain, volumes, vegetation
  formulas, EXIF and XMP texts, PLY and SPZ formats. It is numerical or textual code
  without order or concurrency, and outside what TLC can enumerate. Of these functions
  the models have what they open, write, remove and may fail at.
- `stac.cpp`, `exifeditor.cpp`, hashes, user profile, logging, strings. `io::FileLock`
  (`mio.cpp`) but for its handle.
- `addFolder` and `initIndex`, which insert rows and nothing else; listing and searching.

The notes in `PROJECT.json` say the same for each component.
