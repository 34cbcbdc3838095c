------------------------------ MODULE BuildLock ------------------------------
(***************************************************************************)
(* The inter-process lock of one build output: the file                     *)
(* "<outputFolder>.building" and the kernel's advisory lock on it           *)
(* (buildlock.cpp, the Unix branch).  A client is one BuildLock object.     *)
(* The kernel locks an inode, whereas a client reaches the inode by its     *)
(* path, so both the directory entry and the inodes are in the state.       *)
(***************************************************************************)
EXTENDS FiniteSets

CONSTANTS
  Clients,    \* the BuildLock objects, of all the processes
  Inodes,     \* what the kernel may give to a new lock file
  NoInode,    \* the path names no file, or the object has no descriptor
  Eviction    \* whether code that holds no lock removes the lock file

ASSUME ConstantsOK == NoInode \notin Inodes /\ Eviction \in BOOLEAN

VARIABLES
  parent,     \* the hash directory that holds the lock file exists
  link,       \* the inode that the lock file's path names
  klock,      \* per inode, the clients to which the kernel granted its lock
  fd,         \* per client, the inode behind fileDescriptor
  lk,         \* per client, how far it is in acquireLock() or cleanup()
  orphaned    \* history: an unlink hit an inode that another client had open

lockVars == <<parent, link, klock, fd, lk, orphaned>>

\* The exceptions with which an attempt may end: BuildInProgressException,
\* BuildLockDirectoryException, and the other BuildLockExceptions.
Exceptions == {"inProgress", "noDirectory", "failed"}

LockStates == {"idle", "checked", "opened", "held", "unlinked"} \union Exceptions

\* The types of the variables; a folder that is gone took its lock file along.
TypeOK ==
  /\ parent \in BOOLEAN
  /\ link \in Inodes \union {NoInode}
  /\ klock \in [Inodes -> SUBSET Clients]
  /\ fd \in [Clients -> Inodes \union {NoInode}]
  /\ lk \in [Clients -> LockStates]
  /\ orphaned \in BOOLEAN
  /\ link # NoInode => parent

\* The lock file may have been left behind by a process that died earlier.
LockInit ==
  /\ parent \in BOOLEAN
  /\ link \in Inodes \union {NoInode}
  /\ link # NoInode => parent
  /\ klock = [i \in Inodes |-> {}]
  /\ fd = [c \in Clients |-> NoInode]
  /\ lk = [c \in Clients |-> "idle"]
  /\ orphaned = FALSE

------------------------------------------------------------------------------

\* Client c counts on its inode: it is about to lock it, or holds its lock.
Relies(c) == lk[c] \in {"opened", "held"}

\* Client c has access to the output folder: constructed, not yet released.
InSection(c) == lk[c] = "held"

\* unlink(path): the inode lives on as long as somebody has it open.
UnlinkPath(S) ==
  /\ link' = NoInode
  /\ orphaned' = (orphaned \/ \E d \in Clients \ S : Relies(d) /\ fd[d] = link)

\* acquireLock() starts: the folder of the lock file must exist.
CheckParent(c) ==
  /\ lk[c] = "idle"
  /\ lk' = [lk EXCEPT ![c] = IF parent THEN "checked" ELSE "noDirectory"]
  /\ UNCHANGED <<parent, link, klock, fd, orphaned>>

\* An inode the file system can reuse: unnamed, and open nowhere.
Unused(i) == i # link /\ \A c \in Clients : fd[c] # i

\* As it must not be: a file of its own for every attempt.
OpenFreshFile(c) ==
  /\ lk[c] = "checked"
  /\ parent
  /\ \E i \in Inodes :
       /\ Unused(i)
       /\ link' = i
       /\ fd' = [fd EXCEPT ![c] = i]
  /\ lk' = [lk EXCEPT ![c] = "opened"]
  /\ UNCHANGED <<parent, klock, orphaned>>

\* open(path, O_CREAT | O_WRONLY): no O_EXCL, so an orphan file is reopened.
OpenFile(c) ==
  /\ lk[c] = "checked"
  /\ parent
  /\ \E i \in Inodes :
       /\ IF link = NoInode THEN Unused(i) ELSE i = link
       /\ link' = i
       /\ fd' = [fd EXCEPT ![c] = i]
  /\ lk' = [lk EXCEPT ![c] = "opened"]
  /\ UNCHANGED <<parent, klock, orphaned>>

\* open() fails: the folder is gone (ENOENT), or EACCES, ENOSPC and the like.
OpenFails(c) ==
  /\ lk[c] = "checked"
  /\ lk' = [lk EXCEPT ![c] = IF parent THEN "failed" ELSE "noDirectory"]
  /\ UNCHANGED <<parent, link, klock, fd, orphaned>>

\* As it must not be: the lock of one process does not exclude another object
\* of that process, which is what F_SETLK does.
LockSharedInProcess(c) ==
  /\ lk[c] = "opened"
  /\ klock' = [klock EXCEPT ![fd[c]] = @ \union {c}]
  /\ lk' = [lk EXCEPT ![c] = "held"]
  /\ UNCHANGED <<parent, link, fd, orphaned>>

\* fcntl(F_OFD_SETLK) grants the lock of the inode behind the descriptor;
\* whether the path still names that inode is not looked at again.
LockGranted(c) ==
  /\ lk[c] = "opened"
  /\ klock[fd[c]] = {}
  /\ klock' = [klock EXCEPT ![fd[c]] = @ \union {c}]
  /\ lk' = [lk EXCEPT ![c] = "held"]
  /\ UNCHANGED <<parent, link, fd, orphaned>>

\* fcntl() refuses: the descriptor is closed and the file left to its holder.
LockRefused(c) ==
  /\ lk[c] = "opened"
  /\ klock[fd[c]] # {}
  /\ fd' = [fd EXCEPT ![c] = NoInode]
  /\ lk' = [lk EXCEPT ![c] = "inProgress"]
  /\ UNCHANGED <<parent, link, klock, orphaned>>

\* fcntl() fails for another reason than a conflict (no locks left, ...).
LockFails(c) ==
  /\ lk[c] = "opened"
  /\ fd' = [fd EXCEPT ![c] = NoInode]
  /\ lk' = [lk EXCEPT ![c] = "failed"]
  /\ UNCHANGED <<parent, link, klock, orphaned>>

\* The caller catches the exception; the object was never constructed.
Catch(c) ==
  /\ lk[c] \in Exceptions
  /\ lk' = [lk EXCEPT ![c] = "idle"]
  /\ UNCHANGED <<parent, link, klock, fd, orphaned>>

\* cleanup(), first half: the directory entry goes before the kernel lock.
CleanupUnlink(c) ==
  /\ lk[c] = "held"
  /\ UnlinkPath({c})
  /\ lk' = [lk EXCEPT ![c] = "unlinked"]
  /\ UNCHANGED <<parent, klock, fd>>

\* As it must not be: nothing left to do once the file is gone.
CleanupUnlockIfThere(c) ==
  /\ lk[c] = "unlinked"
  /\ link # NoInode
  /\ klock' = [klock EXCEPT ![fd[c]] = @ \ {c}]
  /\ fd' = [fd EXCEPT ![c] = NoInode]
  /\ lk' = [lk EXCEPT ![c] = "idle"]
  /\ UNCHANGED <<parent, link, orphaned>>

\* cleanup(), second half: the kernel lock is released, the descriptor closed.
CleanupUnlock(c) ==
  /\ lk[c] = "unlinked"
  /\ klock' = [klock EXCEPT ![fd[c]] = @ \ {c}]
  /\ fd' = [fd EXCEPT ![c] = NoInode]
  /\ lk' = [lk EXCEPT ![c] = "idle"]
  /\ UNCHANGED <<parent, link, orphaned>>

\* As it must not be: the object that was moved from is not reset.
MoveKeepingSource(c, d) ==
  /\ lk[c] = "held"
  /\ lk[d] = "idle"
  /\ klock' = [klock EXCEPT ![fd[c]] = @ \union {d}]
  /\ fd' = [fd EXCEPT ![d] = fd[c]]
  /\ lk' = [lk EXCEPT ![d] = "held"]
  /\ UNCHANGED <<parent, link, orphaned>>

\* BuildLock(BuildLock&&): the descriptor and its lock change hands.
MoveTo(c, d) ==
  /\ lk[c] = "held"
  /\ lk[d] = "idle"
  /\ klock' = [klock EXCEPT ![fd[c]] = (@ \ {c}) \union {d}]
  /\ fd' = [fd EXCEPT ![c] = NoInode, ![d] = fd[c]]
  /\ lk' = [lk EXCEPT ![c] = "idle", ![d] = "held"]
  /\ UNCHANGED <<parent, link, orphaned>>

\* As it must not be: a lock that outlives its process.
DieLocked(c) ==
  /\ lk[c] # "idle"
  /\ fd' = [fd EXCEPT ![c] = NoInode]
  /\ lk' = [lk EXCEPT ![c] = "idle"]
  /\ UNCHANGED <<parent, link, klock, orphaned>>

\* The process dies: the kernel closes its descriptor, which drops the lock,
\* and the lock file stays where it is.  Another process may take its place.
Die(c) ==
  /\ lk[c] # "idle"
  /\ klock' = [i \in Inodes |-> klock[i] \ {c}]
  /\ fd' = [fd EXCEPT ![c] = NoInode]
  /\ lk' = [lk EXCEPT ![c] = "idle"]
  /\ UNCHANGED <<parent, link, orphaned>>

\* assureFolderExists(<hash>), which every builder calls before it locks.
MakeParent ==
  /\ ~parent
  /\ parent' = TRUE
  /\ UNCHANGED <<link, klock, fd, lk, orphaned>>

\* As it must not be: the lock file outlives its folder.
EvictAroundLock ==
  /\ Eviction
  /\ parent
  /\ parent' = FALSE
  /\ UNCHANGED <<link, klock, fd, lk, orphaned>>

\* removeFromIndex() and deleteFromIndex() remove build/<hash>, lock file and
\* all, without looking for a lock.
EvictParent ==
  /\ Eviction
  /\ parent
  /\ parent' = FALSE
  /\ UnlinkPath({})
  /\ UNCHANGED <<klock, fd, lk>>

\* isBuildActive() ends with fs::remove(lockFile), whoever has the file by then.
StrayUnlink ==
  /\ Eviction
  /\ UnlinkPath({})
  /\ UNCHANGED <<parent, klock, fd, lk>>

Acquiring(c) ==
  CheckParent(c) \/ OpenFile(c) \/ OpenFails(c)
    \/ LockGranted(c) \/ LockRefused(c) \/ LockFails(c)

Releasing(c) == CleanupUnlink(c) \/ CleanupUnlock(c)

LockNext ==
  \/ \E c \in Clients : Acquiring(c) \/ Releasing(c) \/ Catch(c) \/ Die(c)
  \/ \E c, d \in Clients : MoveTo(c, d)
  \/ MakeParent
  \/ EvictParent
  \/ StrayUnlink

LockSpec == LockInit /\ [][LockNext]_lockVars

\* No call of an attempt or of a release waits: a live process gets on with it.
\* Nothing is assumed of a holder, nor that an attempt is ever made.
LockFairness ==
  \A c \in Clients :
    /\ WF_lockVars(OpenFile(c) \/ OpenFails(c))
    /\ WF_lockVars(LockGranted(c) \/ LockRefused(c) \/ LockFails(c))
    /\ WF_lockVars(CleanupUnlock(c))

FairLockSpec == LockSpec /\ LockFairness

------------------------------------------------------------------------------

\* "Build operations here - guaranteed exclusive access" (buildlock.h:52): at
\* most one client is between its constructor and its release.
MutualExclusion == \A c, d \in Clients : InSection(c) /\ InSection(d) => c = d

\* What acquireLock() and cleanup() do achieve: until an unlink has left
\* another client on an inode without a name, at most one client is in its
\* section, and the path names the very inode whose lock it holds.
ExclusiveUnlessOrphaned ==
  ~orphaned => /\ MutualExclusion
               /\ \A c \in Clients : InSection(c) => fd[c] = link

\* The kernel lock and the objects agree: a lock is granted on an inode to the
\* one live client that is in its section, or on its way out of it, there.
KernelLockOfOne ==
  \A i \in Inodes :
    /\ klock[i] = {c \in Clients : fd[c] = i /\ lk[c] \in {"held", "unlinked"}}
    /\ \A c, d \in klock[i] : c = d

\* "Orphan lock files on disk are harmless" (buildlock.h:35): BuildInProgress is
\* thrown only while a live client has the lock of the file that was opened.
RefusedOnlyWhileHeld ==
  [][\A c \in Clients :
       lk[c] = "opened" /\ lk'[c] = "inProgress" =>
         \E d \in Clients \ {c} : fd[d] = fd[c] /\ lk[d] \in {"held", "unlinked"}]_lockVars

\* Neither constructor mode waits on Unix (buildlock.cpp:318): every attempt
\* ends, with the lock or with an exception, and every release completes.
NeverStuck ==
  \A c \in Clients :
    lk[c] \in {"checked", "opened", "unlinked"} ~> lk[c] \in {"idle", "held"} \union Exceptions

Exclusive == INSTANCE ExclusiveLock WITH owners <- {c \in Clients : InSection(c)}

\* BuildLock implements the exclusive lock that buildlock.h promises for as long
\* as no unlink has left another client on an inode without a name.
ExclusiveLockUntilOrphaned ==
  /\ Exclusive!Init
  /\ [][orphaned' \/ Exclusive!Next \/ UNCHANGED {c \in Clients : InSection(c)}]_lockVars
==============================================================================
