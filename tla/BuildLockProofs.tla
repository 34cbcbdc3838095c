--------------------------- MODULE BuildLockProofs ---------------------------
(***************************************************************************)
(* The safety of BuildLock for any set of clients and inodes.               *)
(***************************************************************************)
EXTENDS BuildLock, TLAPS

\* A client has the file open exactly while it is between open() and close().
DescriptorOpen ==
  \A c \in Clients : fd[c] # NoInode <=> lk[c] \in {"opened", "held", "unlinked"}

\* Before an unlink catches another client, the path names what each relies on.
NameIsCurrent == ~orphaned => \A c \in Clients : Relies(c) => fd[c] = link

\* The inductive invariant.  KernelLockOfOne alone does not tell two sections
\* apart that hold locks of different inodes: that they rely on the same inode,
\* the one that the path names, is NameIsCurrent.
IInv == TypeOK /\ DescriptorOpen /\ KernelLockOfOne /\ NameIsCurrent

USE ConstantsOK

\* The invariant holds at first, whether or not a lock file was left behind.
LEMMA InitIInv == LockInit => IInv
BY DEF LockInit, IInv, TypeOK, LockStates, Exceptions, DescriptorOpen,
       KernelLockOfOne, NameIsCurrent, Relies

\* One step of acquireLock() keeps the invariant.
LEMMA AcquiringIInv ==
  ASSUME IInv, NEW c \in Clients, Acquiring(c)
  PROVE  IInv'
<1> USE DEF IInv
<1>1. CASE CheckParent(c)
  BY <1>1 DEF CheckParent, TypeOK, LockStates, Exceptions, DescriptorOpen,
              KernelLockOfOne, NameIsCurrent, Relies
<1>2. CASE OpenFile(c)
  <2>1. PICK i \in Inodes :
          /\ IF link = NoInode THEN Unused(i) ELSE i = link
          /\ link' = i
          /\ fd' = [fd EXCEPT ![c] = i]
    BY <1>2 DEF OpenFile
  <2> USE <1>2, <2>1 DEF OpenFile
  <2>2. TypeOK'
    BY DEF TypeOK, LockStates
  <2>3. DescriptorOpen'
    BY DEF DescriptorOpen, TypeOK
  <2>4. KernelLockOfOne'
    BY DEF KernelLockOfOne, TypeOK
  <2>5. NameIsCurrent'
    <3>1. ASSUME ~orphaned, link = NoInode, NEW d \in Clients
          PROVE  ~Relies(d)
      BY <3>1 DEF NameIsCurrent, DescriptorOpen, Relies
    <3>2. QED
      BY <3>1 DEF NameIsCurrent, Relies, TypeOK
  <2>6. QED
    BY <2>2, <2>3, <2>4, <2>5
<1>3. CASE OpenFails(c)
  BY <1>3 DEF OpenFails, TypeOK, LockStates, Exceptions, DescriptorOpen,
              KernelLockOfOne, NameIsCurrent, Relies
<1>4. CASE LockGranted(c)
  <2> USE <1>4 DEF LockGranted
  <2>1. fd[c] \in Inodes
    BY DEF DescriptorOpen, TypeOK
  <2>2. TypeOK'
    BY <2>1 DEF TypeOK, LockStates
  <2>3. DescriptorOpen' /\ NameIsCurrent'
    BY DEF DescriptorOpen, NameIsCurrent, Relies, TypeOK
  <2>4. KernelLockOfOne'
    BY <2>1 DEF KernelLockOfOne, TypeOK
  <2>5. QED
    BY <2>2, <2>3, <2>4
<1>5. CASE LockRefused(c) \/ LockFails(c)
  <2> USE <1>5 DEF LockRefused, LockFails
  <2>1. TypeOK' /\ DescriptorOpen' /\ NameIsCurrent'
    BY DEF TypeOK, LockStates, Exceptions, DescriptorOpen, NameIsCurrent, Relies
  <2>2. KernelLockOfOne'
    BY DEF KernelLockOfOne, TypeOK
  <2>3. QED
    BY <2>1, <2>2
<1>6. QED
  BY <1>1, <1>2, <1>3, <1>4, <1>5 DEF Acquiring

\* One step of cleanup() keeps the invariant.
LEMMA ReleasingIInv ==
  ASSUME IInv, NEW c \in Clients, Releasing(c)
  PROVE  IInv'
<1> USE DEF IInv
<1>1. CASE CleanupUnlink(c)
  <2> USE <1>1 DEF CleanupUnlink, UnlinkPath
  <2>1. TypeOK' /\ DescriptorOpen'
    BY DEF TypeOK, LockStates, DescriptorOpen
  <2>2. KernelLockOfOne'
    BY DEF KernelLockOfOne, TypeOK
  <2>3. NameIsCurrent'
    BY DEF NameIsCurrent, Relies, TypeOK
  <2>4. QED
    BY <2>1, <2>2, <2>3
<1>2. CASE CleanupUnlock(c)
  <2> USE <1>2 DEF CleanupUnlock
  <2>1. fd[c] \in Inodes
    BY DEF DescriptorOpen, TypeOK
  <2>2. TypeOK' /\ DescriptorOpen' /\ NameIsCurrent'
    BY <2>1 DEF TypeOK, LockStates, DescriptorOpen, NameIsCurrent, Relies
  <2>3. KernelLockOfOne'
    BY <2>1 DEF KernelLockOfOne, TypeOK
  <2>4. QED
    BY <2>2, <2>3
<1>3. QED
  BY <1>1, <1>2 DEF Releasing

\* Handing the lock to another object keeps the invariant.
LEMMA MoveIInv ==
  ASSUME IInv, NEW c \in Clients, NEW d \in Clients, MoveTo(c, d)
  PROVE  IInv'
<1> USE DEF IInv, MoveTo
<1>1. c # d /\ fd[c] \in Inodes /\ fd[d] = NoInode
  BY DEF DescriptorOpen, TypeOK
<1>2. TypeOK' /\ DescriptorOpen' /\ NameIsCurrent'
  BY <1>1 DEF TypeOK, LockStates, DescriptorOpen, NameIsCurrent, Relies
<1>3. KernelLockOfOne'
  BY <1>1 DEF KernelLockOfOne, TypeOK
<1>4. QED
  BY <1>2, <1>3

\* A caught exception and the death of a process keep the invariant.
LEMMA CatchDieIInv ==
  ASSUME IInv, NEW c \in Clients, Catch(c) \/ Die(c)
  PROVE  IInv'
<1> USE DEF IInv
<1>1. CASE Die(c)
  <2> USE <1>1 DEF Die
  <2>1. TypeOK' /\ DescriptorOpen' /\ NameIsCurrent'
    BY DEF TypeOK, LockStates, DescriptorOpen, NameIsCurrent, Relies
  <2>2. KernelLockOfOne'
    BY DEF KernelLockOfOne, TypeOK
  <2>3. QED
    BY <2>1, <2>2
<1>2. CASE Catch(c)
  BY <1>2 DEF Catch, Exceptions, TypeOK, LockStates, DescriptorOpen, KernelLockOfOne,
              NameIsCurrent, Relies
<1>3. QED
  BY <1>1, <1>2

\* What is done to the directory without the lock keeps the invariant.
LEMMA ParentIInv ==
  ASSUME IInv, MakeParent \/ EvictParent \/ StrayUnlink
  PROVE  IInv'
<1> USE DEF IInv
<1>1. CASE MakeParent
  BY <1>1 DEF MakeParent, TypeOK, DescriptorOpen, KernelLockOfOne, NameIsCurrent, Relies
<1>2. CASE EvictParent \/ StrayUnlink
  <2> USE <1>2 DEF EvictParent, StrayUnlink, UnlinkPath
  <2>1. TypeOK'
    BY DEF TypeOK
  <2>2. DescriptorOpen' /\ KernelLockOfOne'
    BY DEF DescriptorOpen, KernelLockOfOne
  <2>3. NameIsCurrent'
    BY DEF NameIsCurrent, Relies
  <2>4. QED
    BY <2>1, <2>2, <2>3
<1>3. QED
  BY <1>1, <1>2

\* Every step of the lock protocol, and of what surrounds it, keeps the invariant.
LEMMA NextIInv == IInv /\ [LockNext]_lockVars => IInv'
<1> SUFFICES ASSUME IInv, [LockNext]_lockVars
             PROVE  IInv'
  OBVIOUS
<1>1. CASE UNCHANGED lockVars
  BY <1>1 DEF lockVars, IInv, TypeOK, DescriptorOpen, KernelLockOfOne,
              NameIsCurrent, Relies
<1>2. CASE LockNext
  BY <1>2, AcquiringIInv, ReleasingIInv, MoveIInv, CatchDieIInv, ParentIInv
     DEF LockNext
<1>3. QED
  BY <1>1, <1>2

\* The invariant holds in every reachable state.
LEMMA Invariance == LockSpec => []IInv
BY InitIInv, NextIInv, PTL DEF LockSpec

\* At most one section on the inode that the path names, and no other section.
LEMMA IInvExclusive == IInv => ExclusiveUnlessOrphaned
<1> SUFFICES ASSUME IInv, ~orphaned
             PROVE  /\ MutualExclusion
                    /\ \A c \in Clients : InSection(c) => fd[c] = link
  BY DEF ExclusiveUnlessOrphaned
<1>1. \A c \in Clients : InSection(c) => fd[c] = link
  BY DEF IInv, NameIsCurrent, Relies, InSection
<1>2. \A c \in Clients : InSection(c) => fd[c] \in Inodes /\ c \in klock[fd[c]]
  BY DEF IInv, TypeOK, DescriptorOpen, KernelLockOfOne, InSection
<1>3. MutualExclusion
  BY <1>1, <1>2 DEF MutualExclusion, IInv, KernelLockOfOne
<1>4. QED
  BY <1>1, <1>3

------------------------------------------------------------------------------

\* The variables of the lock keep their types.
THEOREM TypeCorrect == LockSpec => []TypeOK
<1>1. IInv => TypeOK
  BY DEF IInv
<1>2. QED
  BY <1>1, Invariance, PTL

\* The kernel lock of an inode has one owner: the client whose object, in its
\* section or leaving it, has that inode open.
THEOREM KernelLockCorrect == LockSpec => []KernelLockOfOne
<1>1. IInv => KernelLockOfOne
  BY DEF IInv
<1>2. QED
  BY <1>1, Invariance, PTL

\* Until an unlink has left another client on an inode without a name, the
\* lock is exclusive and the path names the inode that is locked.
THEOREM Exclusion == LockSpec => []ExclusiveUnlessOrphaned
BY IInvExclusive, Invariance, PTL

\* BuildInProgress is thrown only while another live client has the kernel lock
\* of the file that was opened: a file left by a dead process refuses nobody.
THEOREM Refusals == LockSpec => RefusedOnlyWhileHeld
<1> DEFINE A == \A c \in Clients :
       lk[c] = "opened" /\ lk'[c] = "inProgress" =>
         \E d \in Clients \ {c} : fd[d] = fd[c] /\ lk[d] \in {"held", "unlinked"}
<1>1. IInv /\ [LockNext]_lockVars => [A]_lockVars
  <2> SUFFICES ASSUME IInv, LockNext, NEW c \in Clients,
                      lk[c] = "opened", lk'[c] = "inProgress"
               PROVE  \E d \in Clients \ {c} : fd[d] = fd[c] /\ lk[d] \in {"held", "unlinked"}
    OBVIOUS
  <2>1. LockRefused(c)
    <3> USE DEF IInv, TypeOK
    <3>1. ASSUME NEW d \in Clients, Acquiring(d)
          PROVE  LockRefused(c)
      <4>1. CASE LockRefused(d)
        BY <4>1 DEF LockRefused
      <4>2. CASE CheckParent(d) \/ OpenFile(d) \/ OpenFails(d) \/ LockGranted(d) \/ LockFails(d)
        BY <4>2 DEF CheckParent, OpenFile, OpenFails, LockGranted, LockFails
      <4>3. QED
        BY <3>1, <4>1, <4>2 DEF Acquiring
    <3>2. QED
      BY <3>1 DEF LockNext, Releasing, CleanupUnlink, CleanupUnlock, Catch, Die,
                  MoveTo, MakeParent, EvictParent, StrayUnlink, UnlinkPath
  <2>2. fd[c] \in Inodes /\ klock[fd[c]] # {}
    BY <2>1 DEF LockRefused, IInv, DescriptorOpen, TypeOK
  <2>3. PICK d \in klock[fd[c]] : TRUE
    BY <2>2
  <2>4. d \in Clients /\ fd[d] = fd[c] /\ lk[d] \in {"held", "unlinked"}
    BY <2>2, <2>3 DEF IInv, KernelLockOfOne
  <2>5. QED
    BY <2>4
<1>2. QED
  BY <1>1, Invariance, PTL DEF LockSpec, RefusedOnlyWhileHeld

------------------------------------------------------------------------------

\* The refinement mapping: the owners of the abstract lock.
Owners == {c \in Clients : InSection(c)}

\* A step of acquireLock() takes the abstract lock or leaves it as it is.
LEMMA AcquiringRefines ==
  ASSUME IInv, ~orphaned, NEW c \in Clients, Acquiring(c)
  PROVE  (Owners = {} /\ Owners' = {c}) \/ Owners' = Owners
<1> USE DEF Owners, InSection
<1>1. CASE LockGranted(c)
  <2>1. lk[c] = "opened" /\ klock[fd[c]] = {} /\ fd[c] = link /\ fd[c] \in Inodes
    BY <1>1 DEF LockGranted, IInv, NameIsCurrent, Relies, DescriptorOpen, TypeOK
  <2>2. ASSUME NEW d \in Clients, lk[d] = "held"
        PROVE  FALSE
    BY <2>1, <2>2 DEF IInv, NameIsCurrent, Relies, KernelLockOfOne
  <2>3. Owners = {}
    BY <2>2
  <2>4. Owners' = {c}
    BY <1>1, <2>2 DEF LockGranted, IInv, TypeOK
  <2>5. QED
    BY <2>3, <2>4
<1>2. CASE CheckParent(c) \/ OpenFile(c) \/ OpenFails(c) \/ LockRefused(c) \/ LockFails(c)
  <2>1. \A d \in Clients : lk[d] = "held" <=> lk'[d] = "held"
    BY <1>2 DEF CheckParent, OpenFile, OpenFails, LockRefused, LockFails, IInv, TypeOK
  <2>2. QED
    BY <2>1
<1>3. QED
  BY <1>1, <1>2 DEF Acquiring

\* The other steps release the abstract lock, hand it over, or leave it alone.
LEMMA OthersRefine ==
  ASSUME IInv, NEW c \in Clients, NEW d \in Clients,
         Releasing(c) \/ Catch(c) \/ Die(c) \/ MoveTo(c, d)
  PROVE  \/ c \in Owners /\ Owners' = Owners \ {c}
         \/ c \in Owners /\ Owners' = (Owners \ {c}) \union {d}
         \/ Owners' = Owners
<1> USE DEF Owners, InSection
<1>1. CASE CleanupUnlink(c) \/ (Die(c) /\ lk[c] = "held")
  BY <1>1 DEF CleanupUnlink, Die, IInv, TypeOK
<1>2. CASE CleanupUnlock(c) \/ Catch(c) \/ (Die(c) /\ lk[c] # "held")
  BY <1>2 DEF CleanupUnlock, Catch, Exceptions, Die, IInv, TypeOK
<1>3. CASE MoveTo(c, d)
  BY <1>3 DEF MoveTo, IInv, TypeOK
<1>4. QED
  BY <1>1, <1>2, <1>3 DEF Releasing

\* For as long as no unlink has left another client on an inode without a name,
\* each step of BuildLock is one of the exclusive lock of buildlock.h, or none.
THEOREM Refinement == LockSpec => ExclusiveLockUntilOrphaned
<1> USE DEF Exclusive!Init, Exclusive!Next, Exclusive!Acquire, Exclusive!Release,
            Exclusive!Transfer
<1>1. LockInit => Exclusive!Init
  BY DEF LockInit, InSection
<1>2. IInv /\ [LockNext]_lockVars =>
        [orphaned' \/ Exclusive!Next \/ UNCHANGED {c \in Clients : InSection(c)}]_lockVars
  <2> SUFFICES ASSUME IInv, LockNext, ~orphaned'
               PROVE  Exclusive!Next \/ Owners' = Owners
    BY DEF Owners
  <2>1. ~orphaned
    BY DEF LockNext, Acquiring, CheckParent, OpenFile, OpenFails, LockGranted,
           LockRefused, LockFails, Releasing, CleanupUnlink, CleanupUnlock, UnlinkPath,
           Die, Catch, MoveTo, MakeParent, EvictParent, StrayUnlink
  <2>2. ASSUME NEW c \in Clients, Acquiring(c)
        PROVE  Exclusive!Next \/ Owners' = Owners
    BY <2>1, <2>2, AcquiringRefines DEF Owners
  <2>3. ASSUME NEW c \in Clients, NEW d \in Clients,
               Releasing(c) \/ Catch(c) \/ Die(c) \/ MoveTo(c, d)
        PROVE  Exclusive!Next \/ Owners' = Owners
    BY <2>3, OthersRefine DEF Owners
  <2>4. CASE MakeParent \/ EvictParent \/ StrayUnlink
    BY <2>4 DEF MakeParent, EvictParent, StrayUnlink, UnlinkPath, Owners, InSection
  <2>5. QED
    BY <2>2, <2>3, <2>4 DEF LockNext
<1>3. QED
  BY <1>1, <1>2, Invariance, PTL DEF LockSpec, ExclusiveLockUntilOrphaned
==============================================================================
