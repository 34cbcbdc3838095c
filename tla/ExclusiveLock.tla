---------------------------- MODULE ExclusiveLock ----------------------------
(***************************************************************************)
(* What buildlock.h promises of a BuildLock: between the return of the      *)
(* constructor and the start of the release, its owner has exclusive access *)
(* to the output folder.  The abstract state is the set of owners.          *)
(***************************************************************************)

CONSTANT Clients            \* the BuildLock objects, of all the processes

VARIABLE owners

Init == owners = {}

\* A constructor returns: nobody else is an owner.
Acquire(c) == owners = {} /\ owners' = {c}

\* The destructor, release(), or the death of the process.
Release(c) == c \in owners /\ owners' = owners \ {c}

\* Move construction hands the lock to another object.
Transfer(c, d) == c \in owners /\ owners' = (owners \ {c}) \union {d}

Next ==
  \/ \E c \in Clients : Acquire(c) \/ Release(c)
  \/ \E c, d \in Clients : Transfer(c, d)

Spec == Init /\ [][Next]_owners
==============================================================================
