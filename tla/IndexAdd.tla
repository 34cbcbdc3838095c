------------------------------- MODULE IndexAdd -------------------------------
(***************************************************************************)
(* addToIndexEx() (dbops.cpp): files are planned without a lock, computed    *)
(* without a lock, and committed in one immediate transaction that looks at  *)
(* both the file and its row again; what changed meanwhile is planned anew,  *)
(* a bounded number of times.  Around it are other calls, whoever writes the  *)
(* files, and removeFromIndex().                                             *)
(* A call has a list of paths, in which a path may occur more than once; its  *)
(* state is kept by the positions of that list, as the vectors of the code    *)
(* are.                                                                     *)
(* A file is its modification time, in whole seconds, and its hash.  Files   *)
(* that differ have the same size, the worst case for the commit phase.      *)
(***************************************************************************)
EXTENDS Naturals

CONSTANTS
  Adders,      \* the processes that call addToIndexEx()
  Remover,     \* a process that calls removeFromIndex()
  Files,       \* the paths
  Skipped,     \* a path whose file name has a backslash
  Hashes,      \* the contents that a file may have
  None,        \* no file, no row
  MaxPaths,    \* bounds the length of a list of paths
  MaxRetries,  \* AddOptions.maxConflictRetries
  MaxTime,     \* bounds the number of writes to files
  Coarse       \* whether a file may be written twice in a second

\* A file or a row; what is read of a file before it is hashed.
Stamps == [mtime : 0 .. MaxTime, hash : Hashes]
Positions == 1 .. MaxPaths
Sights == [item : Positions, mtime : 0 .. MaxTime]

ASSUME IndexConstantsOK ==
  /\ MaxPaths \in Nat \ {0}
  /\ MaxRetries \in Nat
  /\ MaxTime \in Nat \ {0}
  /\ Coarse \in BOOLEAN
  /\ None \notin Adders \union Files \union Stamps \union Sights
  /\ Skipped \notin Files \union {None}
  /\ Remover \notin Adders
  /\ Remover # None

VARIABLES
  now,         \* the clock, in seconds
  disk,        \* the files
  rows,        \* the committed rows of the table entries
  writer,      \* the connection that has the write lock of the database
  txRows,      \* the rows as the transaction of the writer sees them
  pc,          \* per call, its phase
  options,     \* per call, stopOnError and whether there is a callback
  pass,        \* per call, how often it planned anew
  paths,       \* per call and position, the path there, None after the last
  pathList,    \* per call, the positions that are in this pass
  todo,        \* per call, the positions that this phase has not come to
  plan,        \* per call and position, the row that the plan saw
  seen,        \* per call, the position and the time that compute has just read
  computed,    \* per call and position, what will be written
  conflicts,   \* per call, the positions whose file changed under it
  tentative,   \* per call, the positions written by the open transaction
  result       \* per call and position, the lists of AddResult that it is in

callVars == <<pc, options, paths, pass, pathList, todo, plan, seen, computed, conflicts,
              tentative, result>>
dbVars == <<rows, writer, txRows>>
diskVars == <<now, disk>>
indexVars == <<diskVars, dbVars, callVars>>

Options == [stopOnError : BOOLEAN, callback : BOOLEAN]
Defaults == [stopOnError |-> FALSE, callback |-> FALSE]
Buckets == {"entries", "unchanged", "errors"}
Phases == {"idle", "plan", "compute", "hash", "begin", "write", "done", "aborted"}
NoRows == [f \in Files |-> None]
Nothing == [i \in Positions |-> None]

StoreTypes ==
  /\ now \in 0 .. MaxTime
  /\ disk \in [Files -> Stamps \union {None}]
  /\ rows \in [Files -> Stamps \union {None}]
  /\ txRows \in [Files -> Stamps \union {None}]
  /\ writer \in Adders \union {Remover, None}

CallTypes ==
  /\ pc \in [Adders -> Phases]
  /\ options \in [Adders -> Options]
  /\ paths \in [Adders -> [Positions -> Files \union {Skipped, None}]]
  /\ pass \in [Adders -> 0 .. MaxRetries]
  /\ pathList \in [Adders -> SUBSET Positions]
  /\ todo \in [Adders -> SUBSET Positions]
  /\ plan \in [Adders -> [Positions -> Stamps \union {None}]]
  /\ seen \in [Adders -> Sights \union {None}]
  /\ computed \in [Adders -> [Positions -> Stamps \union {None}]]
  /\ conflicts \in [Adders -> SUBSET Positions]
  /\ tentative \in [Adders -> SUBSET Positions]
  /\ result \in [Adders -> [Positions -> SUBSET Buckets]]

\* What a call has yet to come to, or found changed, or wrote, is of its pass, and
\* the plan of a pass leaves no path in it that is to be skipped.
PathsNested ==
  \A a \in Adders :
    /\ todo[a] \union conflicts[a] \union tentative[a] \subseteq pathList[a]
    /\ \A i \in pathList[a] :
         \/ paths[a][i] \in Files
         \/ paths[a][i] = Skipped /\ pc[a] = "plan" /\ i \in todo[a]

\* The types of the variables; only the writer is in the commit phase.
IndexTypeOK ==
  /\ StoreTypes
  /\ CallTypes
  /\ PathsNested
  /\ \A a \in Adders : pc[a] = "write" <=> writer = a

\* Rows were written by earlier calls: they tell the file's past or present.
IndexInit ==
  /\ now = 1
  /\ disk \in [Files -> [mtime : {1}, hash : Hashes] \union {None}]
  /\ rows \in [Files -> [mtime : {0, 1}, hash : Hashes] \union {None}]
  /\ \A f \in Files :
       rows[f] # None /\ rows[f].mtime = 1 => disk[f] # None /\ rows[f] = disk[f]
  /\ writer = None
  /\ txRows = NoRows
  /\ pc = [a \in Adders |-> "idle"]
  /\ options = [a \in Adders |-> Defaults]
  /\ paths = [a \in Adders |-> Nothing]
  /\ pass = [a \in Adders |-> 0]
  /\ pathList = [a \in Adders |-> {}]
  /\ todo = [a \in Adders |-> {}]
  /\ plan = [a \in Adders |-> Nothing]
  /\ seen = [a \in Adders |-> None]
  /\ computed = [a \in Adders |-> Nothing]
  /\ conflicts = [a \in Adders |-> {}]
  /\ tentative = [a \in Adders |-> {}]
  /\ result = [a \in Adders |-> [i \in Positions |-> {}]]

------------------------------------------------------------------------------

Goto(a, phase) == pc' = [pc EXCEPT ![a] = phase]
Done(a, i) == todo' = [todo EXCEPT ![a] = @ \ {i}]
Report(a, i, bucket) == result' = [result EXCEPT ![a][i] = @ \union {bucket}]

\* The phases go through the list in its order.
First(a, i) == i \in todo[a] /\ \A j \in todo[a] : i <= j

\* addToIndexEx() is called.  getIndexPathList() throws for a path that does not
\* exist, and does not look for doubles: a file may be given twice, or be given
\* together with its directory.
Call(a) ==
  /\ pc[a] = "idle"
  /\ \E list \in [Positions -> Files \union {Skipped, None}] :
       LET given == {i \in Positions : list[i] # None}
       IN  /\ 1 \in given
           /\ \A i \in given : \A j \in 1 .. i : j \in given
           /\ \A i \in given : list[i] \in Files => disk[list[i]] # None
           /\ paths' = [paths EXCEPT ![a] = list]
           /\ pathList' = [pathList EXCEPT ![a] = given]
           /\ todo' = [todo EXCEPT ![a] = given]
  /\ \E o \in Options : options' = [options EXCEPT ![a] = o]
  /\ Goto(a, "plan")
  /\ UNCHANGED <<diskVars, dbVars, pass, plan, seen, computed, conflicts, tentative, result>>

\* planAddCandidates(): a read of its own for every path, or it is skipped.
Plan(a, i) ==
  /\ pc[a] = "plan"
  /\ First(a, i)
  /\ Done(a, i)
  /\ \/ /\ paths[a][i] \in Files
        /\ plan' = [plan EXCEPT ![a][i] = rows[paths[a][i]]]
        /\ UNCHANGED pathList
     \/ /\ paths[a][i] = Skipped
        /\ pathList' = [pathList EXCEPT ![a] = @ \ {i}]
        /\ UNCHANGED plan
  /\ UNCHANGED <<diskVars, dbVars, pc, options, paths, pass, seen, computed, conflicts,
                 tentative, result>>

\* computeAddEntries() starts when every path is planned.
Planned(a) ==
  /\ pc[a] = "plan"
  /\ todo[a] = {}
  /\ todo' = [todo EXCEPT ![a] = pathList[a]]
  /\ Goto(a, "compute")
  /\ UNCHANGED <<diskVars, dbVars, options, paths, pass, pathList, plan, seen, computed,
                 conflicts, tentative, result>>

\* An exception leaves addToIndexEx(): no result, and no transaction any more.
Abort(a) ==
  /\ pc' = [pc EXCEPT ![a] = "aborted"]
  /\ IF writer = a
       THEN writer' = None /\ txRows' = NoRows
       ELSE UNCHANGED <<writer, txRows>>
  /\ UNCHANGED <<rows, options, paths, pass, pathList, todo, plan, seen, computed, conflicts,
                 tentative, result>>

\* parseEntry() throws: it is an error of the item, unless the call has to stop.
ItemError(a, i) ==
  IF options[a].stopOnError
    THEN Abort(a)
    ELSE /\ Report(a, i, "errors")
         /\ Done(a, i)
         /\ Goto(a, "compute")
         /\ seen' = [seen EXCEPT ![a] = None]
         /\ UNCHANGED <<dbVars, options, paths, pass, pathList, plan, computed, conflicts,
                        tentative>>

\* checkUpdate() and parseEntry() begin with a look at the file: one that does
\* not exist makes parseEntry() throw; one whose time is the row's is unchanged.
Stat(a, i) ==
  /\ pc[a] = "compute"
  /\ First(a, i)
  /\ UNCHANGED diskVars
  /\ \/ disk[paths[a][i]] = None /\ ItemError(a, i)
     \/ /\ disk[paths[a][i]] # None
        /\ plan[a][i] # None
        /\ plan[a][i].mtime = disk[paths[a][i]].mtime
        /\ Report(a, i, "unchanged")
        /\ Done(a, i)
        /\ UNCHANGED <<dbVars, pc, options, paths, pass, pathList, plan, seen, computed,
                       conflicts, tentative>>
     \/ /\ disk[paths[a][i]] # None
        /\ plan[a][i] # None => plan[a][i].mtime # disk[paths[a][i]].mtime
        /\ seen' = [seen EXCEPT ![a] = [item |-> i, mtime |-> disk[paths[a][i]].mtime]]
        /\ Goto(a, "hash")
        /\ UNCHANGED <<dbVars, options, paths, pass, pathList, todo, plan, computed, conflicts,
                       tentative, result>>

\* The file is hashed, and then parsed, after its time was read.
Hash(a, i) ==
  /\ pc[a] = "hash"
  /\ i = seen[a].item
  /\ disk[paths[a][i]] # None
  /\ Done(a, i)
  /\ Goto(a, "compute")
  /\ seen' = [seen EXCEPT ![a] = None]
  /\ IF plan[a][i] # None /\ plan[a][i].hash = disk[paths[a][i]].hash
       THEN Report(a, i, "unchanged") /\ UNCHANGED computed
       ELSE /\ computed' = [computed EXCEPT ![a][i] =
                              [mtime |-> seen[a].mtime, hash |-> disk[paths[a][i]].hash]]
            /\ UNCHANGED result
  /\ UNCHANGED <<diskVars, dbVars, options, paths, pass, pathList, plan, conflicts, tentative>>

\* The file cannot be parsed, or vanished while it was.
ParseFails(a, i) ==
  /\ pc[a] = "hash"
  /\ i = seen[a].item
  /\ ItemError(a, i)
  /\ UNCHANGED diskVars

\* The file vanished before checkUpdate() hashed it, which is not in a try block.
HashFails(a, i) ==
  /\ pc[a] = "hash"
  /\ i = seen[a].item
  /\ plan[a][i] # None
  /\ disk[paths[a][i]] = None
  /\ Abort(a)
  /\ UNCHANGED diskVars

\* The paths to be written.
ToWrite(a) == {i \in Positions : computed[a][i] # None}

\* The pass is over: its conflicts are planned anew, or else reported.
EndPass(a, again) ==
  /\ pathList' = [pathList EXCEPT ![a] = again]
  /\ conflicts' = [conflicts EXCEPT ![a] = {}]
  /\ tentative' = [tentative EXCEPT ![a] = {}]
  /\ plan' = [plan EXCEPT ![a] = Nothing]
  /\ computed' = [computed EXCEPT ![a] = Nothing]
  /\ IF again # {} /\ pass[a] < MaxRetries
       THEN /\ pass' = [pass EXCEPT ![a] = @ + 1]
            /\ todo' = [todo EXCEPT ![a] = again]
            /\ Goto(a, "plan")
       ELSE /\ pass' = [pass EXCEPT ![a] = 0]
            /\ todo' = [todo EXCEPT ![a] = {}]
            /\ Goto(a, "done")
  /\ UNCHANGED <<options, paths, seen>>

\* After the last pass, the paths that are left are errors ("CONFLICT").
Reported(a, again, accepted) ==
  result' = [result EXCEPT ![a] =
    [i \in Positions |->
       @[i] \union (IF i \in accepted THEN {"entries"} ELSE {})
            \union (IF i \in again /\ pass[a] = MaxRetries THEN {"errors"} ELSE {})]]

\* Nothing to be written: commitAddEntries() returns at once.
NothingToWrite(a) ==
  /\ pc[a] = "compute"
  /\ todo[a] = {}
  /\ ToWrite(a) = {}
  /\ EndPass(a, {})
  /\ UNCHANGED <<diskVars, dbVars, result>>

Computed(a) ==
  /\ pc[a] = "compute"
  /\ todo[a] = {}
  /\ ToWrite(a) # {}
  /\ todo' = [todo EXCEPT ![a] = ToWrite(a)]
  /\ Goto(a, "begin")
  /\ UNCHANGED <<diskVars, dbVars, options, paths, pass, pathList, plan, seen, computed,
                 conflicts, tentative, result>>

\* BEGIN IMMEDIATE, which the retry policy repeats while the database is busy ...
Begin(a) ==
  /\ pc[a] = "begin"
  /\ writer = None
  /\ writer' = a
  /\ txRows' = rows
  /\ Goto(a, "write")
  /\ UNCHANGED <<diskVars, rows, options, paths, pass, pathList, todo, plan, seen, computed,
                 conflicts, tentative, result>>

\* As it must not be: the wait has no deadline.
BusyForever(a) ==
  /\ pc[a] = "write"
  /\ todo[a] = {}
  /\ Abort(a)
  /\ UNCHANGED diskVars

\* ... until its deadline, and COMMIT likewise.
Busy(a) ==
  /\ \/ pc[a] = "begin" /\ writer # None
     \/ pc[a] = "write" /\ todo[a] = {}
  /\ Abort(a)
  /\ UNCHANGED diskVars

\* As it must not be: a changed file is skipped, and forgotten.
ConflictDropped(a, i) ==
  /\ Done(a, i)
  /\ UNCHANGED <<dbVars, pc, options, paths, pass, pathList, plan, seen, computed, conflicts,
                 tentative, result>>

Conflict(a, i) ==
  /\ conflicts' = [conflicts EXCEPT ![a] = @ \union {i}]
  /\ Done(a, i)
  /\ UNCHANGED <<dbVars, pc, options, paths, pass, pathList, plan, seen, computed, tentative,
                 result>>

\* As it must not be: the transaction is left open.
WriteRowLeavesOpen(a, i) ==
  \/ /\ txRows' = [txRows EXCEPT ![paths[a][i]] = computed[a][i]]
     /\ tentative' = [tentative EXCEPT ![a] = @ \union {i}]
     /\ Done(a, i)
     /\ UNCHANGED <<rows, writer, pc, options, paths, pass, pathList, plan, seen, computed,
                    conflicts, result>>
  \/ /\ options[a].callback
     /\ EndPass(a, conflicts[a])
     /\ Reported(a, conflicts[a], {})
     /\ UNCHANGED dbVars

\* As it must not be: rows are reported as they are written, not as committed.
WriteRowReports(a, i) ==
  \/ /\ txRows' = [txRows EXCEPT ![paths[a][i]] = computed[a][i]]
     /\ Report(a, i, "entries")
     /\ Done(a, i)
     /\ UNCHANGED <<rows, writer, pc, options, paths, pass, pathList, plan, seen, computed,
                    conflicts, tentative>>
  \/ /\ options[a].callback
     /\ writer' = None
     /\ txRows' = NoRows
     /\ EndPass(a, conflicts[a])
     /\ Reported(a, conflicts[a], {})
     /\ UNCHANGED rows

\* A row is written, and the callback may cancel: the transaction is rolled back.
WriteRow(a, i) ==
  \/ /\ txRows' = [txRows EXCEPT ![paths[a][i]] = computed[a][i]]
     /\ tentative' = [tentative EXCEPT ![a] = @ \union {i}]
     /\ Done(a, i)
     /\ UNCHANGED <<rows, writer, pc, options, paths, pass, pathList, plan, seen, computed,
                    conflicts, result>>
  \/ /\ options[a].callback
     /\ writer' = None
     /\ txRows' = NoRows
     /\ EndPass(a, conflicts[a])
     /\ Reported(a, conflicts[a], {})
     /\ UNCHANGED rows

\* As it must not be: only whether the file still exists is checked again.
SettledIfThere(a, i) == disk[paths[a][i]] # None

\* The file still is what was computed, as far as its time tells.
Settled(a, i) == disk[paths[a][i]] # None /\ disk[paths[a][i]].mtime = computed[a][i].mtime

\* As it must not be: the time at commit is stored, not compared.
CommitRefreshes(a, i) ==
  /\ pc[a] = "write"
  /\ First(a, i)
  /\ disk[paths[a][i]] # None
  /\ txRows' = [txRows EXCEPT ![paths[a][i]] =
                  [computed[a][i] EXCEPT !.mtime = disk[paths[a][i]].mtime]]
  /\ tentative' = [tentative EXCEPT ![a] = @ \union {i}]
  /\ Done(a, i)
  /\ UNCHANGED <<diskVars, rows, writer, pc, options, paths, pass, pathList, plan, seen,
                 computed, conflicts, result>>

\* commitAddEntries(), for one path: the file and the row are looked at again.
\* An update whose row is there is INSERTed, which violates the primary key.
Commit(a, i) ==
  /\ pc[a] = "write"
  /\ First(a, i)
  /\ UNCHANGED diskVars
  /\ \/ ~Settled(a, i) /\ Conflict(a, i)
     \/ Settled(a, i) /\ txRows[paths[a][i]] = None /\ plan[a][i] # None /\ Conflict(a, i)
     \/ Settled(a, i) /\ txRows[paths[a][i]] = None /\ plan[a][i] = None /\ WriteRow(a, i)
     \/ /\ Settled(a, i)
        /\ plan[a][i] = None
        /\ txRows[paths[a][i]] = computed[a][i]
        /\ Report(a, i, "unchanged")
        /\ Done(a, i)
        /\ UNCHANGED <<dbVars, pc, options, paths, pass, pathList, plan, seen, computed,
                       conflicts, tentative>>
     \/ /\ Settled(a, i)
        /\ plan[a][i] = None
        /\ txRows[paths[a][i]] \notin {None, computed[a][i]}
        /\ WriteRow(a, i)
     \/ Settled(a, i) /\ plan[a][i] # None /\ txRows[paths[a][i]] # None /\ Abort(a)

\* COMMIT: the rows are there for all, and are reported.
Committed(a) ==
  /\ pc[a] = "write"
  /\ todo[a] = {}
  /\ rows' = txRows
  /\ writer' = None
  /\ txRows' = NoRows
  /\ EndPass(a, conflicts[a])
  /\ Reported(a, conflicts[a], tentative[a])
  /\ UNCHANGED diskVars

\* The caller is told; another call may follow.
Return(a) ==
  /\ pc[a] \in {"done", "aborted"}
  /\ Goto(a, "idle")
  /\ options' = [options EXCEPT ![a] = Defaults]
  /\ pass' = [pass EXCEPT ![a] = 0]
  /\ paths' = [paths EXCEPT ![a] = Nothing]
  /\ pathList' = [pathList EXCEPT ![a] = {}]
  /\ todo' = [todo EXCEPT ![a] = {}]
  /\ plan' = [plan EXCEPT ![a] = Nothing]
  /\ seen' = [seen EXCEPT ![a] = None]
  /\ computed' = [computed EXCEPT ![a] = Nothing]
  /\ conflicts' = [conflicts EXCEPT ![a] = {}]
  /\ tentative' = [tentative EXCEPT ![a] = {}]
  /\ result' = [result EXCEPT ![a] = [i \in Positions |-> {}]]
  /\ UNCHANGED <<diskVars, dbVars>>

------------------------------------------------------------------------------

\* Somebody writes a file.
Write(f) ==
  /\ \E t \in {now, now + 1} :
       /\ t <= MaxTime
       /\ t = now => Coarse
       /\ now' = t
       /\ \E h \in Hashes : disk' = [disk EXCEPT ![f] = [mtime |-> t, hash |-> h]]
  /\ UNCHANGED <<dbVars, callVars>>

Unlink(f) ==
  /\ disk[f] # None
  /\ disk' = [disk EXCEPT ![f] = None]
  /\ UNCHANGED <<now, dbVars, callVars>>

\* deleteFromIndex() has an immediate transaction of its own, and may take long ...
BeginDelete ==
  /\ writer = None
  /\ writer' = Remover
  /\ txRows' = rows
  /\ UNCHANGED <<diskVars, rows, callVars>>

\* ... for all the rows that match, or for none of them.
EndDelete(F) ==
  /\ writer = Remover
  /\ writer' = None
  /\ rows' = [f \in Files |-> IF f \in F THEN None ELSE txRows[f]]
  /\ txRows' = NoRows
  /\ UNCHANGED <<diskVars, callVars>>

AdderSteps(a) ==
  \/ \E i \in Positions : Plan(a, i) \/ Stat(a, i) \/ Hash(a, i) \/ ParseFails(a, i)
                            \/ HashFails(a, i) \/ Commit(a, i)
  \/ Planned(a) \/ NothingToWrite(a) \/ Computed(a) \/ Begin(a) \/ Busy(a) \/ Committed(a)

IndexNext ==
  \/ \E a \in Adders : Call(a) \/ AdderSteps(a) \/ Return(a)
  \/ \E f \in Files : Write(f) \/ Unlink(f)
  \/ BeginDelete
  \/ \E F \in SUBSET Files : EndDelete(F)

IndexSpec == IndexInit /\ [][IndexNext]_indexVars

\* A process that lives gets on with its call.
IndexFairness == \A a \in Adders : WF_indexVars(AdderSteps(a))

FairIndexSpec == IndexSpec /\ IndexFairness

------------------------------------------------------------------------------

\* "Every path passed to addToIndexEx appears in exactly one of
\* entries/unchanged/errors" (dbops.h:36): when the call returns, every occurrence
\* of a file in its list is in exactly one, however often it was planned anew; in at
\* most one before, and when a callback canceled.  As the code has it, a file that
\* occurs twice may so be in two of them (dbops.cpp:818), and a path that the plan
\* skips is in none (dbops.cpp:666).
CompletenessContract ==
  \A a \in Adders, i \in Positions :
    /\ \A b, c \in result[a][i] : b = c
    /\ pc[a] = "done" /\ ~options[a].callback
         => (result[a][i] # {} <=> paths[a][i] \in Files)

\* "a canceled/rolled-back batch never reports rolled-back writes as committed"
\* (dbops.cpp:782): of a path reported as an entry others now see the row that was
\* computed for it, at this position of the list or at another one that is reported.
EntriesAreCommitted ==
  [][\A a \in Adders, i \in Positions :
       "entries" \in result'[a][i] \ result[a][i]
         => \E j \in Positions : /\ paths[a][j] = paths[a][i]
                               /\ "entries" \in result'[a][j]
                               /\ rows'[paths[a][i]] = computed[a][j]]_indexVars

\* A row with the time of its file also has its content, for as long as no file
\* is written twice in a second: no add leaves a row that later ones would take
\* for unchanged although it is stale.
StaleRowsShow ==
  \A f \in Files :
    rows[f] # None /\ disk[f] # None /\ rows[f].mtime = disk[f].mtime => rows[f] = disk[f]

\* The rows of a path move forward in time: the slower of two calls does not
\* overwrite what the faster one found later.
RowsMoveForward ==
  [][\A f \in Files :
       rows[f] # None /\ rows'[f] # None => rows'[f].mtime >= rows[f].mtime]_indexVars

\* Every call ends: conflicts are retried a bounded number of times, and the
\* wait for the write lock has a deadline.
CallsReturn == \A a \in Adders : pc[a] = "plan" ~> pc[a] \in {"done", "aborted"}

\* "let them self-heal on the next add" (dbops.cpp:763): the commit of a file
\* that changed since its row was written does not fail for the row being there.
ChangedFilesHeal ==
  [][\A a \in Adders :
       pc[a] = "write" /\ todo[a] # {} => pc'[a] # "aborted"]_indexVars
==============================================================================
