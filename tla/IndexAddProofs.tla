---------------------------- MODULE IndexAddProofs ----------------------------
(***************************************************************************)
(* Proofs about IndexAdd: its types, that a stale row shows, that rows move   *)
(* forward in time, and that the result of a call lists every path once and   *)
(* tells the truth, for any processes, paths, contents and bounds.            *)
(***************************************************************************)
EXTENDS IndexAdd, TLAPS

\* The time of a file, of a row or of what was read of a file.
Time(r) == r.mtime

\* What a process has read or written is of the past ...
Past ==
  /\ \A f \in Files : disk[f] # None => Time(disk[f]) <= now
  /\ \A f \in Files : rows[f] # None => Time(rows[f]) <= now
  /\ \A f \in Files : txRows[f] # None => Time(txRows[f]) <= now
  /\ \A a \in Adders : seen[a] # None => Time(seen[a]) <= now
  /\ \A a \in Adders, i \in Positions : computed[a][i] # None => Time(computed[a][i]) <= now

\* ... and rows are not ahead of their files, nor behind in a transaction.
Behind(f, r) == r # None /\ disk[f] # None => Time(r) <= Time(disk[f])

Forward ==
  /\ \A f \in Files : Behind(f, rows[f]) /\ Behind(f, txRows[f])
  /\ writer # None => \A f \in Files : rows[f] # None /\ txRows[f] # None
                        => Time(rows[f]) <= Time(txRows[f])

\* A call that hashes has a file to hash, has no conflicts nor rows written before
\* its transaction, and writes what it was to look at.
Hashing ==
  \A a \in Adders :
    /\ pc[a] = "hash" => seen[a] # None /\ seen[a].item \in todo[a]
    /\ pc[a] \in {"idle", "plan", "compute", "hash", "begin"}
         => conflicts[a] = {} /\ tentative[a] = {}
    /\ pc[a] = "idle" => \A i \in Positions : computed[a][i] = None
    /\ \A i \in Positions : computed[a][i] # None
                             => i \in pathList[a] /\ paths[a][i] \in Files

\* What tells the file's time tells its content, too.
Shows(f, r) == r # None /\ disk[f] # None /\ r.mtime = disk[f].mtime => r = disk[f]

AllShow ==
  /\ \A f \in Files : Shows(f, rows[f]) /\ Shows(f, txRows[f])
  /\ \A a \in Adders, i \in Positions :
       computed[a][i] # None => Shows(paths[a][i], computed[a][i])

IndexInv == IndexTypeOK /\ Hashing /\ Past /\ Forward

------------------------------------------------------------------------------

\* The initial states are typed, and no call hashes in them.
LEMMA TypeInit == IndexInit => IndexTypeOK /\ Hashing
<1> SUFFICES ASSUME IndexInit
             PROVE  IndexTypeOK /\ Hashing
  OBVIOUS
<1> USE IndexConstantsOK DEF IndexInit, Stamps
<1>1. 1 \in 0 .. MaxTime /\ {0, 1} \subseteq 0 .. MaxTime
  OBVIOUS
<1>0. Defaults \in Options
  BY DEF Defaults, Options
<1>2. disk \in [Files -> Stamps \union {None}]
  BY <1>1
<1>3. rows \in [Files -> Stamps \union {None}]
  BY <1>1
<1> QED
  BY <1>0, <1>1, <1>2, <1>3 DEF IndexTypeOK, StoreTypes, CallTypes, PathsNested, Hashing,
     Buckets, Phases, Nothing, NoRows

\* After the plan, the paths of a pass are files.
LEMMA PassHasFiles ==
  ASSUME IndexTypeOK, NEW a \in Adders, NEW i \in pathList[a], pc[a] # "plan"
  PROVE  /\ i \in Positions
         /\ paths[a][i] \in Files
         /\ disk[paths[a][i]] # None
              => /\ disk[paths[a][i]] \in Stamps
                 /\ disk[paths[a][i]].mtime \in 0 .. MaxTime
                 /\ disk[paths[a][i]].hash \in Hashes
BY DEF IndexTypeOK, StoreTypes, CallTypes, PathsNested, Stamps

\* A report names a list of the result.
LEMMA ReportTypes ==
  ASSUME CallTypes, NEW a \in Adders, NEW i \in Positions, NEW b \in Buckets, Report(a, i, b)
  PROVE  result' \in [Adders -> [Positions -> SUBSET Buckets]]
<1>1. result[a] \in [Positions -> SUBSET Buckets]
  BY DEF CallTypes
<1>2. [result[a] EXCEPT ![i] = @ \union {b}] \in [Positions -> SUBSET Buckets]
  BY <1>1
<1>3. result' = [result EXCEPT ![a] = [result[a] EXCEPT ![i] = @ \union {b}]]
  BY DEF Report, CallTypes
<1> QED
  BY <1>2, <1>3 DEF CallTypes

\* So does the report at the end of a pass.
LEMMA ReportedTypes ==
  ASSUME CallTypes, NEW a \in Adders, NEW again \in SUBSET Positions, NEW F \in SUBSET Positions,
         Reported(a, again, F)
  PROVE  result' \in [Adders -> [Positions -> SUBSET Buckets]]
<1> DEFINE r == [i \in Positions |->
                   result[a][i] \union (IF i \in F THEN {"entries"} ELSE {})
                     \union (IF i \in again /\ pass[a] = MaxRetries THEN {"errors"} ELSE {})]
<1>1. r \in [Positions -> SUBSET Buckets]
  BY DEF CallTypes, Buckets
<1>2. result' = [result EXCEPT ![a] = r]
  BY DEF Reported, CallTypes
<1> HIDE DEF r
<1> QED
  BY <1>1, <1>2 DEF CallTypes

\* A pass that ends leaves nothing behind, and no call has too many of them.
LEMMA EndPassTypes ==
  ASSUME CallTypes, NEW a \in Adders, NEW again \in SUBSET Positions, EndPass(a, again),
         result' \in [Adders -> [Positions -> SUBSET Buckets]]
  PROVE  CallTypes'
<1>1. pass' \in [Adders -> 0 .. MaxRetries]
  <2>1. pass[a] \in 0 .. MaxRetries /\ MaxRetries \in Nat
    BY IndexConstantsOK DEF CallTypes
  <2>2. 0 \in 0 .. MaxRetries /\ (pass[a] < MaxRetries => pass[a] + 1 \in 0 .. MaxRetries)
    BY <2>1
  <2> QED
    BY <2>2 DEF EndPass, CallTypes
<1>2. pc' \in [Adders -> Phases] /\ todo' \in [Adders -> SUBSET Positions]
  BY ZenonT(40) DEF EndPass, CallTypes, Goto, Phases
<1>3. Nothing \in [Positions -> Stamps \union {None}]
  BY DEF Nothing
<1> QED
  BY <1>1, <1>2, <1>3 DEF EndPass, CallTypes

\* The end of a pass is no part of a transaction, and plans the paths it is told to.
LEMMA EndPassNests ==
  ASSUME CallTypes, PathsNested, Hashing, NEW a \in Adders, NEW again \in SUBSET pathList[a],
         EndPass(a, again), pc[a] # "plan"
  PROVE  /\ PathsNested'
         /\ Hashing'
         /\ \A b \in Adders : pc'[b] = "write" <=> b # a /\ pc[b] = "write"
BY DEF EndPass, CallTypes, PathsNested, Hashing, Goto, Nothing

\* An exception ends the transaction of the call.
LEMMA AbortKeeps ==
  ASSUME IndexTypeOK, Hashing, NEW a \in Adders, Abort(a), pc[a] # "plan", UNCHANGED diskVars
  PROVE  (IndexTypeOK /\ Hashing)'
BY IndexConstantsOK
   DEF IndexTypeOK, StoreTypes, CallTypes, PathsNested, Hashing, Phases, NoRows, Abort, diskVars

\* An error of an item ends the call, or the work on the item.
LEMMA ItemErrorKeeps ==
  ASSUME IndexTypeOK, Hashing, NEW a \in Adders, NEW i \in todo[a], ItemError(a, i),
         pc[a] \in {"compute", "hash"}, UNCHANGED diskVars
  PROVE  (IndexTypeOK /\ Hashing)'
<1>1. CASE options[a].stopOnError
  BY <1>1, AbortKeeps DEF ItemError
<1>2. CASE ~options[a].stopOnError
  <2>0. /\ Report(a, i, "errors")
        /\ Done(a, i)
        /\ Goto(a, "compute")
        /\ seen' = [seen EXCEPT ![a] = None]
        /\ UNCHANGED <<dbVars, options, paths, pass, pathList, plan, computed, conflicts,
                       tentative>>
    BY <1>2 DEF ItemError
  <2>1. i \in Positions /\ "errors" \in Buckets
    BY DEF IndexTypeOK, CallTypes, Buckets
  <2>2. result' \in [Adders -> [Positions -> SUBSET Buckets]]
    BY <2>0, <2>1, ReportTypes DEF IndexTypeOK
  <2>3. CallTypes'
    BY <2>0, <2>2 DEF IndexTypeOK, CallTypes, Phases, Goto, Done
  <2>4. StoreTypes' /\ PathsNested' /\ \A b \in Adders : pc'[b] = "write" <=> writer' = b
    BY <2>0
       DEF IndexTypeOK, StoreTypes, CallTypes, PathsNested, Goto, Done, diskVars, dbVars
  <2>5. Hashing'
    BY <2>0 DEF IndexTypeOK, CallTypes, Hashing, Goto, Done
  <2> QED
    BY <2>3, <2>4, <2>5 DEF IndexTypeOK
<1> QED
  BY <1>1, <1>2

\* A conflict is a path of the pass.
LEMMA ConflictKeeps ==
  ASSUME IndexTypeOK, Hashing, NEW a \in Adders, NEW i \in todo[a], pc[a] = "write",
         Conflict(a, i), UNCHANGED diskVars
  PROVE  (IndexTypeOK /\ Hashing)'
BY DEF IndexTypeOK, StoreTypes, CallTypes, PathsNested, Hashing, Conflict, Done, diskVars, dbVars

\* A row is written in the transaction, which a cancellation ends.
LEMMA WriteRowKeeps ==
  ASSUME IndexTypeOK, Hashing, NEW a \in Adders, NEW i \in todo[a], pc[a] = "write",
         WriteRow(a, i), UNCHANGED diskVars
  PROVE  (IndexTypeOK /\ Hashing)'
<1>0. i \in Positions /\ conflicts[a] \in SUBSET pathList[a]
      /\ conflicts[a] \in SUBSET Positions
  BY DEF IndexTypeOK, CallTypes, PathsNested
<1>1. CASE tentative' = [tentative EXCEPT ![a] = @ \union {i}] /\ Done(a, i)
           /\ txRows' = [txRows EXCEPT ![paths[a][i]] = computed[a][i]]
           /\ UNCHANGED <<rows, writer, pc, options, paths, pass, pathList, plan, seen,
                          computed, conflicts, result>>
  BY <1>0, <1>1
     DEF IndexTypeOK, StoreTypes, CallTypes, PathsNested, Hashing, Done, diskVars
<1>2. CASE /\ writer' = None
           /\ txRows' = NoRows
           /\ EndPass(a, conflicts[a])
           /\ Reported(a, conflicts[a], {})
           /\ UNCHANGED rows
  <2>0. {} \in SUBSET Positions /\ CallTypes
    BY DEF IndexTypeOK
  <2>1. result' \in [Adders -> [Positions -> SUBSET Buckets]]
    BY <1>0, <1>2, <2>0, ReportedTypes
  <2>2. CallTypes'
    BY <1>0, <1>2, <2>0, <2>1, EndPassTypes
  <2>3. StoreTypes'
    BY <1>2 DEF IndexTypeOK, StoreTypes, NoRows, diskVars
  <2>4. PathsNested' /\ Hashing' /\ \A b \in Adders : pc'[b] = "write" <=> b # a /\ pc[b] = "write"
    BY <1>0, <1>2, EndPassNests DEF IndexTypeOK
  <2>5. \A b \in Adders : pc'[b] = "write" <=> writer' = b
    BY <1>2, <2>4, IndexConstantsOK DEF IndexTypeOK
  <2> QED
    BY <2>2, <2>3, <2>4, <2>5 DEF IndexTypeOK
<1> QED
  BY <1>1, <1>2 DEF WriteRow

\* Every step keeps the types, and hashes only a file that it looked at.
LEMMA TypeNext == IndexTypeOK /\ Hashing /\ [IndexNext]_indexVars => (IndexTypeOK /\ Hashing)'
<1> SUFFICES ASSUME IndexTypeOK, Hashing, [IndexNext]_indexVars
             PROVE  (IndexTypeOK /\ Hashing)'
  OBVIOUS
<1> USE IndexConstantsOK
    DEF IndexTypeOK, StoreTypes, CallTypes, PathsNested, Hashing, Phases, Nothing, NoRows,
        Goto, Done, First,
        indexVars, diskVars, dbVars, callVars
<1>0. Defaults \in Options
  BY DEF Defaults, Options
<1>1. ASSUME NEW a \in Adders, Call(a)
      PROVE  (IndexTypeOK /\ Hashing)'
  BY <1>1 DEF Call
<1>2. ASSUME NEW a \in Adders, NEW i \in Positions, Plan(a, i)
      PROVE  (IndexTypeOK /\ Hashing)'
  <2>0. /\ pc[a] = "plan" /\ i \in todo[a]
        /\ todo' = [todo EXCEPT ![a] = @ \ {i}]
        /\ UNCHANGED <<now, disk, rows, writer, txRows, pc, options, paths, pass, seen,
                       computed, conflicts, tentative, result>>
    BY <1>2 DEF Plan
  <2>1. CASE /\ paths[a][i] \in Files
             /\ plan' = [plan EXCEPT ![a][i] = rows[paths[a][i]]]
             /\ UNCHANGED pathList
    <3>1. plan' \in [Adders -> [Positions -> Stamps \union {None}]]
      <4>1. [plan[a] EXCEPT ![i] = rows[paths[a][i]]] \in [Positions -> Stamps \union {None}]
        BY <2>1
      <4> QED
        BY <2>1, <4>1
    <3> QED
      BY <2>0, <2>1, <3>1
  <2>2. CASE paths[a][i] = Skipped /\ pathList' = [pathList EXCEPT ![a] = @ \ {i}]
             /\ UNCHANGED plan
    BY <2>0, <2>2
  <2> QED
    BY <1>2, <2>1, <2>2 DEF Plan
<1>3. ASSUME NEW a \in Adders, Planned(a)
      PROVE  (IndexTypeOK /\ Hashing)'
  BY <1>3 DEF Planned
<1>4. ASSUME NEW a \in Adders, NEW i \in Positions, Stat(a, i)
      PROVE  (IndexTypeOK /\ Hashing)'
  <2>0. "unchanged" \in Buckets
    BY DEF Buckets
  <2>1. CASE disk[paths[a][i]] = None /\ ItemError(a, i)
    BY <1>4, <2>1, ItemErrorKeeps DEF Stat
  <2>2. CASE Report(a, i, "unchanged") /\ Done(a, i)
             /\ UNCHANGED <<dbVars, pc, options, paths, pass, pathList, plan, seen, computed,
                            conflicts, tentative>>
    <3>1. result' \in [Adders -> [Positions -> SUBSET Buckets]]
      BY <2>0, <2>2, ReportTypes
    <3>2. CallTypes'
      BY <2>2, <3>1
    <3>3. StoreTypes' /\ PathsNested' /\ \A b \in Adders : pc'[b] = "write" <=> writer' = b
      BY <1>4, <2>2 DEF Stat
    <3>4. Hashing'
      BY <1>4, <2>2 DEF Stat
    <3> QED
      BY <3>2, <3>3, <3>4
  <2>3. CASE /\ disk[paths[a][i]] # None
             /\ seen' = [seen EXCEPT ![a] = [item |-> i, mtime |-> disk[paths[a][i]].mtime]]
             /\ Goto(a, "hash")
             /\ UNCHANGED <<dbVars, options, paths, pass, pathList, todo, plan, computed,
                            conflicts, tentative, result>>
    <3>1. [item |-> i, mtime |-> disk[paths[a][i]].mtime] \in Sights \ {None}
      BY <1>4, <2>3, PassHasFiles DEF Stat, Sights
    <3> QED
      BY <1>4, <2>3, <3>1 DEF Stat
  <2> QED
    BY <1>4, <2>1, <2>2, <2>3 DEF Stat
<1>5. ASSUME NEW a \in Adders, NEW i \in Positions, Hash(a, i)
      PROVE  (IndexTypeOK /\ Hashing)'
  <2>1. [mtime |-> seen[a].mtime, hash |-> disk[paths[a][i]].hash] \in Stamps
    BY <1>5 DEF Hash, Sights, Stamps
  <2>2. computed' \in [Adders -> [Positions -> Stamps \union {None}]]
    <3> DEFINE r == [mtime |-> seen[a].mtime, hash |-> disk[paths[a][i]].hash]
    <3>1. CASE UNCHANGED computed
      BY <3>1
    <3>2. CASE computed' = [computed EXCEPT ![a][i] = r]
      <4>1. [computed[a] EXCEPT ![i] = r] \in [Positions -> Stamps \union {None}]
        BY <2>1
      <4> QED
        BY <3>2, <4>1
    <3> QED
      BY <1>5, <3>1, <3>2 DEF Hash
  <2>3. result' \in [Adders -> [Positions -> SUBSET Buckets]]
    BY <1>5, ReportTypes DEF Hash, Buckets
  <2>4. CallTypes'
    BY ZenonT(40), <1>5, <2>2, <2>3 DEF Hash
  <2>5. Hashing'
    BY <1>5 DEF Hash
  <2> QED
    BY SMTT(20), <1>5, <2>4, <2>5 DEF Hash
<1>6. ASSUME NEW a \in Adders, NEW i \in Positions, ParseFails(a, i)
      PROVE  (IndexTypeOK /\ Hashing)'
  BY ZenonT(40), <1>6, ItemErrorKeeps DEF ParseFails
<1>7. ASSUME NEW a \in Adders, NEW i \in Positions, HashFails(a, i)
      PROVE  (IndexTypeOK /\ Hashing)'
  BY <1>7, AbortKeeps DEF HashFails
<1>8. ASSUME NEW a \in Adders, NothingToWrite(a)
      PROVE  (IndexTypeOK /\ Hashing)'
  <2>1. CallTypes'
    BY <1>8, EndPassTypes DEF NothingToWrite
  <2>2. PathsNested' /\ Hashing' /\ \A b \in Adders : pc'[b] = "write" <=> b # a /\ pc[b] = "write"
    BY <1>8, EndPassNests DEF NothingToWrite
  <2> QED
    BY <1>8, <2>1, <2>2 DEF NothingToWrite
<1>9. ASSUME NEW a \in Adders, Computed(a)
      PROVE  (IndexTypeOK /\ Hashing)'
  BY <1>9 DEF Computed, ToWrite
<1>10. ASSUME NEW a \in Adders, Begin(a)
      PROVE  (IndexTypeOK /\ Hashing)'
  BY <1>10 DEF Begin
<1>11. ASSUME NEW a \in Adders, Busy(a)
      PROVE  (IndexTypeOK /\ Hashing)'
  BY <1>11, AbortKeeps DEF Busy
<1>12. ASSUME NEW a \in Adders, NEW i \in Positions, Commit(a, i)
      PROVE  (IndexTypeOK /\ Hashing)'
  <2>1. CASE Conflict(a, i)
    BY <1>12, <2>1, ConflictKeeps DEF Commit
  <2>2. CASE WriteRow(a, i)
    BY <1>12, <2>2, WriteRowKeeps DEF Commit
  <2>3. CASE Abort(a)
    BY <1>12, <2>3, AbortKeeps DEF Commit
  <2>4. CASE Report(a, i, "unchanged") /\ Done(a, i)
             /\ UNCHANGED <<dbVars, pc, options, paths, pass, pathList, plan, seen, computed,
                            conflicts, tentative>>
    <3>1. result' \in [Adders -> [Positions -> SUBSET Buckets]]
      BY <2>4, ReportTypes DEF Buckets
    <3>2. CallTypes'
      BY <2>4, <3>1
    <3>3. StoreTypes' /\ PathsNested' /\ \A b \in Adders : pc'[b] = "write" <=> writer' = b
      BY <1>12, <2>4 DEF Commit
    <3>4. Hashing'
      BY <1>12, <2>4 DEF Commit
    <3> QED
      BY <3>2, <3>3, <3>4
  <2> QED
    BY <1>12, <2>1, <2>2, <2>3, <2>4 DEF Commit
<1>13. ASSUME NEW a \in Adders, Committed(a)
      PROVE  (IndexTypeOK /\ Hashing)'
  <2>0. conflicts[a] \in SUBSET pathList[a] /\ conflicts[a] \in SUBSET Positions
        /\ tentative[a] \in SUBSET Positions
    OBVIOUS
  <2>1. CallTypes'
    BY <1>13, <2>0, ReportedTypes, EndPassTypes DEF Committed
  <2>2. PathsNested' /\ Hashing' /\ \A b \in Adders : pc'[b] = "write" <=> b # a /\ pc[b] = "write"
    BY ZenonT(40), <1>13, <2>0, EndPassNests DEF Committed
  <2>3. \A b \in Adders : pc'[b] = "write" <=> writer' = b
    BY <1>13, <2>2 DEF Committed
  <2>4. StoreTypes'
    BY <1>13 DEF Committed
  <2> QED
    BY <2>1, <2>2, <2>3, <2>4
<1>14. ASSUME NEW a \in Adders, Return(a)
      PROVE  (IndexTypeOK /\ Hashing)'
  BY <1>0, <1>14 DEF Return
<1>15. ASSUME NEW f \in Files, Write(f)
      PROVE  (IndexTypeOK /\ Hashing)'
  BY <1>15 DEF Write, Stamps
<1>16. ASSUME NEW f \in Files, Unlink(f)
      PROVE  (IndexTypeOK /\ Hashing)'
  BY <1>16 DEF Unlink
<1>17. ASSUME BeginDelete
      PROVE  (IndexTypeOK /\ Hashing)'
  BY <1>17 DEF BeginDelete
<1>18. ASSUME NEW F \in SUBSET Files, EndDelete(F)
      PROVE  (IndexTypeOK /\ Hashing)'
  BY <1>18 DEF EndDelete
<1>19. CASE UNCHANGED indexVars
  BY <1>19
<1> QED
  BY <1>1, <1>2, <1>3, <1>4, <1>5, <1>6, <1>7, <1>8, <1>9, <1>10,
     <1>11, <1>12, <1>13, <1>14, <1>15, <1>16, <1>17, <1>18, <1>19
  DEF IndexNext, AdderSteps
\* Initially rows are of the past, and not ahead of their files.
LEMMA TimeInit == IndexInit => Past /\ Forward
<1> SUFFICES ASSUME IndexInit
             PROVE  Past /\ Forward
  OBVIOUS
<1>1. ASSUME NEW f \in Files
      PROVE  /\ disk[f] # None => Time(disk[f]) = 1
             /\ rows[f] # None => Time(rows[f]) \in {0, 1}
             /\ txRows[f] = None
  BY DEF IndexInit, NoRows, Time
<1>2. now = 1 /\ writer = None
  BY DEF IndexInit
<1>3. \A a \in Adders : seen[a] = None /\ \A i \in Positions : computed[a][i] = None
  BY DEF IndexInit, Nothing
<1> QED
  BY <1>1, <1>2, <1>3 DEF Past, Forward, Behind

\* Numbers are compared; the times of typed records are numbers.
LEMMA TimesAreNumbers ==
  ASSUME IndexTypeOK
  PROVE  /\ now \in Nat
         /\ \A f \in Files : disk[f] # None => Time(disk[f]) \in Nat
         /\ \A f \in Files : rows[f] # None => Time(rows[f]) \in Nat
         /\ \A f \in Files : txRows[f] # None => Time(txRows[f]) \in Nat
         /\ \A a \in Adders : seen[a] # None => Time(seen[a]) \in Nat
         /\ \A a \in Adders, i \in Positions : computed[a][i] # None => Time(computed[a][i]) \in Nat
BY IndexConstantsOK DEF IndexTypeOK, StoreTypes, CallTypes, Stamps, Sights, Time

\* A transaction begins with the rows as they are.
LEMMA SnapshotKeeps ==
  ASSUME IndexTypeOK, Past, Forward, UNCHANGED <<now, disk, rows, computed, seen>>, txRows' = rows
  PROVE  (Past /\ Forward)'
<1>1. Past'
  BY DEF Past
<1>2. \A f \in Files : rows[f] # None => Time(rows[f]) \in Nat
  BY TimesAreNumbers
<1>3. \A f \in Files : rows[f] # None => Time(rows[f]) <= Time(rows[f])
  BY <1>2
<1>4. Forward'
  BY <1>3 DEF Forward, Behind
<1> QED
  BY <1>1, <1>4

\* A file that is written has the latest time.
LEMMA WriteKeeps ==
  ASSUME IndexTypeOK, Past, Forward, NEW f \in Files, Write(f)
  PROVE  (Past /\ Forward)'
<1>1. PICK t \in {now, now + 1}, h \in Hashes :
        now' = t /\ disk' = [disk EXCEPT ![f] = [mtime |-> t, hash |-> h]]
  BY DEF Write
<1>2. now \in Nat /\ t \in Nat /\ now <= t
  BY <1>1, TimesAreNumbers
<1>3. UNCHANGED <<rows, writer, txRows, computed, seen>>
  BY DEF Write, dbVars, callVars
<1>4. \A m \in Nat : m <= now => m <= t
  BY <1>2
<1>5. Time([mtime |-> t, hash |-> h]) = t /\ t <= t
  BY <1>2 DEF Time
<1>6. \A g \in Files : disk'[g] = IF g = f THEN [mtime |-> t, hash |-> h] ELSE disk[g]
  BY <1>1 DEF IndexTypeOK, StoreTypes
<1> DEFINE file == [mtime |-> t, hash |-> h]
<1> HIDE DEF file
<1>7. \A g \in Files : disk'[g] = file \/ disk'[g] = disk[g]
  BY <1>6 DEF file
<1>8. Time(file) = t
  BY <1>5 DEF file
<1>9. Past'
  BY <1>1, <1>3, <1>4, <1>5, <1>7, <1>8, TimesAreNumbers DEF Past
<1>10. \A g \in Files : Behind(g, rows[g])' /\ Behind(g, txRows[g])'
  BY <1>3, <1>4, <1>7, <1>8, TimesAreNumbers DEF Past, Forward, Behind
<1> QED
  BY <1>3, <1>9, <1>10 DEF Forward

\* Steps that write a row write what is on the disk now; others take rows over.
LEMMA TimeNext ==
  IndexTypeOK /\ Hashing /\ Past /\ Forward /\ [IndexNext]_indexVars => (Past /\ Forward)'
<1> SUFFICES ASSUME IndexTypeOK, Hashing, Past, Forward, [IndexNext]_indexVars
             PROVE  (Past /\ Forward)'
  OBVIOUS
<1>a. /\ now \in Nat
      /\ \A f \in Files : disk[f] # None => Time(disk[f]) \in Nat
      /\ \A f \in Files : rows[f] # None => Time(rows[f]) \in Nat
      /\ \A f \in Files : txRows[f] # None => Time(txRows[f]) \in Nat
      /\ \A a \in Adders : seen[a] # None => Time(seen[a]) \in Nat
      /\ \A a \in Adders, i \in Positions : computed[a][i] # None => Time(computed[a][i]) \in Nat
  BY TimesAreNumbers
<1>b. /\ disk \in [Files -> Stamps \union {None}]
      /\ rows \in [Files -> Stamps \union {None}]
      /\ txRows \in [Files -> Stamps \union {None}]
      /\ seen \in [Adders -> Sights \union {None}]
      /\ computed \in [Adders -> [Positions -> Stamps \union {None}]]
  BY DEF IndexTypeOK, StoreTypes, CallTypes
<1> USE <1>a, <1>b
    DEF Past, Forward, Behind, Nothing, NoRows, indexVars, diskVars, dbVars, callVars
<1>1. ASSUME NEW a \in Adders, Call(a)
      PROVE  (Past /\ Forward)'
  BY <1>1 DEF Call
<1>2. ASSUME NEW a \in Adders, NEW i \in Positions, Plan(a, i)
      PROVE  (Past /\ Forward)'
  BY <1>2 DEF Plan
<1>3. ASSUME NEW a \in Adders, Planned(a)
      PROVE  (Past /\ Forward)'
  BY <1>3 DEF Planned
<1>4. ASSUME NEW a \in Adders, NEW i \in Positions, Stat(a, i)
      PROVE  (Past /\ Forward)'
  <2>1. CASE UNCHANGED <<now, disk, rows, writer, txRows, computed, seen>>
    BY <2>1
  <2>2. CASE Abort(a) /\ UNCHANGED <<now, disk>>
    BY <2>2 DEF Abort
  <2>3. CASE UNCHANGED <<now, disk, rows, writer, txRows, computed>>
             /\ seen' = [seen EXCEPT ![a] = None]
    BY <2>3
  <2>4. CASE UNCHANGED <<now, disk, rows, writer, txRows, computed>>
             /\ disk[paths[a][i]] # None
             /\ seen' = [seen EXCEPT ![a] = [item |-> i, mtime |-> disk[paths[a][i]].mtime]]
    <3>1. Time([item |-> i, mtime |-> disk[paths[a][i]].mtime]) = Time(disk[paths[a][i]])
      BY DEF Time
    <3>2. paths[a][i] \in Files
      BY <1>4, PassHasFiles DEF Stat, First, IndexTypeOK, PathsNested
    <3> QED
      BY <2>4, <3>1, <3>2
  <2> QED
    BY <1>4, <2>1, <2>2, <2>3, <2>4 DEF Stat, ItemError
<1>5. ASSUME NEW a \in Adders, NEW i \in Positions, Hash(a, i)
      PROVE  (Past /\ Forward)'
  <2>1. seen[a] # None /\ Time(seen[a]) <= now
    BY <1>5 DEF Hash, Hashing
  <2>2. \A b \in Adders, j \in Positions :
          computed'[b][j] # None => Time(computed'[b][j]) <= now
    <3> DEFINE r == [mtime |-> seen[a].mtime, hash |-> disk[paths[a][i]].hash]
    <3>1. Time(r) = Time(seen[a])
      BY DEF Time
    <3>2. \A b \in Adders, j \in Positions : computed'[b][j] \in {computed[b][j], r}
      BY SMTT(20), <1>5 DEF Hash
    <3> HIDE DEF r
    <3> QED
      BY <1>5, <2>1, <3>1, <3>2 DEF Hash
  <2>3. \A b \in Adders : seen'[b] # None => seen'[b] = seen[b]
    BY <1>5 DEF Hash
  <2> QED
    BY <1>5, <2>2, <2>3 DEF Hash
<1>6. ASSUME NEW a \in Adders, NEW i \in Positions, ParseFails(a, i)
      PROVE  (Past /\ Forward)'
  <2>1. CASE Abort(a) /\ UNCHANGED <<now, disk>>
    BY <2>1 DEF Abort
  <2>2. CASE UNCHANGED <<now, disk, rows, writer, txRows, computed>>
             /\ seen' = [seen EXCEPT ![a] = None]
    BY <2>2
  <2> QED
    BY <1>6, <2>1, <2>2 DEF ParseFails, ItemError
<1>7. ASSUME NEW a \in Adders, NEW i \in Positions, HashFails(a, i)
      PROVE  (Past /\ Forward)'
  BY <1>7 DEF HashFails, Abort
<1>8. ASSUME NEW a \in Adders, NothingToWrite(a)
      PROVE  (Past /\ Forward)'
  BY <1>8 DEF NothingToWrite, EndPass, ToWrite
<1>9. ASSUME NEW a \in Adders, Computed(a)
      PROVE  (Past /\ Forward)'
  BY <1>9 DEF Computed
<1>10. ASSUME NEW a \in Adders, Begin(a)
      PROVE  (Past /\ Forward)'
  BY <1>10, SnapshotKeeps DEF Begin
<1>11. ASSUME NEW a \in Adders, Busy(a)
      PROVE  (Past /\ Forward)'
  BY <1>11 DEF Busy, Abort
<1>12. ASSUME NEW a \in Adders, NEW i \in Positions, Commit(a, i)
      PROVE  (Past /\ Forward)'
  <2>1. CASE UNCHANGED <<now, disk, rows, writer, txRows, computed, seen>>
    BY <2>1
  <2>2. CASE Abort(a) /\ UNCHANGED <<now, disk>>
    BY <2>2 DEF Abort
  <2>3. CASE Settled(a, i) /\ WriteRow(a, i)
    <3>1. CASE /\ txRows' = [txRows EXCEPT ![paths[a][i]] = computed[a][i]]
               /\ UNCHANGED <<now, disk, rows, writer, computed, seen>>
      <4>1. disk[paths[a][i]] # None /\ Time(disk[paths[a][i]]) = Time(computed[a][i])
        BY <2>3 DEF Settled, Time
      <4>2. \A g \in Files : txRows'[g] = IF g = paths[a][i] THEN computed[a][i] ELSE txRows[g]
        BY <3>1
      <4> QED
        BY <3>1, <4>1, <4>2
    <3>2. CASE /\ writer' = None
               /\ txRows' = NoRows
               /\ EndPass(a, conflicts[a])
               /\ UNCHANGED <<now, disk, rows>>
      BY <3>2 DEF EndPass
    <3> QED
      BY <1>12, <2>3, <3>1, <3>2 DEF WriteRow, Commit
  <2> QED
    BY <1>12, <2>1, <2>2, <2>3 DEF Commit, Conflict
<1>13. ASSUME NEW a \in Adders, Committed(a)
      PROVE  (Past /\ Forward)'
  BY <1>13 DEF Committed, EndPass
<1>14. ASSUME NEW a \in Adders, Return(a)
      PROVE  (Past /\ Forward)'
  BY <1>14 DEF Return
<1>15. ASSUME NEW f \in Files, Write(f)
      PROVE  (Past /\ Forward)'
  BY <1>15, WriteKeeps
<1>16. ASSUME NEW f \in Files, Unlink(f)
      PROVE  (Past /\ Forward)'
  BY <1>16 DEF Unlink
<1>17. ASSUME BeginDelete
      PROVE  (Past /\ Forward)'
  BY <1>17, SnapshotKeeps DEF BeginDelete
<1>18. ASSUME NEW F \in SUBSET Files, EndDelete(F)
      PROVE  (Past /\ Forward)'
  BY <1>18 DEF EndDelete
<1>19. CASE UNCHANGED indexVars
  BY <1>19
<1> QED
  BY <1>1, <1>2, <1>3, <1>4, <1>5, <1>6, <1>7, <1>8, <1>9, <1>10,
     <1>11, <1>12, <1>13, <1>14, <1>15, <1>16, <1>17, <1>18, <1>19
  DEF IndexNext, AdderSteps
------------------------------------------------------------------------------

\* Initially a row is older than its file, or is its file.
LEMMA ShowInit == IndexInit => AllShow
<1> SUFFICES ASSUME IndexInit
             PROVE  AllShow
  OBVIOUS
<1>1. /\ \A f \in Files : txRows[f] = None
      /\ \A a \in Adders, i \in Positions : computed[a][i] = None
  BY DEF IndexInit, Nothing, NoRows
<1>2. \A f \in Files : disk[f] # None => disk[f].mtime = 1
  BY DEF IndexInit
<1>3. \A f \in Files : Shows(f, rows[f])
  BY <1>2 DEF IndexInit, Shows
<1> QED
  BY <1>1, <1>3 DEF AllShow, Shows

\* A file that is written in a second of its own differs in time from all records.
LEMMA WriteShows ==
  ASSUME ~Coarse, IndexTypeOK, Hashing, Past, AllShow, NEW f \in Files, Write(f)
  PROVE  AllShow'
<1>1. PICK h \in Hashes : disk' = [disk EXCEPT ![f] = [mtime |-> now + 1, hash |-> h]]
  BY DEF Write
<1> DEFINE file == [mtime |-> now + 1, hash |-> h]
<1>2. file.mtime = now + 1
  OBVIOUS
<1> HIDE DEF file
<1>3. \A g \in Files : disk'[g] = file \/ disk'[g] = disk[g]
  BY <1>1 DEF file, IndexTypeOK, StoreTypes
<1>4. ASSUME NEW r, NEW g \in Files, r # None => Time(r) \in Nat /\ Time(r) <= now, Shows(g, r)
      PROVE  r # None /\ disk'[g] # None /\ r.mtime = disk'[g].mtime => r = disk'[g]
  <2>1. now \in Nat
    BY TimesAreNumbers
  <2>2. r # None => Time(r) # now + 1
    BY <1>4, <2>1
  <2> QED
    BY <1>2, <1>3, <1>4, <2>2 DEF Shows, Time
<1>5. UNCHANGED <<rows, txRows, computed, paths>>
  BY DEF Write, dbVars, callVars
<1>6. \A g \in Files : Shows(g, rows[g])' /\ Shows(g, txRows[g])'
  <2>1. ASSUME NEW g \in Files
        PROVE  /\ rows[g] # None => Time(rows[g]) \in Nat /\ Time(rows[g]) <= now
               /\ txRows[g] # None => Time(txRows[g]) \in Nat /\ Time(txRows[g]) <= now
    BY TimesAreNumbers DEF Past
  <2> QED
    BY <1>4, <1>5, <2>1 DEF AllShow, Shows
<1>7. ASSUME NEW b \in Adders, NEW j \in Positions, computed[b][j] # None
      PROVE  Shows(paths[b][j], computed[b][j])'
  <2>1. Time(computed[b][j]) \in Nat /\ Time(computed[b][j]) <= now
    BY <1>7, TimesAreNumbers DEF Past
  <2>2. paths[b][j] \in Files /\ Shows(paths[b][j], computed[b][j])
    BY <1>7 DEF Hashing, AllShow
  <2> QED
    BY <1>4, <1>5, <2>1, <2>2 DEF Shows
<1> QED
  BY <1>5, <1>6, <1>7 DEF AllShow

\* The other steps take over records that show, or hash the file as it is.
LEMMA ShowNext ==
  ASSUME ~Coarse, IndexInv, AllShow, [IndexNext]_indexVars
  PROVE  AllShow'
<1>a. /\ disk \in [Files -> Stamps \union {None}]
      /\ rows \in [Files -> Stamps \union {None}]
      /\ txRows \in [Files -> Stamps \union {None}]
      /\ computed \in [Adders -> [Positions -> Stamps \union {None}]]
  BY DEF IndexInv, IndexTypeOK, StoreTypes, CallTypes
<1>b. IndexTypeOK /\ Hashing
  BY DEF IndexInv
<1> USE <1>a DEF AllShow, Shows, Nothing, NoRows, indexVars, diskVars, dbVars, callVars
<1>1. ASSUME NEW a \in Adders, Call(a)
      PROVE  AllShow'
  <2>1. \A i \in Positions : computed[a][i] = None
    BY <1>1, <1>b DEF Call, Hashing
  <2>2. \A b \in Adders \ {a} : paths'[b] = paths[b]
    BY <1>1, <1>b DEF Call, IndexTypeOK, CallTypes
  <2> QED
    BY <1>1, <2>1, <2>2 DEF Call
<1>2. ASSUME NEW a \in Adders, NEW i \in Positions, Plan(a, i)
      PROVE  AllShow'
  BY <1>2 DEF Plan
<1>3. ASSUME NEW a \in Adders, Planned(a)
      PROVE  AllShow'
  BY <1>3 DEF Planned
<1>4. ASSUME NEW a \in Adders, NEW i \in Positions, Stat(a, i)
      PROVE  AllShow'
  <2>1. UNCHANGED <<disk, rows, computed, paths>> /\ txRows' \in {txRows, NoRows}
    BY <1>4 DEF Stat, Abort, ItemError
  <2> QED
    BY <2>1
<1>5. ASSUME NEW a \in Adders, NEW i \in Positions, Hash(a, i)
      PROVE  AllShow'
  <2> DEFINE r == [mtime |-> seen[a].mtime, hash |-> disk[paths[a][i]].hash]
  <2>1. Shows(paths[a][i], r)
    <3>0. i \in pathList[a]
      BY <1>5, <1>b DEF Hash, Hashing, IndexTypeOK, PathsNested
    <3>1. disk[paths[a][i]]
            = [mtime |-> disk[paths[a][i]].mtime, hash |-> disk[paths[a][i]].hash]
      BY <1>5, <1>b, <3>0, PassHasFiles DEF Hash, Stamps
    <3> QED
      BY <3>1
  <2>2. \A b \in Adders, j \in Positions :
          \/ computed'[b][j] = computed[b][j]
          \/ b = a /\ j = i /\ computed'[b][j] = r
    BY <1>5 DEF Hash
  <2> HIDE DEF r
  <2> QED
    BY <1>5, <2>1, <2>2 DEF Hash
<1>6. ASSUME NEW a \in Adders, NEW i \in Positions, ParseFails(a, i)
      PROVE  AllShow'
  <2>1. UNCHANGED <<disk, rows, computed, paths>> /\ txRows' \in {txRows, NoRows}
    BY <1>6 DEF ParseFails, Abort, ItemError
  <2> QED
    BY <2>1
<1>7. ASSUME NEW a \in Adders, NEW i \in Positions, HashFails(a, i)
      PROVE  AllShow'
  BY <1>7 DEF HashFails, Abort
<1>8. ASSUME NEW a \in Adders, NothingToWrite(a)
      PROVE  AllShow'
  BY <1>8 DEF NothingToWrite, EndPass, ToWrite
<1>9. ASSUME NEW a \in Adders, Computed(a)
      PROVE  AllShow'
  BY <1>9 DEF Computed
<1>10. ASSUME NEW a \in Adders, Begin(a)
      PROVE  AllShow'
  BY <1>10 DEF Begin
<1>11. ASSUME NEW a \in Adders, Busy(a)
      PROVE  AllShow'
  BY <1>11 DEF Busy, Abort
<1>12. ASSUME NEW a \in Adders, NEW i \in Positions, Commit(a, i)
      PROVE  AllShow'
  <2>1. CASE UNCHANGED <<disk, rows, txRows, computed, paths>>
    BY <2>1
  <2>2. CASE Abort(a) /\ UNCHANGED disk
    BY <2>2 DEF Abort
  <2>3. CASE txRows' = [txRows EXCEPT ![paths[a][i]] = computed[a][i]]
             /\ UNCHANGED <<disk, rows, computed, paths>>
    <3>1. \A g \in Files : txRows'[g] = IF g = paths[a][i] THEN computed[a][i] ELSE txRows[g]
      BY <2>3
    <3> QED
      BY <2>3, <3>1
  <2>4. CASE EndPass(a, conflicts[a]) /\ txRows' = NoRows /\ UNCHANGED <<disk, rows>>
    BY <2>4 DEF EndPass
  <2> QED
    BY <1>12, <2>1, <2>2, <2>3, <2>4 DEF Commit, Conflict, WriteRow
<1>13. ASSUME NEW a \in Adders, Committed(a)
      PROVE  AllShow'
  BY <1>13 DEF Committed, EndPass
<1>14. ASSUME NEW a \in Adders, Return(a)
      PROVE  AllShow'
  <2>1. \A j \in Positions : computed'[a][j] = None
    BY <1>14 DEF Return
  <2>2. \A b \in Adders \ {a} : paths'[b] = paths[b] /\ computed'[b] = computed[b]
    BY <1>14, <1>b DEF Return, IndexTypeOK, CallTypes
  <2>3. UNCHANGED <<disk, rows, txRows>>
    BY <1>14 DEF Return
  <2> QED
    BY <2>1, <2>2, <2>3
<1>15. ASSUME NEW f \in Files, Write(f)
      PROVE  AllShow'
  BY <1>15, WriteShows DEF IndexInv
<1>16. ASSUME NEW f \in Files, Unlink(f)
      PROVE  AllShow'
  BY <1>16 DEF Unlink
<1>17. ASSUME BeginDelete
      PROVE  AllShow'
  BY <1>17 DEF BeginDelete
<1>18. ASSUME NEW F \in SUBSET Files, EndDelete(F)
      PROVE  AllShow'
  BY <1>18 DEF EndDelete
<1>19. CASE UNCHANGED indexVars
  BY <1>19
<1> QED
  BY <1>1, <1>2, <1>3, <1>4, <1>5, <1>6, <1>7, <1>8, <1>9, <1>10,
     <1>11, <1>12, <1>13, <1>14, <1>15, <1>16, <1>17, <1>18, <1>19
  DEF IndexNext, AdderSteps

------------------------------------------------------------------------------

\* The invariant that the theorems rest on.
LEMMA IndexInvariance == IndexSpec => []IndexInv
<1>1. IndexInit => IndexInv
  BY TypeInit, TimeInit DEF IndexInv
<1>2. IndexInv /\ [IndexNext]_indexVars => IndexInv'
  BY TypeNext, TimeNext DEF IndexInv
<1> QED
  BY <1>1, <1>2, PTL DEF IndexSpec

\* dbops.cpp: no call leaves the phases in a way that mixes up their data, and
\* only the call that holds the write lock is in the commit phase.
THEOREM IndexTypeCorrect == IndexSpec => []IndexTypeOK
<1>1. IndexInv => IndexTypeOK
  BY DEF IndexInv
<1> QED
  BY <1>1, IndexInvariance, PTL

\* dbops.cpp: as long as no file is written twice in a second, a row with its
\* file's time has its content: no add makes a later one take a change for none.
THEOREM StaleRowsAreSeen == ASSUME ~Coarse PROVE IndexSpec => []StaleRowsShow
<1>1. IndexInit => AllShow
  BY ShowInit
<1>2. IndexInv /\ AllShow /\ [IndexNext]_indexVars => AllShow'
  BY ShowNext
<1>3. AllShow => StaleRowsShow
  BY DEF AllShow, Shows, StaleRowsShow
<1> QED
  BY <1>1, <1>2, <1>3, IndexInvariance, PTL DEF IndexSpec

\* dbops.cpp: however calls interleave, no row is overwritten by one that was
\* computed from an older file.
THEOREM RowsOnlyMoveForward == IndexSpec => RowsMoveForward
<1>1. IndexInv /\ [IndexNext]_indexVars
        => [\A f \in Files : rows[f] # None /\ rows'[f] # None
                              => rows'[f].mtime >= rows[f].mtime]_indexVars
  <2> SUFFICES ASSUME IndexInv, IndexNext, NEW f \in Files, rows[f] # None, rows'[f] # None
               PROVE  rows'[f].mtime >= rows[f].mtime
    OBVIOUS
  <2>1. Time(rows[f]) \in Nat /\ (txRows[f] # None => Time(txRows[f]) \in Nat)
    BY TimesAreNumbers DEF IndexInv
  <2>2. CASE rows'[f] = rows[f]
    BY <2>1, <2>2 DEF Time
  <2>3. CASE rows'[f] = txRows[f] /\ writer # None
    <3>1. Time(rows[f]) <= Time(txRows[f])
      BY <2>3 DEF IndexInv, Forward
    <3> QED
      BY <2>1, <2>3, <3>1 DEF Time
  <2>4. ASSUME NEW a \in Adders, Committed(a)
        PROVE  rows' = txRows /\ writer # None
    BY <2>4, IndexConstantsOK DEF Committed, IndexInv, IndexTypeOK
  <2>5. ASSUME NEW F \in SUBSET Files, EndDelete(F)
        PROVE  rows'[f] = txRows[f] /\ writer # None
    BY <2>5, IndexConstantsOK DEF EndDelete
  <2>6. \/ \E a \in Adders : Committed(a)
        \/ \E F \in SUBSET Files : EndDelete(F)
        \/ rows' = rows
    <3>1. ASSUME NEW a \in Adders, Call(a) \/ Return(a)
          PROVE  rows' = rows
      BY <3>1 DEF Call, Return, dbVars
    <3>2. ASSUME NEW a \in Adders, NEW i \in Positions, Plan(a, i) \/ Hash(a, i)
          PROVE  rows' = rows
      BY <3>2 DEF Plan, Hash, dbVars
    <3>3. ASSUME NEW a \in Adders, NEW i \in Positions,
                 ParseFails(a, i) \/ HashFails(a, i)
          PROVE  rows' = rows
      BY <3>3 DEF ParseFails, HashFails, ItemError, Abort, dbVars
    <3>4. ASSUME NEW a \in Adders, NEW i \in Positions, Stat(a, i)
          PROVE  rows' = rows
      BY <3>4 DEF Stat, ItemError, Abort, dbVars
    <3>5. ASSUME NEW a \in Adders, NEW i \in Positions, Commit(a, i)
          PROVE  rows' = rows
      <4>1. Conflict(a, i) => rows' = rows
        BY DEF Conflict, dbVars
      <4>2. WriteRow(a, i) => rows' = rows
        BY DEF WriteRow
      <4>3. Abort(a) => rows' = rows
        BY DEF Abort
      <4> QED
        BY <3>5, <4>1, <4>2, <4>3 DEF Commit, dbVars
    <3>6. ASSUME NEW a \in Adders, Planned(a) \/ NothingToWrite(a) \/ Computed(a)
          PROVE  rows' = rows
      BY <3>6 DEF Planned, NothingToWrite, Computed, dbVars
    <3>7. ASSUME NEW a \in Adders, Begin(a) \/ Busy(a)
          PROVE  rows' = rows
      BY <3>7 DEF Begin, Busy, Abort
    <3>8. ASSUME NEW g \in Files, Write(g) \/ Unlink(g)
          PROVE  rows' = rows
      BY <3>8 DEF Write, Unlink, dbVars
    <3>9. BeginDelete => rows' = rows
      BY DEF BeginDelete
    <3> QED
      BY <3>1, <3>2, <3>3, <3>4, <3>5, <3>6, <3>7, <3>8, <3>9 DEF IndexNext, AdderSteps
  <2> QED
    BY <2>2, <2>3, <2>4, <2>5, <2>6
<1> QED
  BY <1>1, IndexInvariance, PTL DEF IndexSpec, RowsMoveForward
------------------------------------------------------------------------------

\* A position of the call that is in no list of the result yet: the pass still has
\* to come to it, or will write it, or wrote it in a transaction that is open.
Waits(a, i) ==
  \/ pc[a] = "plan" /\ i \in pathList[a]
  \/ pc[a] \in {"compute", "hash", "begin"} /\ (i \in todo[a] \/ computed[a][i] # None)
  \/ pc[a] = "write" /\ i \in todo[a] \union conflicts[a] \union tentative[a]

\* What a pass has done with its paths.
Handled(a, i) ==
  /\ pc[a] = "plan" => computed[a][i] = None
  /\ pc[a] \in {"compute", "hash"} => i \notin todo[a] \/ computed[a][i] = None
  /\ pc[a] = "begin" => (i \in todo[a] <=> computed[a][i] # None)
  /\ pc[a] = "write" => /\ i \notin todo[a] \intersect conflicts[a]
                        /\ i \notin todo[a] \intersect tentative[a]
                        /\ i \notin conflicts[a] \intersect tentative[a]

\* What waits is in no list, the rest is in one, and what was skipped in none; a
\* callback may cancel, and an exception loses all.
Listed(a, i) ==
  /\ \A b, c \in result[a][i] : b = c
  /\ pc[a] = "idle" \/ Waits(a, i) => result[a][i] = {}
  /\ pc[a] \notin {"idle", "aborted"} /\ ~options[a].callback /\ paths[a][i] \in Files
       => Waits(a, i) \/ result[a][i] # {}
  /\ paths[a][i] \notin Files => result[a][i] = {}

Contract == \A a \in Adders, i \in Positions : Handled(a, i) /\ Listed(a, i)

\* The transaction holds what its call computed for the paths that it wrote, at one
\* of the positions that have the path.
Holds(a, i, k) == paths[a][k] = paths[a][i] /\ txRows[paths[a][i]] = computed[a][k]

Written ==
  \A a \in Adders : pc[a] = "write"
    => \A i \in tentative[a] : \E k \in tentative[a] : Holds(a, i, k)

\* What the contract says of a call that a step does not touch.
Same(b) ==
  /\ pc'[b] = pc[b] /\ options'[b] = options[b] /\ paths'[b] = paths[b]
  /\ pathList'[b] = pathList[b] /\ todo'[b] = todo[b] /\ computed'[b] = computed[b]
  /\ conflicts'[b] = conflicts[b] /\ tentative'[b] = tentative[b] /\ result'[b] = result[b]

\* It is enough to look at the call that takes the step.
LEMMA OthersKeepContract ==
  ASSUME Contract, NEW a \in Adders, \A b \in Adders \ {a} : Same(b),
         \A i \in Positions : Handled(a, i)' /\ Listed(a, i)'
  PROVE  Contract'
<1>1. ASSUME NEW b \in Adders \ {a}, NEW i \in Positions
      PROVE  Handled(b, i)' /\ Listed(b, i)'
  <2>1. Same(b) /\ Handled(b, i) /\ Listed(b, i)
    BY DEF Contract
  <2> QED
    BY <2>1 DEF Same, Handled, Listed, Waits
<1> QED
  BY <1>1 DEF Contract

\* A report puts the path in a list, in the one given if it was in none.
LEMMA ReportOnce ==
  ASSUME CallTypes, NEW a \in Adders, NEW i \in Positions, NEW bucket, Report(a, i, bucket)
  PROVE  /\ \A b \in Adders \ {a} : result'[b] = result[b]
         /\ \A j \in Positions \ {i} : result'[a][j] = result[a][j]
         /\ result'[a][i] = result[a][i] \union {bucket}
BY DEF CallTypes, Report

\* The end of a pass lists the paths of the conflicts that are given up, and those
\* that were committed; the other ones are planned anew.
LEMMA EndPassContract ==
  ASSUME IndexTypeOK, Contract, NEW a \in Adders, pc[a] = "write",
         NEW F \in SUBSET Positions, F \subseteq tentative[a],
         EndPass(a, conflicts[a]), Reported(a, conflicts[a], F),
         options[a].callback \/ (todo[a] = {} /\ F = tentative[a])
  PROVE  Contract'
<1>1. \A b \in Adders \ {a} : Same(b)
  BY DEF EndPass, Reported, Goto, Same, IndexTypeOK, CallTypes
<1>2. ASSUME NEW i \in Positions
      PROVE  Handled(a, i)' /\ Listed(a, i)'
  <2>0. Handled(a, i) /\ Listed(a, i)
    BY DEF Contract
  <2>1. result'[a][i] = result[a][i] \union (IF i \in F THEN {"entries"} ELSE {})
                          \union (IF i \in conflicts[a] /\ pass[a] = MaxRetries
                                    THEN {"errors"} ELSE {})
    BY DEF Reported, IndexTypeOK, CallTypes
  <2>2. i \in F \union conflicts[a] => result[a][i] = {}
    BY <2>0 DEF Listed, Waits
  <2>3. ~(i \in F /\ i \in conflicts[a])
    BY <2>0 DEF Handled
  <2>4. /\ \A b, c \in result'[a][i] : b = c
        /\ paths[a][i] \notin Files => result'[a][i] = {}
    <3>1. i \in F \union conflicts[a] => paths[a][i] \in Files
      BY PassHasFiles DEF IndexTypeOK, PathsNested
    <3> QED
      BY <2>0, <2>1, <2>2, <2>3, <3>1 DEF Listed
  <2>5. /\ computed'[a][i] = None
        /\ options'[a] = options[a] /\ paths'[a] = paths[a]
        /\ pathList'[a] = conflicts[a]
    BY DEF EndPass, IndexTypeOK, CallTypes, Nothing
  <2>6. pass[a] \in 0 .. MaxRetries /\ MaxRetries \in Nat
    BY IndexConstantsOK DEF IndexTypeOK, CallTypes
  <2>7. CASE conflicts[a] # {} /\ pass[a] < MaxRetries
    <3>1. pc'[a] = "plan" /\ pass[a] # MaxRetries
      BY <2>6, <2>7 DEF EndPass, Goto, IndexTypeOK, CallTypes
    <3>2. Handled(a, i)'
      BY <2>5, <3>1 DEF Handled
    <3>3. Waits(a, i)' <=> i \in conflicts[a]
      BY <2>5, <3>1 DEF Waits
    <3>4. i \in conflicts[a] => result'[a][i] = {}
      BY <2>1, <2>2, <2>3, <3>1
    <3>5. ~options[a].callback /\ paths[a][i] \in Files => i \in conflicts[a] \/ result'[a][i] # {}
      BY <2>0, <2>1 DEF Listed, Waits
    <3> QED
      BY <2>4, <2>5, <3>1, <3>2, <3>3, <3>4, <3>5 DEF Listed
  <2>8. CASE ~(conflicts[a] # {} /\ pass[a] < MaxRetries)
    <3>0. pc'[a] = "done"
      BY <2>8 DEF EndPass, Goto, IndexTypeOK, CallTypes
    <3>1. pc'[a] = "done" /\ (i \in conflicts[a] => pass[a] = MaxRetries)
      BY <2>6, <2>8, <3>0
    <3>2. Handled(a, i)' /\ ~Waits(a, i)'
      BY <3>1 DEF Handled, Waits
    <3>3. ~options[a].callback /\ paths[a][i] \in Files => result'[a][i] # {}
      BY <2>0, <2>1, <3>1 DEF Listed, Waits
    <3> QED
      BY <2>4, <2>5, <3>1, <3>2, <3>3 DEF Listed
  <2> QED
    BY <2>7, <2>8
<1> QED
  BY <1>1, <1>2, OthersKeepContract

\* An exception loses the result, which is not that of a call any more.
LEMMA AbortContract ==
  ASSUME IndexTypeOK, Contract, NEW a \in Adders, Abort(a), pc[a] # "idle"
  PROVE  Contract'
<1>1. \A b \in Adders \ {a} : Same(b)
  BY DEF Abort, Same, IndexTypeOK, CallTypes
<1>2. ASSUME NEW i \in Positions
      PROVE  Handled(a, i)' /\ Listed(a, i)'
  <2>1. pc'[a] = "aborted" /\ result' = result /\ paths' = paths
    BY DEF Abort, IndexTypeOK, CallTypes
  <2> QED
    BY <2>1 DEF Contract, Handled, Listed, Waits
<1> QED
  BY <1>1, <1>2, OthersKeepContract

\* A path that waits is put in a list, and does not wait any more.
LEMMA ReportContract ==
  ASSUME IndexTypeOK, Contract, NEW a \in Adders, NEW i \in Positions, NEW bucket,
         i \in todo[a],         pc[a] \in {"compute", "hash", "write"},
         Report(a, i, bucket), Done(a, i),
         \/ pc[a] = "write" /\ pc' = pc
         \/ pc[a] \in {"compute", "hash"} /\ pc' = [pc EXCEPT ![a] = "compute"],
         UNCHANGED <<options, paths, pathList, computed, conflicts, tentative>>
  PROVE  Contract'
<1>0. i \in Positions /\ CallTypes /\ paths[a][i] \in Files
  BY PassHasFiles DEF IndexTypeOK, CallTypes, PathsNested
<1>1. \A b \in Adders \ {a} : Same(b)
  BY <1>0, ReportOnce DEF Done, Same, IndexTypeOK, CallTypes
<1>2. /\ todo'[a] = todo[a] \ {i}
      /\ \/ pc[a] = "write" /\ pc'[a] = "write"
         \/ pc[a] \in {"compute", "hash"} /\ pc'[a] = "compute"
  <2>1. todo'[a] = todo[a] \ {i}
    BY DEF Done, IndexTypeOK, CallTypes
  <2>2. CASE pc[a] = "write" /\ pc' = pc
    BY <2>1, <2>2
  <2>3. CASE pc[a] \in {"compute", "hash"} /\ pc' = [pc EXCEPT ![a] = "compute"]
    BY <2>1, <2>3 DEF IndexTypeOK, CallTypes
  <2> QED
    BY <2>2, <2>3
<1>3. ASSUME NEW j \in Positions
      PROVE  Handled(a, j)' /\ Listed(a, j)'
  <2>0. Handled(a, j) /\ Listed(a, j)
    BY DEF Contract
  <2>1. Handled(a, j)'
    BY <1>2, <2>0 DEF Handled
  <2>2. CASE j # i
    <3>1. result'[a][j] = result[a][j]
      BY <1>0, <2>2, ReportOnce
    <3>2. Waits(a, j)' <=> Waits(a, j)
      BY <1>2, <2>2 DEF Waits
    <3> QED
      BY <1>2, <2>0, <2>1, <3>1, <3>2 DEF Listed
  <2>3. CASE j = i
    <3>1. result[a][i] = {}
      BY <2>0, <2>3 DEF Listed, Waits
    <3>2. result'[a][i] = {bucket}
      BY <1>0, <3>1, ReportOnce
    <3>3. ~Waits(a, i)'
      BY <1>2, <2>0, <2>3 DEF Waits, Handled
    <3> QED
      BY <1>0, <1>2, <2>1, <2>3, <3>2, <3>3 DEF Listed
  <2> QED
    BY <2>2, <2>3
<1> QED
  BY <1>1, <1>3, OthersKeepContract

\* An error of an item is one of the lists.
LEMMA ItemErrorContract ==
  ASSUME IndexTypeOK, Contract, NEW a \in Adders, NEW i \in todo[a], ItemError(a, i),
         pc[a] \in {"compute", "hash"}
  PROVE  Contract'
<1>1. CASE options[a].stopOnError
  BY <1>1, AbortContract DEF ItemError
<1>2. CASE ~options[a].stopOnError
  BY <1>2, i \in Positions, ReportContract DEF ItemError, Goto, IndexTypeOK, CallTypes
<1> QED
  BY <1>1, <1>2

\* What a call begins with, works on and leaves open waits; the rest is listed.
LEMMA ContractNext ==
  ASSUME IndexInv, Contract, [IndexNext]_indexVars
  PROVE  Contract'
<1>a. IndexTypeOK /\ CallTypes /\ Hashing
  BY DEF IndexInv, IndexTypeOK
<1>0. ASSUME UNCHANGED <<pc, options, paths, pathList, todo, computed, conflicts, tentative,
                         result>>
      PROVE  Contract'
  BY <1>0 DEF Contract, Handled, Listed, Waits
<1> USE <1>a DEF CallTypes, Goto, Done, First, diskVars, dbVars
<1>1. ASSUME NEW a \in Adders, Call(a)
      PROVE  Contract'
  <2>1. \A b \in Adders \ {a} : Same(b)
    BY <1>1 DEF Call, Same
  <2>2. ASSUME NEW i \in Positions
        PROVE  Handled(a, i)' /\ Listed(a, i)'
    <3>1. /\ pc[a] = "idle" /\ pc'[a] = "plan"
          /\ pathList'[a] = {k \in Positions : paths'[a][k] # None}
          /\ computed' = computed /\ result' = result
      BY <1>1 DEF Call
    <3>2. computed[a][i] = None /\ result[a][i] = {}
      BY <3>1 DEF Hashing, Contract, Listed
    <3>3. i \in pathList'[a] \/ paths'[a][i] \notin Files
      BY <3>1, IndexConstantsOK
    <3> QED
      BY <3>1, <3>2, <3>3 DEF Handled, Listed, Waits
  <2> QED
    BY <2>1, <2>2, OthersKeepContract
<1>2. ASSUME NEW a \in Adders, NEW i \in Positions, Plan(a, i)
      PROVE  Contract'
  <2>1. \A b \in Adders \ {a} : Same(b)
    BY <1>2 DEF Plan, Same
  <2>2. ASSUME NEW j \in Positions
        PROVE  Handled(a, j)' /\ Listed(a, j)'
    <3>1. /\ pc[a] = "plan" /\ pc' = pc
          /\ UNCHANGED <<options, paths, computed, result>>
      BY <1>2 DEF Plan
    <3>2. /\ pathList'[a] \subseteq pathList[a]
          /\ j \in pathList[a] /\ paths[a][j] \in Files => j \in pathList'[a]
      BY <1>2, IndexConstantsOK DEF Plan
    <3>3. Handled(a, j) /\ Listed(a, j)
      BY DEF Contract
    <3> QED
      BY <3>1, <3>2, <3>3 DEF Handled, Listed, Waits
  <2> QED
    BY <2>1, <2>2, OthersKeepContract
<1>3. ASSUME NEW a \in Adders, Planned(a)
      PROVE  Contract'
  <2>1. \A b \in Adders \ {a} : Same(b)
    BY <1>3 DEF Planned, Same
  <2>2. ASSUME NEW j \in Positions
        PROVE  Handled(a, j)' /\ Listed(a, j)'
    <3>1. /\ pc[a] = "plan" /\ pc'[a] = "compute"
          /\ todo'[a] = pathList[a]
          /\ UNCHANGED <<options, paths, pathList, computed, result>>
      BY <1>3 DEF Planned
    <3>2. Handled(a, j) /\ Listed(a, j)
      BY DEF Contract
    <3> QED
      BY <3>1, <3>2 DEF Handled, Listed, Waits
  <2> QED
    BY <2>1, <2>2, OthersKeepContract
<1>4. ASSUME NEW a \in Adders, NEW i \in Positions, Stat(a, i)
      PROVE  Contract'
  <2>1. CASE ItemError(a, i)
    BY <1>4, <2>1, ItemErrorContract DEF Stat
  <2>2. CASE Report(a, i, "unchanged") /\ Done(a, i)
             /\ UNCHANGED <<dbVars, pc, options, paths, pass, pathList, plan, seen, computed,
                            conflicts, tentative>>
    <3>1. pc' = [pc EXCEPT ![a] = "compute"]
      BY <1>4, <2>2 DEF Stat
    <3> QED
      BY <1>4, <2>2, <3>1, ReportContract DEF Stat
  <2>3. CASE Goto(a, "hash")
             /\ UNCHANGED <<dbVars, options, paths, pass, pathList, todo, plan, computed,
                            conflicts, tentative, result>>
    <3>1. \A b \in Adders \ {a} : Same(b)
      BY <2>3 DEF Same
    <3>2. ASSUME NEW j \in Positions
          PROVE  Handled(a, j)' /\ Listed(a, j)'
      <4>1. /\ pc[a] = "compute" /\ pc'[a] = "hash"
            /\ UNCHANGED <<options, paths, todo, computed, result>>
        BY <1>4, <2>3 DEF Stat
      <4>2. Handled(a, j) /\ Listed(a, j)
        BY DEF Contract
      <4> QED
        BY <4>1, <4>2 DEF Handled, Listed, Waits
    <3> QED
      BY <3>1, <3>2, OthersKeepContract
  <2> QED
    BY <1>4, <2>1, <2>2, <2>3 DEF Stat
<1>5. ASSUME NEW a \in Adders, NEW i \in Positions, Hash(a, i)
      PROVE  Contract'
  <2>0. i \in todo[a] /\ pc[a] = "hash"
    BY <1>5 DEF Hash, Hashing
  <2>1. CASE Report(a, i, "unchanged") /\ UNCHANGED computed
    <3>1. pc' = [pc EXCEPT ![a] = "compute"] /\ todo' = [todo EXCEPT ![a] = @ \ {i}]
      BY <1>5 DEF Hash
    <3>2. UNCHANGED <<options, paths, pathList, computed, conflicts, tentative>>
      BY <1>5, <2>1 DEF Hash
    <3> QED
      BY <2>0, <2>1, <3>1, <3>2, ReportContract
  <2>2. CASE /\ computed' = [computed EXCEPT ![a][i] =
                               [mtime |-> seen[a].mtime, hash |-> disk[paths[a][i]].hash]]
             /\ UNCHANGED result
    <3>1. \A b \in Adders \ {a} : Same(b)
      BY <1>5, <2>2 DEF Hash, Same
    <3>2. ASSUME NEW j \in Positions
          PROVE  Handled(a, j)' /\ Listed(a, j)'
      <4>0. Handled(a, j) /\ Listed(a, j) /\ Handled(a, i)
        BY DEF Contract
      <4>1. /\ pc'[a] = "compute" /\ todo'[a] = todo[a] \ {i}
            /\ options'[a] = options[a] /\ paths'[a] = paths[a] /\ result' = result
        BY <1>5, <2>2 DEF Hash
      <4>2. CASE j = i
        <5>1. computed'[a][i] # None
          <6>1. [mtime |-> seen[a].mtime, hash |-> disk[paths[a][i]].hash] \in Stamps
            BY SMTT(20), <1>5, PassHasFiles, IndexConstantsOK
               DEF Hash, Hashing, IndexTypeOK, PathsNested, Sights, Stamps
          <6> QED
            BY <2>2, <6>1, IndexConstantsOK
        <5> QED
          BY <2>0, <4>0, <4>1, <4>2, <5>1 DEF Handled, Listed, Waits
      <4>3. CASE j # i
        <5>1. computed'[a][j] = computed[a][j]
          BY <2>2, <4>3
        <5> QED
          BY <2>0, <4>0, <4>1, <4>3, <5>1 DEF Handled, Listed, Waits
      <4> QED
        BY <4>2, <4>3
    <3> QED
      BY <3>1, <3>2, OthersKeepContract
  <2> QED
    BY <1>5, <2>1, <2>2 DEF Hash
<1>6. ASSUME NEW a \in Adders, NEW i \in Positions, ParseFails(a, i)
      PROVE  Contract'
  BY <1>6, ItemErrorContract DEF ParseFails, Hashing
<1>7. ASSUME NEW a \in Adders, NEW i \in Positions, HashFails(a, i)
      PROVE  Contract'
  BY <1>7, AbortContract DEF HashFails
<1>8. ASSUME NEW a \in Adders, NothingToWrite(a)
      PROVE  Contract'
  <2>1. \A b \in Adders \ {a} : Same(b)
    BY <1>8 DEF NothingToWrite, EndPass, Same
  <2>2. ASSUME NEW i \in Positions
        PROVE  Handled(a, i)' /\ Listed(a, i)'
    <3>1. pc'[a] = "done" /\ options' = options /\ paths' = paths /\ result' = result
      BY <1>8 DEF NothingToWrite, EndPass
    <3>2. ~Waits(a, i)
      BY <1>8 DEF NothingToWrite, ToWrite, Waits
    <3>3. pc[a] = "compute" /\ Listed(a, i)
      BY <1>8 DEF NothingToWrite, Contract
    <3> QED
      BY <3>1, <3>2, <3>3 DEF Handled, Listed, Waits
  <2> QED
    BY <2>1, <2>2, OthersKeepContract
<1>9. ASSUME NEW a \in Adders, Computed(a)
      PROVE  Contract'
  <2>1. \A b \in Adders \ {a} : Same(b)
    BY <1>9 DEF Computed, Same
  <2>2. ASSUME NEW i \in Positions
        PROVE  Handled(a, i)' /\ Listed(a, i)'
    <3>1. /\ pc[a] = "compute" /\ pc'[a] = "begin" /\ todo[a] = {}
          /\ todo'[a] = ToWrite(a)
          /\ options' = options /\ paths' = paths /\ result' = result /\ computed' = computed
      BY <1>9 DEF Computed, ToWrite
    <3>2. Listed(a, i)
      BY DEF Contract
    <3> QED
      BY <3>1, <3>2 DEF Handled, Listed, Waits, ToWrite
  <2> QED
    BY <2>1, <2>2, OthersKeepContract
<1>10. ASSUME NEW a \in Adders, Begin(a)
      PROVE  Contract'
  <2>1. \A b \in Adders \ {a} : Same(b)
    BY <1>10 DEF Begin, Same
  <2>2. ASSUME NEW i \in Positions
        PROVE  Handled(a, i)' /\ Listed(a, i)'
    <3>1. /\ pc[a] = "begin" /\ pc'[a] = "write"
          /\ UNCHANGED <<options, paths, result, computed, todo, conflicts, tentative>>
      BY <1>10 DEF Begin
    <3>2. conflicts[a] = {} /\ tentative[a] = {}
      BY <3>1 DEF Hashing
    <3>3. Listed(a, i) /\ Handled(a, i)
      BY DEF Contract
    <3> QED
      BY <3>1, <3>2, <3>3 DEF Handled, Listed, Waits
  <2> QED
    BY <2>1, <2>2, OthersKeepContract
<1>11. ASSUME NEW a \in Adders, Busy(a)
      PROVE  Contract'
  BY <1>11, AbortContract DEF Busy
<1>12. ASSUME NEW a \in Adders, NEW i \in Positions, Commit(a, i)
      PROVE  Contract'
  <2>0. pc[a] = "write" /\ i \in todo[a]
    BY <1>12 DEF Commit
  <2>1. CASE Conflict(a, i)
    <3>1. \A b \in Adders \ {a} : Same(b)
      BY <2>1 DEF Conflict, Same
    <3>2. ASSUME NEW j \in Positions
          PROVE  Handled(a, j)' /\ Listed(a, j)'
      <4>1. /\ pc'[a] = "write"
            /\ todo'[a] = todo[a] \ {i} /\ conflicts'[a] = conflicts[a] \union {i}
            /\ UNCHANGED <<options, paths, computed, tentative, result>>
        BY <2>0, <2>1 DEF Conflict
      <4>2. Handled(a, j) /\ Listed(a, j)
        BY DEF Contract
      <4> QED
        BY <2>0, <4>1, <4>2 DEF Handled, Listed, Waits
    <3> QED
      BY <3>1, <3>2, OthersKeepContract
  <2>2. CASE /\ tentative' = [tentative EXCEPT ![a] = @ \union {i}]
             /\ Done(a, i)
             /\ UNCHANGED <<rows, writer, pc, options, paths, pass, pathList, plan, seen,
                            computed, conflicts, result>>
    <3>1. \A b \in Adders \ {a} : Same(b)
      BY <2>2 DEF Same
    <3>2. ASSUME NEW j \in Positions
          PROVE  Handled(a, j)' /\ Listed(a, j)'
      <4>1. /\ pc'[a] = "write"
            /\ todo'[a] = todo[a] \ {i} /\ tentative'[a] = tentative[a] \union {i}
            /\ UNCHANGED <<options, paths, computed, conflicts, result>>
        BY <2>0, <2>2
      <4>2. Handled(a, j) /\ Listed(a, j)
        BY DEF Contract
      <4> QED
        BY <2>0, <4>1, <4>2 DEF Handled, Listed, Waits
    <3> QED
      BY <3>1, <3>2, OthersKeepContract
  <2>3. CASE /\ options[a].callback
             /\ EndPass(a, conflicts[a])
             /\ Reported(a, conflicts[a], {})
    <3>1. {} \in SUBSET Positions /\ {} \subseteq tentative[a]
      OBVIOUS
    <3> QED
      BY <2>0, <2>3, <3>1, EndPassContract
  <2>4. CASE Abort(a)
    BY <2>0, <2>4, AbortContract
  <2>5. CASE Report(a, i, "unchanged") /\ Done(a, i)
             /\ UNCHANGED <<dbVars, pc, options, paths, pass, pathList, plan, seen, computed,
                            conflicts, tentative>>
    <3>1. pc' = pc /\ UNCHANGED <<options, paths, pathList, computed, conflicts, tentative>>
      BY <2>5
    <3>2. Done(a, i) /\ Report(a, i, "unchanged")
      BY <2>5
    <3> QED
      BY <2>0, <3>1, <3>2, ReportContract
  <2> QED
    BY <1>12, <2>1, <2>2, <2>3, <2>4, <2>5 DEF Commit, WriteRow
<1>13. ASSUME NEW a \in Adders, Committed(a)
      PROVE  Contract'
  BY <1>13, EndPassContract DEF Committed
<1>14. ASSUME NEW a \in Adders, Return(a)
      PROVE  Contract'
  <2>1. \A b \in Adders \ {a} : Same(b)
    BY <1>14 DEF Return, Same
  <2>2. ASSUME NEW j \in Positions
        PROVE  Handled(a, j)' /\ Listed(a, j)'
    BY <1>14 DEF Return, Handled, Listed, Waits
  <2> QED
    BY <2>1, <2>2, OthersKeepContract
<1>15. ASSUME NEW f \in Files, Write(f) \/ Unlink(f)
      PROVE  Contract'
  BY <1>0, <1>15 DEF Write, Unlink, callVars
<1>16. ASSUME NEW F \in SUBSET Files, BeginDelete \/ EndDelete(F)
      PROVE  Contract'
  BY <1>0, <1>16 DEF BeginDelete, EndDelete, callVars
<1>17. CASE UNCHANGED indexVars
  BY <1>0, <1>17 DEF indexVars, callVars
<1> QED
  BY <1>1, <1>2, <1>3, <1>4, <1>5, <1>6, <1>7, <1>8, <1>9, <1>10,
     <1>11, <1>12, <1>13, <1>14, <1>15, <1>16, <1>17
  DEF IndexNext, AdderSteps

\* Only the call that has the transaction writes in it; it computes no more.
LEMMA WrittenNext ==
  ASSUME IndexInv, Written, [IndexNext]_indexVars
  PROVE  Written'
<1>a. IndexTypeOK /\ StoreTypes /\ CallTypes /\ Hashing
  BY DEF IndexInv, IndexTypeOK
<1>b. \A a \in Adders : pc[a] = "write" <=> writer = a
  BY DEF IndexInv, IndexTypeOK
<1> SUFFICES ASSUME NEW b \in Adders, pc'[b] = "write", NEW j \in tentative'[b]
             PROVE  \E k \in tentative'[b] : Holds(b, j, k)'
  BY DEF Written
<1>0. ASSUME tentative'[b] = tentative[b], txRows' = txRows, computed'[b] = computed[b],
             paths'[b] = paths[b], pc[b] = "write"
      PROVE  \E k \in tentative'[b] : Holds(b, j, k)'
  BY <1>0 DEF Written, Holds
<1>1. ASSUME NEW a \in Adders, NEW i \in Positions, Commit(a, i)
      PROVE  \E k \in tentative'[b] : Holds(b, j, k)'
  <2>0. pc[a] = "write" /\ i \in todo[a]
    BY <1>1 DEF Commit, First
  <2>1. CASE txRows' = [txRows EXCEPT ![paths[a][i]] = computed[a][i]]
             /\ tentative' = [tentative EXCEPT ![a] = @ \union {i}]
             /\ UNCHANGED <<pc, computed, paths>>
    <3>1. b = a
      BY <1>b, <2>0, <2>1
    <3>2. i \in pathList[a] /\ i \in Positions /\ paths[a][i] \in Files
      BY <1>a, <2>0 DEF CallTypes, IndexTypeOK, PathsNested
    <3>3. tentative'[a] = tentative[a] \union {i} /\ txRows'[paths[a][i]] = computed[a][i]
      BY <1>a, <2>1, <3>2 DEF StoreTypes, CallTypes
    <3>4. CASE paths[a][j] = paths[a][i]
      <4>1. i \in tentative'[b] /\ Holds(b, j, i)'
        BY <2>1, <3>1, <3>3, <3>4 DEF Holds
      <4> QED
        BY <4>1
    <3>5. CASE paths[a][j] # paths[a][i]
      <4>1. j \in tentative[a]
        BY <3>1, <3>3, <3>5
      <4>2. PICK k \in tentative[a] : Holds(a, j, k)
        BY <2>0, <4>1 DEF Written
      <4>3. txRows'[paths[a][j]] = txRows[paths[a][j]]
        BY <1>a, <2>1, <3>5 DEF StoreTypes
      <4>4. k \in tentative'[b] /\ Holds(b, j, k)'
        BY <2>1, <3>1, <3>3, <4>2, <4>3 DEF Holds
      <4> QED
        BY <4>4
    <3> QED
      BY <3>4, <3>5
  <2>2. CASE EndPass(a, conflicts[a]) \/ Abort(a)
    <3>1. pc'[a] # "write" /\ \A c \in Adders \ {a} : pc'[c] = pc[c]
      BY <1>a, <2>2 DEF EndPass, Abort, Goto, CallTypes
    <3> QED
      BY <1>b, <2>0, <3>1
  <2>3. CASE UNCHANGED <<txRows, tentative, computed, paths, pc>>
    BY <1>0, <2>3
  <2> QED
    BY <1>1, <2>1, <2>2, <2>3 DEF Commit, Conflict, WriteRow, dbVars
<1>2. ASSUME NEW a \in Adders, Begin(a)
      PROVE  \E k \in tentative'[b] : Holds(b, j, k)'
  <2>1. b = a
    BY <1>a, <1>b, <1>2, IndexConstantsOK DEF Begin, Goto, CallTypes
  <2> QED
    BY <1>a, <1>2, <2>1 DEF Begin, Hashing
<1>3. ASSUME NEW a \in Adders, Committed(a) \/ NothingToWrite(a) \/ Return(a)
      PROVE  \E k \in tentative'[b] : Holds(b, j, k)'
  <2>1. pc'[a] # "write"
    BY <1>a, <1>3 DEF Committed, NothingToWrite, Return, EndPass, Goto, CallTypes
  <2>2. /\ b # a /\ pc[b] = "write" /\ paths'[b] = paths[b]
        /\ tentative'[b] = tentative[b] /\ computed'[b] = computed[b]
    BY <1>a, <1>3, <2>1 DEF Committed, NothingToWrite, Return, EndPass, Goto, CallTypes
  <2>3. txRows' = txRows
    BY <1>b, <1>3, <2>2 DEF Committed, NothingToWrite, Return, dbVars
  <2> QED
    BY <1>0, <2>2, <2>3
<1>4. ASSUME NEW a \in Adders, NEW i \in Positions,
             Stat(a, i) \/ Hash(a, i) \/ ParseFails(a, i) \/ HashFails(a, i) \/ Busy(a)
      PROVE  \E k \in tentative'[b] : Holds(b, j, k)'
  <2>1. pc'[a] # "write" /\ \A c \in Adders \ {a} : pc'[c] = pc[c]
    BY <1>a, <1>4 DEF Stat, Hash, ParseFails, HashFails, Busy, ItemError, Abort, Goto, CallTypes
  <2>2. /\ b # a /\ pc[b] = "write" /\ paths' = paths
        /\ tentative' = tentative /\ computed'[b] = computed[b]
    BY <1>a, <1>4, <2>1
       DEF Stat, Hash, ParseFails, HashFails, Busy, ItemError, Abort, CallTypes
  <2>3. txRows' = txRows
    BY <1>b, <1>4, <2>2
       DEF Stat, Hash, ParseFails, HashFails, Busy, ItemError, Abort, dbVars
  <2> QED
    BY <1>0, <2>2, <2>3
<1>5. ASSUME NEW a \in Adders, NEW i \in Positions,
             Call(a) \/ Plan(a, i) \/ Planned(a) \/ Computed(a)
      PROVE  \E k \in tentative'[b] : Holds(b, j, k)'
  BY <1>a, <1>0, <1>5 DEF Call, Plan, Planned, Computed, Goto, dbVars, CallTypes
<1>6. ASSUME NEW F \in SUBSET Files, BeginDelete \/ EndDelete(F)
      PROVE  \E k \in tentative'[b] : Holds(b, j, k)'
  BY <1>b, <1>6, IndexConstantsOK DEF BeginDelete, EndDelete, callVars
<1>7. ASSUME NEW f \in Files, Write(f) \/ Unlink(f)
      PROVE  \E k \in tentative'[b] : Holds(b, j, k)'
  BY <1>0, <1>7 DEF Write, Unlink, dbVars, callVars
<1>8. CASE UNCHANGED indexVars
  BY <1>0, <1>8 DEF indexVars, dbVars, callVars
<1>9. 1 \in Positions
  BY IndexConstantsOK DEF Positions
<1> QED
  BY <1>1, <1>2, <1>3, <1>4, <1>5, <1>6, <1>7, <1>8, <1>9 DEF IndexNext, AdderSteps

\* Initially no call is made, and no transaction is open.
LEMMA ContractInit == IndexInit => Contract /\ Written
BY DEF IndexInit, Contract, Handled, Listed, Waits, Written, Nothing, NoRows

\* What the theorems about the result rest on.
LEMMA ContractInvariance == IndexSpec => [](Contract /\ Written)
<1>1. IndexInv /\ Contract /\ Written /\ [IndexNext]_indexVars => (Contract /\ Written)'
  BY ContractNext, WrittenNext
<1> QED
  BY <1>1, ContractInit, IndexInvariance, PTL DEF IndexSpec

\* dbops.h:36: every occurrence of a file in the list that addToIndexEx() is given is
\* in exactly one of the lists of its result, whatever other calls and the writers of
\* the files do meanwhile, and however often it is planned anew; in at most one when
\* a callback cancels.  A path that is skipped for its name is in none.
THEOREM EveryOccurrenceIsListedOnce == IndexSpec => []CompletenessContract
<1>1. IndexInv /\ Contract => CompletenessContract
  <2> SUFFICES ASSUME IndexInv, Contract, NEW a \in Adders, NEW i \in Positions
               PROVE  /\ \A b, c \in result[a][i] : b = c
                      /\ pc[a] = "done" /\ ~options[a].callback
                           => (result[a][i] # {} <=> paths[a][i] \in Files)
    BY DEF CompletenessContract
  <2>1. Listed(a, i)
    BY DEF Contract
  <2> QED
    BY <2>1 DEF Listed, Waits
<1> QED
  BY <1>1, ContractInvariance, IndexInvariance, PTL

\* dbops.cpp:782: a path that becomes an entry of the result has the row that was
\* computed for an entry, and that all see from then on; what a rolled back
\* transaction wrote is no entry.
THEOREM EntriesAreCommittedRows == IndexSpec => EntriesAreCommitted
<1> DEFINE Seen(b, i) == \E j \in Positions : /\ paths[b][j] = paths[b][i]
                                            /\ "entries" \in result'[b][j]
                                            /\ rows'[paths[b][i]] = computed[b][j]
<1>1. IndexInv /\ Written /\ [IndexNext]_indexVars
        => [\A a \in Adders, i \in Positions :
              "entries" \in result'[a][i] \ result[a][i] => Seen(a, i)]_indexVars
  <2> SUFFICES ASSUME IndexInv, Written, IndexNext, NEW b \in Adders, NEW h \in Positions,
                      "entries" \in result'[b][h] \ result[b][h]
               PROVE  Seen(b, h)
    OBVIOUS
  <2>a. CallTypes
    BY DEF IndexInv, IndexTypeOK
  <2>1. ASSUME NEW a \in Adders, NEW F \in SUBSET Positions, Reported(a, conflicts[a], F)
        PROVE  b = a /\ h \in F
    BY <2>a, <2>1 DEF Reported, CallTypes
  <2>2. ASSUME NEW a \in Adders, NEW i \in Positions, NEW bucket, Report(a, i, bucket)
        PROVE  bucket = "entries"
    BY <2>a, <2>2 DEF Report, CallTypes
  <2>3. result' # result
    OBVIOUS
  <2>4. ASSUME NEW a \in Adders, Committed(a)
        PROVE  Seen(b, h)
    <3>1. tentative[a] \in SUBSET Positions
      BY <2>a DEF CallTypes
    <3>2. b = a /\ h \in tentative[a]
      BY <2>1, <2>4, <3>1 DEF Committed
    <3>3. PICK k \in tentative[a] : Holds(a, h, k)
      BY <2>4, <3>2 DEF Committed, Written
    <3>4. "entries" \in result'[a][k]
      BY <2>a, <2>4, <3>1 DEF Committed, Reported, CallTypes
    <3>5. rows'[paths[a][h]] = computed[a][k]
      BY <2>4, <3>3 DEF Committed, Holds
    <3> QED
      BY <3>1, <3>2, <3>3, <3>4, <3>5 DEF Holds
  <2>5. ASSUME NEW a \in Adders, NEW i \in Positions, Commit(a, i)
        PROVE  FALSE
    <3>1. {} \in SUBSET Positions
      OBVIOUS
    <3>2. ~Report(a, i, "unchanged") /\ ~Reported(a, conflicts[a], {})
      BY <2>1, <2>2, <3>1
    <3> QED
      BY <2>3, <2>5, <3>2 DEF Commit, Conflict, WriteRow, Abort
  <2>6. ASSUME NEW a \in Adders, NEW i \in Positions,
               Stat(a, i) \/ Hash(a, i) \/ ParseFails(a, i) \/ HashFails(a, i)
        PROVE  FALSE
    <3>1. ~Report(a, i, "unchanged") /\ ~Report(a, i, "errors")
      BY <2>2
    <3> QED
      BY <2>3, <2>6, <3>1 DEF Stat, Hash, ParseFails, HashFails, ItemError, Abort
  <2>7. ASSUME NEW a \in Adders, Return(a)
        PROVE  FALSE
    BY <2>a, <2>7 DEF Return, CallTypes
  <2>8. ASSUME NEW a \in Adders, NEW i \in Positions,
               \/ Call(a) \/ Plan(a, i) \/ Planned(a) \/ NothingToWrite(a) \/ Computed(a)
               \/ Begin(a) \/ Busy(a)
        PROVE  FALSE
    BY <2>3, <2>8 DEF Call, Plan, Planned, NothingToWrite, Computed, Begin, Busy, Abort
  <2>9. ASSUME NEW F \in SUBSET Files, BeginDelete \/ EndDelete(F)
        PROVE  FALSE
    BY <2>3, <2>9 DEF BeginDelete, EndDelete, callVars
  <2>10. ASSUME NEW f \in Files, Write(f) \/ Unlink(f)
        PROVE  FALSE
    BY <2>3, <2>10 DEF Write, Unlink, callVars
  <2> QED
    BY <2>4, <2>5, <2>6, <2>7, <2>8, <2>9, <2>10 DEF IndexNext, AdderSteps
<1> QED
  BY <1>1, ContractInvariance, IndexInvariance, PTL DEF IndexSpec, EntriesAreCommitted
==============================================================================
