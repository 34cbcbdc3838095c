------------------------------ MODULE IndexMaint ------------------------------
(***************************************************************************)
(* What is done to the index after files were added (dbops.cpp): removal,    *)
(* syncIndex(), rescanIndex() and moveEntry(), with the metadata of the      *)
(* entries (metamanager.cpp) and the build folders of their hashes.          *)
(* A path is the sequence of its names.  The tables are rows and metas; the  *)
(* writer has its own view of them (txRows, txMetas) until it commits.       *)
(* Build folders are outside the database: no rollback brings one back.      *)
(***************************************************************************)
EXTENDS Naturals, Sequences, FiniteSets

CONSTANTS
  Workers,     \* processes that maintain the index, each with a connection
  Names,       \* the names that paths are made of
  Alike,       \* pairs of a name and a name that LIKE takes for it
  Paths,       \* the paths that entries may have
  Hashes,      \* the contents that files may have
  Keys,        \* the keys of metadata
  Singular,    \* those that do not end with an s
  Ids,         \* the ids that metadata may have: random in the code, in order here
  Dumps,       \* the dumps of metadata that may be restored
  None,        \* no row, no file, nobody
  NoHash,      \* the hash of a folder
  MaxTime,     \* bounds the number of writes to files
  MaxOps,      \* bounds the number of operations
  MaxEvents    \* bounds what happens around them

ASSUME MaintConstantsOK ==
  /\ Alike \subseteq Names \X Names
  /\ \A n \in Names : <<n, n>> \in Alike
  /\ Paths \subseteq Seq(Names) \ {<<>>}
  /\ Singular \subseteq Keys
  /\ Ids \subseteq Nat
  /\ MaxTime \in Nat
  /\ MaxOps \in Nat
  /\ MaxEvents \in Nat
  /\ None \notin Workers
  /\ NoHash \notin Hashes

Contents == [mtime : 0 .. MaxTime, hash : Hashes]
DirRow == [mtime |-> 0, hash |-> NoHash]
Rows == Contents \union {DirRow}
IsDir(row) == row.hash = NoHash

Metas == [id : Ids, path : Paths, key : Keys, mtime : 0 .. MaxTime]

ASSUME MaintValuesOK ==
  /\ None \notin Rows
  /\ Dumps \subseteq SUBSET Metas

VARIABLES
  now,         \* the clock, in seconds
  disk,        \* what is at a path: a file's content, a directory, or nothing
  rows,        \* the table entries
  metas,       \* the table entries_meta
  builds,      \* the hashes that have a build folder
  writer,      \* the connection with the write lock
  txRows,      \* the tables as the transaction of the writer sees them
  txMetas,
  pc,          \* per worker, where it is in its operation
  op,          \* per worker, its operation and the arguments
  todo,        \* per worker, the paths that its loop has not come to
  dirs,        \* per worker, the directories among the matches of a removal
  evict,       \* per worker, the hashes whose build folders it will remove
  dump,        \* per worker, the metadata that it restores
  used,        \* the ids that metadata has or had
  ops,         \* the number of operations begun
  events,      \* the number of events around them
  steady,      \* history, per worker: no file changed since its scan began
  doubled      \* history: the hashes that were added to the index while a row,
               \* or a removal that is still to clean up, had them

fileVars == <<now, disk>>
tableVars == <<rows, metas>>
txVars == <<writer, txRows, txMetas>>
workVars == <<pc, op, todo, dirs, evict, dump>>
countVars == <<used, ops, events>>
historyVars == <<steady, doubled>>
maintVars == <<fileVars, tableVars, builds, txVars, workVars, countVars, historyVars>>

Phases == {"idle", "named", "below", "scan", "checked", "folder", "clear", "insert",
           "restoring"}
Ops == [kind : {"none", "remove", "sync", "rescan", "move", "meta", "restore"},
        src : Paths \union {None}, dst : Paths \union {None},
        key : Keys \union {None}, at : 0 .. MaxTime, strict : BOOLEAN]
NoOp == [kind |-> "none", src |-> None, dst |-> None, key |-> None, at |-> 0,
         strict |-> FALSE]

MaintTypes ==
  /\ now \in 0 .. MaxTime
  /\ disk \in [Paths -> Rows \union {None}]
  /\ rows \in [Paths -> Rows \union {None}]
  /\ txRows \in [Paths -> Rows \union {None}]
  /\ metas \subseteq Metas
  /\ txMetas \subseteq Metas
  /\ builds \subseteq Hashes
  /\ writer \in Workers \union {None}
  /\ pc \in [Workers -> Phases]
  /\ op \in [Workers -> Ops]
  /\ todo \in [Workers -> SUBSET Paths]
  /\ dirs \in [Workers -> SUBSET Paths]
  /\ evict \in [Workers -> SUBSET Hashes]
  /\ dump \in [Workers -> SUBSET Metas]
  /\ used \subseteq Ids
  /\ ops \in 0 .. MaxOps
  /\ events \in 0 .. MaxEvents
  /\ steady \in [Workers -> BOOLEAN]
  /\ doubled \subseteq Hashes

\* The types of the variables; a worker that holds the write lock is in a
\* transaction of more than one step.
MaintTypeOK ==
  /\ MaintTypes
  /\ \A w \in Workers : pc[w] \in {"scan", "folder", "restoring"} <=> writer = w

------------------------------------------------------------------------------
\* Paths.

Folder(p) == SubSeq(p, 1, Len(p) - 1)

\* p is below q, by its names or as LIKE sees it.
Below(p, q) == Len(p) > Len(q) /\ SubSeq(p, 1, Len(q)) = q
AlikeNames(p, q) == \A i \in 1 .. Len(q) : <<q[i], p[i]>> \in Alike

\* sanitize_query_param() escapes % and the separator, not the one-character
\* wildcard, and LIKE takes no notice of case.
Matches(p, q) == Len(p) = Len(q) /\ AlikeNames(p, q)
MatchesBelow(p, q) == Len(p) > Len(q) /\ AlikeNames(p, q)

\* The path p of something in the folder src once this is called dst: what
\* follows as many characters as src has.
Renamed(p, src, dst) == dst \o SubSeq(p, Len(src) + 1, Len(p))

Entries(table) == {p \in Paths : table[p] # None}
FilesIn(table) == {p \in Entries(table) : ~ IsDir(table[p])}
DirsIn(table) == {p \in Entries(table) : IsDir(table[p])}
HashesOf(table, P) == {table[p].hash : p \in P \intersect FilesIn(table)}
Without(table, P) == [p \in Paths |-> IF p \in P THEN None ELSE table[p]]
MetasOf(M, P) == {m \in M : m.path \in P}

------------------------------------------------------------------------------
\* The index agrees with the files, every folder of a file has a row, and no
\* two files have the same content; there may be metadata already.
MaintInit ==
  /\ now = 0
  /\ disk \in [Paths -> Rows \union {None}]
  /\ \A p \in Paths :
       /\ Len(p) > 1 /\ disk[p] # None => disk[Folder(p)] = DirRow
       /\ disk[p] # None => disk[p].mtime = 0
  /\ \A p, q \in FilesIn(disk) : disk[p].hash = disk[q].hash => p = q
  /\ rows = disk
  /\ metas = {}
  /\ builds = HashesOf(rows, Paths)
  /\ writer = None
  /\ txRows = Without(rows, Paths)
  /\ txMetas = {}
  /\ pc = [w \in Workers |-> "idle"]
  /\ op = [w \in Workers |-> NoOp]
  /\ todo = [w \in Workers |-> {}]
  /\ dirs = [w \in Workers |-> {}]
  /\ evict = [w \in Workers |-> {}]
  /\ dump = [w \in Workers |-> {}]
  /\ used = {}
  /\ ops = 0
  /\ events = 0
  /\ steady = [w \in Workers |-> FALSE]
  /\ doubled = {}

Goto(w, phase) == pc' = [pc EXCEPT ![w] = phase]

\* The worker begins an operation.
Ready(w) == pc[w] = "idle" /\ ops < MaxOps
Start(w, o, phase) ==
  /\ Ready(w)
  /\ ops' = ops + 1
  /\ op' = [op EXCEPT ![w] = o]
  /\ Goto(w, phase)

\* Something happens that is no operation of a worker.
Event == events < MaxEvents /\ events' = events + 1

\* As it must not be: the transaction is left open.
FinishOpen(w) ==
  /\ Goto(w, "idle")
  /\ op' = [op EXCEPT ![w] = NoOp]
  /\ todo' = [todo EXCEPT ![w] = {}]
  /\ dirs' = [dirs EXCEPT ![w] = {}]
  /\ evict' = [evict EXCEPT ![w] = {}]
  /\ dump' = [dump EXCEPT ![w] = {}]
  /\ steady' = [steady EXCEPT ![w] = FALSE]
  /\ UNCHANGED <<fileVars, txVars, countVars, doubled>>

\* The operation is over; its transaction, if it still has one, is rolled back.
Finish(w) ==
  /\ Goto(w, "idle")
  /\ op' = [op EXCEPT ![w] = NoOp]
  /\ todo' = [todo EXCEPT ![w] = {}]
  /\ dirs' = [dirs EXCEPT ![w] = {}]
  /\ evict' = [evict EXCEPT ![w] = {}]
  /\ dump' = [dump EXCEPT ![w] = {}]
  /\ steady' = [steady EXCEPT ![w] = FALSE]
  /\ IF writer = w
       THEN writer' = None /\ txRows' = Without(rows, Paths) /\ txMetas' = {}
       ELSE UNCHANGED txVars
  /\ UNCHANGED <<fileVars, countVars, doubled>>

\* An exception, a callback that cancels, or the death of the process.
GiveUp(w) ==
  /\ pc[w] # "idle"
  /\ Finish(w)
  /\ UNCHANGED <<tableVars, builds>>

\* The transaction of the worker begins.
Lock(w) ==
  /\ writer = None
  /\ writer' = w
  /\ txRows' = rows
  /\ txMetas' = metas

\* The transaction commits, and with it the operation.
Commit(w) ==
  /\ rows' = txRows
  /\ metas' = txMetas
  /\ Finish(w)
  /\ UNCHANGED builds

------------------------------------------------------------------------------
\* removeFromIndex(): the matches of a path, by a read outside any transaction.
\* Without a match it throws.
RemoveMatch(w, q) ==
  LET matches == {p \in Entries(rows) : Matches(p, q)}
  IN  /\ Ready(w)
      /\ matches # {}
      /\ Start(w, [NoOp EXCEPT !.kind = "remove", !.src = q], "named")
      /\ todo' = [todo EXCEPT ![w] = matches]
      /\ dirs' = [dirs EXCEPT ![w] = matches \intersect DirsIn(rows)]
      /\ UNCHANGED <<fileVars, tableVars, builds, txVars, evict, dump, used, events, historyVars>>

\* As it must not be: the metadata stays.
DeleteRowsOnly(w, P) ==
  /\ writer = None
  /\ evict[w] = {}
  /\ rows' = Without(rows, P)
  /\ evict' = [evict EXCEPT ![w] = HashesOf(rows, P)]
  /\ UNCHANGED <<fileVars, metas, builds, txVars, dump, countVars, historyVars>>

\* As it must not be: the hashes of what is below the path are collected with it.
DeleteAndEvictMore(w, P) ==
  /\ writer = None
  /\ evict[w] = {}
  /\ metas' = metas \ MetasOf(metas, P)
  /\ rows' = Without(rows, P)
  /\ evict' = [evict EXCEPT ![w] =
       HashesOf(rows, P \union {x \in Paths : \E p \in P : MatchesBelow(x, p)})]
  /\ UNCHANGED <<fileVars, builds, txVars, dump, countVars, historyVars>>

\* deleteFromIndex(): metadata and rows go in one transaction; the build folders
\* of the hashes are left to be removed when it has committed.
DeleteFromIndex(w, P) ==
  /\ writer = None
  /\ evict[w] = {}
  /\ metas' = metas \ MetasOf(metas, P)
  /\ rows' = Without(rows, P)
  /\ evict' = [evict EXCEPT ![w] = HashesOf(rows, P)]
  /\ UNCHANGED <<fileVars, builds, txVars, dump, countVars, historyVars>>

\* The rows that match one of the matches.
RemoveNamed(w, p) ==
  /\ pc[w] = "named"
  /\ p \in todo[w]
  /\ DeleteFromIndex(w, {x \in Paths : Matches(x, p)})
  /\ todo' = [todo EXCEPT ![w] = @ \ {p}]
  /\ op' = [op EXCEPT ![w].src = p]
  /\ Goto(w, IF p \in dirs[w] THEN "below" ELSE "named")
  /\ UNCHANGED dirs

\* The match was a directory: what is below it.
RemoveBelow(w) ==
  /\ pc[w] = "below"
  /\ DeleteFromIndex(w, {x \in Paths : MatchesBelow(x, op[w].src)})
  /\ Goto(w, "named")
  /\ UNCHANGED <<op, todo, dirs>>

\* The build folder of a hash is removed; a failure is only logged.
Evict(w, h) ==
  /\ h \in evict[w]
  /\ evict' = [evict EXCEPT ![w] = @ \ {h}]
  /\ builds' \in {builds, builds \ {h}}
  /\ UNCHANGED <<fileVars, tableVars, txVars, pc, op, todo, dirs, dump, countVars, historyVars>>

Removed(w) ==
  /\ pc[w] = "named"
  /\ todo[w] = {}
  /\ evict[w] = {}
  /\ Finish(w)
  /\ UNCHANGED <<tableVars, builds>>

------------------------------------------------------------------------------
\* syncIndex() and rescanIndex(): one transaction over all rows; a rescan leaves
\* out directories, and may be told to stop at the first error (strict).
ScanBegin(w, kind, strict) ==
  /\ Start(w, [NoOp EXCEPT !.kind = kind, !.strict = strict], "scan")
  /\ Lock(w)
  /\ todo' = [todo EXCEPT ![w] = IF kind = "sync" THEN Entries(rows) ELSE FilesIn(rows)]
  /\ steady' = [steady EXCEPT ![w] = TRUE]
  /\ UNCHANGED <<fileVars, tableVars, builds, dirs, evict, dump, used, events, doubled>>

\* The row comes out of the loop with the transaction's tables as R and M.
Scanned(w, p, R, M) ==
  /\ txRows' = R
  /\ txMetas' = M
  /\ todo' = [todo EXCEPT ![w] = @ \ {p}]
  /\ UNCHANGED <<fileVars, tableVars, writer, pc, op, dirs, evict, dump, countVars, steady>>

Scanning(w, p, kind) == pc[w] = "scan" /\ op[w].kind = kind /\ p \in todo[w]

\* The hash enters the index at a path that had another.
Doubles(table, p, h) ==
  doubled' = IF h \in HashesOf(table, Paths \ {p}) \union UNION {evict[v] : v \in Workers}
               THEN doubled \union {h}
               ELSE doubled

\* The file is gone: so is the row, the metadata, and at once the build folder.
SyncGone(w, p) ==
  /\ Scanning(w, p, "sync")
  /\ disk[p] = None
  /\ builds' = builds \ HashesOf(txRows, {p})
  /\ Scanned(w, p, Without(txRows, {p}), txMetas \ MetasOf(txMetas, {p}))
  /\ UNCHANGED doubled

\* As it must not be: a file with another time is the same if it had content.
SyncSameByTime(w, p) ==
  /\ Scanning(w, p, "sync")
  /\ disk[p] # None
  /\ p \in FilesIn(disk) => disk[p].mtime >= txRows[p].mtime
  /\ Scanned(w, p, txRows, txMetas)
  /\ UNCHANGED <<builds, doubled>>

\* A directory is there, or a file with the row's time or content.
SyncSame(w, p) ==
  /\ Scanning(w, p, "sync")
  /\ disk[p] # None
  /\ p \in FilesIn(disk) => \/ disk[p].mtime = txRows[p].mtime
                           \/ disk[p].hash = txRows[p].hash
  /\ Scanned(w, p, txRows, txMetas)
  /\ UNCHANGED <<builds, doubled>>

\* The file has another time and another hash: it is parsed again.
SyncChanged(w, p) ==
  /\ Scanning(w, p, "sync")
  /\ p \in FilesIn(disk)
  /\ disk[p].mtime # txRows[p].mtime
  /\ disk[p].hash # txRows[p].hash
  /\ Scanned(w, p, [txRows EXCEPT ![p] = disk[p]], txMetas)
  /\ Doubles(txRows, p, disk[p].hash)
  /\ UNCHANGED builds

\* A rescan parses whatever is there.
RescanRead(w, p) ==
  /\ Scanning(w, p, "rescan")
  /\ disk[p] # None
  /\ Scanned(w, p, [txRows EXCEPT ![p] = disk[p]], txMetas)
  /\ Doubles(txRows, p, disk[p].hash)
  /\ UNCHANGED builds

\* The file is gone or cannot be parsed, and the rescan goes on.
RescanSkip(w, p) ==
  /\ Scanning(w, p, "rescan")
  /\ ~ op[w].strict
  /\ Scanned(w, p, txRows, txMetas)
  /\ UNCHANGED <<builds, doubled>>

ScanEnd(w) ==
  /\ pc[w] = "scan"
  /\ todo[w] = {}
  /\ Commit(w)

------------------------------------------------------------------------------
\* moveEntry(): what is at the two paths is read before the transaction begins.
MoveCheck(w, src, dst) ==
  /\ Ready(w)
  /\ src # dst
  /\ rows[src] # None
  /\ rows[dst] # None => src \in FilesIn(rows) /\ dst \in FilesIn(rows)
  /\ Start(w, [NoOp EXCEPT !.kind = "move", !.src = src, !.dst = dst], "checked")
  /\ dirs' = [dirs EXCEPT ![w] = {src} \intersect DirsIn(rows)]
  /\ todo' = [todo EXCEPT ![w] = {dst} \intersect Entries(rows)]
  /\ UNCHANGED <<fileVars, tableVars, builds, txVars, evict, dump, used, events, historyVars>>

\* deleteEntry() and replacePath(): the row of dst, if it is to go (P), and the
\* metadata with it; then the row of src and its metadata get the path dst.
ReplacedRows(R, src, dst, P) ==
  LET R1 == Without(R, P)
  IN  IF R1[src] = None THEN R1 ELSE [R1 EXCEPT ![src] = None, ![dst] = R1[src]]

\* As it must not be: the metadata keeps the old path.
ReplacedMetasNot(M, src, dst, P) == M \ MetasOf(M, P)

ReplacedMetas(M, src, dst, P) ==
  {IF m.path = src THEN [m EXCEPT !.path = dst] ELSE m : m \in M \ MetasOf(M, P)}

\* A file: one step, as nobody else sees into the transaction.  If the path has
\* been taken since, the primary key makes it fail.
MoveFile(w) ==
  LET src == op[w].src
      dst == op[w].dst
  IN  /\ pc[w] = "checked"
      /\ dirs[w] = {}
      /\ writer = None
      /\ Without(rows, todo[w])[dst] = None \/ Without(rows, todo[w])[src] = None
      /\ rows' = ReplacedRows(rows, src, dst, todo[w])
      /\ metas' = ReplacedMetas(metas, src, dst, todo[w])
      /\ Finish(w)
      /\ UNCHANGED builds

\* A folder: what LIKE finds below it, and itself.  The paths of the instance
\* bound the depth of the move.
MoveFolder(w) ==
  LET src == op[w].src
      listed == {p \in Entries(rows) : p = src \/ MatchesBelow(p, src)}
  IN  /\ pc[w] = "checked"
      /\ dirs[w] # {}
      /\ Lock(w)
      /\ {Renamed(p, src, op[w].dst) : p \in listed} \subseteq Paths
      /\ todo' = [todo EXCEPT ![w] = listed]
      /\ Goto(w, "folder")
      /\ UNCHANGED <<fileVars, tableVars, builds, op, dirs, evict, dump, countVars, historyVars>>

MoveOne(w, p) ==
  LET new == Renamed(p, op[w].src, op[w].dst)
  IN  /\ pc[w] = "folder"
      /\ p \in todo[w]
      /\ txRows' = ReplacedRows(txRows, p, new, {new})
      /\ txMetas' = ReplacedMetas(txMetas, p, new, {new})
      /\ todo' = [todo EXCEPT ![w] = @ \ {p}]
      /\ UNCHANGED <<fileVars, tableVars, builds, writer, pc, op, dirs, evict, dump, countVars,
                     historyVars>>

\* createMissingFolders(): the folders of files, anywhere in the index, that have
\* no row.  The set of folders that have one is computed once, so that a folder
\* that is missing comes up once for each of its files; the second INSERT fails,
\* as it does for the path of a file, and so does the move.
Orphans(table, folder) == {p \in FilesIn(table) : Len(p) > 1 /\ Folder(p) = folder}
MissingFolders(table) ==
  {Folder(p) : p \in {q \in FilesIn(table) : Len(q) > 1}} \ DirsIn(table)
CanCreate(table) ==
  \A f \in MissingFolders(table) : table[f] = None /\ Cardinality(Orphans(table, f)) = 1
WithFolders(table) ==
  [p \in Paths |-> IF p \in MissingFolders(table) THEN DirRow ELSE table[p]]

FolderMoved(w) ==
  /\ pc[w] = "folder"
  /\ todo[w] = {}
  /\ CanCreate(txRows)
  /\ rows' = WithFolders(txRows)
  /\ metas' = txMetas
  /\ Finish(w)
  /\ UNCHANGED builds

------------------------------------------------------------------------------
\* Metadata (metamanager.cpp).  The path has to be in the index when it is looked
\* up; set() goes on to delete, add() to insert.
MetaBegin(w, p, k) ==
  /\ Ready(w)
  /\ rows[p] # None
  /\ Start(w, [NoOp EXCEPT !.kind = "meta", !.src = p, !.key = k, !.at = now],
           IF k \in Singular THEN "clear" ELSE "insert")
  /\ UNCHANGED <<fileVars, tableVars, builds, txVars, todo, dirs, evict, dump, used, events,
                 historyVars>>

OfKey(M, p, k) == {m \in M : m.path = p /\ m.key = k}

SetClear(w) ==
  /\ pc[w] = "clear"
  /\ writer = None
  /\ metas' = metas \ OfKey(metas, op[w].src, op[w].key)
  /\ Goto(w, "insert")
  /\ UNCHANGED <<fileVars, rows, builds, txVars, op, todo, dirs, evict, dump, countVars,
                 historyVars>>

\* A record gets an id that no record has had, here or in the dumps restored.
Fresh(i) == i \in Ids \ used /\ \A j \in Ids \ used : i <= j

MetaInsert(w) ==
  /\ pc[w] = "insert"
  /\ writer = None
  /\ \E i \in Ids :
       /\ Fresh(i)
       /\ used' = used \union {i}
       /\ metas' = metas \union
            {[id |-> i, path |-> op[w].src, key |-> op[w].key, mtime |-> op[w].at]}
  /\ Goto(w, "idle")
  /\ op' = [op EXCEPT ![w] = NoOp]
  /\ UNCHANGED <<fileVars, rows, builds, txVars, todo, dirs, evict, dump, ops, events, historyVars>>

\* unset(), and remove() or bulkRemove() by ids: one transaction each.
MetaRemove(M) ==
  /\ Event
  /\ M # {}
  /\ writer = None
  /\ metas' = metas \ M
  /\ UNCHANGED <<fileVars, rows, builds, txVars, workVars, used, ops, historyVars>>
Unset(p, k) == rows[p] # None /\ MetaRemove(OfKey(metas, p, k))
BulkRemove(I) == MetaRemove({m \in metas : m.id \in I})

\* restore(): a transaction over the records of a dump.
RestoreBegin(w, D) ==
  /\ Start(w, [NoOp EXCEPT !.kind = "restore"], "restoring")
  /\ Lock(w)
  /\ dump' = [dump EXCEPT ![w] = D]
  /\ used' = used \union {m.id : m \in D}
  /\ UNCHANGED <<fileVars, tableVars, builds, todo, dirs, evict, events, historyVars>>

\* As it must not be: one that is not older does not keep the record out.
RestoredAnyway(M, m) ==
  LET older == {x \in OfKey(M, m.path, m.key) : m.key \in Singular /\ x.mtime < m.mtime}
  IN  {x \in M \ older : x.id # m.id} \union {m}

\* The record of a singular key replaces older ones, and is left out if there is
\* one that is not older; ids are kept, and a record with the id is replaced.
Restored(M, m) ==
  LET same == IF m.key \in Singular THEN OfKey(M, m.path, m.key) ELSE {}
      older == {x \in same : x.mtime < m.mtime}
  IN  IF older = same
        THEN {x \in M \ older : x.id # m.id} \union {m}
        ELSE M \ older

RestoreOne(w, m) ==
  /\ pc[w] = "restoring"
  /\ m \in dump[w]
  /\ dump' = [dump EXCEPT ![w] = @ \ {m}]
  /\ txMetas' = Restored(txMetas, m)
  /\ UNCHANGED <<fileVars, tableVars, builds, writer, txRows, pc, op, todo, dirs, evict,
                 countVars, historyVars>>

RestoreEnd(w) ==
  /\ pc[w] = "restoring"
  /\ dump[w] = {}
  /\ Commit(w)

------------------------------------------------------------------------------
\* Around the operations: files come and go, are added to the index, and built.
Ancestors(p) == {q \in Paths : Len(q) < Len(p) /\ SubSeq(p, 1, Len(q)) = q}
Touched == steady' = [w \in Workers |-> FALSE]

WriteFile(p, h) ==
  /\ Event
  /\ now < MaxTime
  /\ now' = now + 1
  /\ Ancestors(p) \intersect FilesIn(disk) = {}
  /\ p \notin DirsIn(disk)
  /\ disk' = [q \in Paths |-> IF q = p THEN [mtime |-> now + 1, hash |-> h]
                              ELSE IF q \in Ancestors(p) THEN DirRow ELSE disk[q]]
  /\ Touched
  /\ UNCHANGED <<tableVars, builds, txVars, workVars, used, ops, doubled>>

DeleteFile(p) ==
  /\ Event
  /\ disk[p] # None
  /\ disk' = Without(disk, {q \in Paths : q = p \/ Below(q, p)})
  /\ Touched
  /\ UNCHANGED <<now, tableVars, builds, txVars, workVars, used, ops, doubled>>

\* addToIndexEx() of a file that has no row (see IndexAdd for its steps); the
\* folders on its way are added with it.
Index(p) ==
  /\ Event
  /\ writer = None
  /\ p \in FilesIn(disk)
  /\ rows[p] = None
  /\ rows' = [q \in Paths |-> IF q = p THEN disk[p]
                              ELSE IF q \in Ancestors(p) /\ rows[q] = None THEN DirRow
                              ELSE rows[q]]
  /\ Doubles(rows, p, disk[p].hash)
  /\ UNCHANGED <<fileVars, metas, builds, txVars, workVars, used, ops, steady>>

\* build() of an entry.
Build(h) ==
  /\ Event
  /\ h \in HashesOf(rows, Paths) \ builds
  /\ builds' = builds \union {h}
  /\ UNCHANGED <<fileVars, tableVars, txVars, workVars, used, ops, historyVars>>

------------------------------------------------------------------------------
Removing(w) ==
  \/ \E q \in Paths : RemoveMatch(w, q) \/ RemoveNamed(w, q)
  \/ RemoveBelow(w)
  \/ \E h \in Hashes : Evict(w, h)
  \/ Removed(w)

Scan(w) ==
  \/ ScanBegin(w, "sync", TRUE)
  \/ \E strict \in BOOLEAN : ScanBegin(w, "rescan", strict)
  \/ \E p \in Paths : \/ SyncGone(w, p) \/ SyncSame(w, p) \/ SyncChanged(w, p)
                      \/ RescanRead(w, p) \/ RescanSkip(w, p)
  \/ ScanEnd(w)

Move(w) ==
  \/ \E src, dst \in Paths : MoveCheck(w, src, dst)
  \/ MoveFile(w)
  \/ MoveFolder(w)
  \/ \E p \in Paths : MoveOne(w, p)
  \/ FolderMoved(w)

Meta(w) ==
  \/ \E p \in Paths, k \in Keys : MetaBegin(w, p, k)
  \/ SetClear(w)
  \/ MetaInsert(w)
  \/ \E D \in Dumps : RestoreBegin(w, D)
  \/ \E m \in Metas : RestoreOne(w, m)
  \/ RestoreEnd(w)

Around ==
  \/ \E p \in Paths, h \in Hashes : WriteFile(p, h)
  \/ \E p \in Paths : DeleteFile(p) \/ Index(p)
  \/ \E h \in Hashes : Build(h)
  \/ \E p \in Paths, k \in Keys : Unset(p, k)
  \/ \E I \in SUBSET Ids : BulkRemove(I)

MaintNext ==
  \/ \E w \in Workers : Removing(w) \/ Scan(w) \/ Move(w) \/ Meta(w) \/ GiveUp(w)
  \/ Around

MaintSpec == MaintInit /\ [][MaintNext]_maintVars

------------------------------------------------------------------------------
(***************************************************************************)
(* Properties.                                                              *)
(***************************************************************************)

\* Two records of a singular key at one path.
Twins(m, n) == m # n /\ m.path = n.path /\ m.key = n.key /\ m.key \in Singular

\* A path has one record of a singular key ("Singular entries should be unique",
\* metamanager.cpp:295).  Two of them were two before, if at the path of which
\* their entry was moved; or come of a set() that another write came between
\* whose two statements; or of the move of a file to a path that had no row, but
\* still metadata.  Restoring, scanning and moving folders never make two.
SingularKeysStayUnique ==
  [][\A m, n \in metas' :
       Twins(m, n) =>
         \/ \E x, y \in metas : Twins(x, y) /\ x.id = m.id /\ y.id = n.id
         \/ \E w \in Workers :
              \/ MetaInsert(w) /\ op[w].src = m.path /\ op[w].key = m.key
              \/ MoveFile(w) /\ op[w].dst = m.path /\ todo[w] = {}
    ]_maintVars

\* A record whose entry is in the index keeps it through every removal, scan and
\* move, goes with it, or is removed: rows and metadata change together.  (A
\* restored record takes the place of the one with its id.)
RecordsKeepTheirEntries ==
  [][\A m \in metas, n \in metas' :
       /\ m.id = n.id
       /\ rows[m.path] # None
       /\ \A w \in Workers : op[w].kind = "restore" => pc'[w] # "idle"
       => rows'[n.path] # None]_maintVars

\* The move of a folder to a place where nothing is takes every file in it, with
\* its metadata, to the place of its name there, and touches no other file,
\* in whatever order the paths come up, into itself too.  Not asked when LIKE
\* takes the name for that of another folder.
FolderMovesKeepFiles ==
  [][\A w \in Workers :
       LET src == op[w].src
           dst == op[w].dst
           Moved(p) == IF p = src \/ Below(p, src) THEN Renamed(p, src, dst) ELSE p
       IN  /\ FolderMoved(w)
           /\ \A p \in Entries(rows) : p # dst /\ ~ Below(p, dst)
           /\ \A p \in Entries(rows) : MatchesBelow(p, src) => Below(p, src)
           => /\ FilesIn(rows') = {Moved(p) : p \in FilesIn(rows)}
              /\ \A p \in FilesIn(rows) : rows'[Moved(p)] = rows[p]
              /\ \A m \in metas : m.path \in FilesIn(rows) =>
                   [m EXCEPT !.path = Moved(m.path)] \in metas']_maintVars

\* The build folder of an entry is removed only if its hash was doubled, or by a
\* sync that has just found the file gone, which is yet to commit.
EvictedOnlyIfDoubled ==
  [][\A h \in builds \ builds' :
       h \in HashesOf(rows', Paths) =>
         \/ h \in doubled
         \/ \E w \in Workers : /\ writer = w
                               /\ op[w].kind = "sync"
                               /\ h \notin HashesOf(txRows', Paths)]_maintVars

\* A sync during which no file changed leaves a row only where something is, with
\* the time or the hash of the file; a strict rescan leaves what the files are.
ScansTellTheTruth ==
  [][\A w \in Workers :
       steady[w] /\ ScanEnd(w) =>
         CASE op[w].kind = "sync" ->
                \A p \in Entries(rows') :
                  /\ disk[p] # None
                  /\ p \in FilesIn(rows') => \/ IsDir(disk[p])
                                             \/ rows'[p].mtime = disk[p].mtime
                                             \/ rows'[p].hash = disk[p].hash
           [] op[w].kind = "rescan" ->
                op[w].strict => \A p \in FilesIn(rows) : rows'[p] = disk[p]]_maintVars
==============================================================================
