--------------------------- MODULE IndexMaintProofs ---------------------------
(***************************************************************************)
(* Safety of IndexMaint for any workers, paths, files, metadata and bounds:  *)
(* its types, that metadata keeps its entry, that the build folder of an     *)
(* entry goes only with its hash, what a scan leaves, where a second record   *)
(* of a singular key comes from, and that folders move whole.                 *)
(***************************************************************************)
EXTENDS IndexMaint, SequenceTheorems, TLAPS

USE MaintConstantsOK, MaintValuesOK

------------------------------------------------------------------------------
\* The values of the operators.

Tables == [Paths -> Rows \union {None}]

LEMMA TableValues ==
  ASSUME NEW table \in Tables, NEW P
  PROVE  /\ Without(table, P) \in Tables
         /\ HashesOf(table, P) \subseteq Hashes
         /\ WithFolders(table) \in Tables
<1>1. Without(table, P) \in Tables
  BY DEF Without, Tables
<1>2. HashesOf(table, P) \subseteq Hashes
  <2> SUFFICES ASSUME NEW p \in FilesIn(table) PROVE table[p].hash \in Hashes
    BY DEF HashesOf
  <2>1. p \in Paths /\ table[p] # None /\ table[p].hash # NoHash
    BY DEF FilesIn, Entries, IsDir
  <2>2. table[p] \in Contents \union {DirRow}
    BY <2>1 DEF Tables, Rows
  <2>3. QED
    BY <2>1, <2>2 DEF Contents, DirRow
<1>3. WithFolders(table) \in Tables
  BY DEF WithFolders, Tables, Rows
<1>4. QED
  BY <1>1, <1>2, <1>3

LEMMA ReplacedValues ==
  ASSUME NEW table \in Tables, NEW M \in SUBSET Metas, NEW src \in Paths, NEW dst \in Paths,
         NEW P
  PROVE  /\ ReplacedRows(table, src, dst, P) \in Tables
         /\ ReplacedMetas(M, src, dst, P) \subseteq Metas
<1>1. ReplacedRows(table, src, dst, P) \in Tables
  <2> DEFINE R1 == Without(table, P)
  <2>1. R1 \in Tables
    BY TableValues
  <2> HIDE DEF R1
  <2>2. [R1 EXCEPT ![src] = None, ![dst] = R1[src]] \in Tables
    BY <2>1 DEF Tables
  <2>3. QED
    BY <2>1, <2>2 DEF ReplacedRows, R1
<1>2. ReplacedMetas(M, src, dst, P) \subseteq Metas
  <2>1. \A m \in Metas : [m EXCEPT !.path = dst] \in Metas
    BY DEF Metas
  <2>2. QED
    BY <2>1 DEF ReplacedMetas
<1>3. QED
  BY <1>1, <1>2

LEMMA RestoredValues ==
  ASSUME NEW M \in SUBSET Metas, NEW m \in Metas
  PROVE  Restored(M, m) \subseteq Metas
BY DEF Restored

LEMMA DoublesValues ==
  ASSUME NEW table \in Tables, NEW p, NEW h, MaintTypes, Doubles(table, p, h)
  PROVE  doubled' \subseteq Hashes
<1>1. HashesOf(table, Paths \ {p}) \subseteq Hashes
  BY TableValues
<1>2. UNION {evict[v] : v \in Workers} \subseteq Hashes
  BY DEF MaintTypes
<1>3. QED
  BY <1>1, <1>2 DEF Doubles, MaintTypes

------------------------------------------------------------------------------
\* The types.  They stand with what the operations under way have been given.

OpsOK ==
  \A w \in Workers :
    /\ pc[w] \in {"checked", "folder"} => op[w].src \in Paths /\ op[w].dst \in Paths
    /\ pc[w] = "checked" => todo[w] \subseteq {op[w].dst}
    /\ pc[w] \in {"clear", "insert"} => op[w].src \in Paths /\ op[w].key \in Keys
    /\ pc[w] = "folder" => \A p \in todo[w] : Renamed(p, op[w].src, op[w].dst) \in Paths
    /\ pc[w] = "scan" => op[w].kind \in {"sync", "rescan"}
    /\ pc[w] = "restoring" => op[w].kind = "restore"

Shape == MaintTypeOK /\ OpsOK
Writing == {"scan", "folder", "restoring"}

LEMMA InitShape == MaintInit => Shape
<1> SUFFICES ASSUME MaintInit PROVE Shape
  OBVIOUS
<1>1. disk \in Tables /\ rows \in Tables
  BY DEF MaintInit, Tables
<1>2. builds \subseteq Hashes /\ txRows \in Tables
  BY <1>1, TableValues DEF MaintInit
<1>3. NoOp \in Ops
  BY DEF NoOp, Ops
<1>4. QED
  BY <1>1, <1>2, <1>3 DEF MaintInit, Shape, MaintTypeOK, MaintTypes, OpsOK, Phases, Tables

LEMMA NoOpValue == NoOp \in Ops
BY DEF NoOp, Ops

\* An operation that ends.
LEMMA FinishShape ==
  ASSUME Shape, NEW w \in Workers, Finish(w),
         rows' \in Tables, metas' \subseteq Metas, builds' \subseteq Hashes
  PROVE  Shape'
<1>1. /\ pc' = [pc EXCEPT ![w] = "idle"] /\ op' = [op EXCEPT ![w] = NoOp]
      /\ todo' = [todo EXCEPT ![w] = {}] /\ dirs' = [dirs EXCEPT ![w] = {}]
      /\ evict' = [evict EXCEPT ![w] = {}] /\ dump' = [dump EXCEPT ![w] = {}]
      /\ steady' = [steady EXCEPT ![w] = FALSE]
      /\ UNCHANGED <<now, disk, used, ops, events, doubled>>
      /\ IF writer = w
           THEN writer' = None /\ txRows' = Without(rows, Paths) /\ txMetas' = {}
           ELSE UNCHANGED <<writer, txRows, txMetas>>
  BY DEF Finish, Goto, fileVars, countVars, txVars
<1>2. txRows' \in Tables
  <2>1. rows \in Tables /\ txRows \in Tables
    BY DEF Shape, MaintTypeOK, MaintTypes, Tables
  <2>2. QED
    BY <1>1, <2>1, TableValues
<1>3. MaintTypes'
  <2>1. /\ pc' \in [Workers -> Phases] /\ op' \in [Workers -> Ops]
        /\ todo' \in [Workers -> SUBSET Paths] /\ dirs' \in [Workers -> SUBSET Paths]
    BY <1>1, NoOpValue DEF Shape, MaintTypeOK, MaintTypes, Phases
  <2>2. /\ evict' \in [Workers -> SUBSET Hashes] /\ dump' \in [Workers -> SUBSET Metas]
        /\ steady' \in [Workers -> BOOLEAN]
    BY <1>1 DEF Shape, MaintTypeOK, MaintTypes
  <2>3. writer' \in Workers \union {None} /\ txMetas' \subseteq Metas
    BY <1>1 DEF Shape, MaintTypeOK, MaintTypes
  <2>4. QED
    BY <1>1, <1>2, <2>1, <2>2, <2>3 DEF Shape, MaintTypeOK, MaintTypes, Tables
<1>4. \A v \in Workers : pc'[v] \in Writing <=> writer' = v
  BY <1>1 DEF Shape, MaintTypeOK, MaintTypes, Writing
<1>5. OpsOK'
  BY <1>1 DEF Shape, OpsOK, MaintTypeOK, MaintTypes
<1>6. QED
  BY <1>3, <1>4, <1>5 DEF Shape, MaintTypeOK, Writing

\* What the scans, the moves and the rest need of the types.
LEMMA ShapeValues ==
  ASSUME Shape
  PROVE  /\ rows \in Tables /\ txRows \in Tables /\ disk \in Tables
         /\ metas \in SUBSET Metas /\ txMetas \in SUBSET Metas
         /\ writer \in Workers \union {None}
         /\ \A w \in Workers : /\ op[w] \in Ops /\ todo[w] \subseteq Paths
                               /\ evict[w] \subseteq Hashes /\ dump[w] \subseteq Metas
                               /\ pc[w] \in Writing <=> writer = w
BY DEF Shape, MaintTypeOK, MaintTypes, Tables, Writing

\* An operation that begins, with its arguments.
LEMMA StartShape ==
  ASSUME Shape, NEW w \in Workers, NEW o \in Ops, NEW phase \in Phases, Start(w, o, phase)
  PROVE  /\ pc' \in [Workers -> Phases] /\ op' \in [Workers -> Ops] /\ ops' \in 0 .. MaxOps
         /\ pc[w] = "idle" /\ pc'[w] = phase /\ op'[w] = o
         /\ \A v \in Workers : v # w => pc'[v] = pc[v] /\ op'[v] = op[v]
         /\ writer # w
<1>1. /\ pc' = [pc EXCEPT ![w] = phase] /\ op' = [op EXCEPT ![w] = o] /\ ops' = ops + 1
      /\ pc[w] = "idle" /\ ops < MaxOps
  BY DEF Start, Ready, Goto
<1>2. /\ pc \in [Workers -> Phases] /\ op \in [Workers -> Ops] /\ ops \in 0 .. MaxOps
  BY DEF Shape, MaintTypeOK, MaintTypes
<1>3. ops' \in 0 .. MaxOps
  BY <1>1, <1>2
<1>4. writer # w
  BY <1>1, ShapeValues DEF Writing
<1>5. QED
  BY <1>1, <1>2, <1>3, <1>4

LEMMA OpValues ==
  \A o \in Ops, kind \in {"remove", "sync", "rescan", "move", "meta", "restore"} :
    /\ [o EXCEPT !.kind = kind] \in Ops
    /\ \A strict \in BOOLEAN : [o EXCEPT !.kind = kind, !.strict = strict] \in Ops
    /\ \A p \in Paths :
         /\ [o EXCEPT !.src = p] \in Ops
         /\ [o EXCEPT !.kind = kind, !.src = p] \in Ops
         /\ \A q \in Paths : [o EXCEPT !.kind = kind, !.src = p, !.dst = q] \in Ops
         /\ \A k \in Keys, t \in 0 .. MaxTime :
              [o EXCEPT !.kind = kind, !.src = p, !.key = k, !.at = t] \in Ops
<1> TAKE o \in Ops, kind \in {"remove", "sync", "rescan", "move", "meta", "restore"}
<1>1. /\ [o EXCEPT !.kind = kind] \in Ops
      /\ \A strict \in BOOLEAN : [o EXCEPT !.kind = kind, !.strict = strict] \in Ops
  BY DEF Ops
<1>2. ASSUME NEW p \in Paths
      PROVE  [o EXCEPT !.src = p] \in Ops /\ [o EXCEPT !.kind = kind, !.src = p] \in Ops
  BY DEF Ops
<1>3. ASSUME NEW p \in Paths, NEW q \in Paths
      PROVE  [o EXCEPT !.kind = kind, !.src = p, !.dst = q] \in Ops
  BY DEF Ops
<1>4. ASSUME NEW p \in Paths, NEW k \in Keys, NEW t \in 0 .. MaxTime
      PROVE  [o EXCEPT !.kind = kind, !.src = p, !.key = k, !.at = t] \in Ops
  BY DEF Ops
<1>5. QED
  BY <1>1, <1>2, <1>3, <1>4

\* A step that begins an operation, in a transaction or not.
LEMMA BeginShape ==
  ASSUME Shape, NEW w \in Workers, NEW o \in Ops, NEW phase \in Phases, Start(w, o, phase),
         UNCHANGED <<now, disk, rows, metas, builds, evict, events, doubled>>,
         todo' \in [Workers -> SUBSET Paths], dirs' \in [Workers -> SUBSET Paths],
         dump' \in [Workers -> SUBSET Metas], steady' \in [Workers -> BOOLEAN],
         used' \subseteq Ids,
         \A v \in Workers : v # w => todo'[v] = todo[v],
         \/ phase \in Writing /\ Lock(w)
         \/ phase \notin Writing /\ UNCHANGED <<writer, txRows, txMetas>>,
         phase = "checked" => /\ o.src \in Paths /\ o.dst \in Paths
                              /\ todo'[w] \subseteq {o.dst},
         phase \in {"clear", "insert"} => o.src \in Paths /\ o.key \in Keys,
         phase # "folder",
         phase = "scan" => o.kind \in {"sync", "rescan"},
         phase = "restoring" => o.kind = "restore"
  PROVE  Shape'
<1>1. /\ pc' \in [Workers -> Phases] /\ op' \in [Workers -> Ops] /\ ops' \in 0 .. MaxOps
      /\ pc'[w] = phase /\ op'[w] = o
      /\ \A v \in Workers : v # w => pc'[v] = pc[v] /\ op'[v] = op[v]
      /\ writer # w
  BY StartShape
<1>2. /\ \/ writer' = w /\ writer = None /\ txRows' = rows /\ txMetas' = metas
         \/ UNCHANGED <<writer, txRows, txMetas>>
      /\ phase \in Writing <=> writer' = w
  BY <1>1 DEF Lock
<1>3. MaintTypes'
  <2>1. writer' \in Workers \union {None} /\ txRows' \in Tables /\ txMetas' \subseteq Metas
    BY <1>2, ShapeValues
  <2>2. QED
    BY <1>1, <2>1 DEF Shape, MaintTypeOK, MaintTypes, Tables
<1>4. \A v \in Workers : pc'[v] \in Writing <=> writer' = v
  BY <1>1, <1>2, ShapeValues
<1>5. OpsOK'
  BY <1>1 DEF Shape, OpsOK
<1>6. QED
  BY <1>3, <1>4, <1>5 DEF Shape, MaintTypeOK, Writing

\* A step of an operation that goes on.
LEMMA GoesOnShape ==
  ASSUME Shape, MaintTypes', UNCHANGED <<writer, pc, op>>,
         \A w \in Workers : todo'[w] \subseteq todo[w]
  PROVE  Shape'
<1>1. OpsOK'
  BY DEF Shape, OpsOK
<1>2. \A w \in Workers : pc'[w] \in {"scan", "folder", "restoring"} <=> writer' = w
  BY DEF Shape, MaintTypeOK
<1>3. QED
  BY <1>1, <1>2 DEF Shape, MaintTypeOK

LEMMA RemovingShape ==
  ASSUME Shape, NEW w \in Workers, Removing(w) PROVE Shape'
<1>1. ASSUME NEW q \in Paths, RemoveMatch(w, q) PROVE Shape'
  <2> DEFINE o == [NoOp EXCEPT !.kind = "remove", !.src = q]
             P == {p \in Entries(rows) : Matches(p, q)}
  <2>1. o \in Ops /\ "named" \in Phases
    BY NoOpValue, OpValues DEF Phases
  <2>2. Start(w, o, "named")
    BY <1>1 DEF RemoveMatch
  <2> HIDE DEF o
  <2>3. P \in SUBSET Paths /\ P \intersect DirsIn(rows) \in SUBSET Paths
    BY DEF Entries
  <2>4. /\ todo' = [todo EXCEPT ![w] = P] /\ dirs' = [dirs EXCEPT ![w] = P \intersect DirsIn(rows)]
        /\ UNCHANGED <<now, disk, rows, metas, builds, writer, txRows, txMetas, evict, dump, used,
                       events, steady, doubled>>
    BY <1>1 DEF RemoveMatch, fileVars, tableVars, txVars, historyVars
  <2> HIDE DEF P
  <2>5. /\ todo' \in [Workers -> SUBSET Paths] /\ dirs' \in [Workers -> SUBSET Paths]
        /\ dump' \in [Workers -> SUBSET Metas] /\ steady' \in [Workers -> BOOLEAN]
        /\ used' \subseteq Ids
        /\ \A v \in Workers : v # w => todo'[v] = todo[v]
    BY <2>3, <2>4 DEF Shape, MaintTypeOK, MaintTypes
  <2>6. QED
    BY <2>1, <2>2, <2>4, <2>5, BeginShape DEF Writing
<1>2. ASSUME NEW P \in SUBSET Paths, DeleteFromIndex(w, P)
      PROVE  /\ rows' \in Tables /\ metas' \subseteq Metas
             /\ evict' \in [Workers -> SUBSET Hashes]
             /\ UNCHANGED <<now, disk, builds, writer, txRows, txMetas, dump, used, ops, events,
                            steady, doubled>>
  <2>1. rows' = Without(rows, P) /\ metas' = metas \ MetasOf(metas, P)
        /\ evict' = [evict EXCEPT ![w] = HashesOf(rows, P)]
    BY <1>2 DEF DeleteFromIndex
  <2>2. Without(rows, P) \in Tables /\ HashesOf(rows, P) \subseteq Hashes
    BY ShapeValues, TableValues
  <2>3. UNCHANGED <<now, disk, builds, writer, txRows, txMetas, dump, used, ops, events,
                    steady, doubled>>
    BY <1>2 DEF DeleteFromIndex, fileVars, txVars, countVars, historyVars
  <2>4. QED
    BY <2>1, <2>2, <2>3 DEF Shape, MaintTypeOK, MaintTypes
<1>3. ASSUME NEW p \in Paths, RemoveNamed(w, p) PROVE Shape'
  <2>1. /\ pc[w] = "named" /\ dirs' = dirs
        /\ todo' = [todo EXCEPT ![w] = @ \ {p}]
        /\ op' = [op EXCEPT ![w].src = p]
        /\ pc' = [pc EXCEPT ![w] = IF p \in dirs[w] THEN "below" ELSE "named"]
        /\ DeleteFromIndex(w, {x \in Paths : Matches(x, p)})
    BY <1>3 DEF RemoveNamed, Goto
  <2>2. /\ rows' \in Tables /\ metas' \subseteq Metas
        /\ evict' \in [Workers -> SUBSET Hashes]
        /\ UNCHANGED <<now, disk, builds, writer, txRows, txMetas, dump, used, ops, events,
                       steady, doubled>>
    BY <1>2, <2>1
  <2>3. op' \in [Workers -> Ops]
    <3>1. [op[w] EXCEPT !.src = p] \in Ops
      BY ShapeValues DEF Ops
    <3>2. QED
      BY <2>1, <3>1 DEF Shape, MaintTypeOK, MaintTypes
  <2>4. MaintTypes'
    BY <2>1, <2>2, <2>3 DEF Shape, MaintTypeOK, MaintTypes, Phases, Tables
  <2>5. \A v \in Workers : pc'[v] \in Writing <=> writer' = v
    BY <2>1, <2>2, ShapeValues DEF Writing, Shape, MaintTypeOK, MaintTypes
  <2>6. OpsOK'
    BY <2>1, <2>2 DEF Shape, OpsOK, MaintTypeOK, MaintTypes
  <2>7. QED
    BY <2>4, <2>5, <2>6 DEF Shape, MaintTypeOK, Writing
<1>4. ASSUME RemoveBelow(w) PROVE Shape'
  <2>1. /\ pc[w] = "below" /\ UNCHANGED <<op, todo, dirs>>
        /\ pc' = [pc EXCEPT ![w] = "named"]
        /\ DeleteFromIndex(w, {x \in Paths : MatchesBelow(x, op[w].src)})
    BY <1>4 DEF RemoveBelow, Goto
  <2>2. /\ rows' \in Tables /\ metas' \subseteq Metas
        /\ evict' \in [Workers -> SUBSET Hashes]
        /\ UNCHANGED <<now, disk, builds, writer, txRows, txMetas, dump, used, ops, events,
                       steady, doubled>>
    BY <1>2, <2>1
  <2>3. MaintTypes'
    BY <2>1, <2>2 DEF Shape, MaintTypeOK, MaintTypes, Phases, Tables
  <2>4. \A v \in Workers : pc'[v] \in Writing <=> writer' = v
    BY <2>1, <2>2, ShapeValues DEF Writing, Shape, MaintTypeOK, MaintTypes
  <2>5. OpsOK'
    BY <2>1, <2>2 DEF Shape, OpsOK, MaintTypeOK, MaintTypes
  <2>6. QED
    BY <2>3, <2>4, <2>5 DEF Shape, MaintTypeOK, Writing
<1>5. ASSUME NEW h \in Hashes, Evict(w, h) PROVE Shape'
  <2>1. /\ evict' = [evict EXCEPT ![w] = @ \ {h}]
        /\ builds' \in {builds, builds \ {h}}
        /\ UNCHANGED <<now, disk, rows, metas, writer, txRows, txMetas, pc, op, todo, dirs, dump,
                       used, ops, events, steady, doubled>>
    BY <1>5 DEF Evict, fileVars, tableVars, txVars, countVars, historyVars
  <2>2. MaintTypes'
    BY <2>1 DEF Shape, MaintTypeOK, MaintTypes
  <2>3. OpsOK'
    BY <2>1 DEF Shape, OpsOK
  <2>4. QED
    BY <2>1, <2>2, <2>3 DEF Shape, MaintTypeOK
<1>6. ASSUME Removed(w) PROVE Shape'
  <2>1. Finish(w) /\ UNCHANGED <<rows, metas, builds>>
    BY <1>6 DEF Removed, tableVars
  <2>2. rows' \in Tables /\ metas' \subseteq Metas /\ builds' \subseteq Hashes
    BY <2>1, ShapeValues DEF Shape, MaintTypeOK, MaintTypes
  <2>3. QED
    BY <2>1, <2>2, FinishShape
<1>7. QED
  BY <1>1, <1>3, <1>4, <1>5, <1>6 DEF Removing

LEMMA ScanShape ==
  ASSUME Shape, NEW w \in Workers, Scan(w) PROVE Shape'
<1>1. ASSUME NEW kind \in {"sync", "rescan"}, NEW strict \in BOOLEAN, ScanBegin(w, kind, strict)
      PROVE  Shape'
  <2> DEFINE o == [NoOp EXCEPT !.kind = kind, !.strict = strict]
             P == IF kind = "sync" THEN Entries(rows) ELSE FilesIn(rows)
  <2>1. o \in Ops /\ o.kind = kind /\ "scan" \in Phases
    BY NoOpValue, OpValues DEF Phases, NoOp
  <2>2. Start(w, o, "scan") /\ Lock(w)
    BY <1>1 DEF ScanBegin
  <2> HIDE DEF o
  <2>3. P \in SUBSET Paths
    BY DEF Entries, FilesIn
  <2>4. /\ todo' = [todo EXCEPT ![w] = P] /\ steady' = [steady EXCEPT ![w] = TRUE]
        /\ UNCHANGED <<now, disk, rows, metas, builds, dirs, evict, dump, used, events, doubled>>
    BY <1>1 DEF ScanBegin, fileVars, tableVars
  <2> HIDE DEF P
  <2>5. /\ todo' \in [Workers -> SUBSET Paths] /\ dirs' \in [Workers -> SUBSET Paths]
        /\ dump' \in [Workers -> SUBSET Metas] /\ steady' \in [Workers -> BOOLEAN]
        /\ used' \subseteq Ids
        /\ \A v \in Workers : v # w => todo'[v] = todo[v]
    BY <2>3, <2>4 DEF Shape, MaintTypeOK, MaintTypes
  <2>6. QED
    BY <2>1, <2>2, <2>4, <2>5, BeginShape DEF Writing
<1>2. ASSUME NEW p \in Paths, NEW R \in Tables, NEW M \in SUBSET Metas, Scanned(w, p, R, M),
             builds' \subseteq Hashes, doubled' \subseteq Hashes
      PROVE  Shape'
  <2>1. /\ txRows' = R /\ txMetas' = M /\ todo' = [todo EXCEPT ![w] = @ \ {p}]
        /\ UNCHANGED <<now, disk, rows, metas, writer, pc, op, dirs, evict, dump, used, ops, events,
                       steady>>
    BY <1>2 DEF Scanned, fileVars, tableVars, countVars
  <2>2. todo' \in [Workers -> SUBSET Paths] /\ \A v \in Workers : todo'[v] \subseteq todo[v]
    BY <2>1 DEF Shape, MaintTypeOK, MaintTypes
  <2>3. MaintTypes'
    BY <1>2, <2>1, <2>2 DEF Shape, MaintTypeOK, MaintTypes, Tables
  <2>4. QED
    BY <2>1, <2>2, <2>3, GoesOnShape
<1>3. /\ builds \subseteq Hashes /\ doubled \subseteq Hashes
      /\ txRows \in Tables /\ txMetas \in SUBSET Metas /\ MaintTypes
  BY ShapeValues DEF Shape, MaintTypeOK, MaintTypes
<1>4. ASSUME NEW p \in Paths, SyncGone(w, p) PROVE Shape'
  <2>1. /\ Without(txRows, {p}) \in Tables /\ txMetas \ MetasOf(txMetas, {p}) \in SUBSET Metas
    BY <1>3, TableValues
  <2>2. /\ Scanned(w, p, Without(txRows, {p}), txMetas \ MetasOf(txMetas, {p}))
        /\ builds' \subseteq Hashes /\ doubled' = doubled
    BY <1>3, <1>4 DEF SyncGone
  <2>3. QED
    BY <1>2, <1>3, <2>1, <2>2
<1>5. ASSUME NEW p \in Paths, SyncSame(w, p) \/ RescanSkip(w, p) PROVE Shape'
  <2>1. Scanned(w, p, txRows, txMetas) /\ builds' = builds /\ doubled' = doubled
    BY <1>5 DEF SyncSame, RescanSkip
  <2>2. QED
    BY <1>2, <1>3, <2>1
<1>6. ASSUME NEW p \in Paths, SyncChanged(w, p) \/ RescanRead(w, p) PROVE Shape'
  <2>1. /\ Scanned(w, p, [txRows EXCEPT ![p] = disk[p]], txMetas)
        /\ builds' = builds /\ Doubles(txRows, p, disk[p].hash)
    BY <1>6 DEF SyncChanged, RescanRead
  <2>2. [txRows EXCEPT ![p] = disk[p]] \in Tables
    BY ShapeValues DEF Tables
  <2>3. doubled' \subseteq Hashes
    BY <1>3, <2>1, DoublesValues
  <2>4. QED
    BY <1>2, <1>3, <2>1, <2>2, <2>3
<1>7. ASSUME ScanEnd(w) PROVE Shape'
  <2>1. Finish(w) /\ rows' = txRows /\ metas' = txMetas /\ builds' = builds
    BY <1>7 DEF ScanEnd, Commit
  <2>2. QED
    BY <1>3, <2>1, FinishShape
<1>8. QED
  BY <1>1, <1>4, <1>5, <1>6, <1>7 DEF Scan

LEMMA MoveShape ==
  ASSUME Shape, NEW w \in Workers, Move(w) PROVE Shape'
<1>1. ASSUME NEW src \in Paths, NEW dst \in Paths, MoveCheck(w, src, dst) PROVE Shape'
  <2> DEFINE o == [NoOp EXCEPT !.kind = "move", !.src = src, !.dst = dst]
             P == {dst} \intersect Entries(rows)
             Q == {src} \intersect DirsIn(rows)
  <2>1. o \in Ops /\ o.src = src /\ o.dst = dst /\ "checked" \in Phases
    BY NoOpValue, OpValues DEF Phases, NoOp
  <2>2. Start(w, o, "checked")
    BY <1>1 DEF MoveCheck
  <2> HIDE DEF o
  <2>3. P \in SUBSET Paths /\ P \subseteq {dst} /\ Q \in SUBSET Paths
    OBVIOUS
  <2>4. /\ todo' = [todo EXCEPT ![w] = P] /\ dirs' = [dirs EXCEPT ![w] = Q]
        /\ UNCHANGED <<now, disk, rows, metas, builds, writer, txRows, txMetas, evict, dump, used,
                       events, steady, doubled>>
    BY <1>1 DEF MoveCheck, fileVars, tableVars, txVars, historyVars
  <2> HIDE DEF P, Q
  <2>5. /\ todo' \in [Workers -> SUBSET Paths] /\ dirs' \in [Workers -> SUBSET Paths]
        /\ dump' \in [Workers -> SUBSET Metas] /\ steady' \in [Workers -> BOOLEAN]
        /\ used' \subseteq Ids
        /\ todo'[w] \subseteq {dst}
        /\ \A v \in Workers : v # w => todo'[v] = todo[v]
    BY <2>3, <2>4 DEF Shape, MaintTypeOK, MaintTypes
  <2>6. QED
    BY <2>1, <2>2, <2>4, <2>5, BeginShape DEF Writing
<1>2. ASSUME MoveFile(w) PROVE Shape'
  <2>1. /\ pc[w] = "checked" /\ Finish(w) /\ builds' = builds
        /\ rows' = ReplacedRows(rows, op[w].src, op[w].dst, todo[w])
        /\ metas' = ReplacedMetas(metas, op[w].src, op[w].dst, todo[w])
    BY <1>2 DEF MoveFile
  <2>2. op[w].src \in Paths /\ op[w].dst \in Paths
    BY <2>1 DEF Shape, OpsOK
  <2>3. rows' \in Tables /\ metas' \subseteq Metas
    <3>1. rows \in Tables /\ metas \in SUBSET Metas
      BY ShapeValues
    <3>2. \A P : ReplacedRows(rows, op[w].src, op[w].dst, P) \in Tables
      BY <2>2, <3>1, ReplacedValues
    <3>3. \A P : ReplacedMetas(metas, op[w].src, op[w].dst, P) \subseteq Metas
      BY <2>2, <3>1, ReplacedValues
    <3>4. QED
      BY <2>1, <3>2, <3>3
  <2>4. builds' \subseteq Hashes
    BY <2>1 DEF Shape, MaintTypeOK, MaintTypes
  <2>5. QED
    BY <2>1, <2>3, <2>4, FinishShape
<1>3. ASSUME MoveFolder(w) PROVE Shape'
  <2>1. PICK P \in SUBSET Paths :
          /\ todo' = [todo EXCEPT ![w] = P]
          /\ {Renamed(p, op[w].src, op[w].dst) : p \in P} \subseteq Paths
    <3> DEFINE P == {p \in Entries(rows) : p = op[w].src \/ MatchesBelow(p, op[w].src)}
    <3>1. P \in SUBSET Paths
      BY DEF Entries
    <3>2. /\ todo' = [todo EXCEPT ![w] = P]
          /\ {Renamed(p, op[w].src, op[w].dst) : p \in P} \subseteq Paths
      BY <1>3 DEF MoveFolder
    <3>3. QED
      BY <3>1, <3>2
  <2>2. /\ pc[w] = "checked" /\ pc' = [pc EXCEPT ![w] = "folder"]
        /\ writer = None /\ writer' = w /\ txRows' = rows /\ txMetas' = metas
        /\ UNCHANGED <<now, disk, rows, metas, builds, op, dirs, evict, dump, used, ops, events,
                       steady, doubled>>
    BY <1>3 DEF MoveFolder, Lock, Goto, fileVars, tableVars, countVars, historyVars
  <2>3. op[w].src \in Paths /\ op[w].dst \in Paths
    BY <2>2 DEF Shape, OpsOK
  <2>4. MaintTypes'
    BY <2>1, <2>2 DEF Shape, MaintTypeOK, MaintTypes, Phases
  <2>5. \A v \in Workers : pc'[v] \in Writing <=> writer' = v
    BY <2>2, ShapeValues DEF Writing, Shape, MaintTypeOK, MaintTypes
  <2>6. \A v \in Workers : v # w => todo'[v] = todo[v] /\ pc'[v] = pc[v] /\ op'[v] = op[v]
    BY <2>1, <2>2 DEF Shape, MaintTypeOK, MaintTypes
  <2>7. /\ pc'[w] = "folder" /\ op'[w] = op[w] /\ todo'[w] = P
        /\ \A p \in P : Renamed(p, op[w].src, op[w].dst) \in Paths
    BY <2>1, <2>2 DEF Shape, MaintTypeOK, MaintTypes
  <2>8. OpsOK'
    BY <2>3, <2>6, <2>7 DEF Shape, OpsOK
  <2>9. QED
    BY <2>4, <2>5, <2>8 DEF Shape, MaintTypeOK, Writing
<1>4. ASSUME NEW p \in Paths, MoveOne(w, p) PROVE Shape'
  <2>1. PICK new : /\ new = Renamed(p, op[w].src, op[w].dst) /\ pc[w] = "folder" /\ p \in todo[w]
                   /\ txRows' = ReplacedRows(txRows, p, new, {new})
                   /\ txMetas' = ReplacedMetas(txMetas, p, new, {new})
                   /\ todo' = [todo EXCEPT ![w] = @ \ {p}]
    BY <1>4 DEF MoveOne
  <2>2. UNCHANGED <<now, disk, rows, metas, builds, writer, pc, op, dirs, evict, dump, used, ops,
                    events, steady, doubled>>
    BY <1>4 DEF MoveOne, fileVars, tableVars, countVars, historyVars
  <2>3. new \in Paths
    BY <2>1 DEF Shape, OpsOK
  <2>4. txRows' \in Tables /\ txMetas' \subseteq Metas
    <3>1. txRows \in Tables /\ txMetas \in SUBSET Metas
      BY ShapeValues
    <3>2. \A P : ReplacedRows(txRows, p, new, P) \in Tables
      BY <2>3, <3>1, ReplacedValues
    <3>3. \A P : ReplacedMetas(txMetas, p, new, P) \subseteq Metas
      BY <2>3, <3>1, ReplacedValues
    <3>4. QED
      BY <2>1, <3>2, <3>3
  <2>5. todo' \in [Workers -> SUBSET Paths] /\ \A v \in Workers : todo'[v] \subseteq todo[v]
    BY <2>1 DEF Shape, MaintTypeOK, MaintTypes
  <2>6. MaintTypes'
    BY <2>2, <2>4, <2>5 DEF Shape, MaintTypeOK, MaintTypes, Tables
  <2>7. QED
    BY <2>2, <2>5, <2>6, GoesOnShape
<1>5. ASSUME FolderMoved(w) PROVE Shape'
  <2>1. Finish(w) /\ rows' = WithFolders(txRows) /\ metas' = txMetas /\ builds' = builds
    BY <1>5 DEF FolderMoved
  <2>2. rows' \in Tables /\ metas' \subseteq Metas /\ builds' \subseteq Hashes
    BY <2>1, ShapeValues, TableValues DEF Shape, MaintTypeOK, MaintTypes
  <2>3. QED
    BY <2>1, <2>2, FinishShape
<1>6. QED
  BY <1>1, <1>2, <1>3, <1>4, <1>5 DEF Move

LEMMA MetaShape ==
  ASSUME Shape, NEW w \in Workers, Meta(w) PROVE Shape'
<1>1. ASSUME NEW p \in Paths, NEW k \in Keys, MetaBegin(w, p, k) PROVE Shape'
  <2> DEFINE o == [NoOp EXCEPT !.kind = "meta", !.src = p, !.key = k, !.at = now]
             phase == IF k \in Singular THEN "clear" ELSE "insert"
  <2>1. o \in Ops /\ o.src = p /\ o.key = k
    <3>1. now \in 0 .. MaxTime
      BY DEF Shape, MaintTypeOK, MaintTypes
    <3>2. QED
      BY <3>1, NoOpValue, OpValues DEF NoOp
  <2>2. phase \in Phases /\ phase \notin Writing /\ phase # "checked"
    BY DEF Phases, Writing
  <2>3. Start(w, o, phase)
    BY <1>1 DEF MetaBegin
  <2> HIDE DEF o, phase
  <2>4. UNCHANGED <<now, disk, rows, metas, builds, writer, txRows, txMetas, todo, dirs, evict, dump,
                    used, events, steady, doubled>>
    BY <1>1 DEF MetaBegin, fileVars, tableVars, txVars, historyVars
  <2>5. /\ todo' \in [Workers -> SUBSET Paths] /\ dirs' \in [Workers -> SUBSET Paths]
        /\ dump' \in [Workers -> SUBSET Metas] /\ steady' \in [Workers -> BOOLEAN]
        /\ used' \subseteq Ids
    BY <2>4 DEF Shape, MaintTypeOK, MaintTypes
  <2>6. QED
    BY <2>1, <2>2, <2>3, <2>4, <2>5, BeginShape DEF Writing
<1>2. ASSUME SetClear(w) PROVE Shape'
  <2>1. /\ pc[w] = "clear" /\ pc' = [pc EXCEPT ![w] = "insert"] /\ metas' \subseteq metas
        /\ UNCHANGED <<now, disk, rows, builds, writer, txRows, txMetas, op, todo, dirs, evict, dump,
                       used, ops, events, steady, doubled>>
    BY <1>2 DEF SetClear, Goto, fileVars, txVars, countVars, historyVars
  <2>2. MaintTypes'
    BY <2>1 DEF Shape, MaintTypeOK, MaintTypes, Phases
  <2>3. \A v \in Workers : pc'[v] \in Writing <=> writer' = v
    BY <2>1, ShapeValues DEF Writing, Shape, MaintTypeOK, MaintTypes
  <2>4. OpsOK'
    BY <2>1 DEF Shape, OpsOK, MaintTypeOK, MaintTypes
  <2>5. QED
    BY <2>2, <2>3, <2>4 DEF Shape, MaintTypeOK, Writing
<1>3. ASSUME MetaInsert(w) PROVE Shape'
  <2>1. PICK i \in Ids :
          /\ used' = used \union {i}
          /\ metas' = metas \union
               {[id |-> i, path |-> op[w].src, key |-> op[w].key, mtime |-> op[w].at]}
    BY <1>3 DEF MetaInsert
  <2>2. /\ pc[w] = "insert" /\ pc' = [pc EXCEPT ![w] = "idle"] /\ op' = [op EXCEPT ![w] = NoOp]
        /\ UNCHANGED <<now, disk, rows, builds, writer, txRows, txMetas, todo, dirs, evict, dump,
                       ops, events, steady, doubled>>
    BY <1>3 DEF MetaInsert, Goto, fileVars, txVars, historyVars
  <2>3. [id |-> i, path |-> op[w].src, key |-> op[w].key, mtime |-> op[w].at] \in Metas
    <3>1. op[w].src \in Paths /\ op[w].key \in Keys
      BY <2>2 DEF Shape, OpsOK
    <3>2. op[w].at \in 0 .. MaxTime
      BY ShapeValues DEF Ops
    <3>3. QED
      BY <3>1, <3>2 DEF Metas
  <2>4. metas' \subseteq Metas /\ used' \subseteq Ids
    BY <2>1, <2>3 DEF Shape, MaintTypeOK, MaintTypes
  <2>5. MaintTypes'
    BY <2>2, <2>4, NoOpValue DEF Shape, MaintTypeOK, MaintTypes, Phases
  <2>6. \A v \in Workers : pc'[v] \in Writing <=> writer' = v
    BY <2>2, ShapeValues DEF Writing, Shape, MaintTypeOK, MaintTypes
  <2>7. OpsOK'
    BY <2>2 DEF Shape, OpsOK, MaintTypeOK, MaintTypes
  <2>8. QED
    BY <2>5, <2>6, <2>7 DEF Shape, MaintTypeOK, Writing
<1>4. ASSUME NEW D \in Dumps, RestoreBegin(w, D) PROVE Shape'
  <2> DEFINE o == [NoOp EXCEPT !.kind = "restore"]
  <2>1. o \in Ops /\ o.kind = "restore" /\ "restoring" \in Phases
    BY NoOpValue, OpValues DEF Phases, NoOp
  <2>2. Start(w, o, "restoring") /\ Lock(w)
    BY <1>4 DEF RestoreBegin
  <2> HIDE DEF o
  <2>3. /\ dump' = [dump EXCEPT ![w] = D] /\ used' = used \union {m.id : m \in D}
        /\ UNCHANGED <<now, disk, rows, metas, builds, todo, dirs, evict, events, steady, doubled>>
    BY <1>4 DEF RestoreBegin, fileVars, tableVars, historyVars
  <2>4. D \in SUBSET Metas /\ {m.id : m \in D} \subseteq Ids
    BY DEF Metas
  <2>5. /\ todo' \in [Workers -> SUBSET Paths] /\ dirs' \in [Workers -> SUBSET Paths]
        /\ dump' \in [Workers -> SUBSET Metas] /\ steady' \in [Workers -> BOOLEAN]
        /\ used' \subseteq Ids
    BY <2>3, <2>4 DEF Shape, MaintTypeOK, MaintTypes
  <2>6. QED
    BY <2>1, <2>2, <2>3, <2>5, BeginShape DEF Writing
<1>5. ASSUME NEW m \in Metas, RestoreOne(w, m) PROVE Shape'
  <2>1. /\ dump' = [dump EXCEPT ![w] = @ \ {m}] /\ txMetas' = Restored(txMetas, m)
        /\ UNCHANGED <<now, disk, rows, metas, builds, writer, txRows, pc, op, todo, dirs, evict,
                       used, ops, events, steady, doubled>>
    BY <1>5 DEF RestoreOne, fileVars, tableVars, countVars, historyVars
  <2>2. Restored(txMetas, m) \subseteq Metas
    BY ShapeValues, RestoredValues
  <2>3. MaintTypes'
    BY <2>1, <2>2 DEF Shape, MaintTypeOK, MaintTypes
  <2>4. QED
    BY <2>1, <2>3, GoesOnShape
<1>6. ASSUME RestoreEnd(w) PROVE Shape'
  <2>1. Finish(w) /\ rows' = txRows /\ metas' = txMetas /\ builds' = builds
    BY <1>6 DEF RestoreEnd, Commit
  <2>2. builds \subseteq Hashes
    BY DEF Shape, MaintTypeOK, MaintTypes
  <2>3. QED
    BY <2>1, <2>2, ShapeValues, FinishShape
<1>7. QED
  BY <1>1, <1>2, <1>3, <1>4, <1>5, <1>6 DEF Meta

LEMMA AroundShape == ASSUME Shape, Around PROVE Shape'
<1> USE DEF Event
<1>1. ASSUME NEW p \in Paths, NEW h \in Hashes, WriteFile(p, h) PROVE Shape'
  <2>1. /\ now < MaxTime /\ now' = now + 1 /\ events < MaxEvents /\ events' = events + 1
        /\ disk' = [q \in Paths |-> IF q = p THEN [mtime |-> now + 1, hash |-> h]
                                    ELSE IF q \in Ancestors(p) THEN DirRow ELSE disk[q]]
        /\ steady' = [v \in Workers |-> FALSE]
        /\ UNCHANGED <<rows, metas, builds, writer, txRows, txMetas, pc, op, todo, dirs, evict, dump,
                       used, ops, doubled>>
    BY <1>1 DEF WriteFile, Touched, tableVars, txVars, workVars
  <2>2. now \in 0 .. MaxTime /\ events \in 0 .. MaxEvents /\ disk \in [Paths -> Rows \union {None}]
    BY DEF Shape, MaintTypeOK, MaintTypes
  <2>3. now' \in 0 .. MaxTime /\ events' \in 0 .. MaxEvents
    BY <2>1, <2>2
  <2>4. [mtime |-> now + 1, hash |-> h] \in Rows /\ DirRow \in Rows
    BY <2>1, <2>3 DEF Rows, Contents
  <2>5. disk' \in [Paths -> Rows \union {None}]
    BY <2>1, <2>2, <2>4
  <2>6. MaintTypes'
    BY <2>1, <2>3, <2>5 DEF Shape, MaintTypeOK, MaintTypes
  <2>7. QED
    BY <2>1, <2>6, GoesOnShape
<1>2. events' = events + 1 /\ events < MaxEvents => events' \in 0 .. MaxEvents
  BY DEF Shape, MaintTypeOK, MaintTypes
<1>3. ASSUME NEW p \in Paths, DeleteFile(p) PROVE Shape'
  <2>1. /\ events < MaxEvents /\ events' = events + 1
        /\ disk' = Without(disk, {q \in Paths : q = p \/ Below(q, p)})
        /\ steady' = [v \in Workers |-> FALSE]
        /\ UNCHANGED <<now, rows, metas, builds, writer, txRows, txMetas, pc, op, todo, dirs, evict,
                       dump, used, ops, doubled>>
    BY <1>3 DEF DeleteFile, Touched, tableVars, txVars, workVars
  <2>2. disk' \in Tables
    BY <2>1, ShapeValues, TableValues
  <2>3. MaintTypes'
    BY <1>2, <2>1, <2>2 DEF Shape, MaintTypeOK, MaintTypes, Tables
  <2>4. QED
    BY <2>1, <2>3, GoesOnShape
<1>4. ASSUME NEW p \in Paths, Index(p) PROVE Shape'
  <2>1. /\ events < MaxEvents /\ events' = events + 1 /\ Doubles(rows, p, disk[p].hash)
        /\ rows' = [q \in Paths |-> IF q = p THEN disk[p]
                                    ELSE IF q \in Ancestors(p) /\ rows[q] = None THEN DirRow
                                    ELSE rows[q]]
        /\ UNCHANGED <<now, disk, metas, builds, writer, txRows, txMetas, pc, op, todo, dirs, evict,
                       dump, used, ops, steady>>
    BY <1>4 DEF Index, fileVars, txVars, workVars
  <2>2. rows' \in [Paths -> Rows \union {None}]
    BY <2>1 DEF Shape, MaintTypeOK, MaintTypes, Rows
  <2>3. doubled' \subseteq Hashes
    BY <2>1, ShapeValues, DoublesValues DEF Shape, MaintTypeOK
  <2>4. MaintTypes'
    BY <1>2, <2>1, <2>2, <2>3 DEF Shape, MaintTypeOK, MaintTypes
  <2>5. QED
    BY <2>1, <2>4, GoesOnShape
<1>5. ASSUME NEW h \in Hashes, Build(h) PROVE Shape'
  <2>1. /\ events < MaxEvents /\ events' = events + 1 /\ builds' = builds \union {h}
        /\ UNCHANGED <<now, disk, rows, metas, writer, txRows, txMetas, pc, op, todo, dirs, evict,
                       dump, used, ops, steady, doubled>>
    BY <1>5 DEF Build, fileVars, tableVars, txVars, workVars, historyVars
  <2>2. MaintTypes'
    BY <1>2, <2>1 DEF Shape, MaintTypeOK, MaintTypes
  <2>3. QED
    BY <2>1, <2>2, GoesOnShape
<1>6. ASSUME NEW M, MetaRemove(M) PROVE Shape'
  <2>1. /\ events < MaxEvents /\ events' = events + 1 /\ metas' = metas \ M
        /\ UNCHANGED <<now, disk, rows, builds, writer, txRows, txMetas, pc, op, todo, dirs, evict,
                       dump, used, ops, steady, doubled>>
    BY <1>6 DEF MetaRemove, fileVars, txVars, workVars, historyVars
  <2>2. MaintTypes'
    BY <1>2, <2>1 DEF Shape, MaintTypeOK, MaintTypes
  <2>3. QED
    BY <2>1, <2>2, GoesOnShape
<1>7. QED
  BY <1>1, <1>3, <1>4, <1>5, <1>6 DEF Around, Unset, BulkRemove

LEMMA StepShape == Shape /\ [MaintNext]_maintVars => Shape'
<1> SUFFICES ASSUME Shape, [MaintNext]_maintVars PROVE Shape'
  OBVIOUS
<1>1. ASSUME NEW w \in Workers, GiveUp(w) PROVE Shape'
  <2>1. Finish(w) /\ UNCHANGED <<rows, metas, builds>>
    BY <1>1 DEF GiveUp, tableVars
  <2>2. rows' \in Tables /\ metas' \subseteq Metas /\ builds' \subseteq Hashes
    BY <2>1, ShapeValues DEF Shape, MaintTypeOK, MaintTypes
  <2>3. QED
    BY <2>1, <2>2, FinishShape
<1>2. CASE UNCHANGED maintVars
  BY <1>2 DEF Shape, MaintTypeOK, MaintTypes, OpsOK, maintVars, fileVars, tableVars, txVars,
              workVars, countVars, historyVars
<1>3. QED
  BY <1>1, <1>2, RemovingShape, ScanShape, MoveShape, MetaShape, AroundShape DEF MaintNext

\* Type correctness of what maintains the index, with the agreement of the write lock
\* and the operations that hold it (dbops.cpp, metamanager.cpp).
THEOREM MaintTypeCorrect == MaintSpec => []MaintTypeOK
<1>1. Shape => MaintTypeOK
  BY DEF Shape
<1>2. QED
  BY InitShape, StepShape, <1>1, PTL DEF MaintSpec

------------------------------------------------------------------------------
\* What the steps do to the tables, the transaction and the metadata.

\* Neither a row comes or goes, nor does the transaction move.
Quiet ==
  /\ UNCHANGED <<rows, used, writer, txRows, txMetas, doubled>>
  /\ metas' \subseteq metas
  /\ writer # None => metas' = metas
  /\ \A v \in Workers :
       /\ dump'[v] \subseteq dump[v] /\ evict'[v] \subseteq evict[v]
       /\ pc'[v] \in Writing => pc'[v] = pc[v] /\ op'[v] = op[v] /\ todo'[v] = todo[v]
       /\ pc'[v] = "scan" /\ steady'[v] => steady[v] /\ disk' = disk

Deletes(w, P) ==
  /\ DeleteFromIndex(w, P)
  /\ pc'[w] \notin Writing

Locks(w) ==
  /\ Lock(w)
  /\ UNCHANGED <<rows, metas, evict, doubled>>
  /\ used \subseteq used'
  /\ \A v \in Workers : \A m \in dump'[v] : m \in dump[v] \/ m.id \in used'
  /\ pc'[w] = "scan" =>
       /\ op'[w].kind = "sync" => todo'[w] = Entries(rows)
       /\ op'[w].kind = "rescan" => todo'[w] = FilesIn(rows)
  /\ pc'[w] = "folder" => MoveFolder(w)

Ends(w) ==
  /\ writer = w /\ writer' = None /\ txMetas' = {} /\ pc'[w] = "idle"
  /\ UNCHANGED <<used, doubled>>
  /\ \A v \in Workers : dump'[v] \subseteq dump[v] /\ evict'[v] \subseteq evict[v]
  /\ \/ rows' = rows /\ metas' = metas
     \/ rows' = txRows /\ metas' = txMetas /\ pc[w] \in {"scan", "restoring"}
     \/ rows' = WithFolders(txRows) /\ metas' = txMetas /\ pc[w] = "folder"

LEMMA FinishSteps ==
  ASSUME Shape, NEW w \in Workers, Finish(w)
  PROVE  /\ rows' = rows /\ metas' = metas /\ writer # w => Quiet
         /\ /\ writer = w
            /\ \/ rows' = rows /\ metas' = metas
               \/ rows' = txRows /\ metas' = txMetas /\ pc[w] \in {"scan", "restoring"}
               \/ rows' = WithFolders(txRows) /\ metas' = txMetas /\ pc[w] = "folder"
            => Ends(w)
<1>1. /\ pc' = [pc EXCEPT ![w] = "idle"] /\ op' = [op EXCEPT ![w] = NoOp]
      /\ todo' = [todo EXCEPT ![w] = {}] /\ steady' = [steady EXCEPT ![w] = FALSE]
      /\ evict' = [evict EXCEPT ![w] = {}] /\ dump' = [dump EXCEPT ![w] = {}]
      /\ UNCHANGED <<disk, used, doubled>>
      /\ IF writer = w
           THEN writer' = None /\ txRows' = Without(rows, Paths) /\ txMetas' = {}
           ELSE UNCHANGED <<writer, txRows, txMetas>>
  BY DEF Finish, Goto, fileVars, countVars, txVars
<1>2. /\ pc \in [Workers -> Phases] /\ op \in [Workers -> Ops]
      /\ todo \in [Workers -> SUBSET Paths] /\ steady \in [Workers -> BOOLEAN]
      /\ evict \in [Workers -> SUBSET Hashes] /\ dump \in [Workers -> SUBSET Metas]
  BY DEF Shape, MaintTypeOK, MaintTypes
<1>3. /\ \A v \in Workers : dump'[v] \subseteq dump[v] /\ evict'[v] \subseteq evict[v]
      /\ \A v \in Workers : v # w => pc'[v] = pc[v] /\ op'[v] = op[v] /\ todo'[v] = todo[v]
                                     /\ steady'[v] = steady[v]
      /\ pc'[w] = "idle"
  BY <1>1, <1>2
<1>4. QED
  BY <1>1, <1>3 DEF Quiet, Ends, Writing

LEMMA StartSteps ==
  ASSUME Shape, NEW w \in Workers, NEW o, NEW phase, phase \notin Writing, Start(w, o, phase),
         UNCHANGED <<disk, rows, metas, writer, txRows, txMetas, evict, dump, used, steady, doubled>>,
         NEW P, todo' = [todo EXCEPT ![w] = P] \/ todo' = todo
  PROVE  Quiet
<1>1. pc' = [pc EXCEPT ![w] = phase] /\ op' = [op EXCEPT ![w] = o]
  BY DEF Start, Goto
<1>2. /\ pc \in [Workers -> Phases] /\ op \in [Workers -> Ops]
      /\ todo \in [Workers -> SUBSET Paths]
  BY DEF Shape, MaintTypeOK, MaintTypes
<1>3. /\ \A v \in Workers : v # w => pc'[v] = pc[v] /\ op'[v] = op[v] /\ todo'[v] = todo[v]
      /\ pc'[w] = phase
  BY <1>1, <1>2
<1>4. QED
  BY <1>3 DEF Quiet, Writing

LEMMA RemovingSteps ==
  ASSUME Shape, NEW w \in Workers, Removing(w)
  PROVE  Quiet \/ \E P \in SUBSET Paths : Deletes(w, P)
<1>1. ASSUME NEW q \in Paths, RemoveMatch(w, q) PROVE Quiet
  <2>1. PICK o, P : Start(w, o, "named") /\ todo' = [todo EXCEPT ![w] = P]
    BY <1>1 DEF RemoveMatch
  <2>2. UNCHANGED <<disk, rows, metas, writer, txRows, txMetas, evict, dump, used, steady, doubled>>
    BY <1>1 DEF RemoveMatch, fileVars, tableVars, txVars, historyVars
  <2>3. QED
    BY <2>1, <2>2, StartSteps DEF Writing
<1>2. ASSUME NEW p \in Paths, RemoveNamed(w, p) PROVE \E P \in SUBSET Paths : Deletes(w, P)
  <2>1. DeleteFromIndex(w, {x \in Paths : Matches(x, p)})
    BY <1>2 DEF RemoveNamed
  <2>2. pc'[w] \notin Writing
    BY <1>2 DEF RemoveNamed, Goto, Writing, Shape, MaintTypeOK, MaintTypes
  <2>3. QED
    BY <2>1, <2>2 DEF Deletes
<1>3. ASSUME RemoveBelow(w) PROVE \E P \in SUBSET Paths : Deletes(w, P)
  <2>1. DeleteFromIndex(w, {x \in Paths : MatchesBelow(x, op[w].src)})
    BY <1>3 DEF RemoveBelow
  <2>2. pc'[w] \notin Writing
    BY <1>3 DEF RemoveBelow, Goto, Writing, Shape, MaintTypeOK, MaintTypes
  <2>3. QED
    BY <2>1, <2>2 DEF Deletes
<1>4. ASSUME NEW h \in Hashes, Evict(w, h) PROVE Quiet
  <2>1. /\ evict' = [evict EXCEPT ![w] = @ \ {h}]
        /\ UNCHANGED <<disk, rows, metas, writer, txRows, txMetas, pc, op, todo, dump, used, steady,
                       doubled>>
    BY <1>4 DEF Evict, fileVars, tableVars, txVars, countVars, historyVars
  <2>2. \A v \in Workers : evict'[v] \subseteq evict[v]
    BY <2>1 DEF Shape, MaintTypeOK, MaintTypes
  <2>3. QED
    BY <2>1, <2>2 DEF Quiet
<1>5. ASSUME Removed(w) PROVE Quiet
  <2>1. Finish(w) /\ rows' = rows /\ metas' = metas /\ pc[w] = "named"
    BY <1>5 DEF Removed, tableVars
  <2>2. writer # w
    BY <2>1, ShapeValues DEF Writing
  <2>3. QED
    BY <2>1, <2>2, FinishSteps
<1>6. QED
  BY <1>1, <1>2, <1>3, <1>4, <1>5 DEF Removing

Reads(w, p) ==
  \/ SyncGone(w, p) \/ SyncSame(w, p) \/ SyncChanged(w, p) \/ RescanRead(w, p) \/ RescanSkip(w, p)

LEMMA ScanSteps ==
  ASSUME Shape, NEW w \in Workers, Scan(w)
  PROVE  Locks(w) \/ (\E p \in Paths : Reads(w, p)) \/ Ends(w)
<1>1. ASSUME NEW kind \in {"sync", "rescan"}, NEW strict \in BOOLEAN, ScanBegin(w, kind, strict)
      PROVE  Locks(w)
  <2>1. /\ Lock(w) /\ UNCHANGED <<rows, metas, evict, dump, used, doubled>>
        /\ todo' = [todo EXCEPT ![w] = IF kind = "sync" THEN Entries(rows) ELSE FilesIn(rows)]
        /\ op' = [op EXCEPT ![w] = [NoOp EXCEPT !.kind = kind, !.strict = strict]]
        /\ pc' = [pc EXCEPT ![w] = "scan"]
    BY <1>1 DEF ScanBegin, Start, Goto, tableVars
  <2>2. /\ pc'[w] = "scan"
        /\ todo'[w] = IF kind = "sync" THEN Entries(rows) ELSE FilesIn(rows)
        /\ op'[w].kind = kind
    BY <2>1 DEF Shape, MaintTypeOK, MaintTypes, NoOp
  <2>3. QED
    BY <2>1, <2>2 DEF Locks
<1>2. ASSUME ScanEnd(w) PROVE Ends(w)
  <2>1. pc[w] = "scan" /\ Finish(w) /\ rows' = txRows /\ metas' = txMetas
    BY <1>2 DEF ScanEnd, Commit
  <2>2. writer = w
    BY <2>1, ShapeValues DEF Writing
  <2>3. QED
    BY <2>1, <2>2, FinishSteps
<1>3. QED
  BY <1>1, <1>2 DEF Scan, Reads

LEMMA MoveSteps ==
  ASSUME Shape, NEW w \in Workers, Move(w)
  PROVE  Quiet \/ MoveFile(w) \/ Locks(w) \/ (\E p \in Paths : MoveOne(w, p)) \/ Ends(w)
<1>1. ASSUME NEW src \in Paths, NEW dst \in Paths, MoveCheck(w, src, dst) PROVE Quiet
  <2>1. PICK o, P : Start(w, o, "checked") /\ todo' = [todo EXCEPT ![w] = P]
    BY <1>1 DEF MoveCheck
  <2>2. UNCHANGED <<disk, rows, metas, writer, txRows, txMetas, evict, dump, used, steady, doubled>>
    BY <1>1 DEF MoveCheck, fileVars, tableVars, txVars, historyVars
  <2>3. QED
    BY <2>1, <2>2, StartSteps DEF Writing
<1>2. ASSUME MoveFolder(w) PROVE Locks(w)
  <2>1. Lock(w) /\ UNCHANGED <<rows, metas, evict, dump, used, doubled>> /\ pc'[w] = "folder"
    BY <1>2 DEF MoveFolder, Goto, tableVars, countVars, historyVars, Shape, MaintTypeOK, MaintTypes
  <2>2. QED
    BY <1>2, <2>1 DEF Locks
<1>3. ASSUME FolderMoved(w) PROVE Ends(w)
  <2>1. pc[w] = "folder" /\ Finish(w) /\ rows' = WithFolders(txRows) /\ metas' = txMetas
    BY <1>3 DEF FolderMoved
  <2>2. writer = w
    BY <2>1, ShapeValues DEF Writing
  <2>3. QED
    BY <2>1, <2>2, FinishSteps
<1>4. QED
  BY <1>1, <1>2, <1>3 DEF Move

LEMMA MetaSteps ==
  ASSUME Shape, NEW w \in Workers, Meta(w)
  PROVE  Quiet \/ MetaInsert(w) \/ Locks(w) \/ (\E m \in Metas : RestoreOne(w, m)) \/ Ends(w)
<1>1. ASSUME NEW p \in Paths, NEW k \in Keys, MetaBegin(w, p, k) PROVE Quiet
  <2>1. PICK o, phase : Start(w, o, phase) /\ phase \in {"clear", "insert"} /\ todo' = todo
    BY <1>1 DEF MetaBegin
  <2>2. UNCHANGED <<disk, rows, metas, writer, txRows, txMetas, evict, dump, used, steady, doubled>>
    BY <1>1 DEF MetaBegin, fileVars, tableVars, txVars, historyVars
  <2>3. phase \notin Writing
    BY <2>1 DEF Writing
  <2>4. QED
    BY <2>1, <2>2, <2>3, StartSteps
<1>2. ASSUME SetClear(w) PROVE Quiet
  <2>1. /\ pc' = [pc EXCEPT ![w] = "insert"] /\ metas' \subseteq metas /\ writer = None
        /\ UNCHANGED <<disk, rows, writer, txRows, txMetas, op, todo, evict, dump, used, steady,
                       doubled>>
    BY <1>2 DEF SetClear, Goto, fileVars, txVars, countVars, historyVars
  <2>2. \A v \in Workers : pc'[v] \in {pc[v], "insert"}
    BY <2>1 DEF Shape, MaintTypeOK, MaintTypes
  <2>3. QED
    BY <2>1, <2>2 DEF Quiet, Writing
<1>3. ASSUME NEW D \in Dumps, RestoreBegin(w, D) PROVE Locks(w)
  <2>1. /\ Lock(w) /\ UNCHANGED <<rows, metas, evict, doubled>>
        /\ dump' = [dump EXCEPT ![w] = D] /\ used' = used \union {m.id : m \in D}
        /\ pc' = [pc EXCEPT ![w] = "restoring"]
    BY <1>3 DEF RestoreBegin, Start, Goto, tableVars, historyVars
  <2>2. pc'[w] = "restoring" /\ \A v \in Workers : dump'[v] \in {dump[v], D}
    BY <2>1 DEF Shape, MaintTypeOK, MaintTypes
  <2>3. QED
    BY <2>1, <2>2 DEF Locks
<1>4. ASSUME RestoreEnd(w) PROVE Ends(w)
  <2>1. pc[w] = "restoring" /\ Finish(w) /\ rows' = txRows /\ metas' = txMetas
    BY <1>4 DEF RestoreEnd, Commit
  <2>2. writer = w
    BY <2>1, ShapeValues DEF Writing
  <2>3. QED
    BY <2>1, <2>2, FinishSteps
<1>5. QED
  BY <1>1, <1>2, <1>3, <1>4 DEF Meta

LEMMA AroundSteps ==
  ASSUME Shape, Around
  PROVE  Quiet \/ \E p \in Paths : Index(p)
<1>1. ASSUME NEW p \in Paths, (\E h \in Hashes : WriteFile(p, h)) \/ DeleteFile(p) PROVE Quiet
  <2>1. /\ steady' = [v \in Workers |-> FALSE]
        /\ UNCHANGED <<rows, metas, writer, txRows, txMetas, pc, op, todo, evict, dump, used, doubled>>
    BY <1>1 DEF WriteFile, DeleteFile, Touched, tableVars, txVars, workVars
  <2>2. QED
    BY <2>1 DEF Quiet
<1>2. ASSUME NEW h \in Hashes, Build(h) PROVE Quiet
  BY <1>2 DEF Build, Quiet, fileVars, tableVars, txVars, workVars, historyVars
<1>3. ASSUME NEW M, MetaRemove(M) PROVE Quiet
  BY <1>3 DEF MetaRemove, Quiet, fileVars, txVars, workVars, historyVars
<1>4. QED
  BY <1>1, <1>2, <1>3 DEF Around, Unset, BulkRemove

LEMMA MaintSteps ==
  ASSUME Shape, [MaintNext]_maintVars
  PROVE  \/ Quiet
         \/ \E p \in Paths : Index(p)
         \/ \E w \in Workers :
              \/ \E P \in SUBSET Paths : Deletes(w, P)
              \/ MoveFile(w) \/ MetaInsert(w) \/ Locks(w) \/ Ends(w)
              \/ \E p \in Paths : Reads(w, p) \/ MoveOne(w, p)
              \/ \E m \in Metas : RestoreOne(w, m)
<1>1. ASSUME NEW w \in Workers, GiveUp(w) PROVE Quiet \/ Ends(w)
  <2>1. Finish(w) /\ rows' = rows /\ metas' = metas
    BY <1>1 DEF GiveUp, tableVars
  <2>2. QED
    BY <2>1, FinishSteps
<1>2. CASE UNCHANGED maintVars
  BY <1>2 DEF Quiet, maintVars, fileVars, tableVars, txVars, workVars, countVars, historyVars
<1>3. CASE \E w \in Workers : Removing(w) \/ Scan(w) \/ Move(w) \/ Meta(w) \/ GiveUp(w)
  <2>1. PICK w \in Workers : Removing(w) \/ Scan(w) \/ Move(w) \/ Meta(w) \/ GiveUp(w)
    BY <1>3
  <2>2. QED
    BY <1>1, <2>1, RemovingSteps, ScanSteps, MoveSteps, MetaSteps
<1>4. CASE Around
  BY <1>4, AroundSteps
<1>5. QED
  BY <1>2, <1>3, <1>4 DEF MaintNext

------------------------------------------------------------------------------
\* Metadata and entries.  The transaction of a scan or a move keeps, record by record,
\* what the index that it started from had.

Unique(M) == \A m, n \in M : m.id = n.id => m = n
Carries(R, M, R2, M2) ==
  \A m \in M, n \in M2 : m.id = n.id /\ R[m.path] # None => R2[n.path] # None

RecordsInv ==
  /\ \A m \in metas \union txMetas : m.id \in used
  /\ \A w \in Workers : \A m \in dump[w] : m.id \in used
  /\ Unique(metas) /\ Unique(txMetas)
  /\ \A w \in Workers : pc[w] \in {"scan", "folder"} => Carries(rows, metas, txRows, txMetas)

\* Records go with the row that is replaced.
LEMMA ReplacedCarries ==
  ASSUME NEW R \in Tables, NEW M \in SUBSET Metas, NEW src \in Paths, NEW dst \in Paths, NEW P,
         NEW n \in ReplacedMetas(M, src, dst, P)
  PROVE  \E k \in M :
           /\ k.id = n.id
           /\ n = IF k.path = src THEN [k EXCEPT !.path = dst] ELSE k
           /\ R[k.path] # None => ReplacedRows(R, src, dst, P)[n.path] # None
<1>1. PICK k \in M : /\ k \notin MetasOf(M, P)
                     /\ n = IF k.path = src THEN [k EXCEPT !.path = dst] ELSE k
  BY DEF ReplacedMetas
<1>2. k \in Metas /\ k.path \in Paths /\ k.path \notin P
  BY <1>1 DEF Metas, MetasOf
<1>3. n.id = k.id /\ n.path = IF k.path = src THEN dst ELSE k.path
  BY <1>1, <1>2 DEF Metas
<1>4. ASSUME R[k.path] # None PROVE ReplacedRows(R, src, dst, P)[n.path] # None
  <2> DEFINE R1 == Without(R, P)
  <2>1. R1 \in [Paths -> Rows \union {None}] /\ R1[k.path] # None
    BY <1>2, <1>4, TableValues DEF Tables, Without
  <2>2. ReplacedRows(R, src, dst, P)
          = IF R1[src] = None THEN R1 ELSE [R1 EXCEPT ![src] = None, ![dst] = R1[src]]
    BY DEF ReplacedRows
  <2> HIDE DEF R1
  <2>3. CASE R1[src] = None
    BY <1>3, <2>1, <2>2, <2>3
  <2>4. CASE R1[src] # None
    BY <1>2, <1>3, <2>1, <2>2, <2>4
  <2>5. QED
    BY <2>3, <2>4
<1>5. QED
  BY <1>1, <1>3, <1>4

LEMMA ReplacedUnique ==
  ASSUME NEW M \in SUBSET Metas, Unique(M), NEW src \in Paths, NEW dst \in Paths, NEW P
  PROVE  /\ Unique(ReplacedMetas(M, src, dst, P))
         /\ \A n \in ReplacedMetas(M, src, dst, P) : \E k \in M : k.id = n.id
<1> DEFINE N == ReplacedMetas(M, src, dst, P)
           To(k) == IF k.path = src THEN [k EXCEPT !.path = dst] ELSE k
<1>1. \A n \in N : \E k \in M : n = To(k)
  BY DEF ReplacedMetas
<1>2. \A k \in M : To(k).id = k.id
  BY DEF Metas
<1> HIDE DEF N, To
<1>3. Unique(N)
  BY <1>1, <1>2 DEF Unique
<1>4. QED
  BY <1>1, <1>2, <1>3 DEF N

LEMMA RestoredUnique ==
  ASSUME NEW M \in SUBSET Metas, Unique(M), NEW m \in Metas
  PROVE  Unique(Restored(M, m)) /\ Restored(M, m) \subseteq M \union {m}
BY DEF Restored, Unique

LEMMA InitRecords == MaintInit => RecordsInv
BY DEF MaintInit, RecordsInv, Unique

\* The transaction of a scan.
LEMMA ReadsValues ==
  ASSUME Shape, NEW w \in Workers, NEW p \in Paths, Reads(w, p)
  PROVE  /\ pc[w] = "scan" /\ writer = w /\ p \in todo[w]
         /\ todo' = [todo EXCEPT ![w] = @ \ {p}]
         /\ UNCHANGED <<disk, rows, metas, writer, pc, op, evict, dump, used, steady>>
         /\ \/ txRows' = txRows /\ txMetas' = txMetas /\ doubled' = doubled
            \/ /\ txRows' = Without(txRows, {p}) /\ txMetas' = txMetas \ MetasOf(txMetas, {p})
               /\ disk[p] = None /\ doubled' = doubled /\ op[w].kind = "sync"
            \/ /\ txRows' = [txRows EXCEPT ![p] = disk[p]] /\ txMetas' = txMetas
               /\ disk[p] # None /\ Doubles(txRows, p, disk[p].hash)
<1>1. /\ pc[w] = "scan" /\ p \in todo[w]
      /\ \E R, M : Scanned(w, p, R, M)
  BY DEF Reads, SyncGone, SyncSame, SyncChanged, RescanRead, RescanSkip, Scanning
<1>2. /\ todo' = [todo EXCEPT ![w] = @ \ {p}]
      /\ UNCHANGED <<disk, rows, metas, writer, pc, op, evict, dump, used, steady>>
  BY <1>1 DEF Scanned, fileVars, tableVars, countVars
<1>3. writer = w
  BY <1>1, ShapeValues DEF Writing
<1>4. \/ txRows' = txRows /\ txMetas' = txMetas /\ doubled' = doubled
      \/ /\ txRows' = Without(txRows, {p}) /\ txMetas' = txMetas \ MetasOf(txMetas, {p})
         /\ disk[p] = None /\ doubled' = doubled /\ op[w].kind = "sync"
      \/ /\ txRows' = [txRows EXCEPT ![p] = disk[p]] /\ txMetas' = txMetas
         /\ disk[p] # None /\ Doubles(txRows, p, disk[p].hash)
  <2>1. CASE SyncGone(w, p)
    BY <2>1 DEF SyncGone, Scanned, Scanning
  <2>2. CASE SyncSame(w, p) \/ RescanSkip(w, p)
    BY <2>2 DEF SyncSame, RescanSkip, Scanned
  <2>3. CASE SyncChanged(w, p) \/ RescanRead(w, p)
    BY <2>3 DEF SyncChanged, RescanRead, Scanned, FilesIn, Entries
  <2>4. QED
    BY <2>1, <2>2, <2>3 DEF Reads
<1>5. QED
  BY <1>1, <1>2, <1>3, <1>4

LEMMA MoveValues ==
  ASSUME Shape, NEW w \in Workers, NEW p \in Paths, MoveOne(w, p)
  PROVE  /\ pc[w] = "folder" /\ writer = w
         /\ UNCHANGED <<disk, rows, metas, writer, pc, op, evict, dump, used, steady, doubled>>
         /\ \E new \in Paths : /\ txRows' = ReplacedRows(txRows, p, new, {new})
                               /\ txMetas' = ReplacedMetas(txMetas, p, new, {new})
<1>1. PICK new : /\ new = Renamed(p, op[w].src, op[w].dst) /\ pc[w] = "folder" /\ p \in todo[w]
                 /\ txRows' = ReplacedRows(txRows, p, new, {new})
                 /\ txMetas' = ReplacedMetas(txMetas, p, new, {new})
  BY DEF MoveOne
<1>2. UNCHANGED <<disk, rows, metas, writer, pc, op, evict, dump, used, steady, doubled>>
  BY DEF MoveOne, fileVars, tableVars, countVars, historyVars
<1>3. new \in Paths /\ writer = w
  BY <1>1, ShapeValues DEF Shape, OpsOK, Writing
<1>4. QED
  BY <1>1, <1>2, <1>3

LEMMA MoveFileValues ==
  ASSUME Shape, NEW w \in Workers, MoveFile(w)
  PROVE  /\ writer = None
         /\ UNCHANGED <<disk, writer, txRows, txMetas, used, doubled>>
         /\ \A v \in Workers : dump'[v] \subseteq dump[v] /\ evict'[v] \subseteq evict[v]
         /\ \E src, dst \in Paths, P \in SUBSET Paths :
              /\ rows' = ReplacedRows(rows, src, dst, P)
              /\ metas' = ReplacedMetas(metas, src, dst, P)
<1>1. /\ pc[w] = "checked" /\ writer = None /\ Finish(w)
      /\ rows' = ReplacedRows(rows, op[w].src, op[w].dst, todo[w])
      /\ metas' = ReplacedMetas(metas, op[w].src, op[w].dst, todo[w])
  BY DEF MoveFile
<1>2. /\ op[w].src \in Paths /\ op[w].dst \in Paths /\ todo[w] \in SUBSET Paths
  BY <1>1, ShapeValues DEF Shape, OpsOK
<1>3. /\ UNCHANGED <<disk, writer, txRows, txMetas, used, doubled>>
      /\ \A v \in Workers : dump'[v] \subseteq dump[v] /\ evict'[v] \subseteq evict[v]
  BY <1>1 DEF Finish, fileVars, countVars, txVars, Shape, MaintTypeOK, MaintTypes
<1>4. QED
  BY <1>1, <1>2, <1>3

\* Without a writer there is no transaction of a scan or a move.
LEMMA NoneWrites ==
  ASSUME Shape, writer = None PROVE \A w \in Workers : pc[w] \notin Writing
BY ShapeValues

\* Where no transaction goes on, only the ids count.
LEMMA RecordsWithoutWriter ==
  ASSUME Shape, Shape', RecordsInv, writer' = None, used \subseteq used',
         \A m \in metas' : m.id \in used', Unique(metas)', txMetas' \subseteq txMetas,
         \A w \in Workers : dump'[w] \subseteq dump[w]
  PROVE  RecordsInv'
<1>1. \A w \in Workers : pc'[w] \notin Writing
  <2>1. \A w \in Workers : pc'[w] \in Writing <=> writer' = w
    BY DEF Shape, MaintTypeOK, Writing
  <2>2. QED
    BY <2>1
<1>2. Unique(txMetas)'
  BY DEF RecordsInv, Unique
<1>3. QED
  BY <1>1, <1>2 DEF RecordsInv, Writing

LEMMA StepRecords ==
  ASSUME Shape, Shape', RecordsInv, [MaintNext]_maintVars
  PROVE  RecordsInv'
<1>1. CASE Quiet
  BY <1>1 DEF Quiet, RecordsInv, Unique, Carries, Writing
<1>2. ASSUME NEW p \in Paths, Index(p) PROVE RecordsInv'
  <2>1. writer' = None /\ UNCHANGED <<metas, txMetas, dump, used>>
    BY <1>2 DEF Index, txVars, workVars
  <2>2. QED
    BY <2>1, RecordsWithoutWriter DEF RecordsInv, Unique
<1>3. ASSUME NEW w \in Workers, NEW P \in SUBSET Paths, Deletes(w, P) PROVE RecordsInv'
  <2>1. writer' = None /\ metas' \subseteq metas /\ UNCHANGED <<txMetas, dump, used>>
    BY <1>3 DEF Deletes, DeleteFromIndex, txVars, countVars
  <2>2. QED
    BY <2>1, RecordsWithoutWriter DEF RecordsInv, Unique
<1>4. ASSUME NEW w \in Workers, MoveFile(w) PROVE RecordsInv'
  <2>1. /\ writer' = None /\ UNCHANGED <<txMetas, used>>
        /\ \A v \in Workers : dump'[v] \subseteq dump[v]
    BY <1>4, MoveFileValues
  <2>2. PICK src \in Paths, dst \in Paths, P \in SUBSET Paths :
          metas' = ReplacedMetas(metas, src, dst, P)
    BY <1>4, MoveFileValues
  <2>3. Unique(metas') /\ \A n \in metas' : \E k \in metas : k.id = n.id
    BY <2>2, ShapeValues, ReplacedUnique DEF RecordsInv
  <2>4. QED
    BY <2>1, <2>3, RecordsWithoutWriter DEF RecordsInv, Unique
<1>5. ASSUME NEW w \in Workers, MetaInsert(w) PROVE RecordsInv'
  <2>1. writer' = None /\ UNCHANGED <<txMetas, dump>>
    BY <1>5 DEF MetaInsert, txVars
  <2>2. PICK i, m : /\ i \in Ids /\ i \notin used /\ used' = used \union {i}
                    /\ metas' = metas \union {m} /\ m.id = i
    <3>1. PICK i \in Ids : /\ i \notin used /\ used' = used \union {i}
                           /\ metas' = metas \union {[id |-> i, path |-> op[w].src,
                                                      key |-> op[w].key, mtime |-> op[w].at]}
      BY <1>5 DEF MetaInsert, Fresh
    <3>2. [id |-> i, path |-> op[w].src, key |-> op[w].key, mtime |-> op[w].at].id = i
      OBVIOUS
    <3>3. QED
      BY <3>1, <3>2
  <2>3. Unique(metas')
    BY <2>2 DEF RecordsInv, Unique
  <2>4. QED
    BY <2>1, <2>2, <2>3, RecordsWithoutWriter DEF RecordsInv, Unique
<1>6. ASSUME NEW w \in Workers, Locks(w) PROVE RecordsInv'
  <2>1. Carries(rows', metas', txRows', txMetas')
    BY <1>6 DEF Locks, Lock, RecordsInv, Unique, Carries
  <2>2. QED
    BY <1>6, <2>1 DEF Locks, Lock, RecordsInv, Unique, Carries
<1>7. ASSUME NEW w \in Workers, Ends(w) PROVE RecordsInv'
  <2>1. CASE metas' = metas
    BY <1>7, <2>1, RecordsWithoutWriter DEF Ends, RecordsInv, Unique
  <2>2. CASE metas' = txMetas
    BY <1>7, <2>2, RecordsWithoutWriter DEF Ends, RecordsInv, Unique
  <2>3. QED
    BY <1>7, <2>1, <2>2 DEF Ends
<1>8. ASSUME NEW w \in Workers, NEW p \in Paths, Reads(w, p) PROVE RecordsInv'
  <2>1. /\ pc[w] = "scan" /\ UNCHANGED <<rows, metas, pc, dump, used>>
        /\ \/ txRows' = txRows /\ txMetas' = txMetas
           \/ txRows' = Without(txRows, {p}) /\ txMetas' = txMetas \ MetasOf(txMetas, {p})
           \/ txRows' = [txRows EXCEPT ![p] = disk[p]] /\ txMetas' = txMetas /\ disk[p] # None
    BY <1>8, ReadsValues
  <2>2. Carries(rows, metas, txRows, txMetas) /\ txRows \in [Paths -> Rows \union {None}]
    BY <2>1, ShapeValues DEF RecordsInv, Tables
  <2>3. \A n \in txMetas : n.path \in Paths
    BY ShapeValues DEF Metas
  <2>4. Carries(rows', metas', txRows', txMetas')
    <3>1. CASE txRows' = txRows /\ txMetas' = txMetas
      BY <2>1, <2>2, <3>1
    <3>2. CASE txRows' = Without(txRows, {p}) /\ txMetas' = txMetas \ MetasOf(txMetas, {p})
      BY <2>1, <2>2, <2>3, <3>2 DEF Carries, Without, MetasOf
    <3>3. CASE txRows' = [txRows EXCEPT ![p] = disk[p]] /\ txMetas' = txMetas /\ disk[p] # None
      BY <2>1, <2>2, <2>3, <3>3 DEF Carries
    <3>4. QED
      BY <2>1, <3>1, <3>2, <3>3
  <2>5. txMetas' \subseteq txMetas
    BY <2>1
  <2>6. QED
    BY <2>1, <2>4, <2>5 DEF RecordsInv, Unique, Carries
<1>9. ASSUME NEW w \in Workers, NEW p \in Paths, MoveOne(w, p) PROVE RecordsInv'
  <2>1. pc[w] = "folder" /\ UNCHANGED <<rows, metas, pc, dump, used>>
    BY <1>9, MoveValues
  <2>2. PICK new \in Paths : /\ txRows' = ReplacedRows(txRows, p, new, {new})
                             /\ txMetas' = ReplacedMetas(txMetas, p, new, {new})
    BY <1>9, MoveValues
  <2>3. Unique(txMetas') /\ \A n \in txMetas' : \E k \in txMetas : k.id = n.id
    BY <2>2, ShapeValues, ReplacedUnique DEF RecordsInv
  <2>4. \A n \in txMetas' : \E k \in txMetas :
          k.id = n.id /\ (txRows[k.path] # None => txRows'[n.path] # None)
    <3>1. TAKE n \in txMetas'
    <3>2. txRows \in Tables /\ txMetas \in SUBSET Metas /\ n \in ReplacedMetas(txMetas, p, new, {new})
      BY <2>2, <3>1, ShapeValues
    <3>3. \E k \in txMetas :
            /\ k.id = n.id
            /\ txRows[k.path] # None => ReplacedRows(txRows, p, new, {new})[n.path] # None
      BY ONLY <2>2, <3>2, ReplacedCarries
    <3>4. QED
      BY <2>2, <3>3
  <2>5. Carries(rows, metas, txRows, txMetas)
    BY <2>1 DEF RecordsInv
  <2>6. Carries(rows', metas', txRows', txMetas')
    BY <2>1, <2>4, <2>5 DEF Carries
  <2>7. QED
    BY <2>1, <2>3, <2>6 DEF RecordsInv, Unique, Carries
<1>10. ASSUME NEW w \in Workers, NEW m \in Metas, RestoreOne(w, m) PROVE RecordsInv'
  <2>1. /\ pc[w] = "restoring" /\ m \in dump[w] /\ dump' = [dump EXCEPT ![w] = @ \ {m}]
        /\ txMetas' = Restored(txMetas, m)
        /\ UNCHANGED <<rows, metas, pc, used>>
    BY <1>10 DEF RestoreOne, tableVars, countVars
  <2>2. Unique(txMetas') /\ txMetas' \subseteq txMetas \union {m}
    BY <2>1, ShapeValues, RestoredUnique DEF RecordsInv
  <2>3. \A v \in Workers : pc[v] \notin {"scan", "folder"}
    BY <2>1, ShapeValues DEF Writing
  <2>4. \A v \in Workers : dump'[v] \subseteq dump[v]
    BY <2>1 DEF Shape, MaintTypeOK, MaintTypes
  <2>5. QED
    BY <2>1, <2>2, <2>3, <2>4 DEF RecordsInv, Unique
<1>11. QED
  BY <1>1, <1>2, <1>3, <1>4, <1>5, <1>6, <1>7, <1>8, <1>9, <1>10, MaintSteps

\* A record keeps its entry through every removal, scan and move, however they come
\* between each other (dbops.cpp; metamanager.cpp).
THEOREM RecordsStayWithEntries == MaintSpec => RecordsKeepTheirEntries
<1>1. Shape /\ RecordsInv /\ [MaintNext]_maintVars => Shape' /\ RecordsInv'
  BY StepShape, StepRecords
<1>2. MaintInit => Shape /\ RecordsInv
  BY InitShape, InitRecords
<1>3. ASSUME Shape, RecordsInv, [MaintNext]_maintVars, NEW m \in metas, NEW n \in metas',
             m.id = n.id, rows[m.path] # None,
             \A w \in Workers : op[w].kind = "restore" => pc'[w] # "idle"
      PROVE  rows'[n.path] # None
  <2>1. n \in metas => m = n
    BY <1>3 DEF RecordsInv, Unique
  <2>2. m \in Metas /\ m.path \in Paths
    BY <1>3, ShapeValues DEF Metas
  <2>3. CASE Quiet
    BY <1>3, <2>1, <2>3 DEF Quiet
  <2>4. ASSUME NEW p \in Paths, Index(p) PROVE rows'[n.path] # None
    <3>1. /\ metas' = metas /\ disk[p] # None
          /\ rows' = [q \in Paths |-> IF q = p THEN disk[p]
                                      ELSE IF q \in Ancestors(p) /\ rows[q] = None THEN DirRow
                                      ELSE rows[q]]
      BY <2>4 DEF Index, FilesIn, Entries
    <3>2. m = n
      BY <2>1, <3>1
    <3>3. QED
      BY <1>3, <2>2, <3>1, <3>2
  <2>5. ASSUME NEW w \in Workers, NEW P \in SUBSET Paths, Deletes(w, P)
        PROVE  rows'[n.path] # None
    <3>1. rows' = Without(rows, P) /\ metas' = metas \ MetasOf(metas, P)
      BY <2>5 DEF Deletes, DeleteFromIndex
    <3>2. m = n /\ n.path \notin P
      BY <2>1, <3>1 DEF MetasOf
    <3>3. QED
      BY <1>3, <2>2, <3>1, <3>2 DEF Without
  <2>6. ASSUME NEW w \in Workers, MoveFile(w) PROVE rows'[n.path] # None
    <3>1. PICK src \in Paths, dst \in Paths, P \in SUBSET Paths :
            /\ rows' = ReplacedRows(rows, src, dst, P)
            /\ metas' = ReplacedMetas(metas, src, dst, P)
      BY <1>3, <2>6, MoveFileValues
    <3>2. \E k \in metas : k.id = n.id /\ (rows[k.path] # None => rows'[n.path] # None)
      BY <1>3, <3>1, ShapeValues, ReplacedCarries
    <3>3. QED
      BY <1>3, <3>2 DEF RecordsInv, Unique
  <2>7. ASSUME NEW w \in Workers, MetaInsert(w) PROVE rows'[n.path] # None
    <3>1. rows' = rows
      BY <2>7 DEF MetaInsert
    <3>2. n \in metas
      <4>1. PICK i \in Ids : /\ i \notin used
                             /\ metas' = metas \union {[id |-> i, path |-> op[w].src,
                                                        key |-> op[w].key, mtime |-> op[w].at]}
        BY <2>7 DEF MetaInsert, Fresh
      <4>2. m.id # i
        BY <1>3, <4>1 DEF RecordsInv
      <4>3. QED
        BY <1>3, <4>1, <4>2
    <3>3. QED
      BY <1>3, <2>1, <3>1, <3>2
  <2>8. ASSUME NEW w \in Workers, Ends(w) PROVE rows'[n.path] # None
    <3>1. CASE rows' = rows /\ metas' = metas
      BY <1>3, <2>1, <3>1
    <3>2. CASE rows' = txRows /\ metas' = txMetas /\ pc[w] = "scan"
      BY <1>3, <3>2 DEF RecordsInv, Carries
    <3>3. CASE rows' = WithFolders(txRows) /\ metas' = txMetas /\ pc[w] = "folder"
      <4>1. txRows[n.path] # None /\ n.path \in Paths
        BY <1>3, <3>3, ShapeValues DEF RecordsInv, Carries, Metas
      <4>2. DirRow # None
        BY DEF Rows
      <4>3. QED
        BY <3>3, <4>1, <4>2 DEF WithFolders
    <3>4. pc[w] # "restoring"
      BY <1>3, <2>8 DEF Shape, OpsOK, Ends
    <3>5. QED
      BY <2>8, <3>1, <3>2, <3>3, <3>4 DEF Ends
  <2>9. CASE rows' = rows /\ metas' = metas
    BY <1>3, <2>1, <2>9
  <2>10. ASSUME NEW w \in Workers,
                \/ Locks(w)
                \/ \E p \in Paths : Reads(w, p) \/ MoveOne(w, p)
                \/ \E r \in Metas : RestoreOne(w, r)
         PROVE  rows' = rows /\ metas' = metas
    <3>1. CASE \E r \in Metas : RestoreOne(w, r)
      BY <3>1 DEF RestoreOne, tableVars
    <3>2. QED
      BY <1>3, <2>10, <3>1, ReadsValues, MoveValues DEF Locks
  <2>11. QED
    BY <1>3, <2>3, <2>4, <2>5, <2>6, <2>7, <2>8, <2>9, <2>10, MaintSteps
<1>4. Shape /\ RecordsInv /\ [MaintNext]_maintVars =>
        [\A m \in metas, n \in metas' :
           /\ m.id = n.id
           /\ rows[m.path] # None
           /\ \A w \in Workers : op[w].kind = "restore" => pc'[w] # "idle"
           => rows'[n.path] # None]_maintVars
  BY <1>3
<1>5. QED
  BY <1>1, <1>2, <1>4, PTL DEF MaintSpec, RecordsKeepTheirEntries

------------------------------------------------------------------------------
\* Scans and files.  What a scan has come to is what is on the disk, as long as no
\* file changed; only the worker that scans touches its transaction.

Agree(row, file) == IsDir(row) \/ IsDir(file) \/ row.mtime = file.mtime \/ row.hash = file.hash

Tells(w) ==
  /\ op[w].kind = "sync" =>
       \A p \in Entries(txRows) \ todo[w] : disk[p] # None /\ Agree(txRows[p], disk[p])
  /\ op[w].kind = "rescan" /\ op[w].strict =>
       \A p \in FilesIn(rows) \ todo[w] : txRows[p] = disk[p]

TruthInv == \A w \in Workers : pc[w] = "scan" /\ steady[w] => Tells(w)

LEMMA TruthWithoutWriter ==
  ASSUME Shape', writer' = None PROVE TruthInv'
<1>1. \A w \in Workers : pc'[w] \in Writing <=> writer' = w
  BY DEF Shape, MaintTypeOK, Writing
<1>2. \A w \in Workers : pc'[w] # "scan"
  BY <1>1 DEF Writing
<1>3. QED
  BY <1>2 DEF TruthInv

LEMMA ReadsTell ==
  ASSUME Shape, NEW w \in Workers, NEW p \in Paths, Reads(w, p), Tells(w)
  PROVE  Tells(w)'
<1>1. /\ todo' = [todo EXCEPT ![w] = @ \ {p}] /\ UNCHANGED <<disk, rows, op>>
  BY ReadsValues
<1>2. todo'[w] = todo[w] \ {p} /\ txRows \in Tables
  BY <1>1, ShapeValues DEF Shape, MaintTypeOK, MaintTypes
<1>3. op[w].kind = "sync" =>
        \/ txRows' = txRows /\ disk[p] # None /\ (txRows[p] # None => Agree(txRows[p], disk[p]))
        \/ txRows' = Without(txRows, {p})
        \/ txRows' = [txRows EXCEPT ![p] = disk[p]] /\ disk[p] # None
  <2>1. CASE SyncGone(w, p)
    BY <2>1 DEF SyncGone, Scanned
  <2>2. CASE SyncSame(w, p)
    BY <2>2 DEF SyncSame, Scanned, Agree, FilesIn, Entries
  <2>3. CASE SyncChanged(w, p)
    BY <2>3 DEF SyncChanged, Scanned, FilesIn, Entries
  <2>4. CASE RescanRead(w, p) \/ RescanSkip(w, p)
    BY <2>4 DEF RescanRead, RescanSkip, Scanning
  <2>5. QED
    BY <2>1, <2>2, <2>3, <2>4 DEF Reads
<1>4. op[w].kind = "rescan" /\ op[w].strict => txRows' = [txRows EXCEPT ![p] = disk[p]]
  <2>1. CASE RescanRead(w, p)
    BY <2>1 DEF RescanRead, Scanned
  <2>2. CASE RescanSkip(w, p)
    BY <2>2 DEF RescanSkip
  <2>3. CASE SyncGone(w, p) \/ SyncSame(w, p) \/ SyncChanged(w, p)
    BY <2>3 DEF SyncGone, SyncSame, SyncChanged, Scanning
  <2>4. QED
    BY <2>1, <2>2, <2>3 DEF Reads
<1>5. ASSUME op[w].kind = "sync", NEW q \in Entries(txRows)' \ todo'[w]
      PROVE  disk[q] # None /\ Agree(txRows'[q], disk[q])
  <2>1. q \in Paths /\ txRows'[q] # None /\ (q = p \/ q \notin todo[w])
    BY <1>2, <1>5 DEF Entries
  <2>2. q # p /\ txRows[q] # None => disk[q] # None /\ Agree(txRows[q], disk[q])
    BY <1>5, <2>1 DEF Tells, Entries
  <2>3. CASE txRows' = txRows /\ disk[p] # None /\ (txRows[p] # None => Agree(txRows[p], disk[p]))
    BY <2>1, <2>2, <2>3
  <2>4. CASE txRows' = Without(txRows, {p})
    BY <2>1, <2>2, <2>4 DEF Without
  <2>5. CASE txRows' = [txRows EXCEPT ![p] = disk[p]] /\ disk[p] # None
    BY <1>2, <2>1, <2>2, <2>5 DEF Agree, Tables
  <2>6. QED
    BY <1>3, <1>5, <2>3, <2>4, <2>5
<1>6. ASSUME op[w].kind = "rescan", op[w].strict, NEW q \in FilesIn(rows) \ todo'[w]
      PROVE  txRows'[q] = disk[q]
  <2>1. q \in Paths /\ (q = p \/ q \notin todo[w])
    BY <1>2, <1>6 DEF FilesIn, Entries
  <2>2. q # p => txRows[q] = disk[q]
    BY <1>6, <2>1 DEF Tells
  <2>3. QED
    BY <1>2, <1>4, <1>6, <2>1, <2>2 DEF Tables
<1>7. /\ op[w].kind = "sync" => \A q \in Entries(txRows)' \ todo'[w] :
           disk[q] # None /\ Agree(txRows'[q], disk[q])
      /\ op[w].kind = "rescan" /\ op[w].strict =>
           \A q \in FilesIn(rows) \ todo'[w] : txRows'[q] = disk[q]
  BY <1>5, <1>6
<1>8. QED
  BY <1>1, <1>7 DEF Tells, Agree, FilesIn, Entries, IsDir

LEMMA StepTruth ==
  ASSUME Shape, Shape', TruthInv, [MaintNext]_maintVars
  PROVE  TruthInv'
<1>1. CASE Quiet
  <2>1. SUFFICES ASSUME NEW v \in Workers, pc'[v] = "scan", steady'[v] PROVE Tells(v)'
    BY DEF TruthInv
  <2>2. /\ op'[v] = op[v] /\ todo'[v] = todo[v] /\ UNCHANGED <<disk, rows, txRows>>
        /\ pc[v] = "scan" /\ steady[v]
    BY <1>1, <2>1 DEF Quiet, Writing
  <2>3. Tells(v)
    BY <2>2 DEF TruthInv
  <2>4. QED
    BY <2>2, <2>3 DEF Tells, Agree, Entries, FilesIn, IsDir
<1>2. CASE writer' = None
  BY <1>2, TruthWithoutWriter
<1>3. ASSUME NEW w \in Workers, writer' = w, pc'[w] = "scan" /\ steady'[w] => Tells(w)'
      PROVE  TruthInv'
  <2>1. \A v \in Workers : pc'[v] \in Writing <=> writer' = v
    BY DEF Shape, MaintTypeOK, Writing
  <2>2. \A v \in Workers : pc'[v] = "scan" => v = w
    BY <1>3, <2>1 DEF Writing
  <2>3. QED
    BY <1>3, <2>2 DEF TruthInv
<1>4. ASSUME NEW p \in Paths, Index(p) PROVE writer' = None
  BY <1>4 DEF Index, txVars
<1>5. ASSUME NEW w \in Workers,
             \/ \E P \in SUBSET Paths : Deletes(w, P)
             \/ MoveFile(w) \/ MetaInsert(w) \/ Ends(w)
      PROVE  writer' = None
  BY <1>5, MoveFileValues DEF Deletes, DeleteFromIndex, MetaInsert, Ends, txVars
<1>6. ASSUME NEW w \in Workers, Locks(w) PROVE TruthInv'
  <2>1. writer' = w /\ txRows' = rows /\ rows' = rows
    BY <1>6 DEF Locks, Lock
  <2>2. pc'[w] = "scan" => Tells(w)'
    <3>1. SUFFICES ASSUME pc'[w] = "scan" PROVE Tells(w)'
      OBVIOUS
    <3>2. /\ op'[w].kind = "sync" => todo'[w] = Entries(txRows)'
          /\ op'[w].kind = "rescan" => todo'[w] = FilesIn(rows)'
      BY <1>6, <2>1, <3>1 DEF Locks, Entries, FilesIn, IsDir
    <3>3. QED
      BY <3>2 DEF Tells
  <2>3. QED
    BY <1>3, <2>1, <2>2
<1>7. ASSUME NEW w \in Workers, NEW p \in Paths, Reads(w, p) PROVE TruthInv'
  <2>1. pc[w] = "scan" /\ writer' = w /\ UNCHANGED <<pc, steady>>
    BY <1>7, ReadsValues
  <2>2. steady[w] => Tells(w)'
    BY <1>7, <2>1, ReadsTell DEF TruthInv
  <2>3. QED
    BY <1>3, <2>1, <2>2
<1>8. ASSUME NEW w \in Workers,
             (\E p \in Paths : MoveOne(w, p)) \/ (\E m \in Metas : RestoreOne(w, m))
      PROVE  TruthInv'
  <2>1. pc' = pc /\ pc[w] \in {"folder", "restoring"} /\ writer' = writer
    BY <1>8, MoveValues DEF RestoreOne
  <2>2. writer' = w
    BY <2>1, ShapeValues DEF Writing
  <2>3. QED
    BY <1>3, <2>1, <2>2
<1>9. QED
  BY <1>1, <1>2, <1>4, <1>5, <1>6, <1>7, <1>8, MaintSteps

\* A scan during which no file changed leaves in the index what is on the disk, as
\* far as it looks (syncIndex, rescanIndex).
THEOREM ScansAreTrue == MaintSpec => ScansTellTheTruth
<1>1. Shape /\ TruthInv /\ [MaintNext]_maintVars => Shape' /\ TruthInv'
  BY StepShape, StepTruth
<1>2. MaintInit => Shape /\ TruthInv
  <2>1. MaintInit => TruthInv
    BY DEF MaintInit, TruthInv
  <2>2. QED
    BY <2>1, InitShape
<1>3. ASSUME Shape, TruthInv, NEW w \in Workers, steady[w], ScanEnd(w)
      PROVE  CASE op[w].kind = "sync" ->
                    \A p \in Entries(rows') :
                      /\ disk[p] # None
                      /\ p \in FilesIn(rows') => \/ IsDir(disk[p])
                                                 \/ rows'[p].mtime = disk[p].mtime
                                                 \/ rows'[p].hash = disk[p].hash
               [] op[w].kind = "rescan" ->
                    op[w].strict => \A p \in FilesIn(rows) : rows'[p] = disk[p]
  <2>1. pc[w] = "scan" /\ todo[w] = {} /\ rows' = txRows
    BY <1>3 DEF ScanEnd, Commit
  <2>2. Tells(w) /\ op[w].kind \in {"sync", "rescan"}
    BY <1>3, <2>1 DEF TruthInv, Shape, OpsOK
  <2>3. op[w].kind = "sync" => \A p \in Entries(rows') : disk[p] # None /\ Agree(rows'[p], disk[p])
    BY <2>1, <2>2 DEF Tells
  <2>4. op[w].kind = "rescan" /\ op[w].strict => \A p \in FilesIn(rows) : rows'[p] = disk[p]
    BY <2>1, <2>2 DEF Tells
  <2>5. CASE op[w].kind = "sync"
    BY <2>3, <2>5 DEF Agree, FilesIn
  <2>6. CASE op[w].kind = "rescan"
    BY <2>4, <2>6
  <2>7. QED
    BY <2>2, <2>5, <2>6
<1>4. Shape /\ TruthInv /\ [MaintNext]_maintVars =>
        [\A w \in Workers :
           steady[w] /\ ScanEnd(w) =>
             CASE op[w].kind = "sync" ->
                    \A p \in Entries(rows') :
                      /\ disk[p] # None
                      /\ p \in FilesIn(rows') => \/ IsDir(disk[p])
                                                 \/ rows'[p].mtime = disk[p].mtime
                                                 \/ rows'[p].hash = disk[p].hash
               [] op[w].kind = "rescan" ->
                    op[w].strict => \A p \in FilesIn(rows) : rows'[p] = disk[p]]_maintVars
  BY <1>3
<1>5. QED
  BY <1>1, <1>2, <1>4, PTL DEF MaintSpec, ScansTellTheTruth

------------------------------------------------------------------------------
\* Build folders.  A hash that two files of a table have, or one that a removal is
\* still to clean up, was added while the other was there.

Single(T, D) == \A p, q \in FilesIn(T) : T[p].hash = T[q].hash => p = q \/ T[p].hash \in D
Spared(T, E, D) == \A v \in Workers, p \in FilesIn(T) : T[p].hash \in E[v] => T[p].hash \in D
Good(T, E, D) == Single(T, D) /\ Spared(T, E, D)

DistinctInv ==
  /\ Good(rows, evict, doubled)
  /\ writer # None => Good(txRows, evict, doubled)

\* A table whose files are those of another, perhaps at other places.
LEMMA MovedGood ==
  ASSUME NEW T, NEW T2, NEW E, NEW E2, NEW D, NEW D2, Good(T, E, D), NEW f,
         \A v \in Workers : E2[v] \subseteq E[v], D \subseteq D2,
         \A p \in FilesIn(T2) : f[p] \in FilesIn(T) /\ T2[p].hash = T[f[p]].hash,
         \A p, q \in FilesIn(T2) : f[p] = f[q] => p = q
  PROVE  Good(T2, E2, D2)
<1>1. Single(T2, D2)
  BY DEF Good, Single
<1>2. Spared(T2, E2, D2)
  BY DEF Good, Spared
<1>3. QED
  BY <1>1, <1>2 DEF Good

LEMMA FewerGood ==
  ASSUME NEW T, NEW T2, NEW E, NEW E2, NEW D, NEW D2, Good(T, E, D),
         \A v \in Workers : E2[v] \subseteq E[v], D \subseteq D2,
         \A p \in FilesIn(T2) : p \in FilesIn(T) /\ T2[p] = T[p]
  PROVE  Good(T2, E2, D2)
<1>1. Single(T2, D2)
  BY DEF Good, Single
<1>2. Spared(T2, E2, D2)
  BY DEF Good, Spared
<1>3. QED
  BY <1>1, <1>2 DEF Good

\* A table with the hash h at one more path, or in the place of another.
LEMMA AddedGood ==
  ASSUME NEW T, NEW T2, Good(T, evict, doubled), NEW p \in Paths, NEW h, Doubles(T, p, h),
         T2[p].hash = h, UNCHANGED evict,
         \A q \in FilesIn(T2) \ {p} : q \in FilesIn(T) /\ T2[q] = T[q]
  PROVE  doubled \subseteq doubled' /\ Good(T2, evict', doubled')
<1>1. doubled \subseteq doubled'
  BY DEF Doubles
<1>2. \A q \in FilesIn(T2) \ {p} : T2[q].hash = h => h \in doubled'
  <2>1. SUFFICES ASSUME NEW q \in FilesIn(T2) \ {p}, T2[q].hash = h PROVE h \in doubled'
    OBVIOUS
  <2>2. q \in FilesIn(T) /\ q \in Paths \ {p} /\ T[q].hash = h
    BY <2>1 DEF FilesIn, Entries
  <2>3. h \in HashesOf(T, Paths \ {p})
    BY <2>2 DEF HashesOf
  <2>4. QED
    BY <2>3 DEF Doubles
<1>3. \A v \in Workers : h \in evict[v] => h \in doubled'
  BY DEF Doubles
<1>4. Single(T2, doubled')
  <2>1. SUFFICES ASSUME NEW q \in FilesIn(T2), NEW r \in FilesIn(T2), q # r,
                        T2[q].hash = T2[r].hash
                 PROVE  T2[q].hash \in doubled'
    BY DEF Single
  <2>2. CASE q = p \/ r = p
    BY <1>2, <2>1, <2>2
  <2>3. CASE q # p /\ r # p
    BY <1>1, <2>1, <2>3 DEF Good, Single
  <2>4. QED
    BY <2>2, <2>3
<1>5. Spared(T2, evict', doubled')
  <2>1. SUFFICES ASSUME NEW v \in Workers, NEW q \in FilesIn(T2), T2[q].hash \in evict[v]
                 PROVE  T2[q].hash \in doubled'
    BY DEF Spared
  <2>2. CASE q = p
    BY <1>3, <2>1, <2>2
  <2>3. CASE q # p
    BY <1>1, <2>1, <2>3 DEF Good, Spared
  <2>4. QED
    BY <2>2, <2>3
<1>6. QED
  BY <1>1, <1>4, <1>5 DEF Good

LEMMA WithoutGood ==
  ASSUME NEW T \in Tables, NEW P, NEW E, NEW E2, NEW D, NEW D2, Good(T, E, D),
         \A v \in Workers : E2[v] \subseteq E[v], D \subseteq D2
  PROVE  Good(Without(T, P), E2, D2) /\ Good(WithFolders(T), E2, D2)
<1>1. \A p \in FilesIn(Without(T, P)) : p \in FilesIn(T) /\ Without(T, P)[p] = T[p]
  BY DEF FilesIn, Entries, Without, IsDir
<1>2. \A p \in FilesIn(WithFolders(T)) : p \in FilesIn(T) /\ WithFolders(T)[p] = T[p]
  BY DEF FilesIn, Entries, WithFolders, IsDir, DirRow
<1>3. QED
  BY <1>1, <1>2, FewerGood

LEMMA ReplacedGood ==
  ASSUME NEW T \in Tables, NEW src \in Paths, NEW dst \in Paths, NEW P,
         NEW E, NEW E2, NEW D, NEW D2, Good(T, E, D),
         \A v \in Workers : E2[v] \subseteq E[v], D \subseteq D2
  PROVE  Good(ReplacedRows(T, src, dst, P), E2, D2)
<1> DEFINE R == Without(T, P)
<1> DEFINE T2 == [R EXCEPT ![src] = None, ![dst] = R[src]]
<1>1. R \in Tables /\ Good(R, E2, D2)
  BY TableValues, WithoutGood
<1>2. CASE R[src] = None
  BY <1>1, <1>2 DEF ReplacedRows
<1>3. CASE R[src] # None
  <2> DEFINE f == [p \in Paths |-> IF p = dst THEN src ELSE p]
  <2> HIDE DEF R
  <2>1. \A p \in Paths : T2[p] = IF p = dst THEN R[src] ELSE IF p = src THEN None ELSE R[p]
    BY <1>1 DEF Tables
  <2>2. \A p \in FilesIn(T2) : p \in Paths /\ T2[p] # None /\ ~ IsDir(T2[p])
    BY DEF FilesIn, Entries
  <2>3. \A p \in FilesIn(T2) : f[p] \in FilesIn(R) /\ T2[p].hash = R[f[p]].hash
    BY <2>1, <2>2 DEF FilesIn, Entries
  <2>4. \A p, q \in FilesIn(T2) : f[p] = f[q] => p = q
    BY <2>1, <2>2
  <2>5. Good(T2, E2, D2)
    <3> HIDE DEF T2, f
    <3>1. QED
      BY <1>1, <2>3, <2>4, MovedGood
  <2>6. QED
    BY <1>3, <2>5 DEF ReplacedRows, R
<1>4. QED
  BY <1>2, <1>3

LEMMA InitDistinct == MaintInit => DistinctInv
BY DEF MaintInit, DistinctInv, Good, Single, Spared

\* A removal leaves the hashes of the rows that it took to be cleaned up.
LEMMA DeletesGood ==
  ASSUME Shape, NEW w \in Workers, NEW P \in SUBSET Paths, DeleteFromIndex(w, P),
         Good(rows, evict, doubled)
  PROVE  Good(rows', evict', doubled')
<1>1. /\ rows' = Without(rows, P) /\ doubled' = doubled
      /\ evict' = [evict EXCEPT ![w] = HashesOf(rows, P)]
  BY DEF DeleteFromIndex, historyVars
<1>2. evict \in [Workers -> SUBSET Hashes] /\ rows \in Tables
  BY ShapeValues DEF Shape, MaintTypeOK, MaintTypes
<1>3. Good(rows', evict, doubled)
  BY <1>1, <1>2, WithoutGood
<1>4. \A v \in Workers, p \in FilesIn(rows') : rows'[p].hash \in evict'[v] => rows'[p].hash \in doubled
  <2>1. SUFFICES ASSUME NEW v \in Workers, NEW p \in FilesIn(rows'), rows'[p].hash \in evict'[v]
                 PROVE  rows'[p].hash \in doubled
    OBVIOUS
  <2>2. CASE v # w
    BY <1>1, <1>2, <1>3, <2>1, <2>2 DEF Good, Spared
  <2>3. CASE v = w
    <3>1. rows'[p].hash \in HashesOf(rows, P)
      BY <1>1, <1>2, <2>1, <2>3
    <3>2. PICK q \in P \intersect FilesIn(rows) : rows[q].hash = rows'[p].hash
      BY <3>1 DEF HashesOf
    <3>3. p \in FilesIn(rows) /\ rows'[p] = rows[p] /\ p \notin P
      BY <1>1, <2>1 DEF Without, FilesIn, Entries
    <3>4. QED
      BY <3>2, <3>3 DEF Good, Single
  <2>4. QED
    BY <2>2, <2>3
<1>5. QED
  BY <1>1, <1>3, <1>4 DEF Good, Spared

LEMMA StepDistinct ==
  ASSUME Shape, Shape', DistinctInv, [MaintNext]_maintVars
  PROVE  DistinctInv'
<1> USE ShapeValues
<1>1. Good(rows, evict, doubled) /\ (writer # None => Good(txRows, evict, doubled))
  BY DEF DistinctInv
<1>2. SUFFICES Good(rows', evict', doubled') /\ (writer' # None => Good(txRows', evict', doubled'))
  BY DEF DistinctInv, Good, Single, Spared, FilesIn, Entries, IsDir
<1>3. CASE Quiet
  <2>1. /\ UNCHANGED <<rows, writer, txRows, doubled>>
        /\ \A v \in Workers : evict'[v] \subseteq evict[v]
    BY <1>3 DEF Quiet
  <2>2. QED
    BY <1>1, <2>1, FewerGood
<1>4. ASSUME NEW p \in Paths, Index(p)
      PROVE  writer' = None /\ Good(rows', evict', doubled')
  <2>1. /\ writer' = None /\ UNCHANGED evict /\ Doubles(rows, p, disk[p].hash)
        /\ rows' = [q \in Paths |-> IF q = p THEN disk[p]
                                    ELSE IF q \in Ancestors(p) /\ rows[q] = None THEN DirRow
                                    ELSE rows[q]]
    BY <1>4 DEF Index, txVars, workVars
  <2>2. rows'[p].hash = disk[p].hash
    BY <2>1
  <2>3. \A q \in FilesIn(rows') \ {p} : q \in FilesIn(rows) /\ rows'[q] = rows[q]
    BY <2>1 DEF FilesIn, Entries, IsDir, DirRow
  <2>4. QED
    BY <1>1, <2>1, <2>2, <2>3, AddedGood
<1>5. ASSUME NEW w \in Workers, NEW P \in SUBSET Paths, Deletes(w, P)
      PROVE  writer' = None /\ Good(rows', evict', doubled')
  BY <1>1, <1>5, DeletesGood DEF Deletes, DeleteFromIndex, txVars
<1>6. ASSUME NEW w \in Workers, MoveFile(w)
      PROVE  writer' = None /\ Good(rows', evict', doubled')
  <2>1. /\ writer' = None /\ doubled' = doubled
        /\ \A v \in Workers : evict'[v] \subseteq evict[v]
    BY <1>6, MoveFileValues
  <2>2. PICK src \in Paths, dst \in Paths, P \in SUBSET Paths : rows' = ReplacedRows(rows, src, dst, P)
    BY <1>6, MoveFileValues
  <2>3. QED
    BY <1>1, <2>1, <2>2, ReplacedGood
<1>7. ASSUME NEW w \in Workers, MetaInsert(w)
      PROVE  writer' = None /\ Good(rows', evict', doubled')
  BY <1>1, <1>7 DEF MetaInsert, txVars, historyVars
<1>8. ASSUME NEW w \in Workers, Locks(w)
      PROVE  Good(rows', evict', doubled') /\ txRows' = rows'
  BY <1>1, <1>8 DEF Locks, Lock
<1>9. ASSUME NEW w \in Workers, Ends(w)
      PROVE  writer' = None /\ Good(rows', evict', doubled')
  <2>1. /\ writer = w /\ writer' = None /\ doubled' = doubled
        /\ \A v \in Workers : evict'[v] \subseteq evict[v]
        /\ rows' \in {rows, txRows, WithFolders(txRows)}
    BY <1>9 DEF Ends
  <2>2. Good(rows, evict, doubled) /\ Good(txRows, evict, doubled)
    BY <1>1, <2>1, MaintConstantsOK
  <2>3. CASE rows' \in {rows, txRows}
    BY <2>1, <2>2, <2>3, FewerGood
  <2>4. CASE rows' = WithFolders(txRows)
    BY <2>1, <2>2, <2>4, WithoutGood
  <2>5. QED
    BY <2>1, <2>3, <2>4
<1>10. ASSUME NEW w \in Workers, NEW p \in Paths, Reads(w, p)
       PROVE  Good(rows', evict', doubled') /\ Good(txRows', evict', doubled')
  <2>1. /\ UNCHANGED <<rows, evict>>
        /\ \/ txRows' = txRows /\ doubled' = doubled
           \/ txRows' = Without(txRows, {p}) /\ doubled' = doubled
           \/ txRows' = [txRows EXCEPT ![p] = disk[p]] /\ Doubles(txRows, p, disk[p].hash)
    BY <1>10, ReadsValues
  <2>2. Good(txRows, evict, doubled)
    BY <1>1, <1>10, ReadsValues, MaintConstantsOK
  <2>3. CASE txRows' \in {txRows, Without(txRows, {p})} /\ doubled' = doubled
    BY <1>1, <2>1, <2>2, <2>3, WithoutGood
  <2>4. CASE txRows' = [txRows EXCEPT ![p] = disk[p]] /\ Doubles(txRows, p, disk[p].hash)
    <3>1. txRows'[p].hash = disk[p].hash
      BY <2>4 DEF Tables
    <3>2. \A q \in FilesIn(txRows') \ {p} : q \in FilesIn(txRows) /\ txRows'[q] = txRows[q]
      BY <2>4 DEF Tables, FilesIn, Entries
    <3>3. doubled \subseteq doubled' /\ Good(txRows', evict', doubled')
      BY <2>1, <2>2, <2>4, <3>1, <3>2, AddedGood
    <3>4. QED
      BY <1>1, <2>1, <3>3, FewerGood
  <2>5. QED
    BY <2>1, <2>3, <2>4
<1>11. ASSUME NEW w \in Workers, NEW p \in Paths, MoveOne(w, p)
       PROVE  Good(rows', evict', doubled') /\ Good(txRows', evict', doubled')
  <2>1. writer = w /\ UNCHANGED <<rows, evict, doubled>>
    BY <1>11, MoveValues
  <2>2. PICK new \in Paths : txRows' = ReplacedRows(txRows, p, new, {new})
    BY <1>11, MoveValues
  <2>3. QED
    BY <1>1, <2>1, <2>2, ReplacedGood, MaintConstantsOK
<1>12. ASSUME NEW w \in Workers, NEW m \in Metas, RestoreOne(w, m)
       PROVE  UNCHANGED <<rows, writer, txRows, evict, doubled>>
  BY <1>12 DEF RestoreOne, tableVars, historyVars
<1>13. QED
  BY <1>1, <1>3, <1>4, <1>5, <1>6, <1>7, <1>8, <1>9, <1>10, <1>11, <1>12, MaintSteps

\* Build folders go by the removal of an entry or by a sync.
LEMMA BuildSteps ==
  ASSUME [MaintNext]_maintVars
  PROVE  \/ builds \subseteq builds'
         \/ \E w \in Workers, h \in Hashes : Evict(w, h)
         \/ \E w \in Workers, p \in Paths : SyncGone(w, p)
<1>1. CASE UNCHANGED maintVars
  BY <1>1 DEF maintVars
<1>2. ASSUME NEW w \in Workers, Removing(w)
      PROVE  builds' = builds \/ \E h \in Hashes : Evict(w, h)
  BY <1>2 DEF Removing, RemoveMatch, RemoveNamed, RemoveBelow, DeleteFromIndex, Removed
<1>3. ASSUME NEW w \in Workers, Scan(w)
      PROVE  builds' = builds \/ \E p \in Paths : SyncGone(w, p)
  BY <1>3 DEF Scan, ScanBegin, SyncSame, SyncChanged, RescanRead, RescanSkip, ScanEnd, Commit
<1>4. ASSUME NEW w \in Workers, Move(w) PROVE builds' = builds
  BY <1>4 DEF Move, MoveCheck, MoveFile, MoveFolder, MoveOne, FolderMoved
<1>5. ASSUME NEW w \in Workers, Meta(w) PROVE builds' = builds
  BY <1>5 DEF Meta, MetaBegin, SetClear, MetaInsert, RestoreBegin, RestoreOne, RestoreEnd, Commit
<1>6. ASSUME NEW w \in Workers, GiveUp(w) PROVE builds' = builds
  BY <1>6 DEF GiveUp
<1>7. CASE Around
  BY <1>7 DEF Around, WriteFile, DeleteFile, Index, Build, Unset, BulkRemove, MetaRemove
<1>8. QED
  BY <1>1, <1>2, <1>3, <1>4, <1>5, <1>6, <1>7 DEF MaintNext

\* The build folder of an entry goes with the last entry of its hash, as long as no
\* hash was added twice (deleteFromIndex, syncIndex).
THEOREM BuildsStayWithEntries == MaintSpec => EvictedOnlyIfDoubled
<1>1. Shape /\ DistinctInv /\ [MaintNext]_maintVars => Shape' /\ DistinctInv'
  BY StepShape, StepDistinct
<1>2. MaintInit => Shape /\ DistinctInv
  BY InitShape, InitDistinct
<1>3. ASSUME Shape, DistinctInv, [MaintNext]_maintVars, NEW h \in builds \ builds',
             h \in HashesOf(rows', Paths)
      PROVE  \/ h \in doubled
             \/ \E w \in Workers : /\ writer = w
                                   /\ op[w].kind = "sync"
                                   /\ h \notin HashesOf(txRows', Paths)
  <2>1. CASE \E w \in Workers, g \in Hashes : Evict(w, g)
    <3>1. PICK w \in Workers, g \in Hashes : Evict(w, g)
      BY <2>1
    <3>2. rows' = rows /\ h = g /\ h \in evict[w]
      BY <1>3, <3>1 DEF Evict, tableVars
    <3>3. PICK p \in FilesIn(rows) : rows[p].hash = h
      BY <1>3, <3>2 DEF HashesOf
    <3>4. QED
      BY <1>3, <3>2, <3>3 DEF DistinctInv, Good, Spared
  <2>2. CASE \E w \in Workers, p \in Paths : SyncGone(w, p)
    <3>1. PICK w \in Workers, p \in Paths : SyncGone(w, p)
      BY <2>2
    <3>2. /\ pc[w] = "scan" /\ op[w].kind = "sync" /\ txRows' = Without(txRows, {p})
          /\ h \in HashesOf(txRows, {p})
      BY <1>3, <3>1 DEF SyncGone, Scanning, Scanned
    <3>3. writer = w
      BY <1>3, <3>2, ShapeValues DEF Writing
    <3>4. ASSUME h \in HashesOf(txRows', Paths) PROVE h \in doubled
      <4>1. PICK q \in FilesIn(txRows') : txRows'[q].hash = h
        BY <3>4 DEF HashesOf
      <4>2. q # p /\ q \in FilesIn(txRows) /\ txRows[q].hash = h
        BY <3>2, <4>1 DEF Without, FilesIn, Entries
      <4>3. p \in FilesIn(txRows) /\ txRows[p].hash = h
        BY <3>2 DEF HashesOf
      <4>4. QED
        BY <1>3, <3>3, <4>2, <4>3, MaintConstantsOK DEF DistinctInv, Good, Single
    <3>5. QED
      BY <3>2, <3>3, <3>4
  <2>3. QED
    BY <1>3, <2>1, <2>2, BuildSteps
<1>4. Shape /\ DistinctInv /\ [MaintNext]_maintVars =>
        [\A h \in builds \ builds' :
           h \in HashesOf(rows', Paths) =>
             \/ h \in doubled
             \/ \E w \in Workers : /\ writer = w
                                   /\ op[w].kind = "sync"
                                   /\ h \notin HashesOf(txRows', Paths)]_maintVars
  BY <1>3
<1>5. QED
  BY <1>1, <1>2, <1>4, PTL DEF MaintSpec, EvictedOnlyIfDoubled

------------------------------------------------------------------------------
\* The records of singular keys.  In a transaction two of them at one path were two
\* when it began.

TwinsOf(M, N) ==
  \A m, n \in N : Twins(m, n) => \E x, y \in M : Twins(x, y) /\ x.id = m.id /\ y.id = n.id

TwinsInv == writer # None => TwinsOf(metas, txMetas)

LEMMA FewerTwins ==
  ASSUME NEW M, NEW N, NEW K, TwinsOf(M, N), K \subseteq N
  PROVE  TwinsOf(M, K)
BY DEF TwinsOf

LEMMA SameTwins == \A M, N : N \subseteq M => TwinsOf(M, N)
BY DEF TwinsOf

LEMMA TwinsOfTwins ==
  ASSUME NEW M, NEW N, NEW K, TwinsOf(M, N), TwinsOf(N, K)
  PROVE  TwinsOf(M, K)
<1>1. SUFFICES ASSUME NEW m \in K, NEW n \in K, Twins(m, n)
               PROVE  \E x, y \in M : Twins(x, y) /\ x.id = m.id /\ y.id = n.id
  BY DEF TwinsOf
<1>2. PICK x \in N, y \in N : Twins(x, y) /\ x.id = m.id /\ y.id = n.id
  BY <1>1 DEF TwinsOf
<1>3. QED
  BY <1>2 DEF TwinsOf

\* Records that come to a place where there were others may be two there; if those
\* were deleted, they were two where they come from.
LEMMA ReplacedTwins ==
  ASSUME NEW M \in SUBSET Metas, NEW src \in Paths, NEW dst \in Paths, NEW P,
         NEW m \in ReplacedMetas(M, src, dst, P), NEW n \in ReplacedMetas(M, src, dst, P),
         Twins(m, n), dst \in P \/ m.path # dst
  PROVE  \E x, y \in M : Twins(x, y) /\ x.id = m.id /\ y.id = n.id
<1> DEFINE To(k) == IF k.path = src THEN [k EXCEPT !.path = dst] ELSE k
<1>1. PICK x \in M, y \in M : /\ x.path \notin P /\ y.path \notin P
                              /\ m = To(x) /\ n = To(y)
  BY DEF ReplacedMetas, MetasOf
<1>2. \A k \in Metas : /\ To(k).id = k.id /\ To(k).key = k.key
                       /\ To(k).path = IF k.path = src THEN dst ELSE k.path
  BY DEF Metas
<1>3. x \in Metas /\ y \in Metas
  OBVIOUS
<1> HIDE DEF To
<1>4. x # y /\ x.key = y.key /\ x.key \in Singular /\ x.id = m.id /\ y.id = n.id
  BY <1>1, <1>2, <1>3 DEF Twins
<1>5. x.path = y.path
  BY <1>1, <1>2, <1>3 DEF Twins
<1>6. QED
  BY <1>4, <1>5 DEF Twins

LEMMA RestoredTwins ==
  ASSUME NEW M \in SUBSET Metas, NEW m \in Metas
  PROVE  TwinsOf(M, Restored(M, m))
<1> DEFINE same == IF m.key \in Singular THEN OfKey(M, m.path, m.key) ELSE {}
           older == {x \in same : x.mtime < m.mtime}
<1>1. CASE older = same
  <2>1. Restored(M, m) = {x \in M \ same : x.id # m.id} \union {m}
    BY <1>1 DEF Restored
  <2>2. \A x \in M \ same : ~ Twins(x, m) /\ ~ Twins(m, x)
    BY DEF Twins, OfKey
  <2>3. \A x, y \in Restored(M, m) : Twins(x, y) => x \in M /\ y \in M
    BY <2>1, <2>2 DEF Twins
  <2>4. QED
    BY <2>3 DEF TwinsOf
<1>2. CASE older # same
  BY <1>2, SameTwins DEF Restored
<1>3. QED
  BY <1>1, <1>2

LEMMA StepTwins ==
  ASSUME Shape, Shape', TwinsInv, [MaintNext]_maintVars
  PROVE  TwinsInv'
<1> USE ShapeValues
<1>1. CASE Quiet
  BY <1>1 DEF Quiet, TwinsInv, TwinsOf, Twins
<1>2. ASSUME NEW p \in Paths, Index(p) PROVE writer' = None
  BY <1>2 DEF Index, txVars
<1>3. ASSUME NEW w \in Workers, NEW P \in SUBSET Paths, Deletes(w, P) PROVE writer' = None
  BY <1>3 DEF Deletes, DeleteFromIndex, txVars
<1>4. ASSUME NEW w \in Workers, MoveFile(w) PROVE writer' = None
  BY <1>4, MoveFileValues
<1>5. ASSUME NEW w \in Workers, MetaInsert(w) PROVE writer' = None
  BY <1>5 DEF MetaInsert, txVars
<1>6. ASSUME NEW w \in Workers, Locks(w) PROVE TwinsOf(metas', txMetas')
  BY <1>6, SameTwins DEF Locks, Lock
<1>7. ASSUME NEW w \in Workers, Ends(w) PROVE writer' = None
  BY <1>7 DEF Ends
<1>8. ASSUME NEW w \in Workers, NEW p \in Paths, Reads(w, p) PROVE TwinsOf(metas', txMetas')
  <2>1. writer = w /\ metas' = metas /\ txMetas' \subseteq txMetas
    BY <1>8, ReadsValues
  <2>2. TwinsOf(metas, txMetas)
    BY <2>1, MaintConstantsOK DEF TwinsInv
  <2>3. QED
    BY <2>1, <2>2, FewerTwins
<1>9. ASSUME NEW w \in Workers, NEW p \in Paths, MoveOne(w, p) PROVE TwinsOf(metas', txMetas')
  <2>1. writer = w /\ metas' = metas
    BY <1>9, MoveValues
  <2>2. PICK new \in Paths : txMetas' = ReplacedMetas(txMetas, p, new, {new})
    BY <1>9, MoveValues
  <2>3. TwinsOf(txMetas, txMetas')
    BY <2>2, ReplacedTwins DEF TwinsOf
  <2>4. TwinsOf(metas, txMetas)
    BY <2>1, MaintConstantsOK DEF TwinsInv
  <2>5. QED
    BY <2>1, <2>3, <2>4, TwinsOfTwins
<1>10. ASSUME NEW w \in Workers, NEW m \in Metas, RestoreOne(w, m)
       PROVE  TwinsOf(metas', txMetas')
  <2>1. pc[w] = "restoring" /\ metas' = metas /\ txMetas' = Restored(txMetas, m)
    BY <1>10 DEF RestoreOne, tableVars
  <2>2. writer = w
    BY <2>1 DEF Writing
  <2>3. TwinsOf(metas, txMetas)
    BY <2>2, MaintConstantsOK DEF TwinsInv
  <2>4. TwinsOf(txMetas, txMetas')
    BY <2>1, RestoredTwins
  <2>5. QED
    BY <2>1, <2>3, <2>4, TwinsOfTwins
<1>11. CASE writer' = None \/ TwinsOf(metas', txMetas')
  BY <1>11 DEF TwinsInv, TwinsOf, Twins
<1>12. QED
  BY <1>1, <1>2, <1>3, <1>4, <1>5, <1>6, <1>7, <1>8, <1>9, <1>10, <1>11, MaintSteps

\* A path gets a second record of a singular key only by a set() that another write
\* came into, or by a move to where metadata was left (metamanager.cpp; dbops.cpp).
THEOREM SecondRecords == MaintSpec => SingularKeysStayUnique
<1>1. Shape /\ TwinsInv /\ [MaintNext]_maintVars => Shape' /\ TwinsInv'
  BY StepShape, StepTwins
<1>2. MaintInit => Shape /\ TwinsInv
  BY InitShape DEF MaintInit, TwinsInv
<1>3. ASSUME Shape, Shape', TwinsInv, [MaintNext]_maintVars,
             NEW m \in metas', NEW n \in metas', Twins(m, n)
      PROVE  \/ \E x, y \in metas : Twins(x, y) /\ x.id = m.id /\ y.id = n.id
             \/ \E w \in Workers :
                  \/ MetaInsert(w) /\ op[w].src = m.path /\ op[w].key = m.key
                  \/ MoveFile(w) /\ op[w].dst = m.path /\ todo[w] = {}
  <2> DEFINE Were == \E x, y \in metas : Twins(x, y) /\ x.id = m.id /\ y.id = n.id
  <2>1. CASE TwinsOf(metas, metas')
    BY <1>3, <2>1 DEF TwinsOf
  <2>2. CASE Quiet
    BY <2>1, <2>2, SameTwins DEF Quiet
  <2>3. ASSUME NEW p \in Paths, Index(p) PROVE metas' \subseteq metas
    BY <2>3 DEF Index
  <2>4. ASSUME NEW w \in Workers, NEW P \in SUBSET Paths, Deletes(w, P)
        PROVE  metas' \subseteq metas
    BY <2>4 DEF Deletes, DeleteFromIndex
  <2>5. ASSUME NEW w \in Workers, MoveFile(w)
        PROVE  Were \/ (op[w].dst = m.path /\ todo[w] = {})
    <3>1. /\ pc[w] = "checked"
          /\ metas' = ReplacedMetas(metas, op[w].src, op[w].dst, todo[w])
      BY <2>5 DEF MoveFile
    <3>2. op[w].src \in Paths /\ op[w].dst \in Paths /\ metas \in SUBSET Metas
      BY <1>3, <3>1, ShapeValues DEF Shape, OpsOK
    <3>3. todo[w] \in SUBSET {op[w].dst}
      BY <1>3, <3>1 DEF Shape, OpsOK
    <3>4. CASE op[w].dst \in todo[w] \/ m.path # op[w].dst
      BY <1>3, <3>1, <3>2, <3>4, ReplacedTwins
    <3>5. QED
      BY <3>3, <3>4
  <2>6. ASSUME NEW w \in Workers, MetaInsert(w)
        PROVE  Were \/ (op[w].src = m.path /\ op[w].key = m.key)
    <3>1. PICK i \in Ids : metas' = metas \union {[id |-> i, path |-> op[w].src,
                                                   key |-> op[w].key, mtime |-> op[w].at]}
      BY <2>6 DEF MetaInsert
    <3>2. CASE m \in metas /\ n \in metas
      BY <1>3, <3>2
    <3>3. CASE m \notin metas \/ n \notin metas
      BY <1>3, <3>1, <3>3 DEF Twins
    <3>4. QED
      BY <3>2, <3>3
  <2>7. ASSUME NEW w \in Workers, Locks(w) PROVE metas' \subseteq metas
    BY <2>7 DEF Locks
  <2>8. ASSUME NEW w \in Workers, Ends(w) PROVE TwinsOf(metas, metas')
    BY <1>3, <2>8, SameTwins, MaintConstantsOK DEF Ends, TwinsInv
  <2>9. ASSUME NEW w \in Workers, NEW p \in Paths, Reads(w, p) PROVE metas' \subseteq metas
    BY <1>3, <2>9, ReadsValues
  <2>10. ASSUME NEW w \in Workers, NEW p \in Paths, MoveOne(w, p) PROVE metas' \subseteq metas
    BY <1>3, <2>10, MoveValues
  <2>11. ASSUME NEW w \in Workers, NEW k \in Metas, RestoreOne(w, k)
         PROVE  metas' \subseteq metas
    BY <2>11 DEF RestoreOne, tableVars
  <2>12. CASE metas' \subseteq metas
    BY <2>1, <2>12, SameTwins
  <2>13. QED
    BY <1>3, <2>1, <2>2, <2>3, <2>4, <2>5, <2>6, <2>7, <2>8, <2>9, <2>10, <2>11, <2>12, MaintSteps
<1>4. Shape /\ Shape' /\ TwinsInv /\ [MaintNext]_maintVars =>
        [\A m, n \in metas' :
           Twins(m, n) =>
             \/ \E x, y \in metas : Twins(x, y) /\ x.id = m.id /\ y.id = n.id
             \/ \E w \in Workers :
                  \/ MetaInsert(w) /\ op[w].src = m.path /\ op[w].key = m.key
                  \/ MoveFile(w) /\ op[w].dst = m.path /\ todo[w] = {}]_maintVars
  BY <1>3
<1>5. QED
  BY <1>1, <1>2, <1>4, PTL DEF MaintSpec, SingularKeysStayUnique

------------------------------------------------------------------------------
\* The move of a folder, to a place where nothing is.

LEMMA RenamedGoes ==
  ASSUME NEW p \in Paths, NEW src \in Paths, NEW dst \in Paths, p = src \/ Below(p, src)
  PROVE  Renamed(p, src, dst) = dst \/ Below(Renamed(p, src, dst), dst)
<1> DEFINE rest == SubSeq(p, Len(src) + 1, Len(p))
<1>1. /\ p \in Seq(Names) /\ src \in Seq(Names) /\ dst \in Seq(Names)
      /\ Len(p) \in Nat /\ Len(src) \in Nat /\ Len(dst) \in Nat /\ Len(src) <= Len(p)
  BY DEF Below
<1>2. rest \in Seq(Names) /\ Len(rest) = Len(p) - Len(src)
  BY <1>1
<1>3. CASE Len(p) = Len(src)
  <2>1. rest = <<>>
    BY <1>2, <1>3
  <2>2. QED
    BY <1>1, <2>1, ConcatEmptySeq DEF Renamed
<1>4. CASE Len(p) > Len(src)
  <2>1. Len(dst \o rest) > Len(dst)
    BY <1>1, <1>2, <1>4
  <2>2. SubSeq(dst \o rest, 1, Len(dst)) = dst
    BY <1>1, <1>2
  <2>3. QED
    BY <2>1, <2>2 DEF Renamed, Below
<1>5. QED
  BY <1>1, <1>3, <1>4

LEMMA RenamedApart ==
  ASSUME NEW p \in Paths, NEW q \in Paths, NEW src \in Paths, NEW dst \in Paths,
         p = src \/ Below(p, src), q = src \/ Below(q, src),
         Renamed(p, src, dst) = Renamed(q, src, dst)
  PROVE  p = q
<1> DEFINE rest(x) == SubSeq(x, Len(src) + 1, Len(x))
<1>1. /\ p \in Seq(Names) /\ q \in Seq(Names) /\ src \in Seq(Names) /\ dst \in Seq(Names)
      /\ Len(p) \in Nat /\ Len(q) \in Nat /\ Len(src) \in Nat /\ Len(dst) \in Nat
      /\ Len(src) <= Len(p) /\ Len(src) <= Len(q)
  BY DEF Below
<1>2. /\ rest(p) \in Seq(Names) /\ Len(rest(p)) = Len(p) - Len(src)
      /\ rest(q) \in Seq(Names) /\ Len(rest(q)) = Len(q) - Len(src)
      /\ \A i \in 1 .. Len(p) - Len(src) : rest(p)[i] = p[Len(src) + i]
      /\ \A i \in 1 .. Len(q) - Len(src) : rest(q)[i] = q[Len(src) + i]
  BY <1>1
<1>3. dst \o rest(p) = dst \o rest(q)
  BY DEF Renamed
<1> HIDE DEF rest
<1>4. rest(p) = rest(q)
  BY <1>1, <1>2, <1>3, ConcatSimplifications
<1>5. \A i \in 1 .. Len(p) - Len(src) : rest(p)[i] = rest(q)[i]
  BY <1>4
<1>6. \A i \in 1 .. Len(src) : p[i] = src[i] /\ q[i] = src[i]
  <2>1. \A x \in Seq(Names) : Len(src) <= Len(x) =>
          \A i \in 1 .. Len(src) : SubSeq(x, 1, Len(src))[i] = x[i]
    BY <1>1
  <2>2. QED
    BY <1>1, <2>1 DEF Below
<1>7. Len(p) = Len(q)
  BY <1>1, <1>2, <1>4
<1>8. \A i \in 1 .. Len(p) : p[i] = q[i]
  <2>1. SUFFICES ASSUME NEW i \in 1 .. Len(p) PROVE p[i] = q[i]
    OBVIOUS
  <2>2. CASE i <= Len(src)
    BY <1>1, <1>6, <2>2
  <2>3. CASE i > Len(src)
    <3>1. i - Len(src) \in 1 .. Len(p) - Len(src) /\ Len(src) + (i - Len(src)) = i
      BY <1>1, <2>3
    <3>2. rest(p)[i - Len(src)] = p[i] /\ rest(q)[i - Len(src)] = q[i]
      BY <1>2, <1>7, <3>1
    <3>3. QED
      BY <1>2, <1>5, <3>1, <3>2
  <2>4. QED
    BY <1>1, <2>2, <2>3
<1>9. QED
  BY <1>1, <1>7, <1>8

\* LIKE finds what is below a folder.
LEMMA BelowMatches ==
  ASSUME NEW p \in Paths, NEW src \in Paths, Below(p, src)
  PROVE  MatchesBelow(p, src)
<1>1. p \in Seq(Names) /\ src \in Seq(Names) /\ Len(p) > Len(src) /\ Len(src) \in Nat
  BY DEF Below
<1>2. \A i \in 1 .. Len(src) : SubSeq(p, 1, Len(src))[i] = p[i]
  BY <1>1
<1>3. \A i \in 1 .. Len(src) : src[i] = p[i] /\ src[i] \in Names
  BY <1>1, <1>2 DEF Below
<1>4. QED
  BY <1>1, <1>3 DEF MatchesBelow, AlikeNames

Under(w, p) == p = op[w].src \/ Below(p, op[w].src)
NewPath(w, p) == Renamed(p, op[w].src, op[w].dst)

\* Nothing is at the destination, and LIKE finds nothing but what is below the source.
Clear(w) ==
  /\ \A p \in Entries(rows) : p # op[w].dst /\ ~ Below(p, op[w].dst)
  /\ \A p \in Entries(rows) : MatchesBelow(p, op[w].src) => Below(p, op[w].src)

\* What has been moved is at its new place, with its metadata; all else is as it was.
MovedAway(w) == {p \in Entries(rows) : Under(w, p) /\ p \notin todo[w]}
RowsMoved(w) ==
  /\ \A p \in MovedAway(w) : txRows[p] = None /\ txRows[NewPath(w, p)] = rows[p]
  /\ \A q \in Paths \ MovedAway(w) : (\A p \in MovedAway(w) : q # NewPath(w, p)) => txRows[q] = rows[q]
MetasMoved(w) ==
  \A m \in metas : m.path \in Entries(rows) =>
    (IF m.path \in MovedAway(w) THEN [m EXCEPT !.path = NewPath(w, m.path)] ELSE m) \in txMetas
MovedSoFar(w) ==
  /\ \A p \in todo[w] : p \in Entries(rows) /\ Under(w, p)
  /\ \A p \in Entries(rows) : Under(w, p) => NewPath(w, p) \in Paths
  /\ RowsMoved(w)
  /\ MetasMoved(w)

FolderInv == \A w \in Workers : pc[w] = "folder" /\ Clear(w) => MovedSoFar(w)

\* Where nothing is at the destination, the new paths are apart from each other and
\* from those of all entries.
LEMMA NewPathsApart ==
  ASSUME Shape, NEW w \in Workers, pc[w] = "folder", Clear(w),
         \A p \in Entries(rows) : Under(w, p) => NewPath(w, p) \in Paths
  PROVE  /\ \A p \in Entries(rows) : Under(w, p) => NewPath(w, p) \notin Entries(rows)
         /\ \A p, q \in Entries(rows) :
              Under(w, p) /\ Under(w, q) /\ NewPath(w, p) = NewPath(w, q) => p = q
<1>1. op[w].src \in Paths /\ op[w].dst \in Paths /\ Entries(rows) \subseteq Paths
  BY DEF Shape, OpsOK, Entries
<1>2. ASSUME NEW p \in Entries(rows), Under(w, p) PROVE NewPath(w, p) \notin Entries(rows)
  <2>1. p \in Paths /\ (p = op[w].src \/ Below(p, op[w].src))
    BY <1>1, <1>2 DEF Under
  <2>2. NewPath(w, p) = op[w].dst \/ Below(NewPath(w, p), op[w].dst)
    BY <1>1, <2>1, RenamedGoes DEF NewPath
  <2>3. QED
    BY <2>2 DEF Clear
<1>3. ASSUME NEW p \in Entries(rows), NEW q \in Entries(rows),
             Under(w, p), Under(w, q), NewPath(w, p) = NewPath(w, q)
      PROVE  p = q
  <2>1. /\ p \in Paths /\ (p = op[w].src \/ Below(p, op[w].src))
        /\ q \in Paths /\ (q = op[w].src \/ Below(q, op[w].src))
    BY <1>1, <1>3 DEF Under
  <2>2. QED
    BY <1>1, <1>3, <2>1, RenamedApart DEF NewPath
<1>4. QED
  BY <1>2, <1>3

\* The move begins with what LIKE finds.
LEMMA FolderBegins ==
  ASSUME Shape, NEW w \in Workers, MoveFolder(w), Clear(w) PROVE MovedSoFar(w)'
<1> DEFINE src == op[w].src
           listed == {p \in Entries(rows) : p = src \/ MatchesBelow(p, src)}
<1>1. /\ pc[w] = "checked" /\ txRows' = rows /\ txMetas' = metas
      /\ \A p \in listed : Renamed(p, src, op[w].dst) \in Paths
      /\ todo' = [todo EXCEPT ![w] = listed]
      /\ UNCHANGED <<rows, metas, op>>
  BY DEF MoveFolder, Lock, tableVars
<1>2. src \in Paths /\ Entries(rows) \subseteq Paths
  BY <1>1 DEF Shape, OpsOK, Entries
<1>3. \A p \in Entries(rows) : Under(w, p) <=> p \in listed
  BY <1>2, BelowMatches DEF Clear, Under
<1>4. todo'[w] = listed
  BY <1>1 DEF Shape, MaintTypeOK, MaintTypes
<1> HIDE DEF listed
<1>5. \A p : (Under(w, p)' <=> Under(w, p)) /\ NewPath(w, p)' = NewPath(w, p)
  BY <1>1 DEF Under, NewPath
<1>6. Entries(rows)' = Entries(rows)
  BY <1>1
<1>7. MovedAway(w)' = {}
  BY <1>3, <1>4, <1>5, <1>6 DEF MovedAway
<1>8. \A p \in Entries(rows) : Under(w, p) => NewPath(w, p) \in Paths
  BY <1>1, <1>3 DEF NewPath
<1>9. \A p \in listed : p \in Entries(rows)
  BY DEF listed
<1>10. RowsMoved(w)' /\ MetasMoved(w)'
  BY <1>1, <1>7 DEF RowsMoved, MetasMoved
<1>11. QED
  BY <1>3, <1>4, <1>5, <1>6, <1>8, <1>9, <1>10 DEF MovedSoFar

LEMMA FolderGoesOn ==
  ASSUME Shape, NEW w \in Workers, NEW p \in Paths, MoveOne(w, p), Clear(w), MovedSoFar(w)
  PROVE  MovedSoFar(w)'
<1> DEFINE new == NewPath(w, p)
<1>1. /\ pc[w] = "folder" /\ p \in todo[w]
      /\ txRows' = ReplacedRows(txRows, p, new, {new})
      /\ txMetas' = ReplacedMetas(txMetas, p, new, {new})
      /\ todo' = [todo EXCEPT ![w] = @ \ {p}]
      /\ UNCHANGED <<rows, metas, op>>
  BY DEF MoveOne, tableVars, NewPath
<1>2. /\ todo'[w] = todo[w] \ {p} /\ Entries(rows) \subseteq Paths
      /\ txRows \in Tables /\ txMetas \in SUBSET Metas /\ metas \in SUBSET Metas
  BY <1>1, ShapeValues DEF Shape, MaintTypeOK, MaintTypes, Entries
<1>3. p \in Entries(rows) /\ Under(w, p) /\ new \in Paths /\ p \notin MovedAway(w)
  BY <1>1 DEF MovedSoFar, MovedAway
<1>4. /\ \A q \in Entries(rows) : Under(w, q) => NewPath(w, q) \notin Entries(rows)
      /\ \A q, r \in Entries(rows) :
           Under(w, q) /\ Under(w, r) /\ NewPath(w, q) = NewPath(w, r) => q = r
  BY <1>1, NewPathsApart DEF MovedSoFar
<1>5. \A q : (Under(w, q)' <=> Under(w, q)) /\ NewPath(w, q)' = NewPath(w, q)
  BY <1>1 DEF Under, NewPath
<1>6. Entries(rows)' = Entries(rows)
  BY <1>1
<1>7. MovedAway(w)' = MovedAway(w) \union {p}
  BY <1>2, <1>3, <1>5, <1>6 DEF MovedAway
<1>8. \A q \in MovedAway(w) : /\ q \in Entries(rows) /\ Under(w, q) /\ q # p /\ q # new
                          /\ NewPath(w, q) # new /\ NewPath(w, q) # p /\ NewPath(w, q) \in Paths
  BY <1>3, <1>4 DEF MovedAway, MovedSoFar
<1>9. p # new /\ txRows[p] = rows[p] /\ rows[p] # None
  <2>1. p # new
    BY <1>3, <1>4
  <2>2. \A q \in MovedAway(w) : p # NewPath(w, q)
    BY <1>8
  <2>3. QED
    BY <1>2, <1>3, <2>1, <2>2 DEF MovedSoFar, RowsMoved, Entries
<1> HIDE DEF new
<1>10. \A q \in Paths : txRows'[q] = IF q = new THEN rows[p] ELSE IF q = p THEN None ELSE txRows[q]
  <2> DEFINE R1 == Without(txRows, {new})
  <2>1. R1 \in Tables /\ R1[p] = rows[p] /\ \A q \in Paths : q # new => R1[q] = txRows[q]
    BY <1>2, <1>3, <1>9, TableValues DEF Without
  <2>2. txRows' = IF R1[p] = None THEN R1 ELSE [R1 EXCEPT ![p] = None, ![new] = R1[p]]
    BY <1>1 DEF ReplacedRows
  <2> HIDE DEF R1
  <2>3. QED
    BY <1>3, <1>9, <2>1, <2>2 DEF Tables
<1>11. RowsMoved(w)'
  <2>1. \A q \in MovedAway(w)' : txRows'[q] = None /\ txRows'[NewPath(w, q)'] = rows'[q]
    <3>1. SUFFICES ASSUME NEW q \in MovedAway(w) \union {p}
                   PROVE  txRows'[q] = None /\ txRows'[NewPath(w, q)] = rows[q]
      BY <1>1, <1>5, <1>7
    <3>2. CASE q = p
      BY <1>2, <1>3, <1>9, <1>10, <3>2 DEF new
    <3>3. CASE q \in MovedAway(w)
      BY <1>2, <1>8, <1>10, <3>3 DEF MovedSoFar, RowsMoved
    <3>4. QED
      BY <3>1, <3>2, <3>3
  <2>2. ASSUME NEW q \in Paths \ MovedAway(w)', \A r \in MovedAway(w)' : q # NewPath(w, r)'
        PROVE  txRows'[q] = rows'[q]
    <3>1. q \notin MovedAway(w) /\ q # p /\ q # new /\ \A r \in MovedAway(w) : q # NewPath(w, r)
      BY <1>5, <1>7, <2>2 DEF new
    <3>2. txRows[q] = rows[q]
      BY <2>2, <3>1 DEF MovedSoFar, RowsMoved
    <3>3. QED
      BY <1>1, <1>10, <2>2, <3>1, <3>2
  <2>3. QED
    BY <2>1, <2>2 DEF RowsMoved
<1>12. MetasMoved(w)'
  <2>1. SUFFICES ASSUME NEW m \in metas, m.path \in Entries(rows)
                 PROVE  (IF m.path \in MovedAway(w) \union {p}
                           THEN [m EXCEPT !.path = NewPath(w, m.path)] ELSE m) \in txMetas'
    BY <1>1, <1>5, <1>6, <1>7 DEF MetasMoved
  <2>2. \A k \in txMetas : k.path # new =>
          (IF k.path = p THEN [k EXCEPT !.path = new] ELSE k) \in txMetas'
    BY <1>1 DEF ReplacedMetas, MetasOf
  <2>3. m \in Metas
    BY <1>2, <2>1
  <2>4. CASE m.path \in MovedAway(w)
    <3>1. [m EXCEPT !.path = NewPath(w, m.path)] \in txMetas
      BY <2>1, <2>4 DEF MovedSoFar, MetasMoved
    <3>2. [m EXCEPT !.path = NewPath(w, m.path)].path = NewPath(w, m.path)
      BY <2>3 DEF Metas
    <3>3. QED
      BY <1>8, <2>2, <2>4, <3>1, <3>2
  <2>5. CASE m.path = p
    <3>1. m \in txMetas
      BY <1>3, <2>1, <2>5 DEF MovedSoFar, MetasMoved
    <3>2. QED
      BY <1>9, <2>2, <2>5, <3>1 DEF new
  <2>6. CASE m.path \notin MovedAway(w) \union {p}
    <3>1. m \in txMetas
      BY <2>1, <2>6 DEF MovedSoFar, MetasMoved
    <3>2. m.path # new
      BY <1>3, <1>4, <2>1 DEF new
    <3>3. QED
      BY <2>2, <2>6, <3>1, <3>2
  <2>7. QED
    BY <2>4, <2>5, <2>6
<1>13. QED
  BY <1>1, <1>2, <1>5, <1>6, <1>11, <1>12 DEF MovedSoFar

LEMMA StepFolder ==
  ASSUME Shape, Shape', FolderInv, [MaintNext]_maintVars
  PROVE  FolderInv'
<1> SUFFICES ASSUME NEW w \in Workers, pc'[w] = "folder", Clear(w)' PROVE MovedSoFar(w)'
  BY DEF FolderInv
<1>1. writer' = w /\ w # None
  BY MaintConstantsOK DEF Shape, MaintTypeOK
<1>2. ASSUME writer = w, UNCHANGED <<pc, op, todo, rows, metas, txRows, txMetas>>
      PROVE  MovedSoFar(w)'
  BY <1>2 DEF FolderInv, MovedSoFar, RowsMoved, MetasMoved, MovedAway, Clear, Under, NewPath
<1>3. CASE Quiet
  <2>1. /\ pc[w] = "folder" /\ op'[w] = op[w] /\ todo'[w] = todo[w] /\ metas' = metas
        /\ UNCHANGED <<rows, txRows, txMetas>>
    BY <1>1, <1>3 DEF Quiet, Writing
  <2>2. Clear(w) /\ (MovedSoFar(w)' <=> MovedSoFar(w))
    BY <2>1 DEF MovedSoFar, RowsMoved, MetasMoved, MovedAway, Clear, Under, NewPath
  <2>3. QED
    BY <2>1, <2>2 DEF FolderInv
<1>4. ASSUME NEW p \in Paths, Index(p) PROVE writer' = None
  BY <1>4 DEF Index, txVars
<1>5. ASSUME NEW v \in Workers, NEW P \in SUBSET Paths, Deletes(v, P) PROVE writer' = None
  BY <1>5 DEF Deletes, DeleteFromIndex, txVars
<1>6. ASSUME NEW v \in Workers, MoveFile(v) PROVE writer' = None
  BY <1>6, MoveFileValues
<1>7. ASSUME NEW v \in Workers, MetaInsert(v) PROVE writer' = None
  BY <1>7 DEF MetaInsert, txVars
<1>8. ASSUME NEW v \in Workers, Locks(v) PROVE MovedSoFar(w)'
  <2>1. v = w
    BY <1>1, <1>8 DEF Locks, Lock
  <2>2. MoveFolder(w)
    BY <1>8, <2>1 DEF Locks
  <2>3. Clear(w)
    BY <2>2 DEF MoveFolder, tableVars, Clear
  <2>4. QED
    BY <2>2, <2>3, FolderBegins
<1>9. ASSUME NEW v \in Workers, Ends(v) PROVE writer' = None
  BY <1>9 DEF Ends
<1>10. ASSUME NEW v \in Workers, NEW p \in Paths, Reads(v, p) PROVE FALSE
  <2>1. pc[v] = "scan" /\ writer = v /\ writer' = writer /\ pc' = pc
    BY <1>10, ReadsValues
  <2>2. QED
    BY <1>1, <2>1
<1>11. ASSUME NEW v \in Workers, NEW p \in Paths, MoveOne(v, p) PROVE MovedSoFar(w)'
  <2>1. writer = v /\ UNCHANGED <<rows, writer, pc, op>>
    BY <1>11, MoveValues
  <2>2. v = w /\ pc[w] = "folder" /\ Clear(w)
    BY <1>1, <2>1 DEF Clear
  <2>3. QED
    BY <1>11, <2>2, FolderGoesOn DEF FolderInv
<1>12. ASSUME NEW v \in Workers, NEW m \in Metas, RestoreOne(v, m) PROVE FALSE
  <2>1. pc[v] = "restoring" /\ writer' = writer /\ pc' = pc
    BY <1>12 DEF RestoreOne
  <2>2. writer = v
    BY <2>1, ShapeValues DEF Writing
  <2>3. QED
    BY <1>1, <2>1, <2>2
<1>13. QED
  BY <1>1, <1>3, <1>4, <1>5, <1>6, <1>7, <1>8, <1>9, <1>10, <1>11, <1>12, MaintSteps

\* Creating missing folders makes no file and takes none.
LEMMA FoldersCreated ==
  ASSUME NEW T \in Tables, CanCreate(T)
  PROVE  /\ FilesIn(WithFolders(T)) = FilesIn(T)
         /\ \A p \in FilesIn(T) : WithFolders(T)[p] = T[p]
<1>1. \A p \in MissingFolders(T) : T[p] = None
  BY DEF CanCreate
<1>2. \A p \in FilesIn(T) : p \in Paths /\ WithFolders(T)[p] = T[p]
  BY <1>1 DEF FilesIn, Entries, WithFolders
<1>3. \A p \in Paths : WithFolders(T)[p] = T[p] \/ IsDir(WithFolders(T)[p])
  BY DEF WithFolders, IsDir, DirRow
<1>4. QED
  BY <1>2, <1>3 DEF FilesIn, Entries

\* The move of a folder to a free place takes every file and its metadata, and no
\* other, in whatever order the rows come up (moveEntry, dbops.cpp).
THEOREM FoldersMoveWhole == MaintSpec => FolderMovesKeepFiles
<1> DEFINE To(w, p) == IF p = op[w].src \/ Below(p, op[w].src)
                         THEN Renamed(p, op[w].src, op[w].dst) ELSE p
<1>1. Shape /\ FolderInv /\ [MaintNext]_maintVars => Shape' /\ FolderInv'
  BY StepShape, StepFolder
<1>2. MaintInit => Shape /\ FolderInv
  BY InitShape DEF MaintInit, FolderInv
<1>3. ASSUME Shape, FolderInv, NEW w \in Workers, FolderMoved(w),
             \A p \in Entries(rows) : p # op[w].dst /\ ~ Below(p, op[w].dst),
             \A p \in Entries(rows) : MatchesBelow(p, op[w].src) => Below(p, op[w].src)
      PROVE  /\ FilesIn(rows') = {To(w, p) : p \in FilesIn(rows)}
             /\ \A p \in FilesIn(rows) : rows'[To(w, p)] = rows[p]
             /\ \A m \in metas : m.path \in FilesIn(rows) =>
                  [m EXCEPT !.path = To(w, m.path)] \in metas'
  <2>1. /\ pc[w] = "folder" /\ todo[w] = {} /\ CanCreate(txRows)
        /\ rows' = WithFolders(txRows) /\ metas' = txMetas
    BY <1>3 DEF FolderMoved
  <2>2. Clear(w) /\ MovedSoFar(w)
    BY <1>3, <2>1 DEF Clear, FolderInv
  <2>3. txRows \in Tables /\ rows \in Tables /\ metas \in SUBSET Metas
    BY <1>3, ShapeValues
  <2>4. \A p : To(w, p) = IF Under(w, p) THEN NewPath(w, p) ELSE p
    BY DEF Under, NewPath
  <2> HIDE DEF To
  <2>5. \A p \in Entries(rows) : p \in Paths /\ (p \in MovedAway(w) <=> Under(w, p))
    BY <2>1 DEF MovedAway, Entries
  <2>6. \A p \in Entries(rows) : /\ Under(w, p) => NewPath(w, p) \notin Entries(rows)
                                 /\ Under(w, p) => NewPath(w, p) \in Paths
    BY <1>3, <2>1, <2>2, NewPathsApart DEF MovedSoFar
  <2>7. \A p \in Entries(rows) : To(w, p) \in Paths /\ txRows[To(w, p)] = rows[p]
    <3>1. SUFFICES ASSUME NEW p \in Entries(rows)
                   PROVE  To(w, p) \in Paths /\ txRows[To(w, p)] = rows[p]
      OBVIOUS
    <3>2. CASE Under(w, p)
      BY <2>2, <2>4, <2>5, <2>6, <3>2 DEF MovedSoFar, RowsMoved
    <3>3. CASE ~ Under(w, p)
      <4>1. p \in Paths \ MovedAway(w) /\ \A q \in MovedAway(w) : p # NewPath(w, q)
        BY <2>5, <2>6, <3>3 DEF MovedAway
      <4>2. QED
        BY <2>2, <2>4, <3>3, <4>1 DEF MovedSoFar, RowsMoved
    <3>4. QED
      BY <3>2, <3>3
  <2>8. \A q \in Entries(txRows) : \E p \in Entries(rows) : q = To(w, p)
    <3>1. SUFFICES ASSUME NEW q \in Entries(txRows)
                   PROVE  \E p \in Entries(rows) : q = To(w, p)
      OBVIOUS
    <3>2. q \in Paths /\ txRows[q] # None
      BY DEF Entries
    <3>3. q \notin MovedAway(w)
      BY <2>2, <3>2 DEF MovedSoFar, RowsMoved
    <3>4. CASE \E p \in MovedAway(w) : q = NewPath(w, p)
      BY <2>4, <3>4 DEF MovedAway
    <3>5. CASE \A p \in MovedAway(w) : q # NewPath(w, p)
      <4>1. txRows[q] = rows[q]
        BY <2>2, <3>2, <3>3, <3>5 DEF MovedSoFar, RowsMoved
      <4>2. q \in Entries(rows)
        BY <3>2, <4>1 DEF Entries
      <4>3. QED
        BY <2>4, <2>5, <3>3, <4>2
    <3>6. QED
      BY <3>4, <3>5
  <2>9. FilesIn(txRows) = {To(w, p) : p \in FilesIn(rows)}
    <3>1. \A p \in FilesIn(rows) : To(w, p) \in FilesIn(txRows)
      BY <2>7 DEF FilesIn, Entries
    <3>2. \A q \in FilesIn(txRows) : \E p \in FilesIn(rows) : q = To(w, p)
      BY <2>7, <2>8 DEF FilesIn
    <3>3. QED
      BY <3>1, <3>2
  <2>10. /\ FilesIn(rows') = {To(w, p) : p \in FilesIn(rows)}
         /\ \A p \in FilesIn(rows) : rows'[To(w, p)] = rows[p]
    <3>1. FilesIn(rows') = FilesIn(txRows) /\ \A q \in FilesIn(txRows) : rows'[q] = txRows[q]
      BY <2>1, <2>3, FoldersCreated
    <3>2. \A p \in FilesIn(rows) : p \in Entries(rows) /\ To(w, p) \in FilesIn(txRows)
      BY <2>9 DEF FilesIn
    <3>3. QED
      BY <2>7, <2>9, <3>1, <3>2
  <2>11. ASSUME NEW m \in metas, m.path \in FilesIn(rows)
         PROVE  [m EXCEPT !.path = To(w, m.path)] \in metas'
    <3>1. m.path \in Entries(rows) /\ m \in Metas
      BY <2>3, <2>11 DEF FilesIn
    <3>2. (IF m.path \in MovedAway(w) THEN [m EXCEPT !.path = NewPath(w, m.path)] ELSE m) \in txMetas
      BY <2>2, <2>11, <3>1 DEF MovedSoFar, MetasMoved
    <3>3. [m EXCEPT !.path = m.path] = m
      BY <3>1 DEF Metas
    <3>4. QED
      BY <2>1, <2>4, <2>5, <3>1, <3>2, <3>3
  <2>12. QED
    BY <2>10, <2>11
<1>4. Shape /\ FolderInv /\ [MaintNext]_maintVars =>
        [\A w \in Workers :
           LET src == op[w].src
               dst == op[w].dst
               Moved(p) == IF p = src \/ Below(p, src) THEN Renamed(p, src, dst) ELSE p
           IN  /\ FolderMoved(w)
               /\ \A p \in Entries(rows) : p # dst /\ ~ Below(p, dst)
               /\ \A p \in Entries(rows) : MatchesBelow(p, src) => Below(p, src)
               => /\ FilesIn(rows') = {Moved(p) : p \in FilesIn(rows)}
                  /\ \A p \in FilesIn(rows) : rows'[Moved(p)] = rows[p]
                  /\ \A m \in metas : m.path \in FilesIn(rows) =>
                       [m EXCEPT !.path = Moved(m.path)] \in metas']_maintVars
  BY <1>3
<1>5. QED
  BY <1>1, <1>2, <1>4, PTL DEF MaintSpec, FolderMovesKeepFiles

==============================================================================
