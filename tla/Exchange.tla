------------------------------- MODULE Exchange -------------------------------
(***************************************************************************)
(* Datasets that are brought together by deltas of their stamps: getDelta()  *)
(* (delta.cpp), applyDelta() and computeDeltaLocals() (registry.cpp), the    *)
(* push of a client to a registry (Registry::push, pushmanager.cpp), and the *)
(* last stamp that a client keeps of a registry (syncmanager.cpp).           *)
(* The registry is another program: it is modelled by what push() expects of *)
(* it, and by the calls it makes here, DDBDelta, DDBComputeDeltaLocals and   *)
(* DDBApplyDelta (ddb.cpp).  It applies one delta at a time.                  *)
(* Registry::pull() never gets beyond getStamp(), which takes the text of     *)
(* the answer for a JSON object; what a pull does with a delta is here what  *)
(* another caller of DDBApplyDelta does (Fetch).                              *)
(***************************************************************************)
EXTENDS Naturals, Sequences, FiniteSets

CONSTANTS
  Clients,     \* datasets that push
  Registry,    \* the dataset on the registry
  Files,       \* paths of files
  Folders,     \* paths of folders; no path is both
  Hashes,      \* contents of files
  Dir,         \* the value of a folder: an empty hash
  Ids,         \* ids of metadata: records of keys that may have many
  None,        \* nothing
  MaxEdits,    \* bounds the changes that users make
  Fetching,    \* the strategies of those that fetch
  MaxJobs      \* bounds the applications of deltas

Nodes == Clients \union {Registry}
Paths == Files \union Folders
Values == Hashes \union {Dir, None}
Strategies == {"DontMerge", "KeepTheirs", "KeepOurs"}

\* What getStamp() tells of a dataset; equal checksums are equal stamps.
Contents == [Paths -> Values]
Stamps == [files : Contents, metas : SUBSET Ids]
Records == [Ids -> Paths \union {None}]  \* the entry of each record; None: no record

Below(p, q) == Len(p) > Len(q) /\ SubSeq(p, 1, Len(q)) = q
Ancestors(p) == {q \in Folders : Below(p, q)}

\* Nothing is below a file.
ASSUME ExchangeConstantsOK ==
  /\ \A p \in Paths : p \in Seq(STRING) /\ p # <<>>
  /\ \A p \in Paths, q \in Files : ~ Below(p, q)
  /\ Files \intersect Folders = {}
  /\ Registry \notin Clients
  /\ Dir \notin Hashes
  /\ None \notin Hashes \union {Dir} \union Nodes \union Paths \union Stamps
  /\ Fetching \subseteq Strategies
  /\ MaxEdits \in Nat
  /\ MaxJobs \in Nat

Nowhere == [p \in Paths |-> None]
Without(files, P) == [p \in Paths |-> IF p \in P THEN None ELSE files[p]]

------------------------------------------------------------------------------
\* As they must not be: folders are not added; changed files are also removed.
AddsOfFiles(S, D) == {p \in Files : S.files[p] # None /\ D.files[p] # S.files[p]}
RemovesByHash(S, D) == {p \in Paths : D.files[p] # None /\ S.files[p] # D.files[p]}

\* getDelta(): what the destination lacks or has otherwise is added; what it has
\* and the source has not, by path and kind, is removed.
Adds(S, D) == {p \in Paths : S.files[p] # None /\ D.files[p] # S.files[p]}
Removes(S, D) == {p \in Paths : D.files[p] # None /\ S.files[p] = None}

\* A delta names the hashes of what it adds and removes.
Delta(S, D) ==
  [adds |-> [p \in Paths |-> IF p \in Adds(S, D) THEN S.files[p] ELSE None],
   removes |-> [p \in Paths |-> IF p \in Removes(S, D) THEN D.files[p] ELSE None],
   metaAdds |-> S.metas \ D.metas,
   metaRemoves |-> D.metas \ S.metas]
Deltas == [adds : Contents, removes : Contents, metaAdds : SUBSET Ids,
           metaRemoves : SUBSET Ids]
Listed(files) == {p \in Paths : files[p] # None}

VARIABLES
  rows,        \* per dataset, the table entries
  disk,        \* per dataset, the files
  metas,       \* per dataset, the table entries_meta
  stamp,       \* per client, the stamp it keeps for the registry
  phase,       \* per client, where its push is
  want,        \* per client, the stamp that it sent to the registry
  session,     \* per client, the delta that the registry has for its push
  folder,      \* per client, the folder of the registry with the files of its push
  sent,        \* per client, the metadata that it uploaded
  job,         \* the delta that is being applied, or None
  edits, jobs, \* counters
  unlike       \* history, per client: its dataset, or the registry, has changed
               \* otherwise than by its push since it began

dataVars == <<rows, disk, metas>>
pushVars == <<stamp, phase, want, session, folder, sent>>
exchangeVars == <<dataVars, pushVars, job, edits, jobs, unlike>>

Phases == {"idle", "meta", "upload", "applying", "applied"}
Kept(records) == {i \in Ids : records[i] # None}
Stamp(n) == [files |-> rows[n], metas |-> Kept(metas[n])]
NoRecords == [i \in Ids |-> None]
EmptyStamp == [files |-> Nowhere, metas |-> {}]
NoDelta == Delta(EmptyStamp, EmptyStamp)

\* An application of a delta: where, for whose push (or None), how, from which
\* folder and dump; what is left of the delta; the conflicts; what is removed
\* from the index but not yet from the disk, and copied but not yet indexed.
\* The history: the stamp it leads to, and whether all is there for that.
Jobs == [on : Nodes, by : Clients \union {None}, strategy : Strategies, folder : Contents,
         dump : Records, left : Deltas, clash : SUBSET Paths,
         doomed : Paths \union {None}, copied : Paths \union {None},
         goal : Stamps, exact : BOOLEAN]

ASSUME ExchangeJobsOK == None \notin Jobs

ExchangeTypeOK ==
  /\ rows \in [Nodes -> Contents]
  /\ disk \in [Nodes -> Contents]
  /\ metas \in [Nodes -> Records]
  /\ stamp \in [Clients -> Stamps \union {None}]
  /\ phase \in [Clients -> Phases]
  /\ want \in [Clients -> Stamps]
  /\ session \in [Clients -> Deltas]
  /\ folder \in [Clients -> Contents]
  /\ sent \in [Clients -> Records]
  /\ job \in Jobs \union {None}
  /\ edits \in 0 .. MaxEdits
  /\ jobs \in 0 .. MaxJobs
  /\ unlike \in [Clients -> BOOLEAN]
  /\ \A c \in Clients : phase[c] = "applying" <=> job # None /\ job.by = c

\* The same dataset everywhere; a client may not have a stamp of the registry.
ExchangeInit ==
  /\ \E files \in Contents, records \in Records :
       /\ \A p \in Files : files[p] # Dir
       /\ \A p \in Folders : files[p] \in {Dir, None}
       /\ \A p \in Paths : files[p] # None => \A q \in Ancestors(p) : files[q] = Dir
       /\ \A i \in Ids : records[i] # None => files[records[i]] # None
       /\ rows = [n \in Nodes |-> files]
       /\ disk = [n \in Nodes |-> files]
       /\ metas = [n \in Nodes |-> records]
       /\ stamp \in [Clients -> {[files |-> files, metas |-> Kept(records)], None}]
  /\ phase = [c \in Clients |-> "idle"]
  /\ want = [c \in Clients |-> EmptyStamp]
  /\ session = [c \in Clients |-> NoDelta]
  /\ folder = [c \in Clients |-> Nowhere]
  /\ sent = [c \in Clients |-> NoRecords]
  /\ job = None
  /\ edits = 0
  /\ jobs = 0
  /\ unlike = [c \in Clients |-> FALSE]

------------------------------------------------------------------------------
\* The user of a client: each change is of the files and of the index.
Gone(files, p) == Without(files, {q \in Paths : q = p \/ Below(q, p)})
Orphaned(records, P) == [i \in Ids |-> IF records[i] \in P THEN None ELSE records[i]]
Stood(files, p, v) ==
  [q \in Paths |-> IF q = p THEN v ELSE IF q \in Ancestors(p) THEN Dir ELSE files[q]]

Editing == edits < MaxEdits
Edited(c) ==
  /\ edits' = edits + 1
  /\ unlike' = [unlike EXCEPT ![c] = phase[c] # "idle"]
  /\ UNCHANGED <<pushVars, job, jobs>>

Save(c, p, v) ==
  /\ Editing
  /\ v \in IF p \in Files THEN Hashes ELSE {Dir}
  /\ rows[c][p] # v
  /\ rows' = [rows EXCEPT ![c] = Stood(@, p, v)]
  /\ disk' = [disk EXCEPT ![c] = Stood(@, p, v)]
  /\ UNCHANGED metas
  /\ Edited(c)

Remove(c, p) ==
  /\ Editing
  /\ rows[c][p] # None
  /\ rows' = [rows EXCEPT ![c] = Gone(@, p)]
  /\ disk' = [disk EXCEPT ![c] = Gone(@, p)]
  /\ metas' = [metas EXCEPT ![c] = Orphaned(@, {q \in Paths : q = p \/ Below(q, p)})]
  /\ Edited(c)

\* A file is moved with its records.
Move(c, p, q) ==
  /\ Editing
  /\ {p, q} \subseteq Files
  /\ disk[c][p] # None /\ rows[c][p] = disk[c][p]
  /\ rows[c][q] = None
  /\ rows' = [rows EXCEPT ![c] = Gone(Stood(@, q, @[p]), p)]
  /\ disk' = [disk EXCEPT ![c] = Gone(Stood(@, q, @[p]), p)]
  /\ metas' = [metas EXCEPT ![c] = [i \in Ids |-> IF @[i] = p THEN q ELSE @[i]]]
  /\ Edited(c)

\* A record is added, with a new id, or removed.
Annotate(c, i, p) ==
  /\ Editing
  /\ rows[c][p] # None
  /\ \A n \in Nodes : metas[n][i] = None
  /\ metas' = [metas EXCEPT ![c][i] = p]
  /\ UNCHANGED <<rows, disk>>
  /\ Edited(c)

Forget(c, i) ==
  /\ Editing
  /\ metas[c][i] # None
  /\ metas' = [metas EXCEPT ![c][i] = None]
  /\ UNCHANGED <<rows, disk>>
  /\ Edited(c)

------------------------------------------------------------------------------
\* The push of a client.  A client that has no stamp of the registry takes its own
\* for it, and keeps it.
LastStamp(c) == IF stamp[c] = None THEN Stamp(c) ELSE stamp[c]

\* The row that a query for a hash gives first, if the index has any.
FirstRows(n) ==
  {first \in [Hashes -> Files] :
     \A h \in Hashes : (\E p \in Files : rows[n][p] = h) => rows[n][first[h]] = h}

\* computeDeltaLocals(): what the index has with the hash of an added file is put into
\* the folder, if the file of the first row is as the index says; others are not tried.
Locals(n, d, first) ==
  LET Valid(h) == rows[n][first[h]] = h /\ disk[n][first[h]] = h
  IN  [p \in Paths |-> IF d.adds[p] \in Hashes /\ Valid(d.adds[p]) THEN d.adds[p] ELSE None]

\* A registry that is not what the client last saw of it asks for a pull; else it
\* has what is new of the client's dataset, and the rest of the push is to send it.
PullRequired(c) ==
  /\ phase[c] = "idle"
  /\ LastStamp(c) # Stamp(Registry)
  /\ Stamp(Registry) # EmptyStamp
  /\ stamp[c] = None
  /\ stamp' = [stamp EXCEPT ![c] = LastStamp(c)]
  /\ UNCHANGED <<dataVars, phase, want, session, folder, sent, job, edits, jobs, unlike>>

PushInit(c) ==
  /\ phase[c] = "idle"
  /\ Stamp(Registry) \in {LastStamp(c), EmptyStamp}
  /\ stamp' = [stamp EXCEPT ![c] = LastStamp(c)]
  /\ want' = [want EXCEPT ![c] = Stamp(c)]
  /\ LET d == Delta(Stamp(c), Stamp(Registry))
     IN  /\ session' = [session EXCEPT ![c] = d]
         /\ \E first \in FirstRows(Registry) :
              folder' = [folder EXCEPT ![c] = Locals(Registry, d, first)]
         /\ unlike' = [unlike EXCEPT ![c] =
                         \/ job # None /\ job.on \in {c, Registry}
                         \/ rows[c] # disk[c] \/ rows[Registry] # disk[Registry]]
  /\ sent' = [sent EXCEPT ![c] = NoRecords]
  /\ phase' = [phase EXCEPT ![c] = "meta"]
  /\ UNCHANGED <<dataVars, job, edits, jobs>>

\* PushManager::meta() and upload() send what the client has by now.
Meta(c) ==
  /\ phase[c] = "meta"
  /\ sent' = [sent EXCEPT ![c] = [i \in Ids |-> IF i \in session[c].metaAdds THEN metas[c][i]
                                                                             ELSE None]]
  /\ phase' = [phase EXCEPT ![c] = "upload"]
  /\ UNCHANGED <<dataVars, stamp, want, session, folder, job, edits, jobs, unlike>>

Needed(c) == {p \in Files : session[c].adds[p] # None /\ folder[c][p] = None}

Upload(c, p) ==
  /\ phase[c] = "upload"
  /\ p \in Needed(c)
  /\ disk[c][p] # None
  /\ folder' = [folder EXCEPT ![c][p] = disk[c][p]]
  /\ UNCHANGED <<dataVars, stamp, phase, want, session, sent, job, edits, jobs, unlike>>

SessionOver(c) ==
  /\ want' = [want EXCEPT ![c] = EmptyStamp]
  /\ session' = [session EXCEPT ![c] = NoDelta]
  /\ folder' = [folder EXCEPT ![c] = Nowhere]
  /\ sent' = [sent EXCEPT ![c] = NoRecords]

\* Nothing came between, and a record that both have is of the same entry, which
\* the client has: if it was moved to another, or restored where its entry is not,
\* it would go with the entry that the registry has, and is not in the delta.
Exact(c) ==
  /\ ~ unlike[c]
  /\ \A i \in Ids : {metas[c][i], metas[Registry][i]} \subseteq Paths
                      => metas[c][i] = metas[Registry][i] /\ rows[c][metas[c][i]] # None

\* The registry applies the delta of the session: the client's side wins.
Commit(c) ==
  /\ phase[c] = "upload"
  /\ Needed(c) = {}
  /\ job = None
  /\ jobs < MaxJobs
  /\ jobs' = jobs + 1
  /\ job' = [on |-> Registry, by |-> c, strategy |-> "KeepTheirs", folder |-> folder[c],
             dump |-> sent[c], left |-> session[c], clash |-> {}, doomed |-> None,
             copied |-> None, goal |-> want[c],
             exact |-> Exact(c)]
  /\ phase' = [phase EXCEPT ![c] = "applying"]
  /\ unlike' = [k \in Clients |-> IF k = c THEN ~ Exact(c) ELSE unlike[k] \/ phase[k] # "idle"]
  /\ SessionOver(c)
  /\ UNCHANGED <<dataVars, stamp, edits>>

\* The last stamp is that of the client's dataset as it is when all is done.
PushEnd(c) ==
  /\ phase[c] = "applied"
  /\ stamp' = [stamp EXCEPT ![c] = Stamp(c)]
  /\ phase' = [phase EXCEPT ![c] = "idle"]
  /\ unlike' = [unlike EXCEPT ![c] = FALSE]
  /\ UNCHANGED <<dataVars, want, session, folder, sent, job, edits, jobs>>

\* The client dies, or an answer of the registry is lost or is an error; the
\* registry goes on with what it does.
PushFails(c) ==
  /\ phase[c] # "idle"
  /\ phase' = [phase EXCEPT ![c] = "idle"]
  /\ job' = IF phase[c] = "applying" THEN [job EXCEPT !.by = None] ELSE job
  /\ unlike' = [unlike EXCEPT ![c] = FALSE]
  /\ SessionOver(c)
  /\ UNCHANGED <<dataVars, stamp, edits, jobs>>

\* Another program brings what is new in the registry to a client.
Fetch(c, strategy) ==
  /\ stamp[c] \notin {None, Stamp(Registry)}
  /\ job = None
  /\ jobs < MaxJobs
  /\ jobs' = jobs + 1
  /\ job' = [on |-> c, by |-> None, strategy |-> strategy, folder |-> disk[Registry],
             dump |-> metas[Registry], left |-> Delta(Stamp(Registry), stamp[c]),
             clash |-> {}, doomed |-> None, copied |-> None, goal |-> Stamp(Registry),
             exact |-> FALSE]
  /\ unlike' = [unlike EXCEPT ![c] = TRUE]
  /\ UNCHANGED <<dataVars, pushVars, edits>>

------------------------------------------------------------------------------
\* applyDelta()
\* As it must not be: nothing differs.
DiffersNot(row, hash) == FALSE
Differs(row, hash) == row \notin {None, hash}

\* An error, or a death, leaves what is done done.
Over ==
  /\ job' = None
  /\ phase' = [c \in Clients |-> IF job.by = c THEN "idle" ELSE phase[c]]
  /\ UNCHANGED <<stamp, want, session, folder, sent, edits, jobs, unlike>>
Goes == UNCHANGED <<pushVars, edits, jobs, unlike>>

\* The next action: removals come first, from the last path to the first, then
\* additions, from the first.
NextRemoval(p) ==
  /\ p \in Listed(job.left.removes)
  /\ \A q \in Listed(job.left.removes) : ~ Below(q, p)
NextAddition(p) ==
  /\ Listed(job.left.removes) = {}
  /\ p \in Listed(job.left.adds)
  /\ \A q \in Listed(job.left.adds) : ~ Below(p, q)
Between == job # None /\ job.doomed = None /\ job.copied = None

\* What the dataset has otherwise than the delta says is a conflict, or is kept.
Skip(p, hash) ==
  /\ job.strategy # "KeepTheirs"
  /\ Differs(rows[job.on][p], hash)
  /\ job' = [job EXCEPT !.left.removes[p] = None, !.left.adds[p] = None,
                        !.clash = IF job.strategy = "DontMerge" THEN @ \union {p} ELSE @]
  /\ UNCHANGED dataVars
  /\ Goes

SkipRemoval(p) == Between /\ NextRemoval(p) /\ Skip(p, job.left.removes[p])
SkipAddition(p) == Between /\ NextAddition(p) /\ Skip(p, job.left.adds[p])

\* As it must not be: the file goes before the row.
RemoveFileFirst(p) ==
  LET n == job.on
  IN  /\ Between
      /\ NextRemoval(p)
      /\ disk' = [disk EXCEPT ![n] = Gone(@, p)]
      /\ job' = [job EXCEPT !.doomed = p]
      /\ UNCHANGED <<rows, metas>>
      /\ Goes

\* The entry is removed with what is below it, from the index and then from the
\* disk; but if the file is gone the index is left as it is.
RemoveRow(p) ==
  LET n == job.on
  IN  /\ Between
      /\ NextRemoval(p)
      /\ job.strategy # "KeepTheirs" => ~ Differs(rows[n][p], job.left.removes[p])
      /\ IF disk[n][p] = None
           THEN /\ job' = [job EXCEPT !.left.removes[p] = None]
                /\ UNCHANGED dataVars
           ELSE /\ job' = [job EXCEPT !.doomed = p]
                /\ IF rows[n][p] = None
                     THEN UNCHANGED <<rows, metas>>
                     ELSE /\ rows' = [rows EXCEPT ![n] = Gone(@, p)]
                          /\ metas' = [metas EXCEPT ![n] =
                               Orphaned(@, {q \in Paths : q = p \/ Below(q, p)})]
                /\ UNCHANGED disk
      /\ Goes

RemoveFile ==
  /\ job # None /\ job.doomed # None
  /\ disk' = [disk EXCEPT ![job.on] = Gone(@, job.doomed)]
  /\ job' = [job EXCEPT !.left.removes[job.doomed] = None, !.doomed = None]
  /\ UNCHANGED <<rows, metas>>
  /\ Goes

\* A folder is made; a file is copied from the folder of the delta.
CopyFile(p) ==
  LET n == job.on
      hash == job.left.adds[p]
  IN  /\ Between
      /\ NextAddition(p)
      /\ job.strategy # "KeepTheirs" => ~ Differs(rows[n][p], hash)
      /\ IF hash = Dir
           THEN disk' = [disk EXCEPT ![n] = Stood(@, p, Dir)]
           ELSE /\ job.folder[p] # None
                /\ \A q \in Ancestors(p) : disk[n][q] = Dir
                /\ disk' = [disk EXCEPT ![n][p] = job.folder[p]]
      /\ job' = [job EXCEPT !.copied = p]
      /\ UNCHANGED <<rows, metas>>
      /\ Goes

\* addToIndex() takes all that is below a folder, and the folders above.  A row
\* that is there is not changed: if the file is not what it says, the addition
\* ends in a violation of the key.
Touched(n, p) == {q \in Paths : disk[n][q] # None /\ (q = p \/ Below(q, p) \/ q \in Ancestors(p))}

AddRow ==
  LET n == job.on
      p == job.copied
  IN  /\ job # None /\ job.copied # None
      /\ disk[n][p] # None
      /\ \A q \in Touched(n, p) : ~ Differs(rows[n][q], disk[n][q])
      /\ rows' = [rows EXCEPT ![n] =
                    [q \in Paths |-> IF q \in Touched(n, p) THEN disk[n][q] ELSE @[q]]]
      /\ job' = [job EXCEPT !.left.adds[p] = None, !.copied = None]
      /\ UNCHANGED <<disk, metas>>
      /\ Goes

\* Conflicts end it.  Else records are restored, also of entries that are not there,
\* in one transaction, then removed in another.
FilesDone == Between /\ Listed(job.left.removes) = {} /\ Listed(job.left.adds) = {}

MetaAdd ==
  /\ FilesDone /\ job.clash = {}
  /\ job.left.metaAdds # {}
  /\ metas' = [metas EXCEPT ![job.on] =
                 [i \in Ids |-> IF i \in job.left.metaAdds /\ job.dump[i] # None THEN job.dump[i]
                                                                              ELSE @[i]]]
  /\ job' = [job EXCEPT !.left.metaAdds = {}]
  /\ UNCHANGED <<rows, disk>>
  /\ Goes

\* As it must not be: nothing is removed.
RemovedNot(records, ids) == records
Removed(records, ids) == [i \in Ids |-> IF i \in ids THEN None ELSE records[i]]

MetaRemove ==
  /\ FilesDone /\ job.clash = {}
  /\ job.left.metaAdds = {}
  /\ job.left.metaRemoves # {}
  /\ metas' = [metas EXCEPT ![job.on] = Removed(@, job.left.metaRemoves)]
  /\ job' = [job EXCEPT !.left.metaRemoves = {}]
  /\ UNCHANGED <<rows, disk>>
  /\ Goes

\* As it must not be: the push that a job is for is not told of its end.
ApplyEndUntold ==
  /\ FilesDone
  /\ job' = None
  /\ UNCHANGED <<dataVars, pushVars, edits, jobs, unlike>>

ApplyEnd ==
  /\ FilesDone
  /\ job.clash # {} \/ job.left.metaAdds \union job.left.metaRemoves = {}
  /\ job' = None
  /\ phase' = [c \in Clients |-> IF job.by = c THEN "applied" ELSE phase[c]]
  /\ UNCHANGED <<dataVars, stamp, want, session, folder, sent, edits, jobs, unlike>>

ApplyFails ==
  /\ job # None
  /\ Over
  /\ UNCHANGED dataVars

ClientNext(c) ==
  \/ \E p \in Paths : Remove(c, p) \/ Upload(c, p)
  \/ \E p \in Paths, v \in Hashes \union {Dir} : Save(c, p, v)
  \/ \E p, q \in Files : Move(c, p, q)
  \/ \E i \in Ids : Forget(c, i)
  \/ \E i \in Ids, p \in Paths : Annotate(c, i, p)
  \/ PullRequired(c) \/ PushInit(c) \/ Meta(c) \/ Commit(c) \/ PushEnd(c) \/ PushFails(c)
  \/ \E strategy \in Fetching : Fetch(c, strategy)

ApplyNext ==
  \/ \E p \in Paths : SkipRemoval(p) \/ SkipAddition(p) \/ RemoveRow(p) \/ CopyFile(p)
  \/ RemoveFile \/ AddRow \/ MetaAdd \/ MetaRemove \/ ApplyEnd \/ ApplyFails

ExchangeNext == (\E c \in Clients : ClientNext(c)) \/ ApplyNext
ExchangeSpec == ExchangeInit /\ [][ExchangeNext]_exchangeVars

------------------------------------------------------------------------------
\* What the index of the registry has is on its disk, also when an application
\* fails or dies in the middle: applyDelta() removes the row first and the file
\* then, and copies the file first and adds the row then.
RegistryHasItsFiles == \A p \in Paths : rows[Registry][p] # None => disk[Registry][p] # None

\* The push of a client that nothing came between makes the registry what the
\* client sent the stamp of, to the last record, whatever was added, removed or
\* moved - unless the client has a record of both with another entry, or without.
ApplyReconciles == [][job # None /\ job.exact /\ ApplyEnd => Stamp(Registry)' = job.goal]_exchangeVars

\* What a client keeps as the stamp of the registry after such a push is that of
\* the registry; if not, every later push is told to pull.
PushedStampIsTheRegistrys ==
  [][\A c \in Clients : ~ unlike[c] /\ PushEnd(c) => stamp'[c] = Stamp(Registry)]_exchangeVars

\* A push takes an entry off the registry only if the client had seen it, or a
\* folder above it, when it last had the registry's stamp, and has it no more.
RemovedOnlyIfSeen ==
  [][\A p \in Paths :
       rows[Registry][p] # None /\ rows'[Registry][p] = None =>
         \E q \in Paths : /\ q = p \/ Below(p, q)
                          /\ job.goal.files[q] = None
                          /\ job.by # None => stamp[job.by].files[q] # None]_exchangeVars

\* An entry of the dataset that differs from the delta's survives all but
\* KeepTheirs, unless a folder above it is removed, or it was saved again after its
\* row was removed and before the file was.
OursKept ==
  [][\A p \in Paths :
       /\ job # None /\ edits' = edits
       /\ job.strategy # "KeepTheirs"
       /\ rows[job.on][p] # None /\ disk[job.on][p] = rows[job.on][p]
       /\ rows[job.on][p] # job.left.adds[p]
       /\ rows'[job.on][p] # rows[job.on][p] \/ disk'[job.on][p] # rows[job.on][p]
       => \E q \in Paths : \/ q = p /\ (job.left.removes[q] = rows[job.on][p] \/ job.doomed = p)
                           \/ Below(p, q) /\ job.left.removes[q] # None]_exchangeVars
==============================================================================
