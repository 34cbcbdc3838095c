---------------------------- MODULE ExchangeProofs ----------------------------
(***************************************************************************)
(* Safety of Exchange for any datasets, paths and clients, and however long   *)
(* they go on: its types, that the registry has the files of its index, that  *)
(* a push removes only what the client knew of, that what differs stays, and  *)
(* that a push that nothing came between makes the registry what it sent.     *)
(***************************************************************************)
EXTENDS Exchange, SequenceTheorems, TLAPS

USE ExchangeConstantsOK, ExchangeJobsOK

------------------------------------------------------------------------------
\* Paths.

\* To be below is to be longer and to begin alike.
LEMMA BelowByNames ==
  ASSUME NEW p \in Paths, NEW q \in Paths
  PROVE  Below(p, q) <=> Len(p) > Len(q) /\ \A i \in 1 .. Len(q) : p[i] = q[i]
<1>1. p \in Seq(STRING) /\ q \in Seq(STRING)
  OBVIOUS
<1>2. CASE Len(p) > Len(q)
  <2>1. /\ 1 \in 1 .. Len(p) + 1 /\ Len(q) \in (1 - 1) .. Len(p)
        /\ Len(p) \in Nat /\ Len(q) \in Nat
    BY <1>1, <1>2
  <2>2. /\ SubSeq(p, 1, Len(q)) \in Seq(STRING)
        /\ Len(SubSeq(p, 1, Len(q))) = Len(q)
        /\ \A i \in 1 .. Len(q) : SubSeq(p, 1, Len(q))[i] = p[i]
    BY <1>1, <1>2, <2>1
  <2>3. QED
    BY <1>1, <1>2, <2>2, SeqEqual DEF Below
<1>3. QED
  BY <1>2 DEF Below

LEMMA BelowIsTransitive ==
  ASSUME NEW p \in Paths, NEW q \in Paths, NEW r \in Paths, Below(p, q), Below(q, r)
  PROVE  Below(p, r)
<1>1. Len(p) \in Nat /\ Len(q) \in Nat /\ Len(r) \in Nat
  OBVIOUS
<1>2. QED
  BY <1>1, BelowByNames

\* Of two paths above a third one is above the other.
LEMMA AboveAreAligned ==
  ASSUME NEW p \in Paths, NEW q \in Paths, NEW r \in Paths, Below(p, q), Below(p, r)
  PROVE  q = r \/ Below(q, r) \/ Below(r, q)
<1>1. Len(p) \in Nat /\ Len(q) \in Nat /\ Len(r) \in Nat
  OBVIOUS
<1>2. CASE Len(q) = Len(r)
  <2>1. q \in Seq(STRING) /\ r \in Seq(STRING) /\ \A i \in 1 .. Len(q) : q[i] = r[i]
    BY <1>2, BelowByNames
  <2>2. QED
    BY <1>2, <2>1, SeqEqual
<1>3. CASE Len(q) > Len(r)
  BY <1>1, <1>3, BelowByNames
<1>4. CASE Len(r) > Len(q)
  BY <1>1, <1>4, BelowByNames
<1>5. QED
  BY <1>1, <1>2, <1>3, <1>4

------------------------------------------------------------------------------
\* The values of the operators.

LEMMA ContentsValues ==
  ASSUME NEW files \in Contents, NEW p \in Paths, NEW v \in Values
  PROVE  /\ Gone(files, p) \in Contents
         /\ Stood(files, p, v) \in Contents
         /\ [files EXCEPT ![p] = v] \in Contents
BY DEF Gone, Without, Stood, Contents, Values

LEMMA RecordsValues ==
  ASSUME NEW records \in Records, NEW P
  PROVE  /\ Orphaned(records, P) \in Records
         /\ Removed(records, P) \in Records
BY DEF Orphaned, Removed, Records

LEMMA StampValues ==
  ASSUME ExchangeTypeOK, NEW n \in Nodes
  PROVE  Stamp(n) \in Stamps
BY DEF ExchangeTypeOK, Stamp, Stamps, Kept

LEMMA EmptyValues ==
  /\ Nowhere \in Contents
  /\ NoRecords \in Records
  /\ EmptyStamp \in Stamps
BY DEF Nowhere, NoRecords, EmptyStamp, Contents, Values, Records, Stamps

LEMMA DeltaValues ==
  ASSUME NEW S \in Stamps, NEW D \in Stamps
  PROVE  Delta(S, D) \in Deltas
<1>1. S.files \in Contents /\ D.files \in Contents /\ S.metas \subseteq Ids /\ D.metas \subseteq Ids
  BY DEF Stamps
<1>2. [p \in Paths |-> IF p \in Adds(S, D) THEN S.files[p] ELSE None] \in Contents
  BY <1>1 DEF Contents, Values
<1>3. [p \in Paths |-> IF p \in Removes(S, D) THEN D.files[p] ELSE None] \in Contents
  BY <1>1 DEF Contents, Values
<1>4. QED
  BY <1>1, <1>2, <1>3 DEF Delta, Deltas

LEMMA LocalsValues ==
  ASSUME NEW n \in Nodes, NEW d \in Deltas, NEW first
  PROVE  Locals(n, d, first) \in Contents
BY DEF Locals, Contents, Values, Deltas

\* What a delta lists of two stamps.
LEMMA DeltaListed ==
  ASSUME NEW S \in Stamps, NEW D \in Stamps, NEW p \in Paths
  PROVE  /\ Delta(S, D).removes[p] # None => D.files[p] # None /\ S.files[p] = None
         /\ Delta(S, D).adds[p] # None => Delta(S, D).adds[p] = S.files[p]
BY DEF Delta, Removes, Adds

\* A job with another state of its progress is a job.
LEMMA JobValues ==
  ASSUME NEW j \in Jobs
  PROVE  /\ j # None
         /\ j.on \in Nodes /\ j.by \in Clients \union {None} /\ j.left \in Deltas
         /\ j.left.adds \in Contents /\ j.left.removes \in Contents
         /\ j.left.metaAdds \subseteq Ids /\ j.left.metaRemoves \subseteq Ids
         /\ j.folder \in Contents /\ j.dump \in Records /\ j.goal \in Stamps
         /\ j.doomed \in Paths \union {None} /\ j.copied \in Paths \union {None}
         /\ \A c \in {None} : [j EXCEPT !.by = c] \in Jobs
         /\ \A l \in Deltas, P \in SUBSET Paths, d, k \in Paths \union {None} :
              [j EXCEPT !.left = l, !.clash = P, !.doomed = d, !.copied = k] \in Jobs
<1>1. /\ j # None
      /\ j.on \in Nodes /\ j.by \in Clients \union {None} /\ j.left \in Deltas
      /\ j.folder \in Contents /\ j.dump \in Records /\ j.goal \in Stamps
      /\ j.doomed \in Paths \union {None} /\ j.copied \in Paths \union {None}
  BY DEF Jobs
<1>2. /\ j.left.adds \in Contents /\ j.left.removes \in Contents
      /\ j.left.metaAdds \subseteq Ids /\ j.left.metaRemoves \subseteq Ids
  BY <1>1 DEF Deltas
<1>3. \A c \in {None} : [j EXCEPT !.by = c] \in Jobs
  BY DEF Jobs
<1>4. \A l \in Deltas, P \in SUBSET Paths, d, k \in Paths \union {None} :
        [j EXCEPT !.left = l, !.clash = P, !.doomed = d, !.copied = k] \in Jobs
  BY DEF Jobs
<1>5. QED
  BY <1>1, <1>2, <1>3, <1>4

------------------------------------------------------------------------------
\* The types.

LEMMA InitTypes == ExchangeInit => ExchangeTypeOK
<1> SUFFICES ASSUME ExchangeInit PROVE ExchangeTypeOK
  OBVIOUS
<1>1. PICK files \in Contents, records \in Records :
        /\ rows = [n \in Nodes |-> files]
        /\ disk = [n \in Nodes |-> files]
        /\ metas = [n \in Nodes |-> records]
        /\ stamp \in [Clients -> {[files |-> files, metas |-> Kept(records)], None}]
  BY DEF ExchangeInit
<1>2. [files |-> files, metas |-> Kept(records)] \in Stamps
  BY <1>1 DEF Stamps, Kept
<1>3. stamp \in [Clients -> Stamps \union {None}]
  BY <1>1, <1>2
<1>4. NoDelta \in Deltas
  BY EmptyValues, DeltaValues DEF NoDelta
<1>5. QED
  BY <1>1, <1>3, <1>4, EmptyValues DEF ExchangeInit, ExchangeTypeOK, Phases

\* The user changes the datasets of a client.
LEMMA EditTypes ==
  ASSUME ExchangeTypeOK, NEW c \in Clients,
         Edited(c), Editing,
         rows' \in [Nodes -> Contents], disk' \in [Nodes -> Contents],
         metas' \in [Nodes -> Records]
  PROVE  ExchangeTypeOK'
<1>1. edits' \in 0 .. MaxEdits
  BY DEF Edited, Editing, ExchangeTypeOK
<1>2. unlike' \in [Clients -> BOOLEAN]
  BY DEF Edited, ExchangeTypeOK
<1>3. QED
  BY <1>1, <1>2 DEF Edited, ExchangeTypeOK, pushVars

LEMMA UserTypes ==
  ASSUME ExchangeTypeOK, NEW c \in Clients,
         \/ \E p \in Paths : Remove(c, p)
         \/ \E p \in Paths, v \in Hashes \union {Dir} : Save(c, p, v)
         \/ \E p, q \in Files : Move(c, p, q)
         \/ \E i \in Ids : Forget(c, i)
         \/ \E i \in Ids, p \in Paths : Annotate(c, i, p)
  PROVE  ExchangeTypeOK'
<1> USE DEF Nodes
<1>1. rows \in [Nodes -> Contents] /\ disk \in [Nodes -> Contents] /\ metas \in [Nodes -> Records]
  BY DEF ExchangeTypeOK
<1>2. CASE \E p \in Paths : Remove(c, p)
  <2>1. PICK p \in Paths : Remove(c, p)
    BY <1>2
  <2>2. Gone(rows[c], p) \in Contents /\ Gone(disk[c], p) \in Contents
    BY <1>1, ContentsValues DEF Values
  <2>3. Orphaned(metas[c], {q \in Paths : q = p \/ Below(q, p)}) \in Records
    BY <1>1, RecordsValues
  <2>4. QED
    BY <1>1, <2>1, <2>2, <2>3, EditTypes DEF Remove
<1>3. CASE \E p \in Paths, v \in Hashes \union {Dir} : Save(c, p, v)
  <2>1. PICK p \in Paths, v \in Hashes \union {Dir} : Save(c, p, v)
    BY <1>3
  <2>2. v \in Values
    BY DEF Values
  <2>3. QED
    BY <1>1, <2>1, <2>2, ContentsValues, EditTypes DEF Save
<1>4. CASE \E p, q \in Files : Move(c, p, q)
  <2>1. PICK p, q \in Files : Move(c, p, q)
    BY <1>4
  <2>2. p \in Paths /\ q \in Paths
    BY DEF Paths
  <2>3. rows[c][p] \in Values /\ disk[c][p] \in Values
    BY <1>1, <2>2 DEF Contents
  <2>4. rows' \in [Nodes -> Contents] /\ disk' \in [Nodes -> Contents]
    BY <1>1, <2>1, <2>2, <2>3, ContentsValues DEF Move
  <2>5. metas' \in [Nodes -> Records]
    BY <1>1, <2>1, <2>2 DEF Move, Records
  <2>6. QED
    BY <2>1, <2>4, <2>5, EditTypes DEF Move
<1>5. CASE \E i \in Ids : Forget(c, i)
  <2>1. metas' \in [Nodes -> Records]
    BY <1>1, <1>5 DEF Forget, Records
  <2>2. QED
    BY <1>1, <1>5, <2>1, EditTypes DEF Forget
<1>6. CASE \E i \in Ids, p \in Paths : Annotate(c, i, p)
  <2>1. metas' \in [Nodes -> Records]
    BY <1>1, <1>6 DEF Annotate, Records
  <2>2. QED
    BY <1>1, <1>6, <2>1, EditTypes DEF Annotate
<1>7. QED
  BY <1>2, <1>3, <1>4, <1>5, <1>6

LEMMA LastStampValue ==
  ASSUME ExchangeTypeOK, NEW c \in Clients
  PROVE  LastStamp(c) \in Stamps
<1>1. Stamp(c) \in Stamps
  BY StampValues DEF Nodes
<1>2. QED
  BY <1>1 DEF LastStamp, ExchangeTypeOK

LEMMA SessionOverTypes ==
  ASSUME ExchangeTypeOK, NEW c \in Clients, SessionOver(c)
  PROVE  /\ want' \in [Clients -> Stamps]
         /\ session' \in [Clients -> Deltas]
         /\ folder' \in [Clients -> Contents]
         /\ sent' \in [Clients -> Records]
<1>1. NoDelta \in Deltas
  BY EmptyValues, DeltaValues DEF NoDelta
<1>2. QED
  BY <1>1, EmptyValues DEF SessionOver, ExchangeTypeOK

LEMMA PushTypes ==
  ASSUME ExchangeTypeOK, NEW c \in Clients,
         \/ \E p \in Paths : Upload(c, p)
         \/ PullRequired(c) \/ PushInit(c) \/ Meta(c) \/ PushEnd(c)
  PROVE  ExchangeTypeOK'
<1>1. /\ Stamp(c) \in Stamps /\ Stamp(Registry) \in Stamps /\ LastStamp(c) \in Stamps
  BY StampValues, LastStampValue DEF Nodes
<1>2. CASE \E p \in Paths : Upload(c, p)
  <2>1. PICK p \in Paths : Upload(c, p)
    BY <1>2
  <2>2. disk[c][p] \in Values
    BY DEF ExchangeTypeOK, Nodes, Contents
  <2>3. folder' \in [Clients -> Contents]
    BY <2>1, <2>2 DEF Upload, ExchangeTypeOK, Contents
  <2>4. QED
    BY <2>1, <2>3 DEF Upload, ExchangeTypeOK, dataVars
<1>3. CASE PullRequired(c)
  BY <1>1, <1>3 DEF PullRequired, ExchangeTypeOK, dataVars
<1>4. CASE PushInit(c)
  <2> DEFINE d == Delta(Stamp(c), Stamp(Registry))
  <2>0. PICK first \in FirstRows(Registry) :
                 folder' = [folder EXCEPT ![c] = Locals(Registry, d, first)]
    BY <1>4 DEF PushInit
  <2>1. d \in Deltas /\ Locals(Registry, d, first) \in Contents
    BY <1>1, DeltaValues, LocalsValues DEF Nodes
  <2> HIDE DEF d
  <2>2. /\ stamp' = [stamp EXCEPT ![c] = LastStamp(c)]
        /\ want' = [want EXCEPT ![c] = Stamp(c)]
        /\ session' = [session EXCEPT ![c] = d]
        /\ folder' = [folder EXCEPT ![c] = Locals(Registry, d, first)]
        /\ sent' = [sent EXCEPT ![c] = NoRecords]
        /\ phase' = [phase EXCEPT ![c] = "meta"]
        /\ phase[c] = "idle"
        /\ UNCHANGED <<rows, disk, metas, job, edits, jobs>>
    BY <1>4, <2>0 DEF PushInit, d, dataVars
  <2>3. unlike' \in [Clients -> BOOLEAN]
    BY <1>4 DEF PushInit, ExchangeTypeOK
  <2>4. QED
    BY <1>1, <2>1, <2>2, <2>3, EmptyValues DEF ExchangeTypeOK, Phases
<1>5. CASE Meta(c)
  <2>1. [i \in Ids |-> IF i \in session[c].metaAdds THEN metas[c][i] ELSE None] \in Records
    BY DEF ExchangeTypeOK, Records, Nodes
  <2>2. QED
    BY <1>5, <2>1 DEF Meta, ExchangeTypeOK, dataVars, Phases
<1>6. CASE PushEnd(c)
  BY <1>1, <1>6 DEF PushEnd, ExchangeTypeOK, dataVars, Phases
<1>7. QED
  BY <1>2, <1>3, <1>4, <1>5, <1>6

LEMMA CommitTypes == ASSUME ExchangeTypeOK, NEW c \in Clients, Commit(c) PROVE ExchangeTypeOK'
<1>1. job' \in Jobs /\ job'.by = c /\ job = None
  BY DEF Commit, Jobs, ExchangeTypeOK, Nodes, Strategies, Exact
<1>2. jobs' \in 0 .. MaxJobs
  BY DEF Commit, ExchangeTypeOK
<1>3. unlike' \in [Clients -> BOOLEAN]
  BY DEF Commit, ExchangeTypeOK, Exact
<1>4. /\ phase' = [phase EXCEPT ![c] = "applying"]
      /\ UNCHANGED <<rows, disk, metas, stamp, edits>>
  BY DEF Commit, dataVars
<1>5. \A k \in Clients : phase[k] # "applying"
  BY <1>1 DEF ExchangeTypeOK
<1>6. \A k \in Clients : phase'[k] = "applying" <=> job' # None /\ job'.by = k
  BY <1>1, <1>4, <1>5 DEF ExchangeTypeOK
<1>7. SessionOver(c)
  BY DEF Commit
<1>8. QED
  BY <1>1, <1>2, <1>3, <1>4, <1>6, <1>7, SessionOverTypes DEF ExchangeTypeOK, Phases

LEMMA PushFailsTypes ==
  ASSUME ExchangeTypeOK, NEW c \in Clients, PushFails(c) PROVE ExchangeTypeOK'
<1>1. /\ phase' = [phase EXCEPT ![c] = "idle"]
      /\ job' = IF phase[c] = "applying" THEN [job EXCEPT !.by = None] ELSE job
      /\ unlike' = [unlike EXCEPT ![c] = FALSE]
      /\ SessionOver(c)
      /\ UNCHANGED <<rows, disk, metas, stamp, edits, jobs>>
  BY DEF PushFails, dataVars
<1>2. phase' \in [Clients -> Phases] /\ unlike' \in [Clients -> BOOLEAN]
  BY <1>1 DEF ExchangeTypeOK, Phases
<1>3. job' \in Jobs \union {None}
  BY <1>1, JobValues DEF ExchangeTypeOK
<1>4. \A k \in Clients : phase'[k] = "applying" <=> job' # None /\ job'.by = k
  <2>1. CASE phase[c] = "applying"
    <3>1. job \in Jobs /\ job.by = c /\ [job EXCEPT !.by = None] \in Jobs
      BY <2>1, JobValues DEF ExchangeTypeOK
    <3>2. job' # None /\ job'.by = None
      BY <1>1, <2>1, <3>1 DEF Jobs
    <3>3. \A k \in Clients : phase[k] = "applying" => k = c
      BY <3>1 DEF ExchangeTypeOK
    <3>4. QED
      BY <1>1, <3>2, <3>3 DEF ExchangeTypeOK, Nodes
  <2>2. CASE phase[c] # "applying"
    BY <1>1, <2>2 DEF ExchangeTypeOK
  <2>3. QED
    BY <2>1, <2>2
<1>5. QED
  BY <1>1, <1>2, <1>3, <1>4, SessionOverTypes DEF ExchangeTypeOK

LEMMA FetchTypes ==
  ASSUME ExchangeTypeOK, NEW c \in Clients, NEW strategy \in Fetching, Fetch(c, strategy)
  PROVE  ExchangeTypeOK'
<1>1. Delta(Stamp(Registry), stamp[c]) \in Deltas /\ Stamp(Registry) \in Stamps
  <2>1. stamp[c] \in Stamps /\ Stamp(Registry) \in Stamps
    BY StampValues DEF Fetch, ExchangeTypeOK, Nodes
  <2>2. QED
    BY <2>1, DeltaValues
<1>2. job' \in Jobs /\ job'.by = None
  BY <1>1 DEF Fetch, Jobs, ExchangeTypeOK, Nodes
<1>3. jobs' \in 0 .. MaxJobs /\ unlike' \in [Clients -> BOOLEAN]
  BY DEF Fetch, ExchangeTypeOK
<1>4. \A k \in Clients : phase[k] # "applying"
  BY DEF Fetch, ExchangeTypeOK
<1>5. job' # None /\ \A k \in Clients : job'.by # k
  BY <1>2 DEF Nodes
<1>6. QED
  BY <1>2, <1>3, <1>4, <1>5 DEF Fetch, ExchangeTypeOK, dataVars, pushVars

\* A step of a job that goes on.
LEMMA GoesTypes ==
  ASSUME ExchangeTypeOK, job # None, Goes,
         rows' \in [Nodes -> Contents], disk' \in [Nodes -> Contents],
         metas' \in [Nodes -> Records],
         NEW l \in Deltas, NEW P \in SUBSET Paths,
         NEW d \in Paths \union {None}, NEW k \in Paths \union {None},
         job' = [job EXCEPT !.left = l, !.clash = P, !.doomed = d, !.copied = k]
  PROVE  ExchangeTypeOK'
<1>1. job \in Jobs
  BY DEF ExchangeTypeOK
<1>2. job' \in Jobs /\ job' # None
  BY <1>1, JobValues
<1>3. job'.by = job.by
  BY <1>1 DEF Jobs
<1>4. QED
  BY <1>1, <1>2, <1>3 DEF ExchangeTypeOK, Goes, pushVars

\* What is left of a delta.
LEMMA LessLeft ==
  ASSUME NEW l \in Deltas, NEW p \in Paths
  PROVE  /\ [l EXCEPT !.adds[p] = None] \in Deltas
         /\ [l EXCEPT !.removes[p] = None] \in Deltas
         /\ [l EXCEPT !.removes[p] = None, !.adds[p] = None] \in Deltas
         /\ [l EXCEPT !.metaAdds = {}] \in Deltas
         /\ [l EXCEPT !.metaRemoves = {}] \in Deltas
<1>1. /\ l.adds \in Contents /\ l.removes \in Contents
      /\ l.metaAdds \in SUBSET Ids /\ l.metaRemoves \in SUBSET Ids
  BY DEF Deltas
<1>2. [l.adds EXCEPT ![p] = None] \in Contents /\ [l.removes EXCEPT ![p] = None] \in Contents
  BY <1>1 DEF Contents, Values
<1>3. /\ [l EXCEPT !.adds[p] = None] \in Deltas
      /\ [l EXCEPT !.removes[p] = None] \in Deltas
  BY <1>1, <1>2 DEF Deltas
<1>4. [l EXCEPT !.removes[p] = None, !.adds[p] = None] \in Deltas
  BY <1>1, <1>2 DEF Deltas
<1>5. [l EXCEPT !.metaAdds = {}] \in Deltas /\ [l EXCEPT !.metaRemoves = {}] \in Deltas
  BY <1>1 DEF Deltas
<1>6. QED
  BY <1>3, <1>4, <1>5

\* What each step of a job makes of the job.
LEMMA JobAfter ==
  ASSUME ExchangeTypeOK, job # None
  PROVE  /\ job \in Jobs
         /\ \A p \in Paths :
              /\ Skip(p, job.left.removes[p]) \/ Skip(p, job.left.adds[p]) =>
                   \E P \in SUBSET Paths :
                     job' = [job EXCEPT !.left = [job.left EXCEPT !.removes[p] = None,
                                                                  !.adds[p] = None],
                                        !.clash = P, !.doomed = job.doomed,
                                        !.copied = job.copied]
              /\ RemoveRow(p) =>
                   \/ job' = [job EXCEPT !.left = [job.left EXCEPT !.removes[p] = None],
                                         !.clash = job.clash, !.doomed = job.doomed,
                                         !.copied = job.copied]
                   \/ job' = [job EXCEPT !.left = job.left, !.clash = job.clash,
                                         !.doomed = p, !.copied = job.copied]
              /\ CopyFile(p) =>
                   job' = [job EXCEPT !.left = job.left, !.clash = job.clash,
                                      !.doomed = job.doomed, !.copied = p]
         /\ RemoveFile =>
              job' = [job EXCEPT !.left = [job.left EXCEPT !.removes[job.doomed] = None],
                                 !.clash = job.clash, !.doomed = None, !.copied = job.copied]
         /\ AddRow =>
              job' = [job EXCEPT !.left = [job.left EXCEPT !.adds[job.copied] = None],
                                 !.clash = job.clash, !.doomed = job.doomed, !.copied = None]
         /\ MetaAdd =>
              job' = [job EXCEPT !.left = [job.left EXCEPT !.metaAdds = {}],
                                 !.clash = job.clash, !.doomed = job.doomed,
                                 !.copied = job.copied]
         /\ MetaRemove =>
              job' = [job EXCEPT !.left = [job.left EXCEPT !.metaRemoves = {}],
                                 !.clash = job.clash, !.doomed = job.doomed,
                                 !.copied = job.copied]
<1>1. /\ job \in Jobs /\ job.left \in Deltas /\ job.clash \in SUBSET Paths
  BY DEF ExchangeTypeOK, Jobs
<1>2. ASSUME NEW p \in Paths,
             Skip(p, job.left.removes[p]) \/ Skip(p, job.left.adds[p])
      PROVE  \E P \in SUBSET Paths :
               job' = [job EXCEPT !.left = [job.left EXCEPT !.removes[p] = None,
                                                            !.adds[p] = None],
                                  !.clash = P, !.doomed = job.doomed, !.copied = job.copied]
  <2> DEFINE P == IF job.strategy = "DontMerge" THEN job.clash \union {p} ELSE job.clash
  <2>1. job' = [job EXCEPT !.left.removes[p] = None, !.left.adds[p] = None, !.clash = P]
    BY <1>2 DEF Skip
  <2>2. P \in SUBSET Paths
    BY <1>1
  <2> HIDE DEF P
  <2>3. job' = [job EXCEPT !.left = [job.left EXCEPT !.removes[p] = None, !.adds[p] = None],
                           !.clash = P, !.doomed = job.doomed, !.copied = job.copied]
    BY <1>1, <2>1 DEF Jobs, Deltas
  <2>4. QED
    BY <2>2, <2>3
<1>3. ASSUME NEW p \in Paths, RemoveRow(p)
      PROVE  \/ job' = [job EXCEPT !.left = [job.left EXCEPT !.removes[p] = None],
                                   !.clash = job.clash, !.doomed = job.doomed,
                                   !.copied = job.copied]
             \/ job' = [job EXCEPT !.left = job.left, !.clash = job.clash,
                                   !.doomed = p, !.copied = job.copied]
  <2>1. \/ job' = [job EXCEPT !.left.removes[p] = None]
        \/ job' = [job EXCEPT !.doomed = p]
    BY <1>3 DEF RemoveRow
  <2>2. QED
    BY <1>1, <2>1 DEF Jobs, Deltas
<1>4. ASSUME NEW p \in Paths, CopyFile(p)
      PROVE  job' = [job EXCEPT !.left = job.left, !.clash = job.clash,
                                !.doomed = job.doomed, !.copied = p]
  <2>1. job' = [job EXCEPT !.copied = p]
    BY <1>4 DEF CopyFile
  <2>2. QED
    BY <1>1, <2>1 DEF Jobs
<1>5. ASSUME RemoveFile
      PROVE  job' = [job EXCEPT !.left = [job.left EXCEPT !.removes[job.doomed] = None],
                                !.clash = job.clash, !.doomed = None, !.copied = job.copied]
  <2>1. job' = [job EXCEPT !.left.removes[job.doomed] = None, !.doomed = None]
    BY <1>5 DEF RemoveFile
  <2>2. QED
    BY <1>1, <2>1 DEF Jobs, Deltas
<1>6. ASSUME AddRow
      PROVE  job' = [job EXCEPT !.left = [job.left EXCEPT !.adds[job.copied] = None],
                                !.clash = job.clash, !.doomed = job.doomed, !.copied = None]
  <2>1. job' = [job EXCEPT !.left.adds[job.copied] = None, !.copied = None]
    BY <1>6 DEF AddRow
  <2>2. QED
    BY <1>1, <2>1 DEF Jobs, Deltas
<1>7. ASSUME MetaAdd
      PROVE  job' = [job EXCEPT !.left = [job.left EXCEPT !.metaAdds = {}],
                                !.clash = job.clash, !.doomed = job.doomed, !.copied = job.copied]
  <2>1. job' = [job EXCEPT !.left.metaAdds = {}]
    BY <1>7 DEF MetaAdd
  <2>2. QED
    BY <1>1, <2>1 DEF Jobs, Deltas
<1>8. ASSUME MetaRemove
      PROVE  job' = [job EXCEPT !.left = [job.left EXCEPT !.metaRemoves = {}],
                                !.clash = job.clash, !.doomed = job.doomed, !.copied = job.copied]
  <2>1. job' = [job EXCEPT !.left.metaRemoves = {}]
    BY <1>8 DEF MetaRemove
  <2>2. QED
    BY <1>1, <2>1 DEF Jobs, Deltas
<1>9. QED
  BY <1>1, <1>2, <1>3, <1>4, <1>5, <1>6, <1>7, <1>8

LEMMA SkipTypes ==
  ASSUME ExchangeTypeOK, NEW p \in Paths, SkipRemoval(p) \/ SkipAddition(p)
  PROVE  ExchangeTypeOK'
<1>1. /\ job # None /\ Goes /\ UNCHANGED <<rows, disk, metas>>
      /\ Skip(p, job.left.removes[p]) \/ Skip(p, job.left.adds[p])
  BY DEF SkipRemoval, SkipAddition, Skip, Between, dataVars
<1>2. job \in Jobs
  BY <1>1 DEF ExchangeTypeOK
<1>3. PICK P \in SUBSET Paths :
        job' = [job EXCEPT !.left = [job.left EXCEPT !.removes[p] = None, !.adds[p] = None],
                           !.clash = P, !.doomed = job.doomed, !.copied = job.copied]
  BY <1>1, JobAfter
<1>4. [job.left EXCEPT !.removes[p] = None, !.adds[p] = None] \in Deltas
  BY <1>2, JobValues, LessLeft
<1>5. /\ rows' \in [Nodes -> Contents] /\ disk' \in [Nodes -> Contents]
      /\ metas' \in [Nodes -> Records]
  BY <1>1 DEF ExchangeTypeOK
<1>6. QED
  BY <1>1, <1>2, <1>3, <1>4, <1>5, JobValues, GoesTypes

LEMMA RemoveRowTypes ==
  ASSUME ExchangeTypeOK, NEW p \in Paths, RemoveRow(p)
  PROVE  ExchangeTypeOK'
<1>1. job # None /\ Goes /\ job \in Jobs /\ job.on \in Nodes
  BY JobValues DEF RemoveRow, Between, ExchangeTypeOK
<1>2. /\ rows' \in [Nodes -> Contents] /\ disk' \in [Nodes -> Contents]
      /\ metas' \in [Nodes -> Records]
  <2>1. /\ rows' = rows \/ rows' = [rows EXCEPT ![job.on] = Gone(@, p)]
        /\ disk' = disk
        /\ \/ metas' = metas
           \/ metas' = [metas EXCEPT ![job.on] =
                          Orphaned(@, {q \in Paths : q = p \/ Below(q, p)})]
    BY DEF RemoveRow, dataVars
  <2>2. Gone(rows[job.on], p) \in Contents
    BY <1>1, ContentsValues DEF ExchangeTypeOK, Values
  <2>3. Orphaned(metas[job.on], {q \in Paths : q = p \/ Below(q, p)}) \in Records
    BY <1>1, RecordsValues DEF ExchangeTypeOK
  <2>4. QED
    BY <2>1, <2>2, <2>3 DEF ExchangeTypeOK
<1>3. /\ job.left \in Deltas /\ job.clash \in SUBSET Paths
      /\ job.doomed \in Paths \union {None} /\ job.copied \in Paths \union {None}
      /\ [job.left EXCEPT !.removes[p] = None] \in Deltas
  BY <1>1, JobValues, LessLeft DEF Jobs
<1>4. \/ job' = [job EXCEPT !.left = [job.left EXCEPT !.removes[p] = None],
                            !.clash = job.clash, !.doomed = job.doomed, !.copied = job.copied]
      \/ job' = [job EXCEPT !.left = job.left, !.clash = job.clash,
                            !.doomed = p, !.copied = job.copied]
  BY <1>1, JobAfter
<1>5. QED
  BY <1>1, <1>2, <1>3, <1>4, GoesTypes

LEMMA CopyFileTypes ==
  ASSUME ExchangeTypeOK, NEW p \in Paths, CopyFile(p)
  PROVE  ExchangeTypeOK'
<1>1. job # None /\ Goes /\ job \in Jobs /\ job.on \in Nodes
  BY JobValues DEF CopyFile, Between, ExchangeTypeOK
<1>2. /\ rows' = rows /\ metas' = metas
      /\ \/ disk' = [disk EXCEPT ![job.on] = Stood(@, p, Dir)]
         \/ disk' = [disk EXCEPT ![job.on] = [@ EXCEPT ![p] = job.folder[p]]]
  BY DEF CopyFile
<1>3. /\ Stood(disk[job.on], p, Dir) \in Contents
      /\ [disk[job.on] EXCEPT ![p] = job.folder[p]] \in Contents
  <2>1. job.folder[p] \in Values /\ Dir \in Values /\ disk[job.on] \in Contents
    BY ZenonT(40), <1>1, JobValues DEF ExchangeTypeOK, Contents, Values
  <2>2. QED
    BY <2>1, ContentsValues
<1>4. disk' \in [Nodes -> Contents]
  BY <1>2, <1>3 DEF ExchangeTypeOK
<1>5. /\ job.left \in Deltas /\ job.clash \in SUBSET Paths
      /\ job.doomed \in Paths \union {None} /\ job.copied \in Paths \union {None}
  BY <1>1, JobValues DEF Jobs
<1>6. job' = [job EXCEPT !.left = job.left, !.clash = job.clash,
                         !.doomed = job.doomed, !.copied = p]
  BY <1>1, JobAfter
<1>7. rows' \in [Nodes -> Contents] /\ metas' \in [Nodes -> Records]
  BY <1>2 DEF ExchangeTypeOK
<1>8. QED
  BY <1>1, <1>4, <1>5, <1>6, <1>7, GoesTypes

LEMMA RemoveFileTypes == ASSUME ExchangeTypeOK, RemoveFile PROVE ExchangeTypeOK'
<1>1. job # None /\ Goes /\ job \in Jobs /\ job.on \in Nodes /\ job.doomed \in Paths
  BY JobValues DEF RemoveFile, ExchangeTypeOK
<1>2. Gone(disk[job.on], job.doomed) \in Contents
  BY <1>1, ContentsValues DEF ExchangeTypeOK, Values
<1>3. /\ rows' \in [Nodes -> Contents] /\ disk' \in [Nodes -> Contents]
      /\ metas' \in [Nodes -> Records]
  BY <1>2 DEF RemoveFile, ExchangeTypeOK
<1>4. /\ [job.left EXCEPT !.removes[job.doomed] = None] \in Deltas
      /\ job.clash \in SUBSET Paths /\ job.copied \in Paths \union {None}
  BY <1>1, JobValues, LessLeft DEF Jobs
<1>5. job' = [job EXCEPT !.left = [job.left EXCEPT !.removes[job.doomed] = None],
                         !.clash = job.clash, !.doomed = None, !.copied = job.copied]
  BY <1>1, JobAfter
<1>6. QED
  BY <1>1, <1>3, <1>4, <1>5, GoesTypes

LEMMA AddRowTypes == ASSUME ExchangeTypeOK, AddRow PROVE ExchangeTypeOK'
<1>1. job # None /\ Goes /\ job \in Jobs /\ job.on \in Nodes /\ job.copied \in Paths
  BY JobValues DEF AddRow, ExchangeTypeOK
<1>2. /\ rows' = [rows EXCEPT ![job.on] =
            [q \in Paths |-> IF q \in Touched(job.on, job.copied) THEN disk[job.on][q] ELSE @[q]]]
      /\ disk' = disk /\ metas' = metas
  BY DEF AddRow
<1>3. [q \in Paths |-> IF q \in Touched(job.on, job.copied) THEN disk[job.on][q]
                                                            ELSE rows[job.on][q]] \in Contents
  <2>1. rows[job.on] \in Contents /\ disk[job.on] \in Contents
    BY <1>1 DEF ExchangeTypeOK
  <2>2. QED
    BY <2>1 DEF Contents
<1>4. /\ rows' \in [Nodes -> Contents] /\ disk' \in [Nodes -> Contents]
      /\ metas' \in [Nodes -> Records]
  BY <1>2, <1>3 DEF ExchangeTypeOK
<1>5. /\ [job.left EXCEPT !.adds[job.copied] = None] \in Deltas
      /\ job.clash \in SUBSET Paths /\ job.doomed \in Paths \union {None}
  BY <1>1, JobValues, LessLeft DEF Jobs
<1>6. job' = [job EXCEPT !.left = [job.left EXCEPT !.adds[job.copied] = None],
                         !.clash = job.clash, !.doomed = job.doomed, !.copied = None]
  BY <1>1, JobAfter
<1>7. QED
  BY <1>1, <1>4, <1>5, <1>6, GoesTypes

LEMMA MetaTypes == ASSUME ExchangeTypeOK, MetaAdd \/ MetaRemove PROVE ExchangeTypeOK'
<1>1. job # None /\ Goes /\ job \in Jobs /\ job.on \in Nodes
  BY JobValues DEF MetaAdd, MetaRemove, FilesDone, Between, ExchangeTypeOK
<1>2. rows' \in [Nodes -> Contents] /\ disk' \in [Nodes -> Contents]
  BY DEF MetaAdd, MetaRemove, ExchangeTypeOK
<1>3. /\ job.left \in Deltas /\ job.clash \in SUBSET Paths
      /\ job.doomed \in Paths \union {None} /\ job.copied \in Paths \union {None}
  BY <1>1, JobValues DEF Jobs
<1>4. [job.left EXCEPT !.metaAdds = {}] \in Deltas /\ [job.left EXCEPT !.metaRemoves = {}] \in Deltas
  <2>1. CASE Paths = {}
    BY <1>3, <2>1 DEF Deltas
  <2>2. CASE Paths # {}
    BY <1>3, <2>2, LessLeft
  <2>3. QED
    BY <2>1, <2>2
<1>5. CASE MetaAdd
  <2>1. [i \in Ids |-> IF i \in job.left.metaAdds /\ job.dump[i] # None THEN job.dump[i]
                                                                ELSE metas[job.on][i]] \in Records
    <3>1. job.dump \in Records /\ metas[job.on] \in Records
      BY <1>1, JobValues DEF ExchangeTypeOK
    <3>2. QED
      BY <3>1 DEF Records
  <2>2. metas' \in [Nodes -> Records]
    BY <1>5, <2>1 DEF MetaAdd, ExchangeTypeOK
  <2>3. job' = [job EXCEPT !.left = [job.left EXCEPT !.metaAdds = {}],
                           !.clash = job.clash, !.doomed = job.doomed, !.copied = job.copied]
    BY <1>1, <1>5, JobAfter
  <2>4. QED
    BY <1>1, <1>2, <1>3, <1>4, <2>2, <2>3, GoesTypes
<1>6. CASE MetaRemove
  <2>1. Removed(metas[job.on], job.left.metaRemoves) \in Records
    BY <1>1, RecordsValues DEF ExchangeTypeOK
  <2>2. metas' \in [Nodes -> Records]
    BY <1>6, <2>1 DEF MetaRemove, ExchangeTypeOK
  <2>3. job' = [job EXCEPT !.left = [job.left EXCEPT !.metaRemoves = {}],
                           !.clash = job.clash, !.doomed = job.doomed, !.copied = job.copied]
    BY <1>1, <1>6, JobAfter
  <2>4. QED
    BY <1>1, <1>2, <1>3, <1>4, <2>2, <2>3, GoesTypes
<1>7. QED
  BY <1>5, <1>6

LEMMA EndTypes == ASSUME ExchangeTypeOK, ApplyEnd \/ ApplyFails PROVE ExchangeTypeOK'
<1>1. \A c \in Clients : phase'[c] # "applying"
  BY DEF ApplyEnd, ApplyFails, Over, FilesDone, Between, ExchangeTypeOK
<1>2. phase' \in [Clients -> Phases]
  BY DEF ApplyEnd, ApplyFails, Over, ExchangeTypeOK, Phases
<1>3. job' = None
  BY DEF ApplyEnd, ApplyFails, Over
<1>4. QED
  BY <1>1, <1>2, <1>3 DEF ApplyEnd, ApplyFails, Over, ExchangeTypeOK, dataVars

LEMMA StepTypes == ExchangeTypeOK /\ [ExchangeNext]_exchangeVars => ExchangeTypeOK'
<1> SUFFICES ASSUME ExchangeTypeOK, [ExchangeNext]_exchangeVars PROVE ExchangeTypeOK'
  OBVIOUS
<1>1. ASSUME NEW c \in Clients, ClientNext(c) PROVE ExchangeTypeOK'
  BY <1>1, UserTypes, PushTypes, CommitTypes, PushFailsTypes, FetchTypes DEF ClientNext
<1>2. CASE ApplyNext
  BY <1>2, SkipTypes, RemoveRowTypes, CopyFileTypes, RemoveFileTypes, AddRowTypes, MetaTypes,
     EndTypes DEF ApplyNext
<1>3. CASE UNCHANGED exchangeVars
  BY <1>3 DEF ExchangeTypeOK, exchangeVars, dataVars, pushVars
<1>4. QED
  BY <1>1, <1>2, <1>3 DEF ExchangeNext

\* Type correctness, with the agreement of the pushes and the job that is under way
\* (registry.cpp, pushmanager.cpp, syncmanager.cpp).
THEOREM ExchangeTypeCorrect == ExchangeSpec => []ExchangeTypeOK
<1>1. QED
  BY InitTypes, StepTypes, PTL DEF ExchangeSpec

------------------------------------------------------------------------------
\* The inductive invariant.  That the registry has its files is not inductive: when a
\* row is gone and its file is about to go, so has to be every row below it, or the
\* removal of the folder would take the file of one.

Closed(files) == \A p \in Paths : files[p] # None => \A q \in Ancestors(p) : files[q] # None
FoldersAreFolders(files) == \A p \in Folders : files[p] \in {Dir, None}

Kinds ==
  /\ \A n \in Nodes : FoldersAreFolders(rows[n]) /\ FoldersAreFolders(disk[n])
  /\ \A c \in Clients : FoldersAreFolders(session[c].adds)
  /\ job # None => FoldersAreFolders(job.left.adds)

OneAtATime ==
  job # None => /\ job.doomed = None \/ job.copied = None
                /\ job.doomed # None => job.left.removes[job.doomed] # None

Stands ==
  /\ RegistryHasItsFiles
  /\ Closed(rows[Registry])
  /\ Closed(disk[Registry])
  /\ job # None /\ job.on = Registry /\ job.doomed # None =>
       \A p \in Paths : p = job.doomed \/ Below(p, job.doomed) => rows[Registry][p] = None

\* What a push is to remove is not in the dataset of the client, and was in the
\* registry when the client last saw it.
Seen ==
  /\ \A c \in Clients : phase[c] \in {"meta", "upload"} =>
       /\ stamp[c] # None
       /\ \A p \in Paths : session[c].removes[p] # None =>
            want[c].files[p] = None /\ stamp[c].files[p] # None
  /\ job # None /\ job.on = Registry =>
       \A p \in Paths : job.left.removes[p] # None =>
         /\ job.goal.files[p] = None
         /\ job.by # None => stamp[job.by].files[p] # None

ExchangeInv == ExchangeTypeOK /\ Kinds /\ OneAtATime /\ Stands /\ Seen

LEMMA DirIsThere == Dir # None /\ \A p \in Paths : p # None
OBVIOUS

\* A step of a client leaves the registry alone, and what its job is doing.
LEMMA ClientSteps ==
  ASSUME ExchangeTypeOK, NEW c \in Clients, ClientNext(c)
  PROVE  /\ rows'[Registry] = rows[Registry] /\ disk'[Registry] = disk[Registry]
         /\ \/ job' = job
            \/ job # None /\ job' = [job EXCEPT !.by = None]
            \/ job = None /\ job'.doomed = None /\ job'.copied = None
<1>1. CASE \/ \E p \in Paths : Remove(c, p)
           \/ \E p \in Paths, v \in Hashes \union {Dir} : Save(c, p, v)
           \/ \E p, q \in Files : Move(c, p, q)
           \/ \E i \in Ids : Forget(c, i)
           \/ \E i \in Ids, p \in Paths : Annotate(c, i, p)
  <2>1. job' = job
    BY <1>1 DEF Remove, Save, Move, Forget, Annotate, Edited
  <2>2. /\ \/ rows' = rows
           \/ \E f : rows' = [rows EXCEPT ![c] = f]
        /\ \/ disk' = disk
           \/ \E f : disk' = [disk EXCEPT ![c] = f]
    BY <1>1 DEF Remove, Save, Move, Forget, Annotate
  <2>3. QED
    BY <2>1, <2>2 DEF ExchangeTypeOK, Nodes
<1>2. CASE (\E p \in Paths : Upload(c, p)) \/ PullRequired(c) \/ PushInit(c) \/ Meta(c)
           \/ PushEnd(c)
  BY <1>2 DEF Upload, PullRequired, PushInit, Meta, PushEnd, dataVars
<1>3. CASE PushFails(c)
  BY <1>3 DEF PushFails, dataVars, ExchangeTypeOK
<1>4. CASE Commit(c)
  BY <1>4 DEF Commit, dataVars
<1>5. CASE \E strategy \in Fetching : Fetch(c, strategy)
  BY <1>5 DEF Fetch, dataVars
<1>6. QED
  BY <1>1, <1>2, <1>3, <1>4, <1>5 DEF ClientNext

\* Steps of a job leave alone what the pushes keep.
LEMMA ApplySteps ==
  ASSUME ExchangeTypeOK, ApplyNext
  PROVE  /\ job \in Jobs
         /\ UNCHANGED <<stamp, want, session>>
         /\ \A c \in Clients : phase'[c] \in {"meta", "upload"} => phase[c] = phase'[c]
         /\ job' # None => Goes
<1>1. job # None
  BY DEF ApplyNext, SkipRemoval, SkipAddition, RemoveRow, CopyFile, RemoveFile, AddRow, MetaAdd,
         MetaRemove, ApplyEnd, ApplyFails, FilesDone, Between
<1>2. CASE ApplyEnd \/ ApplyFails
  BY <1>1, <1>2 DEF ApplyEnd, ApplyFails, Over, ExchangeTypeOK
<1>3. CASE ~ (ApplyEnd \/ ApplyFails)
  <2>1. Goes
    BY <1>3 DEF ApplyNext, SkipRemoval, SkipAddition, Skip, RemoveRow, CopyFile, RemoveFile,
                AddRow, MetaAdd, MetaRemove
  <2>2. QED
    BY <1>1, <2>1 DEF Goes, pushVars, ExchangeTypeOK
<1>4. QED
  BY <1>2, <1>3

\* A job goes on with less of the same delta.
LEMMA JobGoesOn ==
  ASSUME ExchangeTypeOK, ApplyNext, job' # None
  PROVE  /\ job'.on = job.on /\ job'.by = job.by /\ job'.goal = job.goal
         /\ \A p \in Paths : /\ job'.left.removes[p] \in {job.left.removes[p], None}
                             /\ job'.left.adds[p] \in {job.left.adds[p], None}
<1> DEFINE Less(l) == /\ l \in Deltas
                      /\ \A p \in Paths : /\ l.removes[p] \in {job.left.removes[p], None}
                                          /\ l.adds[p] \in {job.left.adds[p], None}
<1>1. job # None /\ job \in Jobs /\ job.left \in Deltas
  BY ApplySteps, JobValues
<1>2. /\ job.left.removes \in [Paths -> Values] /\ job.left.adds \in [Paths -> Values]
      /\ Less(job.left)
  BY <1>1 DEF Deltas, Contents
<1>3. \A p \in Paths : /\ Less([job.left EXCEPT !.removes[p] = None])
                       /\ Less([job.left EXCEPT !.adds[p] = None])
                       /\ Less([job.left EXCEPT !.removes[p] = None, !.adds[p] = None])
  <2> TAKE p \in Paths
  <2>1. Less([job.left EXCEPT !.removes[p] = None])
    BY <1>1, <1>2, LessLeft DEF Deltas
  <2>2. Less([job.left EXCEPT !.adds[p] = None])
    BY <1>1, <1>2, LessLeft DEF Deltas
  <2>3. Less([job.left EXCEPT !.removes[p] = None, !.adds[p] = None])
    BY <1>1, <1>2, LessLeft DEF Deltas
  <2>4. QED
    BY <2>1, <2>2, <2>3
<1>4. Less([job.left EXCEPT !.metaAdds = {}]) /\ Less([job.left EXCEPT !.metaRemoves = {}])
  BY <1>1, <1>2 DEF Deltas
<1> HIDE DEF Less
<1>5. ASSUME NEW l, NEW P, NEW d, NEW k, Less(l),
             job' = [job EXCEPT !.left = l, !.clash = P, !.doomed = d, !.copied = k]
      PROVE  /\ job'.on = job.on /\ job'.by = job.by /\ job'.goal = job.goal
             /\ \A p \in Paths : /\ job'.left.removes[p] \in {job.left.removes[p], None}
                                 /\ job'.left.adds[p] \in {job.left.adds[p], None}
  BY <1>1, <1>5 DEF Jobs, Less
<1>6. CASE \E p \in Paths : SkipRemoval(p) \/ SkipAddition(p)
  <2>1. PICK p \in Paths : Skip(p, job.left.removes[p]) \/ Skip(p, job.left.adds[p])
    BY <1>6 DEF SkipRemoval, SkipAddition
  <2>2. PICK P \in SUBSET Paths :
          job' = [job EXCEPT !.left = [job.left EXCEPT !.removes[p] = None, !.adds[p] = None],
                             !.clash = P, !.doomed = job.doomed, !.copied = job.copied]
    BY <1>1, <2>1, JobAfter
  <2>3. QED
    BY <1>3, <1>5, <2>2
<1>7. CASE \E p \in Paths : RemoveRow(p)
  <2>1. PICK p \in Paths : RemoveRow(p)
    BY <1>7
  <2>2. \/ job' = [job EXCEPT !.left = [job.left EXCEPT !.removes[p] = None],
                              !.clash = job.clash, !.doomed = job.doomed, !.copied = job.copied]
        \/ job' = [job EXCEPT !.left = job.left, !.clash = job.clash,
                              !.doomed = p, !.copied = job.copied]
    BY <1>1, <2>1, JobAfter
  <2>3. QED
    BY <1>2, <1>3, <1>5, <2>2
<1>8. CASE \E p \in Paths : CopyFile(p)
  <2>1. PICK p \in Paths : CopyFile(p)
    BY <1>8
  <2>2. job' = [job EXCEPT !.left = job.left, !.clash = job.clash,
                           !.doomed = job.doomed, !.copied = p]
    BY <1>1, <2>1, JobAfter
  <2>3. QED
    BY <1>2, <1>5, <2>2
<1>9. CASE RemoveFile
  <2>1. job.doomed \in Paths
    BY <1>1, <1>9, JobValues DEF RemoveFile
  <2>2. job' = [job EXCEPT !.left = [job.left EXCEPT !.removes[job.doomed] = None],
                           !.clash = job.clash, !.doomed = None, !.copied = job.copied]
    BY <1>1, <1>9, JobAfter
  <2>3. QED
    BY <1>3, <1>5, <2>1, <2>2
<1>10. CASE AddRow
  <2>1. job.copied \in Paths
    BY <1>1, <1>10, JobValues DEF AddRow
  <2>2. job' = [job EXCEPT !.left = [job.left EXCEPT !.adds[job.copied] = None],
                           !.clash = job.clash, !.doomed = job.doomed, !.copied = None]
    BY <1>1, <1>10, JobAfter
  <2>3. QED
    BY <1>3, <1>5, <2>1, <2>2
<1>11. CASE MetaAdd
  <2>1. job' = [job EXCEPT !.left = [job.left EXCEPT !.metaAdds = {}],
                           !.clash = job.clash, !.doomed = job.doomed, !.copied = job.copied]
    BY <1>1, <1>11, JobAfter
  <2>2. QED
    BY <1>4, <1>5, <2>1
<1>12. CASE MetaRemove
  <2>1. job' = [job EXCEPT !.left = [job.left EXCEPT !.metaRemoves = {}],
                           !.clash = job.clash, !.doomed = job.doomed, !.copied = job.copied]
    BY <1>1, <1>12, JobAfter
  <2>2. QED
    BY <1>4, <1>5, <2>1
<1>13. CASE ApplyEnd \/ ApplyFails
  BY <1>13 DEF ApplyEnd, ApplyFails, Over
<1>14. QED
  BY <1>6, <1>7, <1>8, <1>9, <1>10, <1>11, <1>12, <1>13 DEF ApplyNext

\* How a job changes the tables and the files of its dataset.
LEMMA TablesAfter ==
  ASSUME ExchangeTypeOK, ApplyNext, NEW n \in Nodes
  PROVE  \/ rows'[n] = rows[n] /\ disk'[n] = disk[n]
         \/ n = job.on /\ \E p \in Paths : RemoveRow(p) /\ disk'[n] = disk[n]
                                           /\ rows'[n] \in {rows[n], Gone(rows[n], p)}
         \/ n = job.on /\ \E p \in Paths : CopyFile(p) /\ rows'[n] = rows[n]
         \/ n = job.on /\ RemoveFile /\ rows'[n] = rows[n]
              /\ disk'[n] = Gone(disk[n], job.doomed)
         \/ n = job.on /\ AddRow /\ disk'[n] = disk[n]
              /\ rows'[n] = [q \in Paths |-> IF q \in Touched(n, job.copied) THEN disk[n][q]
                                                                        ELSE rows[n][q]]
<1>1. rows \in [Nodes -> Contents] /\ disk \in [Nodes -> Contents]
  BY DEF ExchangeTypeOK
<1>2. CASE \E p \in Paths : SkipRemoval(p) \/ SkipAddition(p)
  BY <1>2 DEF SkipRemoval, SkipAddition, Skip, dataVars
<1>3. CASE \E p \in Paths : RemoveRow(p)
  <2>1. PICK p \in Paths : RemoveRow(p)
    BY <1>3
  <2>2. disk' = disk /\ (rows' = rows \/ rows' = [rows EXCEPT ![job.on] = Gone(@, p)])
    BY <2>1 DEF RemoveRow, dataVars
  <2>3. QED
    BY <1>1, <2>1, <2>2
<1>4. CASE \E p \in Paths : CopyFile(p)
  <2>1. PICK p \in Paths : CopyFile(p)
    BY <1>4
  <2>2. rows' = rows /\ \E f : disk' = [disk EXCEPT ![job.on] = f]
    BY <2>1 DEF CopyFile
  <2>3. QED
    BY <1>1, <2>1, <2>2
<1>5. CASE RemoveFile
  BY <1>1, <1>5 DEF RemoveFile
<1>6. CASE AddRow
  BY <1>1, <1>6 DEF AddRow
<1>7. CASE MetaAdd \/ MetaRemove \/ ApplyEnd \/ ApplyFails
  BY <1>7 DEF MetaAdd, MetaRemove, ApplyEnd, ApplyFails, dataVars
<1>8. QED
  BY <1>2, <1>3, <1>4, <1>5, <1>6, <1>7 DEF ApplyNext

\* What a copy makes of the disk.
LEMMA DiskAfterCopy ==
  ASSUME ExchangeTypeOK, NEW p \in Paths, CopyFile(p)
  PROVE  \/ disk'[job.on] = Stood(disk[job.on], p, Dir)
         \/ /\ disk'[job.on] = [disk[job.on] EXCEPT ![p] = job.folder[p]]
            /\ job.left.adds[p] # Dir /\ job.left.adds[p] # None /\ job.folder[p] # None
            /\ \A q \in Ancestors(p) : disk[job.on][q] = Dir
<1>1. disk \in [Nodes -> Contents] /\ job.on \in Nodes
  BY JobValues DEF ExchangeTypeOK, CopyFile, Between
<1>2. job.left.adds[p] # None
  BY DEF CopyFile, NextAddition, Listed
<1>3. CASE job.left.adds[p] = Dir
  BY <1>1, <1>3 DEF CopyFile
<1>4. CASE job.left.adds[p] # Dir
  <2>1. /\ disk' = [disk EXCEPT ![job.on][p] = job.folder[p]]
        /\ job.folder[p] # None
        /\ \A q \in Ancestors(p) : disk[job.on][q] = Dir
    BY <1>4 DEF CopyFile
  <2>2. QED
    BY <1>1, <1>2, <1>4, <2>1
<1>5. QED
  BY <1>3, <1>4

LEMMA KindsOfValues ==
  ASSUME NEW files \in Contents, FoldersAreFolders(files), NEW p \in Paths
  PROVE  /\ FoldersAreFolders(Gone(files, p))
         /\ FoldersAreFolders(Stood(files, p, Dir))
         /\ p \in Files => \A v : /\ FoldersAreFolders(Stood(files, p, v))
                                  /\ FoldersAreFolders([files EXCEPT ![p] = v])
<1>1. Folders \subseteq Paths /\ files \in [Paths -> Values]
  BY DEF Paths, Contents
<1>2. QED
  BY <1>1 DEF FoldersAreFolders, Gone, Without, Stood

LEMMA KindsOfDeltas ==
  ASSUME NEW S \in Stamps, NEW D \in Stamps, FoldersAreFolders(S.files)
  PROVE  FoldersAreFolders(Delta(S, D).adds)
<1>1. Folders \subseteq Paths
  BY DEF Paths
<1>2. QED
  BY <1>1 DEF Delta, FoldersAreFolders

\* Folders stay folders, where the user or a job changes them.
LEMMA UserKinds ==
  ASSUME ExchangeInv, NEW c \in Clients, ClientNext(c)
  PROVE  \A n \in Nodes : FoldersAreFolders(rows'[n]) /\ FoldersAreFolders(disk'[n])
<1>1. /\ rows \in [Nodes -> Contents] /\ disk \in [Nodes -> Contents] /\ c \in Nodes
      /\ \A n \in Nodes : FoldersAreFolders(rows[n]) /\ FoldersAreFolders(disk[n])
  BY DEF ExchangeInv, ExchangeTypeOK, Kinds, Nodes
<1>2. CASE \E p \in Paths : Remove(c, p)
  BY <1>1, <1>2, KindsOfValues DEF Remove
<1>3. CASE \E p \in Paths, v \in Hashes \union {Dir} : Save(c, p, v)
  <2>1. PICK p \in Paths, v \in Hashes \union {Dir} : Save(c, p, v)
    BY <1>3
  <2>2. p \in Files \/ v = Dir
    BY <2>1 DEF Save
  <2>3. FoldersAreFolders(Stood(rows[c], p, v)) /\ FoldersAreFolders(Stood(disk[c], p, v))
    BY <1>1, <2>2, KindsOfValues
  <2>4. rows' = [rows EXCEPT ![c] = Stood(@, p, v)] /\ disk' = [disk EXCEPT ![c] = Stood(@, p, v)]
    BY <2>1 DEF Save
  <2>5. QED
    BY <1>1, <2>3, <2>4
<1>4. CASE \E p, q \in Files : Move(c, p, q)
  <2>1. PICK p, q \in Files : Move(c, p, q)
    BY <1>4
  <2>2. p \in Paths /\ q \in Paths
    BY DEF Paths
  <2>3. rows[c][p] \in Values /\ disk[c][p] \in Values
    BY <1>1, <2>2 DEF Contents
  <2>4. /\ Stood(rows[c], q, rows[c][p]) \in Contents /\ Stood(disk[c], q, disk[c][p]) \in Contents
        /\ FoldersAreFolders(Stood(rows[c], q, rows[c][p]))
        /\ FoldersAreFolders(Stood(disk[c], q, disk[c][p]))
    BY <1>1, <2>2, <2>3, KindsOfValues, ContentsValues
  <2>5. /\ FoldersAreFolders(Gone(Stood(rows[c], q, rows[c][p]), p))
        /\ FoldersAreFolders(Gone(Stood(disk[c], q, disk[c][p]), p))
    BY <2>2, <2>4, KindsOfValues
  <2>6. /\ rows' = [rows EXCEPT ![c] = Gone(Stood(@, q, @[p]), p)]
        /\ disk' = [disk EXCEPT ![c] = Gone(Stood(@, q, @[p]), p)]
    BY <2>1 DEF Move
  <2>7. QED
    BY <1>1, <2>5, <2>6
<1>5. CASE \/ \E i \in Ids : Forget(c, i)
           \/ \E i \in Ids, p \in Paths : Annotate(c, i, p)
           \/ \E p \in Paths : Upload(c, p)
           \/ PullRequired(c) \/ PushInit(c) \/ Meta(c) \/ Commit(c) \/ PushEnd(c) \/ PushFails(c)
           \/ \E strategy \in Fetching : Fetch(c, strategy)
  BY <1>1, <1>5 DEF Forget, Annotate, Upload, PullRequired, PushInit, Meta, Commit, PushEnd,
                    PushFails, Fetch, dataVars
<1>6. QED
  BY <1>2, <1>3, <1>4, <1>5 DEF ClientNext

LEMMA ApplyKinds ==
  ASSUME ExchangeInv, ApplyNext
  PROVE  \A n \in Nodes : FoldersAreFolders(rows'[n]) /\ FoldersAreFolders(disk'[n])
<1> SUFFICES ASSUME NEW n \in Nodes
             PROVE  FoldersAreFolders(rows'[n]) /\ FoldersAreFolders(disk'[n])
  OBVIOUS
<1>1. /\ rows[n] \in Contents /\ disk[n] \in Contents
      /\ FoldersAreFolders(rows[n]) /\ FoldersAreFolders(disk[n])
      /\ job \in Jobs /\ job # None /\ FoldersAreFolders(job.left.adds) /\ ExchangeTypeOK
  BY ApplySteps, JobValues DEF ExchangeInv, ExchangeTypeOK, Kinds
<1>2. CASE \E p \in Paths : RemoveRow(p) /\ disk'[n] = disk[n]
                            /\ rows'[n] \in {rows[n], Gone(rows[n], p)}
  BY <1>1, <1>2, KindsOfValues
<1>3. CASE n = job.on /\ \E p \in Paths : CopyFile(p) /\ rows'[n] = rows[n]
  <2>1. PICK p \in Paths : CopyFile(p) /\ rows'[n] = rows[n]
    BY <1>3
  <2>2. CASE disk'[n] = Stood(disk[n], p, Dir)
    BY <1>1, <2>1, <2>2, KindsOfValues
  <2>3. CASE disk'[n] # Stood(disk[n], p, Dir)
    <3>1. /\ disk'[n] = [disk[n] EXCEPT ![p] = job.folder[p]]
          /\ job.left.adds[p] # Dir /\ job.left.adds[p] # None
      BY <1>1, <1>3, <2>1, <2>3, DiskAfterCopy
    <3>2. p \in Files
      BY <1>1, <3>1 DEF FoldersAreFolders, Paths
    <3>3. FoldersAreFolders([disk[n] EXCEPT ![p] = job.folder[p]])
      BY <1>1, <3>2, KindsOfValues
    <3>4. QED
      BY <1>1, <2>1, <3>1, <3>3
  <2>4. QED
    BY <2>2, <2>3
<1>4. CASE RemoveFile /\ rows'[n] = rows[n] /\ disk'[n] = Gone(disk[n], job.doomed)
  <2>1. job.doomed \in Paths
    BY <1>1, <1>4, JobValues DEF RemoveFile
  <2>2. QED
    BY <1>1, <1>4, <2>1, KindsOfValues
<1>5. CASE disk'[n] = disk[n]
           /\ rows'[n] = [q \in Paths |-> IF q \in Touched(n, job.copied) THEN disk[n][q]
                                                                     ELSE rows[n][q]]
  BY <1>1, <1>5 DEF FoldersAreFolders, Paths
<1>6. CASE rows'[n] = rows[n] /\ disk'[n] = disk[n]
  BY <1>1, <1>6
<1>7. QED
  BY <1>1, <1>2, <1>3, <1>4, <1>5, <1>6, TablesAfter

LEMMA SessionKinds ==
  ASSUME ExchangeInv, NEW c \in Clients, ClientNext(c)
  PROVE  /\ \A k \in Clients : FoldersAreFolders(session'[k].adds)
         /\ job' # None => FoldersAreFolders(job'.left.adds)
<1>1. /\ session \in [Clients -> Deltas] /\ Stamp(c) \in Stamps /\ Stamp(Registry) \in Stamps
      /\ FoldersAreFolders(Stamp(c).files) /\ FoldersAreFolders(Stamp(Registry).files)
      /\ \A k \in Clients : FoldersAreFolders(session[k].adds)
      /\ job # None => FoldersAreFolders(job.left.adds)
      /\ ExchangeTypeOK
  <2>1. Stamp(c) \in Stamps /\ Stamp(Registry) \in Stamps
    BY StampValues DEF ExchangeInv, Nodes
  <2>2. QED
    BY <2>1 DEF ExchangeInv, ExchangeTypeOK, Kinds, Stamp, Nodes
<1>2. FoldersAreFolders(NoDelta.adds)
  BY EmptyValues, KindsOfDeltas DEF NoDelta, EmptyStamp, Nowhere, FoldersAreFolders, Paths
<1>3. CASE \/ \E p \in Paths : Remove(c, p) \/ Upload(c, p)
           \/ \E p \in Paths, v \in Hashes \union {Dir} : Save(c, p, v)
           \/ \E p, q \in Files : Move(c, p, q)
           \/ \E i \in Ids : Forget(c, i)
           \/ \E i \in Ids, p \in Paths : Annotate(c, i, p)
           \/ PullRequired(c) \/ Meta(c) \/ PushEnd(c)
  <2>1. session' = session /\ job' = job
    BY <1>3 DEF Remove, Upload, Save, Move, Forget, Annotate, PullRequired, Meta, PushEnd,
                Edited, pushVars
  <2>2. QED
    BY <1>1, <2>1
<1>4. CASE PushInit(c)
  <2>1. FoldersAreFolders(Delta(Stamp(c), Stamp(Registry)).adds)
    BY <1>1, KindsOfDeltas
  <2>2. session' = [session EXCEPT ![c] = Delta(Stamp(c), Stamp(Registry))] /\ job' = job
    BY <1>4 DEF PushInit
  <2>3. QED
    BY <1>1, <2>1, <2>2
<1>5. CASE Commit(c)
  <2>1. session' = [session EXCEPT ![c] = NoDelta] /\ job'.left = session[c]
    BY <1>5 DEF Commit, SessionOver
  <2>2. QED
    BY <1>1, <1>2, <2>1
<1>6. CASE PushFails(c)
  <2>1. /\ session' = [session EXCEPT ![c] = NoDelta]
        /\ \/ job' = job
           \/ job # None /\ job' = [job EXCEPT !.by = None]
    <3>1. /\ session' = [session EXCEPT ![c] = NoDelta]
          /\ job' = IF phase[c] = "applying" THEN [job EXCEPT !.by = None] ELSE job
      BY <1>6 DEF PushFails, SessionOver
    <3>2. phase[c] = "applying" => job # None
      BY DEF ExchangeInv, ExchangeTypeOK
    <3>3. QED
      BY <3>1, <3>2
  <2>2. job # None => job \in Jobs
    BY <1>1 DEF ExchangeTypeOK
  <2>3. job' # None => job # None /\ job'.left = job.left
    BY <2>1, <2>2 DEF Jobs
  <2>4. QED
    BY <1>1, <1>2, <2>1, <2>3
<1>7. CASE \E strategy \in Fetching : Fetch(c, strategy)
  <2>1. /\ session' = session /\ stamp[c] # None
        /\ job'.left = Delta(Stamp(Registry), stamp[c])
    BY <1>7 DEF Fetch, pushVars
  <2>2. stamp[c] \in Stamps
    BY <1>1, <2>1 DEF ExchangeTypeOK
  <2>3. QED
    BY <1>1, <2>1, <2>2, KindsOfDeltas
<1>8. QED
  BY <1>3, <1>4, <1>5, <1>6, <1>7 DEF ClientNext

LEMMA StepKinds == ExchangeInv /\ [ExchangeNext]_exchangeVars => Kinds'
<1> SUFFICES ASSUME ExchangeInv, [ExchangeNext]_exchangeVars PROVE Kinds'
  OBVIOUS
<1>1. ASSUME NEW c \in Clients, ClientNext(c) PROVE Kinds'
  BY <1>1, UserKinds, SessionKinds DEF Kinds
<1>2. CASE ApplyNext
  <2>1. session' = session /\ job # None
    BY <1>2, ApplySteps, JobValues DEF ExchangeInv
  <2>2. job' # None => FoldersAreFolders(job'.left.adds)
    BY <1>2, <2>1, JobGoesOn DEF ExchangeInv, Kinds, FoldersAreFolders, Paths
  <2>3. QED
    BY <1>2, <2>1, <2>2, ApplyKinds DEF ExchangeInv, Kinds
<1>3. CASE UNCHANGED exchangeVars
  BY <1>3 DEF ExchangeInv, Kinds, exchangeVars, dataVars, pushVars
<1>4. QED
  BY <1>1, <1>2, <1>3 DEF ExchangeNext

LEMMA StepOneAtATime == ExchangeInv /\ [ExchangeNext]_exchangeVars => OneAtATime'
<1> SUFFICES ASSUME ExchangeInv, [ExchangeNext]_exchangeVars, job' # None
             PROVE  /\ job'.doomed = None \/ job'.copied = None
                    /\ job'.doomed # None => job'.left.removes[job'.doomed] # None
  BY DEF OneAtATime
<1>1. /\ ExchangeTypeOK /\ job # None => job \in Jobs
      /\ job # None => job.doomed = None \/ job.copied = None
      /\ job # None /\ job.doomed # None => job.left.removes[job.doomed] # None
  BY DEF ExchangeInv, OneAtATime, ExchangeTypeOK
<1>2. ASSUME NEW c \in Clients, ClientNext(c)
      PROVE  /\ job'.doomed = None \/ job'.copied = None
             /\ job'.doomed # None => job'.left.removes[job'.doomed] # None
  <2>1. CASE job' = job
    BY <1>1, <2>1
  <2>2. CASE job # None /\ job' = [job EXCEPT !.by = None]
    <3>1. job'.doomed = job.doomed /\ job'.copied = job.copied /\ job'.left = job.left
      BY <1>1, <2>2 DEF Jobs
    <3>2. QED
      BY <1>1, <2>2, <3>1
  <2>3. CASE job'.doomed = None
    BY <2>3
  <2>4. \/ job' = job
        \/ job # None /\ job' = [job EXCEPT !.by = None]
        \/ job'.doomed = None
    BY <1>2, ClientSteps DEF ExchangeInv
  <2>5. QED
    BY <2>1, <2>2, <2>3, <2>4
<1>3. CASE \E p \in Paths : SkipRemoval(p) \/ SkipAddition(p)
  <2>1. PICK p \in Paths : Between /\ (Skip(p, job.left.removes[p]) \/ Skip(p, job.left.adds[p]))
    BY <1>3 DEF SkipRemoval, SkipAddition
  <2>2. job # None /\ job.doomed = None
    BY <2>1 DEF Between
  <2>3. PICK hash : Skip(p, hash)
    BY <2>1
  <2>4. job'.doomed = None
    BY <1>1, <2>2, <2>3 DEF Skip, Jobs
  <2>5. QED
    BY <2>4
<1>4. CASE \E p \in Paths : RemoveRow(p)
  <2>1. PICK p \in Paths : RemoveRow(p)
    BY <1>4
  <2>2. job # None /\ job.doomed = None /\ job.copied = None /\ job.left.removes[p] # None
    BY <2>1 DEF RemoveRow, Between, NextRemoval, Listed
  <2>3. \/ job' = [job EXCEPT !.left.removes[p] = None]
        \/ job' = [job EXCEPT !.doomed = p]
    BY <2>1 DEF RemoveRow
  <2>4. CASE job' = [job EXCEPT !.left.removes[p] = None]
    BY <1>1, <2>2, <2>4 DEF Jobs
  <2>5. CASE job' = [job EXCEPT !.doomed = p]
    <3>1. job'.doomed = p /\ job'.copied = None /\ job'.left = job.left
      BY <1>1, <2>2, <2>5 DEF Jobs
    <3>2. QED
      BY <2>2, <3>1
  <2>6. QED
    BY <2>3, <2>4, <2>5
<1>5. CASE \E p \in Paths : CopyFile(p)
  <2>1. PICK p \in Paths : CopyFile(p)
    BY <1>5
  <2>2. job # None /\ job.doomed = None /\ job' = [job EXCEPT !.copied = p]
    BY <2>1 DEF CopyFile, Between
  <2>3. QED
    BY <1>1, <2>2 DEF Jobs
<1>6. CASE RemoveFile
  <2>1. job # None /\ job' = [job EXCEPT !.left.removes[job.doomed] = None, !.doomed = None]
    BY <1>6 DEF RemoveFile
  <2>2. QED
    BY <1>1, <2>1 DEF Jobs
<1>7. CASE AddRow
  <2>1. /\ job # None /\ job.copied # None
        /\ job' = [job EXCEPT !.left.adds[job.copied] = None, !.copied = None]
    BY <1>7 DEF AddRow
  <2>2. QED
    BY <1>1, <2>1 DEF Jobs
<1>8. CASE MetaAdd \/ MetaRemove
  <2>1. /\ job # None /\ job.doomed = None
        /\ job' = [job EXCEPT !.left.metaAdds = {}] \/ job' = [job EXCEPT !.left.metaRemoves = {}]
    BY <1>8 DEF MetaAdd, MetaRemove, FilesDone, Between
  <2>2. CASE job' = [job EXCEPT !.left.metaAdds = {}]
    BY <1>1, <2>1, <2>2 DEF Jobs
  <2>3. CASE job' = [job EXCEPT !.left.metaRemoves = {}]
    BY <1>1, <2>1, <2>3 DEF Jobs
  <2>4. QED
    BY <2>1, <2>2, <2>3
<1>9. CASE ApplyEnd \/ ApplyFails
  BY <1>9 DEF ApplyEnd, ApplyFails, Over
<1>10. CASE UNCHANGED exchangeVars
  BY <1>1, <1>10 DEF exchangeVars
<1>11. QED
  BY <1>2, <1>3, <1>4, <1>5, <1>6, <1>7, <1>8, <1>9, <1>10 DEF ExchangeNext, ApplyNext

\* What goes with a path, and what comes with it, leaves no path without the folders
\* above it.
LEMMA ClosedValues ==
  ASSUME NEW files \in Contents, Closed(files), NEW p \in Paths
  PROVE  /\ Closed(Gone(files, p))
         /\ Closed(Stood(files, p, Dir))
         /\ \A v : /\ \A q \in Ancestors(p) : files[q] # None
                   /\ v # None
                   => Closed([files EXCEPT ![p] = v])
<1>1. files \in [Paths -> Values] /\ Folders \subseteq Paths
  BY DEF Contents, Paths
<1>2. Closed(Gone(files, p))
  <2> SUFFICES ASSUME NEW q \in Paths, Gone(files, p)[q] # None, NEW a \in Ancestors(q)
               PROVE  Gone(files, p)[a] # None
    BY DEF Closed
  <2>1. a \in Paths /\ Below(q, a) /\ files[q] # None /\ q # p /\ ~ Below(q, p)
    BY <1>1 DEF Ancestors, Gone, Without
  <2>2. files[a] # None
    BY <2>1 DEF Closed
  <2>3. a # p /\ ~ Below(a, p)
    BY <2>1, BelowIsTransitive
  <2>4. QED
    BY <2>1, <2>2, <2>3 DEF Gone, Without
<1>3. Closed(Stood(files, p, Dir))
  <2> SUFFICES ASSUME NEW q \in Paths, Stood(files, p, Dir)[q] # None, NEW a \in Ancestors(q)
               PROVE  Stood(files, p, Dir)[a] # None
    BY DEF Closed
  <2>1. a \in Paths /\ a \in Folders /\ Below(q, a)
    BY <1>1 DEF Ancestors
  <2>2. CASE q = p \/ q \in Ancestors(p)
    <3>1. a \in Ancestors(p)
      BY <2>1, <2>2, BelowIsTransitive DEF Ancestors, Paths
    <3>2. QED
      BY <2>1, <3>1 DEF Stood
  <2>3. CASE ~ (q = p \/ q \in Ancestors(p))
    <3>1. files[q] # None
      BY <2>3 DEF Stood
    <3>2. files[a] # None
      BY <3>1 DEF Closed
    <3>3. QED
      BY <2>1, <3>2 DEF Stood
  <2>4. QED
    BY <2>2, <2>3
<1>4. ASSUME NEW v, v # None, \A q \in Ancestors(p) : files[q] # None
      PROVE  Closed([files EXCEPT ![p] = v])
  <2>1. \A q \in Paths : q # p => [files EXCEPT ![p] = v][q] = files[q]
    BY <1>1
  <2>2. [files EXCEPT ![p] = v][p] = v
    BY <1>1
  <2> DEFINE g == [files EXCEPT ![p] = v]
  <2> HIDE DEF g
  <2> SUFFICES ASSUME NEW q \in Paths, g[q] # None, NEW a \in Ancestors(q)
               PROVE  g[a] # None
    BY DEF Closed, g
  <2>3. a \in Paths
    BY <1>1 DEF Ancestors
  <2>4. files[a] # None
    BY <1>4, <2>1, <2>3 DEF Closed, g
  <2>5. QED
    BY <1>4, <2>1, <2>2, <2>3, <2>4 DEF g
<1>5. QED
  BY <1>2, <1>3, <1>4

\* A new row has rows for the folders above it, if the disk has the folders.
LEMMA ClosedByAdding ==
  ASSUME ExchangeTypeOK, NEW n \in Nodes, NEW p \in Paths,
         Closed(rows[n]), Closed(disk[n]), disk[n][p] # None,
         NEW table, table = [q \in Paths |-> IF q \in Touched(n, p) THEN disk[n][q] ELSE rows[n][q]]
  PROVE  Closed(table)
<1> SUFFICES ASSUME NEW q \in Paths, table[q] # None, NEW a \in Ancestors(q)
             PROVE  table[a] # None
  BY DEF Closed
<1>1. a \in Paths /\ a \in Folders /\ Below(q, a)
  BY DEF Ancestors, Paths
<1>2. CASE q \in Touched(n, p)
  <2>1. disk[n][q] # None /\ (q = p \/ Below(q, p) \/ q \in Ancestors(p))
    BY <1>2 DEF Touched
  <2>2. disk[n][a] # None
    BY <2>1 DEF Closed
  <2>3. a = p \/ Below(a, p) \/ a \in Ancestors(p)
    <3>1. CASE q = p
      BY <1>1, <3>1 DEF Ancestors
    <3>2. CASE Below(q, p)
      BY <1>1, <3>2, AboveAreAligned DEF Ancestors
    <3>3. CASE q \in Ancestors(p)
      BY <1>1, <3>3, BelowIsTransitive DEF Ancestors
    <3>4. QED
      BY <2>1, <3>1, <3>2, <3>3
  <2>4. a \in Touched(n, p)
    BY <1>1, <2>2, <2>3 DEF Touched
  <2>5. QED
    BY <1>1, <2>2, <2>4
<1>3. CASE q \notin Touched(n, p)
  <2>1. rows[n][q] # None
    BY <1>3
  <2>2. rows[n][a] # None
    BY <2>1 DEF Closed
  <2>3. CASE a \in Touched(n, p)
    BY <1>1, <2>3 DEF Touched
  <2>4. CASE a \notin Touched(n, p)
    BY <1>1, <2>2, <2>4
  <2>5. QED
    BY <2>3, <2>4
<1>4. QED
  BY <1>2, <1>3

\* The file of a path that is doomed goes when no row is left below it.
Deserted(table, p) == \A q \in Paths : q = p \/ Below(q, p) => table[q] = None

LEMMA GoneDeserts ==
  ASSUME NEW files, NEW p \in Paths PROVE Deserted(Gone(files, p), p)
BY DEF Deserted, Gone, Without

\* Without its row, a path has no rows below: a file has nothing below it.
LEMMA NothingBelow ==
  ASSUME NEW files, Closed(files), NEW p \in Paths, files[p] = None
  PROVE  Deserted(files, p)
<1> SUFFICES ASSUME NEW q \in Paths, Below(q, p), files[q] # None PROVE FALSE
  BY DEF Deserted
<1>1. p \in Ancestors(q)
  BY DEF Ancestors, Paths
<1>2. QED
  BY <1>1 DEF Closed

\* A job dooms a file only in the step that leaves no row for it.
LEMMA JobDooms ==
  ASSUME ExchangeInv, ApplyNext, job' # None, job'.on = Registry, job'.doomed # None
  PROVE  Deserted(rows'[Registry], job'.doomed)
<1>1. /\ ExchangeTypeOK /\ job \in Jobs /\ rows \in [Nodes -> Contents] /\ Registry \in Nodes
      /\ job'.on = job.on /\ Closed(rows[Registry]) /\ job # None
      /\ job.doomed = None \/ job.copied = None
  BY ApplySteps, JobGoesOn, JobValues
     DEF ExchangeInv, ExchangeTypeOK, Stands, OneAtATime, Nodes
<1>2. CASE \E p \in Paths : RemoveRow(p)
  <2>1. PICK p \in Paths : RemoveRow(p)
    BY <1>2
  <2>2. job.doomed = None /\ job.on = Registry
    BY <1>1, <2>1 DEF RemoveRow, Between
  <2>3. job' # [job EXCEPT !.left.removes[p] = None]
    BY <1>1, <2>2 DEF Jobs
  <2>4. /\ job' = [job EXCEPT !.doomed = p]
        /\ \/ rows[Registry][p] = None /\ rows' = rows
           \/ rows' = [rows EXCEPT ![Registry] = Gone(@, p)]
    BY <2>1, <2>2, <2>3 DEF RemoveRow, dataVars
  <2>5. job'.doomed = p
    BY <1>1, <2>4 DEF Jobs
  <2>6. CASE rows[Registry][p] = None /\ rows' = rows
    BY <1>1, <2>5, <2>6, NothingBelow
  <2>7. CASE rows' = [rows EXCEPT ![Registry] = Gone(@, p)]
    BY <1>1, <2>5, <2>7, GoneDeserts
  <2>8. QED
    BY <2>4, <2>6, <2>7
<1>3. CASE \E p \in Paths : SkipRemoval(p) \/ SkipAddition(p)
  <2>1. PICK p, hash : p \in Paths /\ Skip(p, hash)
    BY <1>3 DEF SkipRemoval, SkipAddition
  <2>2. job.doomed = None
    BY <1>3 DEF SkipRemoval, SkipAddition, Between
  <2>3. QED
    BY <1>1, <2>1, <2>2 DEF Skip, Jobs
<1>4. CASE \E p \in Paths : CopyFile(p)
  <2>1. PICK p \in Paths : job' = [job EXCEPT !.copied = p] /\ job.doomed = None
    BY <1>4 DEF CopyFile, Between
  <2>2. QED
    BY <1>1, <2>1 DEF Jobs
<1>5. CASE RemoveFile
  <2>1. job' = [job EXCEPT !.left.removes[job.doomed] = None, !.doomed = None]
    BY <1>5 DEF RemoveFile
  <2>2. QED
    BY <1>1, <2>1 DEF Jobs
<1>6. CASE AddRow
  <2>1. /\ job' = [job EXCEPT !.left.adds[job.copied] = None, !.copied = None]
        /\ job.doomed = None
    BY <1>1, <1>6 DEF AddRow
  <2>2. QED
    BY <1>1, <2>1 DEF Jobs
<1>7. CASE MetaAdd \/ MetaRemove
  <2>1. /\ job.doomed = None
        /\ job' = [job EXCEPT !.left.metaAdds = {}] \/ job' = [job EXCEPT !.left.metaRemoves = {}]
    BY <1>7 DEF MetaAdd, MetaRemove, FilesDone, Between
  <2>2. CASE job' = [job EXCEPT !.left.metaAdds = {}]
    BY <1>1, <2>1, <2>2 DEF Jobs
  <2>3. CASE job' = [job EXCEPT !.left.metaRemoves = {}]
    BY <1>1, <2>1, <2>3 DEF Jobs
  <2>4. QED
    BY <2>1, <2>2, <2>3
<1>8. CASE ApplyEnd \/ ApplyFails
  BY <1>8 DEF ApplyEnd, ApplyFails, Over
<1>9. QED
  BY <1>2, <1>3, <1>4, <1>5, <1>6, <1>7, <1>8 DEF ApplyNext

\* What the steps of a job make of the registry.
LEMMA ApplyStands ==
  ASSUME ExchangeInv, ApplyNext
  PROVE  /\ \A q \in Paths : rows'[Registry][q] # None => disk'[Registry][q] # None
         /\ Closed(rows'[Registry])
         /\ Closed(disk'[Registry])
<1> DEFINE R == rows[Registry]
           D == disk[Registry]
           Goal == /\ \A q \in Paths : rows'[Registry][q] # None => disk'[Registry][q] # None
                   /\ Closed(rows'[Registry])
                   /\ Closed(disk'[Registry])
<1>1. /\ ExchangeTypeOK /\ job \in Jobs /\ Registry \in Nodes
      /\ R \in Contents /\ D \in Contents /\ Closed(R) /\ Closed(D)
      /\ \A q \in Paths : R[q] # None => D[q] # None
  BY ApplySteps DEF ExchangeInv, ExchangeTypeOK, Stands, RegistryHasItsFiles, Nodes
<1>2. R \in [Paths -> Values] /\ D \in [Paths -> Values]
  BY <1>1 DEF Contents
<1>3. CASE rows'[Registry] = R /\ disk'[Registry] = D
  BY <1>1, <1>3
<1>4. CASE \E p \in Paths : disk'[Registry] = D /\ rows'[Registry] \in {R, Gone(R, p)}
  <2>1. PICK p \in Paths : disk'[Registry] = D /\ rows'[Registry] \in {R, Gone(R, p)}
    BY <1>4
  <2>2. CASE rows'[Registry] = Gone(R, p)
    <3>1. Closed(Gone(R, p))
      BY <1>1, ClosedValues
    <3>2. \A q \in Paths : Gone(R, p)[q] # None => R[q] # None
      BY DEF Gone, Without
    <3>3. QED
      BY <1>1, <2>1, <2>2, <3>1, <3>2
  <2>3. QED
    BY <1>1, <2>1, <2>2
<1>5. CASE Registry = job.on /\ \E p \in Paths : CopyFile(p) /\ rows'[Registry] = R
  <2>1. PICK p \in Paths : CopyFile(p) /\ rows'[Registry] = R
    BY <1>5
  <2>2. CASE disk'[Registry] = Stood(D, p, Dir)
    <3>1. Closed(Stood(D, p, Dir))
      BY <1>1, ClosedValues
    <3>2. \A q \in Paths : D[q] # None => Stood(D, p, Dir)[q] # None
      BY DEF Stood
    <3>3. QED
      BY <1>1, <2>1, <2>2, <3>1, <3>2
  <2>3. CASE disk'[Registry] # Stood(D, p, Dir)
    <3>1. /\ disk'[Registry] = [D EXCEPT ![p] = job.folder[p]] /\ job.folder[p] # None
          /\ \A q \in Ancestors(p) : D[q] # None
      BY <1>1, <1>5, <2>1, <2>3, DiskAfterCopy
    <3>2. Closed([D EXCEPT ![p] = job.folder[p]])
      BY <1>1, <3>1, ClosedValues
    <3>3. \A q \in Paths : D[q] # None => [D EXCEPT ![p] = job.folder[p]][q] # None
      BY <1>2, <3>1
    <3>4. QED
      BY <1>1, <2>1, <3>1, <3>2, <3>3
  <2>4. QED
    BY <2>2, <2>3
<1>6. CASE /\ Registry = job.on /\ RemoveFile /\ rows'[Registry] = R
           /\ disk'[Registry] = Gone(D, job.doomed)
  <2>1. job # None /\ job.doomed \in Paths
    BY <1>1, <1>6, JobValues DEF RemoveFile
  <2>2. \A q \in Paths : q = job.doomed \/ Below(q, job.doomed) => R[q] = None
    BY <1>6, <2>1 DEF ExchangeInv, Stands
  <2>3. Closed(Gone(D, job.doomed))
    BY <1>1, <2>1, ClosedValues
  <2>4. \A q \in Paths : R[q] # None => Gone(D, job.doomed)[q] # None
    BY <1>1, <2>2 DEF Gone, Without
  <2>5. QED
    BY <1>1, <1>6, <2>3, <2>4
<1>7. CASE /\ Registry = job.on /\ AddRow /\ disk'[Registry] = D
           /\ rows'[Registry] = [q \in Paths |-> IF q \in Touched(Registry, job.copied) THEN D[q]
                                                                              ELSE R[q]]
  <2>1. job.copied \in Paths /\ D[job.copied] # None
    BY <1>1, <1>7, JobValues DEF AddRow
  <2>2. Closed(rows'[Registry])
    BY <1>1, <1>7, <2>1, ClosedByAdding
  <2>3. \A q \in Paths : rows'[Registry][q] # None => D[q] # None
    BY <1>1, <1>7
  <2>4. QED
    BY <1>1, <1>7, <2>2, <2>3
<1>8. QED
  BY <1>1, <1>3, <1>4, <1>5, <1>6, <1>7, TablesAfter

LEMMA StepStands == ExchangeInv /\ [ExchangeNext]_exchangeVars => Stands'
<1> SUFFICES ASSUME ExchangeInv, [ExchangeNext]_exchangeVars PROVE Stands'
  OBVIOUS
<1>1. ASSUME NEW c \in Clients, ClientNext(c) PROVE Stands'
  <2>1. /\ rows'[Registry] = rows[Registry] /\ disk'[Registry] = disk[Registry]
        /\ \/ job' = job
           \/ job # None /\ job' = [job EXCEPT !.by = None]
           \/ job'.doomed = None
    BY <1>1, ClientSteps DEF ExchangeInv
  <2>2. job # None => job \in Jobs
    BY DEF ExchangeInv, ExchangeTypeOK
  <2>3. \/ job' = job
        \/ job # None /\ job'.on = job.on /\ job'.doomed = job.doomed
        \/ job'.doomed = None
    BY <2>1, <2>2 DEF Jobs
  <2>4. QED
    BY <2>1, <2>3 DEF ExchangeInv, Stands, RegistryHasItsFiles, Closed
<1>2. CASE ApplyNext
  <2>1. job' # None /\ job'.on = Registry /\ job'.doomed # None =>
          \A q \in Paths : q = job'.doomed \/ Below(q, job'.doomed) => rows'[Registry][q] = None
    BY <1>2, JobDooms DEF Deserted
  <2>2. QED
    BY <1>2, <2>1, ApplyStands DEF Stands, RegistryHasItsFiles, Closed
<1>3. CASE UNCHANGED exchangeVars
  BY <1>3 DEF ExchangeInv, Stands, RegistryHasItsFiles, Closed, exchangeVars, dataVars
<1>4. QED
  BY <1>1, <1>2, <1>3 DEF ExchangeNext

\* Where no stamp, session or job changes, what is seen stays seen.
LEMMA SeenStays ==
  ASSUME ExchangeInv,
         \A k \in Clients : phase'[k] \in {"meta", "upload"} =>
           /\ phase[k] \in {"meta", "upload"}
           /\ stamp'[k] = stamp[k] /\ session'[k] = session[k] /\ want'[k] = want[k],
         job' # None =>
           /\ job # None /\ job'.on = job.on /\ job'.by \in {job.by, None}
           /\ job'.goal = job.goal
           /\ \A p \in Paths : job'.left.removes[p] \in {job.left.removes[p], None}
           /\ job.by # None => stamp'[job.by] = stamp[job.by]
  PROVE  Seen'
<1>1. \A c \in Clients : phase'[c] \in {"meta", "upload"} =>
        /\ stamp'[c] # None
        /\ \A p \in Paths : session'[c].removes[p] # None =>
             want'[c].files[p] = None /\ stamp'[c].files[p] # None
  BY DEF ExchangeInv, Seen
<1>2. job' # None /\ job'.on = Registry =>
        \A p \in Paths : job'.left.removes[p] # None =>
          /\ job'.goal.files[p] = None
          /\ job'.by # None => stamp'[job'.by].files[p] # None
  <2> SUFFICES ASSUME job' # None, job'.on = Registry, NEW p \in Paths,
                      job'.left.removes[p] # None
               PROVE  /\ job'.goal.files[p] = None
                      /\ job'.by # None => stamp'[job'.by].files[p] # None
    OBVIOUS
  <2>1. job # None /\ job.on = Registry /\ job.left.removes[p] # None
    OBVIOUS
  <2>2. job.goal.files[p] = None /\ (job.by # None => stamp[job.by].files[p] # None)
    BY <2>1 DEF ExchangeInv, Seen
  <2>3. QED
    BY <2>2
<1>3. QED
  BY <1>1, <1>2 DEF Seen

LEMMA PushSeen ==
  ASSUME ExchangeInv, NEW c \in Clients, PushInit(c) PROVE Seen'
<1>1. /\ Stamp(c) \in Stamps /\ Stamp(Registry) \in Stamps /\ LastStamp(c) \in Stamps
      /\ None \notin Stamps
  BY StampValues, LastStampValue DEF ExchangeInv, Nodes
<1>2. /\ stamp' = [stamp EXCEPT ![c] = LastStamp(c)]
      /\ want' = [want EXCEPT ![c] = Stamp(c)]
      /\ session' = [session EXCEPT ![c] = Delta(Stamp(c), Stamp(Registry))]
      /\ phase' = [phase EXCEPT ![c] = "meta"]
      /\ phase[c] = "idle" /\ job' = job
      /\ Stamp(Registry) \in {LastStamp(c), EmptyStamp}
  BY DEF PushInit
<1>3. /\ stamp \in [Clients -> Stamps \union {None}] /\ want \in [Clients -> Stamps]
      /\ session \in [Clients -> Deltas] /\ phase \in [Clients -> Phases]
      /\ job # None => job.by # c
  BY <1>2 DEF ExchangeInv, ExchangeTypeOK
<1>4. \A p \in Paths : Delta(Stamp(c), Stamp(Registry)).removes[p] # None =>
        Stamp(c).files[p] = None /\ LastStamp(c).files[p] # None
  <2> SUFFICES ASSUME NEW p \in Paths, Delta(Stamp(c), Stamp(Registry)).removes[p] # None
               PROVE  Stamp(c).files[p] = None /\ LastStamp(c).files[p] # None
    OBVIOUS
  <2>1. Stamp(c).files[p] = None /\ Stamp(Registry).files[p] # None
    BY <1>1, DeltaListed
  <2>2. EmptyStamp.files[p] = None
    BY DEF EmptyStamp, Nowhere
  <2>3. QED
    BY <1>2, <2>1, <2>2
<1>5. ASSUME NEW k \in Clients, phase'[k] \in {"meta", "upload"}
      PROVE  /\ stamp'[k] # None
             /\ \A p \in Paths : session'[k].removes[p] # None =>
                  want'[k].files[p] = None /\ stamp'[k].files[p] # None
  <2>1. CASE k = c
    <3>1. /\ stamp'[k] = LastStamp(c) /\ want'[k] = Stamp(c)
          /\ session'[k] = Delta(Stamp(c), Stamp(Registry))
      BY <1>2, <1>3, <2>1
    <3>2. QED
      BY <1>1, <1>4, <3>1
  <2>2. CASE k # c
    <3>1. /\ stamp'[k] = stamp[k] /\ want'[k] = want[k] /\ session'[k] = session[k]
          /\ phase'[k] = phase[k]
      BY <1>2, <1>3, <2>2
    <3>2. QED
      BY <1>5, <3>1 DEF ExchangeInv, Seen
  <2>3. QED
    BY <2>1, <2>2
<1>6. job' # None /\ job'.on = Registry =>
        \A p \in Paths : job'.left.removes[p] # None =>
          /\ job'.goal.files[p] = None
          /\ job'.by # None => stamp'[job'.by].files[p] # None
  <2>1. job # None => job.by \in Clients \union {None}
    BY JobValues DEF ExchangeInv, ExchangeTypeOK
  <2>2. job # None /\ job.by # None => stamp'[job.by] = stamp[job.by]
    BY <1>2, <1>3, <2>1
  <2>3. QED
    BY <1>2, <2>2 DEF ExchangeInv, Seen
<1>7. QED
  BY <1>5, <1>6 DEF Seen

LEMMA CommitSeen ==
  ASSUME ExchangeInv, NEW c \in Clients, Commit(c) PROVE Seen'
<1>1. /\ stamp' = stamp /\ phase[c] = "upload"
      /\ phase' = [phase EXCEPT ![c] = "applying"]
      /\ want' = [want EXCEPT ![c] = EmptyStamp]
      /\ session' = [session EXCEPT ![c] = NoDelta]
      /\ job'.by = c /\ job'.left = session[c] /\ job'.goal = want[c]
  BY DEF Commit, SessionOver
<1>2. /\ want \in [Clients -> Stamps] /\ session \in [Clients -> Deltas]
      /\ phase \in [Clients -> Phases]
  BY DEF ExchangeInv, ExchangeTypeOK
<1>3. \A k \in Clients : phase'[k] \in {"meta", "upload"} =>
        /\ phase[k] = phase'[k] /\ want'[k] = want[k] /\ session'[k] = session[k]
  BY <1>1, <1>2
<1>4. \A p \in Paths : session[c].removes[p] # None =>
        want[c].files[p] = None /\ stamp[c].files[p] # None
  BY <1>1 DEF ExchangeInv, Seen
<1>5. \A k \in Clients : phase'[k] \in {"meta", "upload"} =>
        /\ stamp'[k] # None
        /\ \A p \in Paths : session'[k].removes[p] # None =>
             want'[k].files[p] = None /\ stamp'[k].files[p] # None
  BY <1>1, <1>3 DEF ExchangeInv, Seen
<1>6. QED
  BY <1>1, <1>4, <1>5 DEF Seen

LEMMA ClientSeen ==
  ASSUME ExchangeInv, NEW c \in Clients, ClientNext(c) PROVE Seen'
<1>1. /\ stamp \in [Clients -> Stamps \union {None}] /\ want \in [Clients -> Stamps]
      /\ session \in [Clients -> Deltas] /\ phase \in [Clients -> Phases]
      /\ job # None => job \in Jobs /\ job.by \in Clients \union {None}
      /\ \A k \in Clients : job # None /\ job.by = k => phase[k] = "applying"
  BY JobValues DEF ExchangeInv, ExchangeTypeOK
<1>2. CASE \/ \E p \in Paths : Remove(c, p) \/ Upload(c, p)
           \/ \E p \in Paths, v \in Hashes \union {Dir} : Save(c, p, v)
           \/ \E p, q \in Files : Move(c, p, q)
           \/ \E i \in Ids : Forget(c, i)
           \/ \E i \in Ids, p \in Paths : Annotate(c, i, p)
           \/ Meta(c)
  <2>1. /\ UNCHANGED <<stamp, session, want, job>>
        /\ \/ phase' = phase
           \/ phase[c] = "meta" /\ phase' = [phase EXCEPT ![c] = "upload"]
    BY <1>2 DEF Remove, Upload, Save, Move, Forget, Annotate, Meta, Edited, pushVars
  <2>2. \A k \in Clients : phase'[k] \in {"meta", "upload"} => phase[k] \in {"meta", "upload"}
    BY <1>1, <2>1
  <2>3. QED
    BY <2>1, <2>2, SeenStays
<1>3. CASE PullRequired(c) \/ PushEnd(c)
  <2>1. /\ phase[c] \in {"idle", "applied"}
        /\ \E s : stamp' = [stamp EXCEPT ![c] = s]
        /\ phase' = phase \/ phase' = [phase EXCEPT ![c] = "idle"]
        /\ UNCHANGED <<session, want, job>>
    BY <1>3 DEF PullRequired, PushEnd
  <2>2. \A k \in Clients : phase'[k] \in {"meta", "upload"} =>
          phase[k] = phase'[k] /\ stamp'[k] = stamp[k]
    BY <1>1, <2>1
  <2>3. job # None /\ job.by # None => stamp'[job.by] = stamp[job.by]
    BY <1>1, <2>1
  <2>4. QED
    BY <2>1, <2>2, <2>3, SeenStays
<1>4. CASE PushFails(c)
  <2>1. /\ stamp' = stamp
        /\ phase' = [phase EXCEPT ![c] = "idle"]
        /\ want' = [want EXCEPT ![c] = EmptyStamp]
        /\ session' = [session EXCEPT ![c] = NoDelta]
        /\ job' = IF phase[c] = "applying" THEN [job EXCEPT !.by = None] ELSE job
    BY <1>4 DEF PushFails, SessionOver
  <2>2. \A k \in Clients : phase'[k] \in {"meta", "upload"} =>
          /\ phase[k] = phase'[k] /\ want'[k] = want[k] /\ session'[k] = session[k]
    BY <1>1, <2>1
  <2>3. phase[c] = "applying" => job # None
    BY DEF ExchangeInv, ExchangeTypeOK
  <2>4. job' # None =>
          /\ job # None /\ job'.on = job.on /\ job'.by \in {job.by, None}
          /\ job'.goal = job.goal /\ job'.left = job.left
    BY <1>1, <2>1, <2>3 DEF Jobs
  <2>5. QED
    BY <2>1, <2>2, <2>4, SeenStays
<1>5. CASE \E strategy \in Fetching : Fetch(c, strategy)
  <2>1. job'.on = c /\ UNCHANGED <<stamp, session, want, phase>>
    BY <1>5 DEF Fetch, pushVars
  <2>2. job'.on # Registry
    BY <2>1
  <2>3. QED
    BY <2>1, <2>2 DEF ExchangeInv, Seen
<1>6. QED
  BY <1>2, <1>3, <1>4, <1>5, PushSeen, CommitSeen DEF ClientNext

LEMMA StepSeen == ExchangeInv /\ [ExchangeNext]_exchangeVars => Seen'
<1> SUFFICES ASSUME ExchangeInv, [ExchangeNext]_exchangeVars PROVE Seen'
  OBVIOUS
<1>1. CASE ApplyNext
  <2>1. /\ job # None /\ UNCHANGED <<stamp, want, session>>
        /\ \A c \in Clients : phase'[c] \in {"meta", "upload"} => phase[c] = phase'[c]
    BY <1>1, ApplySteps, JobValues DEF ExchangeInv
  <2>2. job' # None =>
          /\ job'.on = job.on /\ job'.by = job.by /\ job'.goal = job.goal
          /\ \A p \in Paths : job'.left.removes[p] \in {job.left.removes[p], None}
    BY <1>1, JobGoesOn DEF ExchangeInv
  <2>3. QED
    BY <2>1, <2>2, SeenStays
<1>2. CASE UNCHANGED exchangeVars
  BY <1>2 DEF ExchangeInv, Seen, exchangeVars, pushVars
<1>3. QED
  BY <1>1, <1>2, ClientSeen DEF ExchangeNext

LEMMA InitInv == ExchangeInit => ExchangeInv
<1> SUFFICES ASSUME ExchangeInit PROVE ExchangeInv
  OBVIOUS
<1>1. PICK files \in Contents :
        /\ \A p \in Folders : files[p] \in {Dir, None}
        /\ \A p \in Paths : files[p] # None => \A q \in Ancestors(p) : files[q] = Dir
        /\ rows = [n \in Nodes |-> files]
        /\ disk = [n \in Nodes |-> files]
  BY DEF ExchangeInit
<1>2. /\ job = None /\ \A c \in Clients : phase[c] = "idle"
      /\ session = [c \in Clients |-> NoDelta]
  BY DEF ExchangeInit
<1>3. FoldersAreFolders(NoDelta.adds)
  BY EmptyValues, KindsOfDeltas DEF NoDelta, EmptyStamp, Nowhere, FoldersAreFolders, Paths
<1>4. Kinds
  BY <1>1, <1>2, <1>3 DEF Kinds, FoldersAreFolders
<1>5. Stands
  BY <1>1, <1>2, DirIsThere DEF Stands, RegistryHasItsFiles, Closed, Nodes
<1>6. OneAtATime /\ Seen
  BY <1>2 DEF OneAtATime, Seen
<1>7. QED
  BY <1>4, <1>5, <1>6, InitTypes DEF ExchangeInv

LEMMA InvariantHolds == ExchangeSpec => []ExchangeInv
<1>1. ExchangeInv /\ [ExchangeNext]_exchangeVars => ExchangeInv'
  BY StepTypes, StepKinds, StepOneAtATime, StepStands, StepSeen DEF ExchangeInv
<1>2. QED
  BY InitInv, <1>1, PTL DEF ExchangeSpec

------------------------------------------------------------------------------
\* What is in the index of the registry is on its disk, at every moment of any
\* applications of deltas (registry.cpp, applyDelta).
THEOREM RegistryKeepsFiles == ExchangeSpec => []RegistryHasItsFiles
<1>1. ExchangeInv => RegistryHasItsFiles
  BY DEF ExchangeInv, Stands
<1>2. QED
  BY <1>1, InvariantHolds, PTL

\* A push takes off the registry only what its client knew to be there, and has not
\* (registry.cpp, push and applyDelta; delta.cpp, getDelta).
THEOREM RemovesOnlyTheSeen == ExchangeSpec => RemovedOnlyIfSeen
<1> DEFINE Justified(p) ==
      \E q \in Paths : /\ q = p \/ Below(p, q)
                       /\ job.goal.files[q] = None
                       /\ job.by # None => stamp[job.by].files[q] # None
<1>1. ASSUME ExchangeInv, [ExchangeNext]_exchangeVars, NEW p \in Paths,
             rows[Registry][p] # None, rows'[Registry][p] = None
      PROVE  Justified(p)
  <2>1. ApplyNext
    <3>1. \A c \in Clients : ClientNext(c) => rows'[Registry] = rows[Registry]
      BY <1>1, ClientSteps DEF ExchangeInv
    <3>2. ~ UNCHANGED exchangeVars
      BY <1>1 DEF exchangeVars, dataVars
    <3>3. QED
      BY <1>1, <3>1, <3>2 DEF ExchangeNext
  <2>2. ExchangeTypeOK /\ Registry \in Nodes
    BY <1>1 DEF ExchangeInv, Nodes
  <2>3. rows'[Registry] # rows[Registry]
    BY <1>1
  <2>4. CASE Registry = job.on /\ \E q \in Paths : RemoveRow(q)
                                    /\ rows'[Registry] \in {rows[Registry], Gone(rows[Registry], q)}
    <3>1. PICK q \in Paths : RemoveRow(q) /\ rows'[Registry] = Gone(rows[Registry], q)
      BY <2>3, <2>4
    <3>2. q = p \/ Below(p, q)
      BY <1>1, <3>1 DEF Gone, Without
    <3>3. job # None /\ job.left.removes[q] # None
      BY <3>1 DEF RemoveRow, Between, NextRemoval, Listed
    <3>4. job.goal.files[q] = None /\ (job.by # None => stamp[job.by].files[q] # None)
      BY <1>1, <2>4, <3>3 DEF ExchangeInv, Seen
    <3>5. QED
      BY <3>2, <3>4
  <2>5. CASE rows'[Registry] = [q \in Paths |-> IF q \in Touched(Registry, job.copied)
                                                  THEN disk[Registry][q] ELSE rows[Registry][q]]
    BY <1>1, <2>5 DEF Touched
  <2>6. QED
    BY <2>1, <2>2, <2>3, <2>4, <2>5, TablesAfter
<1>2. ExchangeInv /\ [ExchangeNext]_exchangeVars =>
        [\A p \in Paths :
           rows[Registry][p] # None /\ rows'[Registry][p] = None => Justified(p)]_exchangeVars
  BY <1>1
<1>3. QED
  BY <1>2, InvariantHolds, PTL DEF ExchangeSpec, RemovedOnlyIfSeen

\* What differs from a delta survives its application, but where all that is theirs
\* is to be kept (registry.cpp, applyDelta).
THEOREM DifferencesAreKept == ExchangeSpec => OursKept
<1> DEFINE Ours(p) == /\ job # None /\ edits' = edits
                      /\ job.strategy # "KeepTheirs"
                      /\ rows[job.on][p] # None /\ disk[job.on][p] = rows[job.on][p]
                      /\ rows[job.on][p] # job.left.adds[p]
           Lost(p) == rows'[job.on][p] # rows[job.on][p] \/ disk'[job.on][p] # rows[job.on][p]
           Excused(p) == \E q \in Paths :
             \/ q = p /\ (job.left.removes[q] = rows[job.on][p] \/ job.doomed = p)
             \/ Below(p, q) /\ job.left.removes[q] # None
<1>1. ASSUME ExchangeInv, [ExchangeNext]_exchangeVars, NEW p \in Paths, Ours(p), Lost(p)
      PROVE  Excused(p)
  <2>1. /\ ExchangeTypeOK /\ job \in Jobs /\ job.on \in Nodes
        /\ rows[job.on] \in [Paths -> Values] /\ disk[job.on] \in [Paths -> Values]
        /\ FoldersAreFolders(rows[job.on])
    BY <1>1, JobValues DEF ExchangeInv, ExchangeTypeOK, Kinds, Contents
  <2>2. ApplyNext
    <3>1. ~ UNCHANGED <<rows, disk>>
      BY <1>1
    <3>2. \A c \in Clients : ~ ClientNext(c)
      <4> SUFFICES ASSUME NEW c \in Clients, ClientNext(c) PROVE FALSE
        OBVIOUS
      <4>1. edits' = edits /\ edits \in Nat /\ job # None
        BY <1>1, <2>1 DEF ExchangeTypeOK
      <4>2. CASE Edited(c)
        BY <4>1, <4>2 DEF Edited
      <4>3. CASE \/ \E q \in Paths : Upload(c, q)
                 \/ PullRequired(c) \/ PushInit(c) \/ Meta(c) \/ PushEnd(c) \/ PushFails(c)
        BY <3>1, <4>3 DEF Upload, PullRequired, PushInit, Meta, PushEnd, PushFails, dataVars
      <4>4. CASE Commit(c) \/ \E strategy \in Fetching : Fetch(c, strategy)
        BY <4>1, <4>4 DEF Commit, Fetch
      <4>5. QED
        BY <4>2, <4>3, <4>4 DEF ClientNext, Remove, Save, Move, Forget, Annotate
    <3>3. ~ UNCHANGED exchangeVars
      BY <3>1 DEF exchangeVars, dataVars
    <3>4. QED
      BY <1>1, <3>2, <3>3 DEF ExchangeNext
  <2>3. CASE rows'[job.on] = rows[job.on] /\ disk'[job.on] = disk[job.on]
    BY <1>1, <2>3
  <2>4. CASE \E q \in Paths : RemoveRow(q) /\ disk'[job.on] = disk[job.on]
                              /\ rows'[job.on] \in {rows[job.on], Gone(rows[job.on], q)}
    <3>1. PICK q \in Paths : RemoveRow(q) /\ rows'[job.on] = Gone(rows[job.on], q)
      BY <1>1, <2>4
    <3>2. q = p \/ Below(p, q)
      <4>1. CASE rows'[job.on][p] # rows[job.on][p]
        BY <3>1, <4>1 DEF Gone, Without
      <4>2. CASE disk'[job.on][p] # rows[job.on][p]
        BY <1>1, <2>4, <4>2
      <4>3. QED
        BY <1>1, <4>1, <4>2
    <3>3. job.left.removes[q] # None /\ ~ Differs(rows[job.on][q], job.left.removes[q])
      BY <1>1, <3>1 DEF RemoveRow, NextRemoval, Listed
    <3>4. QED
      BY <1>1, <3>2, <3>3 DEF Differs
  <2>5. CASE \E q \in Paths : CopyFile(q) /\ rows'[job.on] = rows[job.on]
    <3>1. PICK q \in Paths : CopyFile(q) /\ rows'[job.on] = rows[job.on]
      BY <2>5
    <3>2. ~ Differs(rows[job.on][q], job.left.adds[q])
      BY <1>1, <3>1 DEF CopyFile
    <3>3. p # q
      BY <1>1, <3>2 DEF Differs
    <3>4. \/ disk'[job.on][p] = disk[job.on][p]
          \/ p \in Ancestors(q) /\ disk'[job.on][p] = Dir
      <4>1. CASE disk'[job.on] = Stood(disk[job.on], q, Dir)
        BY <3>3, <4>1 DEF Stood
      <4>2. CASE disk'[job.on] = [disk[job.on] EXCEPT ![q] = job.folder[q]]
        BY <2>1, <3>3, <4>2
      <4>3. QED
        BY <2>1, <3>1, <4>1, <4>2, DiskAfterCopy
    <3>5. p \in Ancestors(q) => rows[job.on][p] = Dir
      BY <1>1, <2>1 DEF Ancestors, FoldersAreFolders
    <3>6. QED
      BY <1>1, <3>1, <3>4, <3>5
  <2>6. CASE RemoveFile /\ rows'[job.on] = rows[job.on]
             /\ disk'[job.on] = Gone(disk[job.on], job.doomed)
    <3>1. job # None /\ job.doomed # None /\ job.doomed \in Paths
      BY <2>1, <2>6, JobValues DEF RemoveFile
    <3>2. job.left.removes[job.doomed] # None
      BY <1>1, <3>1 DEF ExchangeInv, OneAtATime
    <3>3. p = job.doomed \/ Below(p, job.doomed)
      BY <1>1, <2>6 DEF Gone, Without
    <3>4. QED
      BY <3>1, <3>2, <3>3
  <2>7. CASE /\ disk'[job.on] = disk[job.on]
             /\ rows'[job.on] = [q \in Paths |-> IF q \in Touched(job.on, job.copied)
                                                   THEN disk[job.on][q] ELSE rows[job.on][q]]
    BY <1>1, <2>7
  <2>8. QED
    BY <2>1, <2>2, <2>3, <2>4, <2>5, <2>6, <2>7, TablesAfter
<1>2. ExchangeInv /\ [ExchangeNext]_exchangeVars =>
        [\A p \in Paths :
           /\ job # None /\ edits' = edits
           /\ job.strategy # "KeepTheirs"
           /\ rows[job.on][p] # None /\ disk[job.on][p] = rows[job.on][p]
           /\ rows[job.on][p] # job.left.adds[p]
           /\ rows'[job.on][p] # rows[job.on][p] \/ disk'[job.on][p] # rows[job.on][p]
           => \E q \in Paths :
                \/ q = p /\ (job.left.removes[q] = rows[job.on][p] \/ job.doomed = p)
                \/ Below(p, q) /\ job.left.removes[q] # None]_exchangeVars
  BY <1>1
<1>3. QED
  BY <1>2, InvariantHolds, PTL DEF ExchangeSpec, OursKept

------------------------------------------------------------------------------
\* That a push makes the registry what the client sent the stamp of.  While nothing
\* came between, the client's dataset and the registry's are as they were when the
\* delta was made of them (Fresh); and what the application has still to do is what the
\* registry has otherwise than the stamp (FilesWay, MetasWay).  In all datasets a path
\* has its folders, or the copy of a file would make folders that are not in the delta.

Trees == \A n \in Nodes : Closed(rows[n]) /\ Closed(disk[n])

Fresh(c) ==
  /\ rows[c] = disk[c] /\ rows[Registry] = disk[Registry]
  /\ want[c] = Stamp(c)
  /\ session[c] = Delta(Stamp(c), Stamp(Registry))
  /\ \A p \in Paths : session[c].adds[p] # None => folder[c][p] \in {None, session[c].adds[p]}
  /\ phase[c] = "upload" => \A i \in session[c].metaAdds : sent[c][i] = metas[c][i]
Apart(c) == job # None => job.on \notin {c, Registry}

FreshPush(c) ==
  ~ unlike[c] =>
    /\ phase[c] \in {"meta", "upload"} => Fresh(c) /\ Apart(c)
    /\ phase[c] = "applying" => job.exact /\ job.goal = Stamp(c)
    /\ phase[c] = "applied" => Stamp(c) = Stamp(Registry) /\ Apart(c)
FreshPushes == \A c \in Clients : FreshPush(c)

Way(j) ==
  /\ j.on = Registry /\ j.strategy = "KeepTheirs" /\ j.clash = {}
  /\ Closed(j.goal.files) /\ FoldersAreFolders(j.goal.files)

FilesWay(j, table, files) ==
  /\ \A p \in Paths :
       /\ j.left.removes[p] # None => j.goal.files[p] = None
       /\ j.left.adds[p] # None => /\ j.left.adds[p] = j.goal.files[p]
                                   /\ j.folder[p] \in {None, j.goal.files[p]}
       /\ table[p] # j.goal.files[p] => j.left.removes[p] # None \/ j.left.adds[p] # None
       /\ table[p] # files[p] =>
            p = j.copied \/ (j.doomed # None /\ (p = j.doomed \/ Below(p, j.doomed)))
  /\ j.copied # None => files[j.copied] = j.goal.files[j.copied]

MetasWay(j, records) ==
  /\ \A i \in j.left.metaAdds : i \in j.goal.metas /\ j.dump[i] # None
  /\ \A i \in j.left.metaRemoves : i \notin j.goal.metas
  /\ \A i \in Ids :
       /\ records[i] # None => i \in j.goal.metas \/ i \in j.left.metaRemoves
       /\ i \in j.goal.metas => i \in j.left.metaAdds \/ records[i] # None
       /\ i \in j.goal.metas /\ records[i] # None =>
            Listed(j.left.removes) = {} \/ j.goal.files[records[i]] # None

OnItsWay ==
  job # None /\ job.exact => /\ Way(job)
                             /\ FilesWay(job, rows[Registry], disk[Registry])
                             /\ MetasWay(job, metas[Registry])

ReconcileInv == ExchangeInv /\ Trees /\ FreshPushes /\ OnItsWay

LEMMA ClosedByStanding ==
  ASSUME NEW files \in Contents, Closed(files), NEW p \in Paths, NEW v, v # None
  PROVE  Closed(Stood(files, p, v))
<1> SUFFICES ASSUME NEW q \in Paths, Stood(files, p, v)[q] # None, NEW a \in Ancestors(q)
             PROVE  Stood(files, p, v)[a] # None
  BY DEF Closed
<1>1. a \in Paths /\ a \in Folders /\ Below(q, a)
  BY DEF Ancestors, Paths
<1>2. CASE q = p \/ q \in Ancestors(p)
  <2>1. a \in Ancestors(p)
    BY <1>1, <1>2, BelowIsTransitive DEF Ancestors, Paths
  <2>2. QED
    BY <1>1, <2>1 DEF Stood
<1>3. CASE ~ (q = p \/ q \in Ancestors(p))
  <2>1. files[q] # None
    BY <1>3 DEF Stood
  <2>2. files[a] # None
    BY <2>1 DEF Closed
  <2>3. QED
    BY <1>1, <2>2 DEF Stood
<1>4. QED
  BY <1>2, <1>3

\* What a user changes keeps its folders.
LEMMA UserTrees ==
  ASSUME ExchangeInv, Trees, NEW c \in Clients, ClientNext(c) PROVE Trees'
<1>1. /\ rows \in [Nodes -> Contents] /\ disk \in [Nodes -> Contents] /\ c \in Nodes
      /\ \A n \in Nodes : Closed(rows[n]) /\ Closed(disk[n])
  BY DEF ExchangeInv, ExchangeTypeOK, Trees, Nodes
<1>2. ASSUME NEW f, NEW g, Closed(f), Closed(g),
             rows' = [rows EXCEPT ![c] = f], disk' = [disk EXCEPT ![c] = g]
      PROVE  Trees'
  <2>1. \A n \in Nodes : Closed(rows'[n]) /\ Closed(disk'[n])
    BY <1>1, <1>2
  <2>2. QED
    BY <2>1 DEF Trees, Closed
<1>3. CASE \E p \in Paths : Remove(c, p)
  <2>1. PICK p \in Paths : /\ rows' = [rows EXCEPT ![c] = Gone(rows[c], p)]
                           /\ disk' = [disk EXCEPT ![c] = Gone(disk[c], p)]
    BY <1>1, <1>3 DEF Remove
  <2>2. Closed(Gone(rows[c], p)) /\ Closed(Gone(disk[c], p))
    BY <1>1, ClosedValues
  <2>3. QED
    BY <1>2, <2>1, <2>2
<1>4. CASE \E p \in Paths, v \in Hashes \union {Dir} : Save(c, p, v)
  <2>1. PICK p \in Paths, v \in Hashes \union {Dir} :
          /\ rows' = [rows EXCEPT ![c] = Stood(rows[c], p, v)]
          /\ disk' = [disk EXCEPT ![c] = Stood(disk[c], p, v)]
    BY <1>1, <1>4 DEF Save
  <2>2. v # None
    OBVIOUS
  <2>3. Closed(Stood(rows[c], p, v)) /\ Closed(Stood(disk[c], p, v))
    BY <1>1, <2>2, ClosedByStanding
  <2>4. QED
    BY <1>2, <2>1, <2>3
<1>5. CASE \E p, q \in Files : Move(c, p, q)
  <2>1. PICK p, q \in Files : Move(c, p, q)
    BY <1>5
  <2>2. /\ p \in Paths /\ q \in Paths
        /\ rows' = [rows EXCEPT ![c] = Gone(Stood(rows[c], q, rows[c][p]), p)]
        /\ disk' = [disk EXCEPT ![c] = Gone(Stood(disk[c], q, disk[c][p]), p)]
        /\ rows[c][p] # None /\ disk[c][p] # None
    BY <1>1, <2>1 DEF Move, Paths
  <2>3. rows[c][p] \in Values /\ disk[c][p] \in Values
    BY <1>1, <2>2 DEF Contents
  <2>4. /\ Stood(rows[c], q, rows[c][p]) \in Contents /\ Closed(Stood(rows[c], q, rows[c][p]))
        /\ Stood(disk[c], q, disk[c][p]) \in Contents /\ Closed(Stood(disk[c], q, disk[c][p]))
    BY <1>1, <2>2, <2>3, ClosedByStanding, ContentsValues
  <2>5. /\ Closed(Gone(Stood(rows[c], q, rows[c][p]), p))
        /\ Closed(Gone(Stood(disk[c], q, disk[c][p]), p))
    BY <2>2, <2>4, ClosedValues
  <2>6. QED
    BY <1>2, <2>2, <2>5
<1>6. CASE \/ \E i \in Ids : Forget(c, i)
           \/ \E i \in Ids, p \in Paths : Annotate(c, i, p)
           \/ \E p \in Paths : Upload(c, p)
           \/ PullRequired(c) \/ PushInit(c) \/ Meta(c) \/ Commit(c) \/ PushEnd(c) \/ PushFails(c)
           \/ \E strategy \in Fetching : Fetch(c, strategy)
  <2>1. rows' = rows /\ disk' = disk
    BY <1>6 DEF Forget, Annotate, Upload, PullRequired, PushInit, Meta, Commit, PushEnd,
                PushFails, Fetch, dataVars
  <2>2. QED
    BY <2>1 DEF Trees, Closed
<1>7. QED
  BY <1>3, <1>4, <1>5, <1>6 DEF ClientNext

\* So does what a job changes, in any dataset.
LEMMA ApplyTrees == ASSUME ExchangeInv, Trees, ApplyNext PROVE Trees'
<1> SUFFICES ASSUME NEW n \in Nodes PROVE Closed(rows'[n]) /\ Closed(disk'[n])
  BY DEF Trees, Closed
<1>1. /\ ExchangeTypeOK /\ job \in Jobs
      /\ rows[n] \in Contents /\ disk[n] \in Contents /\ Closed(rows[n]) /\ Closed(disk[n])
  BY ApplySteps DEF ExchangeInv, ExchangeTypeOK, Trees
<1>2. CASE rows'[n] = rows[n] /\ disk'[n] = disk[n]
  BY <1>1, <1>2
<1>3. CASE \E p \in Paths : disk'[n] = disk[n] /\ rows'[n] \in {rows[n], Gone(rows[n], p)}
  BY <1>1, <1>3, ClosedValues
<1>4. CASE n = job.on /\ \E p \in Paths : CopyFile(p) /\ rows'[n] = rows[n]
  <2>1. PICK p \in Paths : CopyFile(p) /\ rows'[n] = rows[n]
    BY <1>4
  <2>2. CASE disk'[n] = Stood(disk[n], p, Dir)
    BY <1>1, <2>1, <2>2, ClosedValues
  <2>3. CASE disk'[n] # Stood(disk[n], p, Dir)
    <3>1. /\ disk'[n] = [disk[n] EXCEPT ![p] = job.folder[p]] /\ job.folder[p] # None
          /\ \A q \in Ancestors(p) : disk[n][q] # None
      BY <1>1, <1>4, <2>1, <2>3, DiskAfterCopy
    <3>2. Closed([disk[n] EXCEPT ![p] = job.folder[p]])
      BY <1>1, <3>1, ClosedValues
    <3>3. QED
      BY <1>1, <2>1, <3>1, <3>2
  <2>4. QED
    BY <2>2, <2>3
<1>5. CASE RemoveFile /\ rows'[n] = rows[n] /\ disk'[n] = Gone(disk[n], job.doomed)
  <2>1. job.doomed \in Paths
    BY <1>1, <1>5, JobValues DEF RemoveFile
  <2>2. QED
    BY <1>1, <1>5, <2>1, ClosedValues
<1>6. CASE /\ n = job.on /\ AddRow /\ disk'[n] = disk[n]
           /\ rows'[n] = [q \in Paths |-> IF q \in Touched(n, job.copied) THEN disk[n][q]
                                                                     ELSE rows[n][q]]
  <2>1. job.copied \in Paths /\ disk[n][job.copied] # None
    BY <1>1, <1>6, JobValues DEF AddRow
  <2>2. QED
    BY <1>1, <1>6, <2>1, ClosedByAdding
<1>7. QED
  BY <1>1, <1>2, <1>3, <1>4, <1>5, <1>6, TablesAfter

\* What is left of a delta, part by part.
LEMMA LeftParts ==
  ASSUME NEW l \in Deltas, NEW p \in Paths
  PROVE  /\ \A q \in Paths :
              /\ [l EXCEPT !.removes[p] = None].removes[q] = IF q = p THEN None ELSE l.removes[q]
              /\ [l EXCEPT !.adds[p] = None].adds[q] = IF q = p THEN None ELSE l.adds[q]
         /\ [l EXCEPT !.removes[p] = None].adds = l.adds
         /\ [l EXCEPT !.removes[p] = None].metaAdds = l.metaAdds
         /\ [l EXCEPT !.removes[p] = None].metaRemoves = l.metaRemoves
         /\ [l EXCEPT !.adds[p] = None].removes = l.removes
         /\ [l EXCEPT !.adds[p] = None].metaAdds = l.metaAdds
         /\ [l EXCEPT !.adds[p] = None].metaRemoves = l.metaRemoves
BY DEF Deltas, Contents

\* An exact job on its way.
OnWay == /\ ExchangeInv /\ job # None /\ job.exact
         /\ Way(job) /\ FilesWay(job, rows[Registry], disk[Registry])
         /\ MetasWay(job, metas[Registry])

LEMMA OnWayFacts ==
  ASSUME OnWay
  PROVE  /\ ExchangeTypeOK /\ job # None /\ job \in Jobs /\ job.on = Registry
         /\ Registry \in Nodes /\ job.left \in Deltas
         /\ rows \in [Nodes -> Contents] /\ disk \in [Nodes -> Contents]
         /\ metas \in [Nodes -> Records]
         /\ rows[Registry] \in [Paths -> Values] /\ disk[Registry] \in [Paths -> Values]
         /\ job.goal.files \in [Paths -> Values]
         /\ \A p \in Paths : rows[Registry][p] # None => disk[Registry][p] # None
         /\ job.doomed = None \/ job.copied = None
<1>1. /\ ExchangeTypeOK /\ job # None /\ job \in Jobs /\ job.on = Registry
      /\ Registry \in Nodes
      /\ rows \in [Nodes -> Contents] /\ disk \in [Nodes -> Contents]
      /\ metas \in [Nodes -> Records]
      /\ \A p \in Paths : rows[Registry][p] # None => disk[Registry][p] # None
      /\ job.doomed = None \/ job.copied = None
  BY DEF OnWay, ExchangeInv, ExchangeTypeOK, Way, Nodes, Stands, RegistryHasItsFiles, OneAtATime
<1>2. job.left \in Deltas /\ job.goal \in Stamps
  BY <1>1, JobValues
<1>3. QED
  BY <1>1, <1>2 DEF Contents, Stamps

\* A path that is not in the stamp has none below that are.
LEMMA NotInGoal ==
  ASSUME OnWay, NEW p \in Paths, job.goal.files[p] = None, NEW q \in Paths, q = p \/ Below(q, p)
  PROVE  job.goal.files[q] = None
<1>1. Deserted(job.goal.files, p)
  BY NothingBelow DEF OnWay, Way
<1>2. QED
  BY <1>1 DEF Deserted

\* The folders of a path that is added are in the stamp, and when nothing is left to be
\* done for them they are in the registry.
LEMMA FoldersAreThere ==
  ASSUME OnWay, Between, NEW p \in Paths, NextAddition(p), NEW q \in Ancestors(p)
  PROVE  q \in Paths /\ rows[Registry][q] = Dir /\ disk[Registry][q] = Dir
<1>1. q \in Paths /\ q \in Folders /\ Below(p, q)
  BY DEF Ancestors, Paths
<1>2. job.left.adds[p] # None
  BY DEF NextAddition, Listed
<1>3. job.goal.files[p] # None
  BY <1>2 DEF OnWay, FilesWay
<1>4. job.goal.files[q] = Dir
  BY <1>1, <1>3 DEF OnWay, Way, Closed, FoldersAreFolders
<1>5. job.left.adds[q] = None /\ job.left.removes[q] = None
  BY <1>1 DEF NextAddition, Listed
<1>6. rows[Registry][q] = Dir
  BY <1>1, <1>4, <1>5 DEF OnWay, FilesWay
<1>7. disk[Registry][q] = rows[Registry][q]
  BY <1>1, DirIsThere DEF OnWay, FilesWay, Between
<1>8. QED
  BY <1>1, <1>6, <1>7

LEMMA RemoveRowWay == ASSUME OnWay, NEW p \in Paths, RemoveRow(p) PROVE OnItsWay'
<1>1. /\ ExchangeTypeOK /\ job # None /\ job \in Jobs /\ job.on = Registry /\ job.left \in Deltas
      /\ Registry \in Nodes /\ metas \in [Nodes -> Records] /\ rows \in [Nodes -> Contents]
      /\ \A q \in Paths : rows[Registry][q] # None => disk[Registry][q] # None
  BY OnWayFacts
<1>2. /\ job.doomed = None /\ job.copied = None
      /\ job.left.removes[p] # None /\ disk' = disk
      /\ Listed(job.left.removes) # {}
  BY DEF RemoveRow, Between, NextRemoval, Listed, dataVars
<1>3. job.goal.files[p] = None
  BY <1>2 DEF OnWay, FilesWay
<1>4. CASE disk[Registry][p] = None
  <2> DEFINE l == [job.left EXCEPT !.removes[p] = None]
  <2>1. rows' = rows /\ metas' = metas /\ job' = [job EXCEPT !.left.removes[p] = None]
    BY <1>1, <1>4 DEF RemoveRow, dataVars
  <2>2. job' = [job EXCEPT !.left = l, !.clash = job.clash, !.doomed = job.doomed,
                           !.copied = job.copied]
    BY <1>1, <2>1 DEF Jobs, Deltas
  <2>3. /\ \A q \in Paths : l.removes[q] = IF q = p THEN None ELSE job.left.removes[q]
        /\ l.adds = job.left.adds /\ l.metaAdds = job.left.metaAdds
        /\ l.metaRemoves = job.left.metaRemoves
    BY <1>1, LeftParts
  <2> HIDE DEF l
  <2>4. /\ job'.on = job.on /\ job'.strategy = job.strategy /\ job'.folder = job.folder
        /\ job'.dump = job.dump /\ job'.goal = job.goal /\ job'.exact = job.exact
        /\ job'.left = l /\ job'.clash = job.clash /\ job'.doomed = None /\ job'.copied = None
    BY <1>1, <1>2, <2>2 DEF Jobs
  <2>5. Way(job')
    BY <2>4 DEF OnWay, Way
  <2>6. FilesWay(job', rows'[Registry], disk'[Registry])
    <3>1. rows[Registry][p] = None
      BY <1>1, <1>4
    <3>2. QED
      BY <1>2, <1>3, <2>1, <2>3, <2>4, <3>1 DEF OnWay, FilesWay
  <2>7. MetasWay(job', metas'[Registry])
    <3>1. \A q \in Paths : job.left.removes[q] = None => l.removes[q] = None
      BY <2>3
    <3>2. Listed(job.left.removes) = {} => Listed(l.removes) = {}
      BY <3>1 DEF Listed
    <3>3. MetasWay(job, metas'[Registry])
      BY <2>1 DEF OnWay
    <3>4. QED
      BY <2>3, <2>4, <3>2, <3>3 DEF MetasWay
  <2>8. QED
    BY <2>5, <2>6, <2>7 DEF OnItsWay
<1>5. CASE disk[Registry][p] # None
  <2>1. /\ job' = [job EXCEPT !.doomed = p]
        /\ \/ rows[Registry][p] = None /\ rows' = rows /\ metas' = metas
           \/ /\ rows' = [rows EXCEPT ![Registry] = Gone(@, p)]
              /\ metas' = [metas EXCEPT ![Registry] =
                             Orphaned(@, {q \in Paths : q = p \/ Below(q, p)})]
    BY <1>1, <1>5 DEF RemoveRow
  <2>2. job' = [job EXCEPT !.left = job.left, !.clash = job.clash, !.doomed = p,
                           !.copied = job.copied]
    BY <1>1, <2>1 DEF Jobs
  <2>3. /\ job'.on = job.on /\ job'.strategy = job.strategy /\ job'.folder = job.folder
        /\ job'.dump = job.dump /\ job'.goal = job.goal /\ job'.exact = job.exact
        /\ job'.left = job.left /\ job'.clash = job.clash /\ job'.doomed = p
        /\ job'.copied = None
    BY <1>1, <1>2, <2>2 DEF Jobs
  <2>4. Way(job')
    BY <2>3 DEF OnWay, Way
  <2>5. \A q \in Paths : q = p \/ Below(q, p) => job.goal.files[q] = None
    BY <1>3, NotInGoal
  <2>6. \A q \in Paths : \/ rows'[Registry][q] = rows[Registry][q]
                         \/ rows'[Registry][q] = None /\ (q = p \/ Below(q, p))
    BY <1>1, <2>1 DEF Gone, Without
  <2>7. FilesWay(job', rows'[Registry], disk'[Registry])
    <3>1. p # None
      BY DirIsThere
    <3>2. ASSUME NEW q \in Paths
          PROVE  /\ rows'[Registry][q] # job.goal.files[q] =>
                      job.left.removes[q] # None \/ job.left.adds[q] # None
                 /\ rows'[Registry][q] # disk[Registry][q] => q = p \/ Below(q, p)
      <4>1. CASE rows'[Registry][q] = rows[Registry][q]
        BY <1>2, <4>1, DirIsThere DEF OnWay, FilesWay
      <4>2. CASE rows'[Registry][q] = None /\ (q = p \/ Below(q, p))
        BY <2>5, <4>2
      <4>3. QED
        BY <2>6, <4>1, <4>2
    <3>3. QED
      BY <1>2, <2>3, <3>1, <3>2 DEF OnWay, FilesWay
  <2>8. MetasWay(job', metas'[Registry])
    <3>1. \A i \in Ids : \/ metas'[Registry][i] = metas[Registry][i]
                         \/ /\ metas'[Registry][i] = None /\ metas[Registry][i] \in Paths
                            /\ metas[Registry][i] = p \/ Below(metas[Registry][i], p)
      BY <1>1, <2>1 DEF Orphaned
    <3>2. ASSUME NEW i \in Ids, metas'[Registry][i] # metas[Registry][i]
          PROVE  i \notin job.goal.metas \/ metas[Registry][i] = None
      <4>1. job.goal.files[metas[Registry][i]] = None
        BY <2>5, <3>1, <3>2
      <4>2. QED
        BY <1>2, <4>1 DEF OnWay, MetasWay
    <3>3. ASSUME NEW i \in Ids
          PROVE  /\ metas'[Registry][i] # None => i \in job.goal.metas \/ i \in job.left.metaRemoves
                 /\ i \in job.goal.metas => i \in job.left.metaAdds \/ metas'[Registry][i] # None
                 /\ i \in job.goal.metas /\ metas'[Registry][i] # None =>
                      job.goal.files[metas'[Registry][i]] # None
      <4>1. CASE metas'[Registry][i] = metas[Registry][i]
        BY <1>2, <4>1 DEF OnWay, MetasWay
      <4>2. CASE metas'[Registry][i] # metas[Registry][i]
        BY <3>1, <3>2, <4>2 DEF OnWay, MetasWay
      <4>3. QED
        BY <4>1, <4>2
    <3>4. QED
      BY <2>3, <3>3 DEF OnWay, MetasWay
  <2>9. QED
    BY <1>2, <2>4, <2>7, <2>8 DEF OnItsWay
<1>6. QED
  BY <1>4, <1>5

LEMMA RemoveFileWay == ASSUME OnWay, RemoveFile PROVE OnItsWay'
<1> DEFINE d == job.doomed
           l == [job.left EXCEPT !.removes[job.doomed] = None]
<1>1. /\ ExchangeTypeOK /\ job # None /\ job \in Jobs /\ job.on = Registry /\ job.left \in Deltas
      /\ Registry \in Nodes /\ disk \in [Nodes -> Contents]
      /\ d \in Paths /\ job.copied = None /\ job.left.removes[d] # None
      /\ \A q \in Paths : q = d \/ Below(q, d) => rows[Registry][q] = None
  <2>1. job.doomed # None
    BY DEF RemoveFile
  <2>2. QED
    BY <2>1, OnWayFacts, JobValues DEF OnWay, ExchangeInv, OneAtATime, Stands
<1>2. /\ rows' = rows /\ metas' = metas
      /\ disk'[Registry] = Gone(disk[Registry], d)
      /\ job' = [job EXCEPT !.left = l, !.clash = job.clash, !.doomed = None,
                            !.copied = job.copied]
  <2>1. job' = [job EXCEPT !.left = l, !.clash = job.clash, !.doomed = None,
                           !.copied = job.copied]
    BY <1>1, JobAfter
  <2>2. QED
    BY <1>1, <2>1 DEF RemoveFile
<1>3. /\ \A q \in Paths : l.removes[q] = IF q = d THEN None ELSE job.left.removes[q]
      /\ l.adds = job.left.adds /\ l.metaAdds = job.left.metaAdds
      /\ l.metaRemoves = job.left.metaRemoves
  BY <1>1, LeftParts
<1> HIDE DEF l, d
<1>4. /\ job'.on = job.on /\ job'.strategy = job.strategy /\ job'.folder = job.folder
      /\ job'.dump = job.dump /\ job'.goal = job.goal /\ job'.exact = job.exact
      /\ job'.left = l /\ job'.clash = job.clash /\ job'.doomed = None /\ job'.copied = None
  BY <1>1, <1>2 DEF Jobs
<1>5. Way(job')
  BY <1>4 DEF OnWay, Way
<1>6. FilesWay(job', rows'[Registry], disk'[Registry])
  <2>1. job.goal.files[d] = None
    BY <1>1 DEF OnWay, FilesWay
  <2>2. ASSUME NEW q \in Paths PROVE rows[Registry][q] = disk'[Registry][q]
    <3>1. CASE q = d \/ Below(q, d)
      BY <1>1, <1>2, <3>1 DEF Gone, Without
    <3>2. CASE ~ (q = d \/ Below(q, d))
      <4>1. disk'[Registry][q] = disk[Registry][q]
        BY <1>2, <3>2 DEF Gone, Without
      <4>2. rows[Registry][q] = disk[Registry][q]
        BY <1>1, <3>2, DirIsThere DEF OnWay, FilesWay, d
      <4>3. QED
        BY <4>1, <4>2
    <3>3. QED
      BY <3>1, <3>2
  <2>3. QED
    BY SMTT(20), <1>1, <1>2, <1>3, <1>4, <2>1, <2>2 DEF OnWay, FilesWay
<1>7. MetasWay(job', metas'[Registry])
  <2>1. \A q \in Paths : job.left.removes[q] = None => l.removes[q] = None
    BY <1>3
  <2>2. Listed(job.left.removes) = {} => Listed(l.removes) = {}
    BY <2>1 DEF Listed
  <2>3. QED
    BY <1>2, <1>3, <1>4, <2>2 DEF OnWay, MetasWay
<1>8. QED
  BY <1>5, <1>6, <1>7 DEF OnItsWay

LEMMA CopyFileWay == ASSUME OnWay, NEW p \in Paths, CopyFile(p) PROVE OnItsWay'
<1>1. /\ ExchangeTypeOK /\ job # None /\ job \in Jobs /\ job.on = Registry /\ job.left \in Deltas
      /\ Registry \in Nodes /\ disk[Registry] \in [Paths -> Values]
  BY OnWayFacts
<1>2. /\ Between /\ NextAddition(p) /\ job.doomed = None /\ job.copied = None
      /\ rows' = rows /\ metas' = metas /\ job.left.adds[p] # None
  BY DEF CopyFile, Between, NextAddition, Listed
<1>3. job' = [job EXCEPT !.left = job.left, !.clash = job.clash, !.doomed = job.doomed,
                         !.copied = p]
  BY <1>1, JobAfter
<1>4. /\ job'.on = job.on /\ job'.strategy = job.strategy /\ job'.folder = job.folder
      /\ job'.dump = job.dump /\ job'.goal = job.goal /\ job'.exact = job.exact
      /\ job'.left = job.left /\ job'.clash = job.clash /\ job'.doomed = None
      /\ job'.copied = p
  BY <1>1, <1>2, <1>3 DEF Jobs
<1>5. Way(job')
  BY <1>4 DEF OnWay, Way
<1>6. job.left.adds[p] = job.goal.files[p] /\ job.folder[p] \in {None, job.goal.files[p]}
  BY <1>2 DEF OnWay, FilesWay
<1>7. /\ disk'[Registry][p] = job.goal.files[p]
      /\ \A q \in Paths : q # p => disk'[Registry][q] = disk[Registry][q]
  <2>1. CASE job.left.adds[p] = Dir
    <3>1. disk'[Registry] = Stood(disk[Registry], p, Dir)
      BY <1>1, <2>1, OnWayFacts DEF CopyFile
    <3>2. \A q \in Ancestors(p) : disk[Registry][q] = Dir
      BY <1>2, FoldersAreThere
    <3>3. QED
      BY <1>6, <2>1, <3>1, <3>2 DEF Stood
  <2>2. CASE job.left.adds[p] # Dir
    <3>1. disk' = [disk EXCEPT ![Registry][p] = job.folder[p]] /\ job.folder[p] # None
      BY <1>1, <2>2 DEF CopyFile
    <3>2. disk'[Registry] = [disk[Registry] EXCEPT ![p] = job.folder[p]]
      BY <3>1, OnWayFacts
    <3>3. QED
      BY <1>1, <1>6, <3>1, <3>2
  <2>3. QED
    BY <2>1, <2>2
<1>8. FilesWay(job', rows'[Registry], disk'[Registry])
  BY <1>2, <1>4, <1>7, DirIsThere DEF OnWay, FilesWay
<1>9. MetasWay(job', metas'[Registry])
  BY <1>2, <1>4 DEF OnWay, MetasWay
<1>10. QED
  BY <1>5, <1>8, <1>9 DEF OnItsWay

LEMMA AddRowWay == ASSUME OnWay, AddRow PROVE OnItsWay'
<1> DEFINE p == job.copied
           l == [job.left EXCEPT !.adds[job.copied] = None]
<1>1. /\ ExchangeTypeOK /\ job # None /\ job \in Jobs /\ job.on = Registry /\ job.left \in Deltas
      /\ Registry \in Nodes /\ rows \in [Nodes -> Contents]
      /\ p \in Paths /\ job.doomed = None
  <2>1. job.copied # None
    BY DEF AddRow
  <2>2. QED
    BY <2>1, OnWayFacts, JobValues
<1>2. /\ disk' = disk /\ metas' = metas
      /\ rows'[Registry] = [q \in Paths |-> IF q \in Touched(Registry, p) THEN disk[Registry][q]
                                                                        ELSE rows[Registry][q]]
      /\ disk[Registry][p] # None
      /\ job' = [job EXCEPT !.left = l, !.clash = job.clash, !.doomed = job.doomed,
                            !.copied = None]
  <2>1. job' = [job EXCEPT !.left = l, !.clash = job.clash, !.doomed = job.doomed,
                           !.copied = None]
    BY <1>1, JobAfter
  <2>2. QED
    BY <1>1, <2>1 DEF AddRow
<1>3. /\ \A q \in Paths : l.adds[q] = IF q = p THEN None ELSE job.left.adds[q]
      /\ l.removes = job.left.removes /\ l.metaAdds = job.left.metaAdds
      /\ l.metaRemoves = job.left.metaRemoves
  BY <1>1, LeftParts
<1>4. p # None
  BY <1>1, DirIsThere
<1>5. /\ disk[Registry][p] = job.goal.files[p]
      /\ \A q \in Paths : q # p => rows[Registry][q] = disk[Registry][q]
  BY <1>1, <1>4, DirIsThere DEF OnWay, FilesWay
<1>6. p \in Touched(Registry, p)
  BY <1>1, <1>2 DEF Touched
<1> HIDE DEF l, p
<1>7. /\ job'.on = job.on /\ job'.strategy = job.strategy /\ job'.folder = job.folder
      /\ job'.dump = job.dump /\ job'.goal = job.goal /\ job'.exact = job.exact
      /\ job'.left = l /\ job'.clash = job.clash /\ job'.doomed = None /\ job'.copied = None
  BY <1>1, <1>2 DEF Jobs
<1>8. Way(job')
  BY <1>7 DEF OnWay, Way
<1>9. \A q \in Paths : rows'[Registry][q] = disk[Registry][q]
  BY <1>1, <1>2, <1>5, <1>6
<1>10. FilesWay(job', rows'[Registry], disk'[Registry])
  <2>1. \A q \in Paths : disk[Registry][q] # job.goal.files[q] => q # p /\ rows[Registry][q] = disk[Registry][q]
    BY <1>5
  <2>2. QED
    BY <1>2, <1>3, <1>7, <1>9, <2>1 DEF OnWay, FilesWay
<1>11. MetasWay(job', metas'[Registry])
  BY <1>2, <1>3, <1>7 DEF OnWay, MetasWay
<1>12. QED
  BY <1>8, <1>10, <1>11 DEF OnItsWay

LEMMA MetaWay == ASSUME OnWay, MetaAdd \/ MetaRemove PROVE OnItsWay'
<1>1. /\ ExchangeTypeOK /\ job # None /\ job \in Jobs /\ job.on = Registry /\ job.left \in Deltas
      /\ Registry \in Nodes /\ metas \in [Nodes -> Records]
  BY OnWayFacts
<1>2. /\ rows' = rows /\ disk' = disk /\ Listed(job.left.removes) = {}
  BY DEF MetaAdd, MetaRemove, FilesDone
<1>3. CASE MetaAdd
  <2> DEFINE l == [job.left EXCEPT !.metaAdds = {}]
  <2>1. job' = [job EXCEPT !.left = l, !.clash = job.clash, !.doomed = job.doomed,
                           !.copied = job.copied]
    BY <1>1, <1>3, JobAfter
  <2>2. /\ l.adds = job.left.adds /\ l.removes = job.left.removes /\ l.metaAdds = {}
        /\ l.metaRemoves = job.left.metaRemoves
    BY <1>1 DEF Deltas
  <2> HIDE DEF l
  <2>3. /\ job'.on = job.on /\ job'.strategy = job.strategy /\ job'.folder = job.folder
        /\ job'.dump = job.dump /\ job'.goal = job.goal /\ job'.exact = job.exact
        /\ job'.left = l /\ job'.clash = job.clash /\ job'.doomed = job.doomed
        /\ job'.copied = job.copied
    BY <1>1, <2>1 DEF Jobs
  <2>4. Way(job') /\ FilesWay(job', rows'[Registry], disk'[Registry])
    BY <1>2, <2>2, <2>3 DEF OnWay, Way, FilesWay
  <2>5. \A i \in Ids : metas'[Registry][i] =
          IF i \in job.left.metaAdds /\ job.dump[i] # None THEN job.dump[i]
                                                           ELSE metas[Registry][i]
    BY <1>1, <1>3 DEF MetaAdd
  <2>6. MetasWay(job', metas'[Registry])
    BY <1>2, <2>2, <2>3, <2>5 DEF OnWay, MetasWay
  <2>7. QED
    BY <2>4, <2>6 DEF OnItsWay
<1>4. CASE MetaRemove
  <2> DEFINE l == [job.left EXCEPT !.metaRemoves = {}]
  <2>1. job' = [job EXCEPT !.left = l, !.clash = job.clash, !.doomed = job.doomed,
                           !.copied = job.copied]
    BY <1>1, <1>4, JobAfter
  <2>2. /\ l.adds = job.left.adds /\ l.removes = job.left.removes
        /\ l.metaAdds = job.left.metaAdds /\ l.metaRemoves = {}
    BY <1>1 DEF Deltas
  <2> HIDE DEF l
  <2>3. /\ job'.on = job.on /\ job'.strategy = job.strategy /\ job'.folder = job.folder
        /\ job'.dump = job.dump /\ job'.goal = job.goal /\ job'.exact = job.exact
        /\ job'.left = l /\ job'.clash = job.clash /\ job'.doomed = job.doomed
        /\ job'.copied = job.copied
    BY <1>1, <2>1 DEF Jobs
  <2>4. Way(job') /\ FilesWay(job', rows'[Registry], disk'[Registry])
    BY <1>2, <2>2, <2>3 DEF OnWay, Way, FilesWay
  <2>5. \A i \in Ids : metas'[Registry][i] =
          IF i \in job.left.metaRemoves THEN None ELSE metas[Registry][i]
    BY <1>1, <1>4 DEF MetaRemove, Removed
  <2>6. MetasWay(job', metas'[Registry])
    BY <1>2, <2>2, <2>3, <2>5 DEF OnWay, MetasWay
  <2>7. QED
    BY <2>4, <2>6 DEF OnItsWay
<1>5. QED
  BY <1>3, <1>4

\* A job that goes on is for the same stamp, on the same dataset.
LEMMA JobRuns ==
  ASSUME ExchangeTypeOK, ApplyNext, ~ (ApplyEnd \/ ApplyFails)
  PROVE  job'.on = job.on /\ job'.goal = job.goal /\ job'.exact = job.exact
<1>1. job # None /\ job \in Jobs
  BY ApplySteps, JobValues
<1>2. CASE \E p \in Paths : SkipRemoval(p) \/ SkipAddition(p)
  <2>1. PICK p, hash : Skip(p, hash)
    BY <1>2 DEF SkipRemoval, SkipAddition
  <2>2. QED
    BY <1>1, <2>1 DEF Skip, Jobs
<1>3. CASE \E p \in Paths : RemoveRow(p)
  <2>1. PICK p \in Paths : \/ job' = [job EXCEPT !.left.removes[p] = None]
                          \/ job' = [job EXCEPT !.doomed = p]
    BY <1>3 DEF RemoveRow
  <2>2. QED
    BY <1>1, <2>1 DEF Jobs
<1>4. CASE \E p \in Paths : CopyFile(p)
  BY <1>1, <1>4 DEF CopyFile, Jobs
<1>5. CASE RemoveFile \/ AddRow \/ MetaAdd \/ MetaRemove
  BY <1>1, <1>5 DEF RemoveFile, AddRow, MetaAdd, MetaRemove, Jobs
<1>6. QED
  BY <1>2, <1>3, <1>4, <1>5 DEF ApplyNext

LEMMA ApplyWay == ASSUME ExchangeInv, OnItsWay, ApplyNext PROVE OnItsWay'
<1>1. CASE job' = None
  BY <1>1 DEF OnItsWay
<1>2. CASE job' # None /\ ~ job'.exact
  BY <1>2 DEF OnItsWay
<1>3. CASE job' # None /\ job'.exact
  <2>1. job # None /\ job \in Jobs
    BY ApplySteps, JobValues DEF ExchangeInv
  <2>2. job'.exact = job.exact
    <3>1. ~ (ApplyEnd \/ ApplyFails)
      BY <1>3 DEF ApplyEnd, ApplyFails, Over
    <3>2. QED
      BY <3>1, JobRuns DEF ExchangeInv
  <2>3. OnWay
    BY <1>3, <2>1, <2>2 DEF OnWay, OnItsWay
  <2>4. \A p \in Paths : ~ SkipRemoval(p) /\ ~ SkipAddition(p)
    BY <2>3 DEF SkipRemoval, SkipAddition, Skip, OnWay, Way
  <2>5. QED
    BY <1>3, <2>3, <2>4, RemoveRowWay, RemoveFileWay, CopyFileWay, AddRowWay, MetaWay
       DEF ApplyNext, ApplyEnd, ApplyFails, Over
<1>4. QED
  BY <1>1, <1>2, <1>3

\* The steps of a client are of its own dataset.
LEMMA ClientOwns ==
  ASSUME ExchangeTypeOK, NEW c \in Clients, ClientNext(c), NEW n \in Nodes, n # c
  PROVE  rows'[n] = rows[n] /\ disk'[n] = disk[n] /\ metas'[n] = metas[n]
<1>1. /\ rows \in [Nodes -> Contents] /\ disk \in [Nodes -> Contents]
      /\ metas \in [Nodes -> Records] /\ c \in Nodes
  BY DEF ExchangeTypeOK, Nodes
<1>2. CASE \/ \E p \in Paths : Remove(c, p)
           \/ \E p \in Paths, v \in Hashes \union {Dir} : Save(c, p, v)
           \/ \E p, q \in Files : Move(c, p, q)
  BY <1>1, <1>2 DEF Remove, Save, Move
<1>3. CASE \/ \E i \in Ids : Forget(c, i)
           \/ \E i \in Ids, p \in Paths : Annotate(c, i, p)
  <2>1. /\ rows' = rows /\ disk' = disk
        /\ \E i, v : metas' = [metas EXCEPT ![c][i] = v]
    BY <1>3 DEF Forget, Annotate
  <2>2. QED
    BY <1>1, <2>1
<1>4. CASE \/ \E p \in Paths : Upload(c, p)
           \/ PullRequired(c) \/ PushInit(c) \/ Meta(c) \/ Commit(c) \/ PushEnd(c) \/ PushFails(c)
           \/ \E strategy \in Fetching : Fetch(c, strategy)
  BY <1>4 DEF Upload, PullRequired, PushInit, Meta, Commit, PushEnd, PushFails, Fetch, dataVars
<1>5. QED
  BY <1>2, <1>3, <1>4 DEF ClientNext

\* The steps of a job are of the dataset it is on.
LEMMA ApplyOwns ==
  ASSUME ExchangeTypeOK, ApplyNext, NEW n \in Nodes, n # job.on
  PROVE  rows'[n] = rows[n] /\ disk'[n] = disk[n] /\ metas'[n] = metas[n]
<1>1. rows'[n] = rows[n] /\ disk'[n] = disk[n]
  BY TablesAfter
<1>2. metas'[n] = metas[n]
  <2>1. metas' = metas \/ \E f : metas' = [metas EXCEPT ![job.on] = f]
    BY DEF ApplyNext, SkipRemoval, SkipAddition, Skip, RemoveRow, CopyFile, RemoveFile, AddRow,
           MetaAdd, MetaRemove, ApplyEnd, ApplyFails, dataVars
  <2>2. QED
    BY <2>1 DEF ExchangeTypeOK
<1>3. QED
  BY <1>1, <1>2

\* The application that begins has the way to the stamp before it.
LEMMA CommitWay ==
  ASSUME ExchangeInv, Trees, FreshPushes, NEW c \in Clients, Commit(c) PROVE OnItsWay'
<1> SUFFICES ASSUME job'.exact
             PROVE  /\ Way(job') /\ FilesWay(job', rows'[Registry], disk'[Registry])
                    /\ MetasWay(job', metas'[Registry])
  BY DEF OnItsWay
<1> DEFINE S == Stamp(c)
           D == Stamp(Registry)
<1>1. /\ S \in Stamps /\ D \in Stamps /\ c \in Nodes /\ Registry \in Nodes
      /\ S.files = rows[c] /\ D.files = rows[Registry]
      /\ S.metas = Kept(metas[c]) /\ D.metas = Kept(metas[Registry])
      /\ rows \in [Nodes -> Contents] /\ metas \in [Nodes -> Records]
  BY StampValues DEF ExchangeInv, ExchangeTypeOK, Nodes, Stamp
<1>2. /\ job'.exact = Exact(c) /\ phase[c] = "upload"
      /\ rows' = rows /\ disk' = disk /\ metas' = metas
      /\ job'.on = Registry /\ job'.strategy = "KeepTheirs" /\ job'.clash = {}
      /\ job'.left = session[c] /\ job'.folder = folder[c] /\ job'.dump = sent[c]
      /\ job'.doomed = None /\ job'.copied = None /\ job'.goal = want[c]
  BY DEF Commit, dataVars
<1>3. Exact(c) /\ ~ unlike[c]
  BY <1>2 DEF Exact
<1>4. Fresh(c)
  BY <1>2, <1>3 DEF FreshPushes, FreshPush
<1>5. /\ job'.goal = S /\ job'.left = Delta(S, D) /\ rows[Registry] = disk[Registry]
      /\ \A p \in Paths : job'.left.adds[p] # None => job'.folder[p] \in {None, job'.left.adds[p]}
      /\ \A i \in job'.left.metaAdds : job'.dump[i] = metas[c][i]
  BY <1>2, <1>4 DEF Fresh
<1>6. Way(job')
  BY <1>1, <1>2, <1>5 DEF Way, Trees, ExchangeInv, Kinds
<1>7. FilesWay(job', rows'[Registry], disk'[Registry])
  <2>1. \A p \in Paths :
          /\ Delta(S, D).removes[p] # None => S.files[p] = None
          /\ Delta(S, D).adds[p] # None => Delta(S, D).adds[p] = S.files[p]
    BY <1>1, DeltaListed
  <2>2. ASSUME NEW p \in Paths, D.files[p] # S.files[p]
        PROVE  Delta(S, D).removes[p] # None \/ Delta(S, D).adds[p] # None
    <3>1. CASE S.files[p] = None
      BY <2>2, <3>1 DEF Delta, Removes
    <3>2. CASE S.files[p] # None
      BY <2>2, <3>2 DEF Delta, Adds
    <3>3. QED
      BY <3>1, <3>2
  <2> HIDE DEF S, D
  <2>3. QED
    BY <1>1, <1>2, <1>5, <2>1, <2>2 DEF FilesWay
<1>8. MetasWay(job', metas'[Registry])
  <2>1. /\ Delta(S, D).metaAdds = S.metas \ D.metas
        /\ Delta(S, D).metaRemoves = D.metas \ S.metas
    BY DEF Delta
  <2>2. \A i \in Ids : i \in S.metas /\ i \in D.metas => rows[c][metas[Registry][i]] # None
    <3> SUFFICES ASSUME NEW i \in Ids, metas[c][i] # None, metas[Registry][i] # None
                 PROVE  rows[c][metas[Registry][i]] # None
      BY <1>1 DEF Kept
    <3>1. metas[c][i] \in Paths /\ metas[Registry][i] \in Paths
      BY <1>1 DEF Records
    <3>2. metas[c][i] = metas[Registry][i] /\ rows[c][metas[c][i]] # None
      BY <1>3, <3>1 DEF Exact
    <3>3. QED
      BY <3>2
  <2>3. S.metas = {i \in Ids : metas[c][i] # None} /\ D.metas = {i \in Ids : metas[Registry][i] # None}
    BY <1>1 DEF Kept
  <2> HIDE DEF S, D
  <2>4. QED
    BY <1>1, <1>2, <1>5, <2>1, <2>2, <2>3 DEF MetasWay
<1>9. QED
  BY <1>6, <1>7, <1>8

LEMMA ClientWay ==
  ASSUME ExchangeInv, Trees, FreshPushes, OnItsWay, NEW c \in Clients, ClientNext(c)
  PROVE  OnItsWay'
<1>1. CASE Commit(c)
  BY <1>1, CommitWay
<1>2. CASE \E strategy \in Fetching : Fetch(c, strategy)
  BY <1>2 DEF Fetch, OnItsWay
<1>3. CASE ~ Commit(c) /\ ~ \E strategy \in Fetching : Fetch(c, strategy)
  <2>1. job' = job \/ (job # None /\ job' = [job EXCEPT !.by = None])
    <3>1. CASE PushFails(c)
      BY <3>1 DEF PushFails, ExchangeInv, ExchangeTypeOK
    <3>2. CASE ~ PushFails(c)
      BY <1>3, <3>2 DEF ClientNext, Remove, Save, Move, Forget, Annotate, Upload, PullRequired,
                        PushInit, Meta, PushEnd, Edited
    <3>3. QED
      BY <3>1, <3>2
  <2>2. job # None => job \in Jobs
    BY DEF ExchangeInv, ExchangeTypeOK
  <2>3. job' # None =>
          /\ job # None /\ job'.on = job.on /\ job'.strategy = job.strategy
          /\ job'.folder = job.folder /\ job'.dump = job.dump /\ job'.left = job.left
          /\ job'.clash = job.clash /\ job'.doomed = job.doomed /\ job'.copied = job.copied
          /\ job'.goal = job.goal /\ job'.exact = job.exact
    BY <2>1, <2>2 DEF Jobs
  <2>4. /\ rows'[Registry] = rows[Registry] /\ disk'[Registry] = disk[Registry]
        /\ metas'[Registry] = metas[Registry]
    BY ClientOwns DEF ExchangeInv, Nodes
  <2>5. ASSUME job' # None, job'.exact
        PROVE  /\ Way(job') /\ FilesWay(job', rows'[Registry], disk'[Registry])
               /\ MetasWay(job', metas'[Registry])
    <3>1. /\ Way(job) /\ FilesWay(job, rows[Registry], disk[Registry])
          /\ MetasWay(job, metas[Registry])
      BY <2>3, <2>5 DEF OnItsWay
    <3>2. Way(job')
      BY <2>3, <2>5, <3>1 DEF Way
    <3>3. FilesWay(job', rows'[Registry], disk'[Registry])
      BY <2>3, <2>4, <2>5, <3>1 DEF FilesWay
    <3>4. MetasWay(job', metas'[Registry])
      BY <2>3, <2>4, <2>5, <3>1 DEF MetasWay
    <3>5. QED
      BY <3>2, <3>3, <3>4
  <2>6. QED
    BY <2>5 DEF OnItsWay
<1>4. QED
  BY <1>1, <1>2, <1>3

\* At its end an exact job has made the registry what the stamp says.
LEMMA WayEnds ==
  ASSUME ExchangeInv, OnItsWay, job # None, job.exact, ApplyEnd
  PROVE  Stamp(Registry) = job.goal
<1>1. OnWay
  BY DEF OnWay, OnItsWay
<1>2. /\ Registry \in Nodes /\ job \in Jobs /\ rows[Registry] \in [Paths -> Values]
      /\ job.goal.files \in [Paths -> Values] /\ job.left \in Deltas
      /\ metas[Registry] \in Records
  BY <1>1, OnWayFacts
<1>3. /\ job.goal \in Stamps /\ job.goal.metas \subseteq Ids
      /\ job.goal = [files |-> job.goal.files, metas |-> job.goal.metas]
  BY <1>2, JobValues DEF Stamps
<1>4. /\ \A p \in Paths : job.left.removes[p] = None /\ job.left.adds[p] = None
      /\ job.left.metaAdds = {} /\ job.left.metaRemoves = {}
  BY <1>1 DEF ApplyEnd, FilesDone, Listed, OnWay, Way
<1>5. \A p \in Paths : rows[Registry][p] = job.goal.files[p]
  BY <1>1, <1>4 DEF OnWay, FilesWay
<1>6. rows[Registry] = job.goal.files
  BY <1>2, <1>5
<1>7. \A i \in Ids : metas[Registry][i] # None <=> i \in job.goal.metas
  BY <1>1, <1>4 DEF OnWay, MetasWay
<1>8. Kept(metas[Registry]) = job.goal.metas
  BY <1>3, <1>7 DEF Kept
<1>9. QED
  BY <1>3, <1>6, <1>8 DEF Stamp

\* A push stays fresh where a step leaves alone what it is about.
LEMMA PushStays ==
  ASSUME NEW k \in Clients, FreshPush(k),
         ~ unlike'[k] => ~ unlike[k], phase'[k] = phase[k],
         rows'[k] = rows[k] /\ disk'[k] = disk[k] /\ metas'[k] = metas[k],
         rows'[Registry] = rows[Registry] /\ disk'[Registry] = disk[Registry],
         metas'[Registry] = metas[Registry],
         want'[k] = want[k] /\ session'[k] = session[k],
         folder'[k] = folder[k] /\ sent'[k] = sent[k],
         phase[k] = "applying" => job'.exact = job.exact /\ job'.goal = job.goal,
         job' # None => job'.on \notin {k, Registry} \/ (job # None /\ job'.on = job.on)
  PROVE  FreshPush(k)'
<1>1. Stamp(k)' = Stamp(k) /\ Stamp(Registry)' = Stamp(Registry)
  BY DEF Stamp
<1>2. Fresh(k) => Fresh(k)'
  BY <1>1 DEF Fresh
<1>3. Apart(k) => Apart(k)'
  BY DEF Apart
<1>4. QED
  BY <1>1, <1>2, <1>3 DEF FreshPush

\* The steps of a client, and the pushes of the others.
LEMMA OthersStay ==
  ASSUME ExchangeInv, FreshPushes, NEW c \in Clients, ClientNext(c), NEW k \in Clients, k # c
  PROVE  FreshPush(k)'
<1>1. /\ phase \in [Clients -> Phases] /\ want \in [Clients -> Stamps]
      /\ session \in [Clients -> Deltas] /\ folder \in [Clients -> Contents]
      /\ sent \in [Clients -> Records] /\ unlike \in [Clients -> BOOLEAN]
      /\ k \in Nodes /\ Registry \in Nodes /\ Registry # c /\ Registry # k
      /\ job # None => job \in Jobs
      /\ phase[k] = "applying" <=> job # None /\ job.by = k
      /\ phase[c] = "applying" <=> job # None /\ job.by = c
      /\ FreshPush(k) /\ ExchangeTypeOK
  BY DEF ExchangeInv, ExchangeTypeOK, FreshPushes, Nodes
<1>2. /\ rows'[k] = rows[k] /\ disk'[k] = disk[k] /\ metas'[k] = metas[k]
      /\ rows'[Registry] = rows[Registry] /\ disk'[Registry] = disk[Registry]
      /\ metas'[Registry] = metas[Registry]
  BY <1>1, ClientOwns
<1>3. CASE \/ \E p \in Paths : Remove(c, p)
           \/ \E p \in Paths, v \in Hashes \union {Dir} : Save(c, p, v)
           \/ \E p, q \in Files : Move(c, p, q)
           \/ \E i \in Ids : Forget(c, i)
           \/ \E i \in Ids, p \in Paths : Annotate(c, i, p)
  <2>1. Edited(c)
    BY <1>3 DEF Remove, Save, Move, Forget, Annotate
  <2>2. /\ unlike'[k] = unlike[k] /\ phase' = phase /\ job' = job
        /\ want' = want /\ session' = session /\ folder' = folder /\ sent' = sent
    BY <1>1, <2>1 DEF Edited, pushVars
  <2>3. QED
    BY <1>1, <1>2, <2>2, PushStays
<1>4. CASE \E p \in Paths : Upload(c, p)
  <2>1. /\ unlike' = unlike /\ phase' = phase /\ job' = job
        /\ want' = want /\ session' = session /\ folder'[k] = folder[k] /\ sent' = sent
    BY <1>1, <1>4 DEF Upload
  <2>2. QED
    BY <1>1, <1>2, <2>1, PushStays
<1>5. CASE PullRequired(c) \/ Meta(c) \/ PushEnd(c)
  <2>1. /\ unlike'[k] = unlike[k] /\ phase'[k] = phase[k] /\ job' = job
        /\ want' = want /\ session' = session /\ folder' = folder /\ sent'[k] = sent[k]
    BY <1>1, <1>5 DEF PullRequired, Meta, PushEnd
  <2>2. QED
    BY <1>1, <1>2, <2>1, PushStays
<1>6. CASE PushInit(c)
  <2>1. /\ unlike'[k] = unlike[k] /\ phase'[k] = phase[k] /\ job' = job
        /\ want'[k] = want[k] /\ session'[k] = session[k] /\ folder'[k] = folder[k]
        /\ sent'[k] = sent[k]
    BY <1>1, <1>6 DEF PushInit
  <2>2. QED
    BY <1>1, <1>2, <2>1, PushStays
<1>7. CASE Commit(c)
  <2>1. phase'[k] = phase[k] /\ unlike'[k] = (unlike[k] \/ phase[k] # "idle")
    BY <1>1, <1>7 DEF Commit
  <2>2. QED
    BY <2>1 DEF FreshPush
<1>8. CASE PushFails(c)
  <2>1. /\ unlike'[k] = unlike[k] /\ phase'[k] = phase[k]
        /\ want'[k] = want[k] /\ session'[k] = session[k] /\ folder'[k] = folder[k]
        /\ sent'[k] = sent[k]
    BY <1>1, <1>8 DEF PushFails, SessionOver
  <2>2. job' = job \/ (job # None /\ job' = [job EXCEPT !.by = None])
    BY <1>1, <1>8 DEF PushFails
  <2>3. \/ job' = job
        \/ /\ job # None /\ job'.on = job.on /\ job'.exact = job.exact
           /\ job'.goal = job.goal
    BY <1>1, <2>2 DEF Jobs
  <2>4. QED
    BY <1>1, <1>2, <2>1, <2>3, PushStays
<1>9. CASE \E strategy \in Fetching : Fetch(c, strategy)
  <2>1. /\ unlike'[k] = unlike[k] /\ phase' = phase /\ job = None /\ job'.on = c
        /\ want' = want /\ session' = session /\ folder' = folder /\ sent' = sent
    BY <1>1, <1>9 DEF Fetch, pushVars
  <2>2. QED
    BY <1>1, <1>2, <2>1, PushStays
<1>10. QED
  BY <1>3, <1>4, <1>5, <1>6, <1>7, <1>8, <1>9 DEF ClientNext

\* The steps of a client, and its own push.
LEMMA OwnPush ==
  ASSUME ExchangeInv, FreshPushes, NEW c \in Clients, ClientNext(c) PROVE FreshPush(c)'
<1>1. /\ phase \in [Clients -> Phases] /\ want \in [Clients -> Stamps]
      /\ session \in [Clients -> Deltas] /\ folder \in [Clients -> Contents]
      /\ sent \in [Clients -> Records] /\ unlike \in [Clients -> BOOLEAN]
      /\ c \in Nodes /\ Registry \in Nodes /\ Registry # c
      /\ Stamp(c) \in Stamps /\ Stamp(Registry) \in Stamps
      /\ FreshPush(c) /\ ExchangeTypeOK
  BY StampValues DEF ExchangeInv, ExchangeTypeOK, FreshPushes, Nodes
<1>2. CASE \/ \E p \in Paths : Remove(c, p)
           \/ \E p \in Paths, v \in Hashes \union {Dir} : Save(c, p, v)
           \/ \E p, q \in Files : Move(c, p, q)
           \/ \E i \in Ids : Forget(c, i)
           \/ \E i \in Ids, p \in Paths : Annotate(c, i, p)
  <2>1. Edited(c)
    BY <1>2 DEF Remove, Save, Move, Forget, Annotate
  <2>2. unlike'[c] = (phase[c] # "idle") /\ phase' = phase
    BY <1>1, <2>1 DEF Edited, pushVars
  <2>3. QED
    BY <2>2 DEF FreshPush
<1>3. CASE \E p \in Paths : Upload(c, p)
  <2>1. PICK p \in Paths : Upload(c, p)
    BY <1>3
  <2>2. /\ rows' = rows /\ disk' = disk /\ metas' = metas /\ phase' = phase /\ want' = want
        /\ session' = session /\ sent' = sent /\ job' = job /\ unlike' = unlike
        /\ phase[c] = "upload" /\ session[c].adds[p] # None
        /\ folder'[c] = [folder[c] EXCEPT ![p] = disk[c][p]]
    BY <1>1, <2>1 DEF Upload, dataVars, Needed
  <2>3. ASSUME Fresh(c) PROVE Fresh(c)'
    <3>1. /\ session[c] = Delta(Stamp(c), Stamp(Registry)) /\ rows[c] = disk[c]
          /\ \A q \in Paths : session[c].adds[q] # None =>
               folder[c][q] \in {None, session[c].adds[q]}
      BY <2>3 DEF Fresh
    <3>2. session[c].adds[p] = disk[c][p]
      BY <1>1, <2>2, <3>1, DeltaListed DEF Stamp
    <3>3. folder[c] \in [Paths -> Values]
      BY <1>1 DEF Contents
    <3>4. \A q \in Paths : session'[c].adds[q] # None =>
            folder'[c][q] \in {None, session'[c].adds[q]}
      BY <2>2, <3>1, <3>2, <3>3
    <3>5. Stamp(c)' = Stamp(c) /\ Stamp(Registry)' = Stamp(Registry)
      BY <2>2 DEF Stamp
    <3>6. QED
      BY <2>2, <2>3, <3>4, <3>5 DEF Fresh
  <2>4. QED
    BY <1>1, <2>2, <2>3 DEF FreshPush, Apart
<1>4. CASE PullRequired(c)
  BY <1>1, <1>4 DEF PullRequired, FreshPush
<1>5. CASE PushInit(c)
  <2> DEFINE d == Delta(Stamp(c), Stamp(Registry))
  <2>0. PICK first \in FirstRows(Registry) :
                 folder' = [folder EXCEPT ![c] = Locals(Registry, d, first)]
    BY <1>5 DEF PushInit
  <2>1. /\ rows' = rows /\ disk' = disk /\ metas' = metas /\ job' = job
        /\ want'[c] = Stamp(c) /\ session'[c] = d /\ folder'[c] = Locals(Registry, d, first)
        /\ phase'[c] = "meta"
        /\ ~ unlike'[c] => /\ job # None => job.on \notin {c, Registry}
                           /\ rows[c] = disk[c] /\ rows[Registry] = disk[Registry]
    BY <1>1, <1>5, <2>0 DEF PushInit, dataVars
  <2>2. Stamp(c)' = Stamp(c) /\ Stamp(Registry)' = Stamp(Registry)
    BY <2>1 DEF Stamp
  <2>3. \A p \in Paths : Locals(Registry, d, first)[p] \in {None, d.adds[p]}
    BY DEF Locals
  <2> HIDE DEF d
  <2>4. \A p \in Paths : folder'[c][p] \in {None, session'[c].adds[p]}
    BY <2>1, <2>3
  <2>5. ~ unlike'[c] => Fresh(c)' /\ Apart(c)'
    BY <2>1, <2>2, <2>4 DEF Fresh, Apart, d
  <2>6. QED
    BY <2>1, <2>5 DEF FreshPush
<1>6. CASE Meta(c)
  <2>1. /\ rows' = rows /\ disk' = disk /\ metas' = metas /\ want' = want
        /\ session' = session /\ folder' = folder /\ job' = job /\ unlike' = unlike
        /\ phase[c] = "meta" /\ phase'[c] = "upload"
        /\ sent'[c] = [i \in Ids |-> IF i \in session[c].metaAdds THEN metas[c][i] ELSE None]
    BY <1>1, <1>6 DEF Meta, dataVars
  <2>2. session[c].metaAdds \subseteq Ids
    BY <1>1 DEF Deltas
  <2>3. \A i \in session[c].metaAdds : sent'[c][i] = metas[c][i]
    BY <2>1, <2>2
  <2>4. Stamp(c)' = Stamp(c) /\ Stamp(Registry)' = Stamp(Registry)
    BY <2>1 DEF Stamp
  <2>5. Fresh(c) => Fresh(c)'
    BY <2>1, <2>3, <2>4 DEF Fresh
  <2>6. QED
    BY <1>1, <2>1, <2>5 DEF FreshPush, Apart
<1>7. CASE Commit(c)
  <2>1. /\ phase[c] = "upload" /\ phase'[c] = "applying" /\ unlike'[c] = ~ Exact(c)
        /\ job'.exact = Exact(c) /\ job'.goal = want[c]
        /\ rows' = rows /\ metas' = metas
    BY <1>1, <1>7 DEF Commit, dataVars
  <2>2. Stamp(c)' = Stamp(c)
    BY <2>1 DEF Stamp
  <2>3. Exact(c) => want[c] = Stamp(c)
    BY <1>1, <2>1 DEF FreshPush, Exact, Fresh
  <2>4. QED
    BY <2>1, <2>2, <2>3 DEF FreshPush
<1>8. CASE PushEnd(c) \/ PushFails(c)
  <2>1. phase'[c] = "idle"
    BY <1>1, <1>8 DEF PushEnd, PushFails
  <2>2. QED
    BY <2>1 DEF FreshPush
<1>9. CASE \E strategy \in Fetching : Fetch(c, strategy)
  <2>1. unlike'[c]
    BY <1>1, <1>9 DEF Fetch
  <2>2. QED
    BY <2>1 DEF FreshPush
<1>10. QED
  BY <1>2, <1>3, <1>4, <1>5, <1>6, <1>7, <1>8, <1>9 DEF ClientNext

\* The steps of a job, and the pushes of all.
LEMMA ApplyPushes ==
  ASSUME ExchangeInv, FreshPushes, OnItsWay, ApplyNext, NEW k \in Clients PROVE FreshPush(k)'
<1>1. /\ ExchangeTypeOK /\ job \in Jobs /\ job # None /\ FreshPush(k)
      /\ k \in Nodes /\ Registry \in Nodes /\ Registry # k
      /\ phase \in [Clients -> Phases]
      /\ phase[k] = "applying" <=> job.by = k
  BY ApplySteps, JobValues DEF ExchangeInv, ExchangeTypeOK, FreshPushes, Nodes
<1> SUFFICES ASSUME ~ unlike'[k] PROVE FreshPush(k)'
  BY DEF FreshPush
<1>2. CASE ApplyEnd \/ ApplyFails
  <2>1. /\ rows' = rows /\ disk' = disk /\ metas' = metas /\ job' = None
        /\ want' = want /\ session' = session /\ folder' = folder /\ sent' = sent
        /\ unlike' = unlike
    BY <1>2 DEF ApplyEnd, ApplyFails, Over, dataVars
  <2>2. CASE job.by = k
    <3>1. job.exact /\ job.goal = Stamp(k)
      BY <1>1, <2>1, <2>2 DEF FreshPush
    <3>2. CASE ApplyEnd
      <4>1. phase'[k] = "applied"
        BY <2>2, <3>2 DEF ApplyEnd
      <4>2. Stamp(k) = Stamp(Registry)
        BY <1>1, <3>1, <3>2, WayEnds
      <4>3. Stamp(k)' = Stamp(Registry)'
        BY <2>1, <4>2 DEF Stamp
      <4>4. QED
        BY <2>1, <4>1, <4>3 DEF FreshPush, Apart
    <3>3. CASE ApplyFails
      <4>1. phase'[k] = "idle"
        BY <2>2, <3>3 DEF ApplyFails, Over
      <4>2. QED
        BY <4>1 DEF FreshPush
    <3>4. QED
      BY <1>2, <3>2, <3>3
  <2>3. CASE job.by # k
    <3>1. phase'[k] = phase[k]
      BY <1>2, <2>3 DEF ApplyEnd, ApplyFails, Over
    <3>2. QED
      BY <1>1, <2>1, <2>3, <3>1, PushStays
  <2>4. QED
    BY <2>2, <2>3
<1>3. CASE ~ (ApplyEnd \/ ApplyFails)
  <2>1. Goes
    BY <1>3 DEF ApplyNext, SkipRemoval, SkipAddition, Skip, RemoveRow, CopyFile, RemoveFile,
                AddRow, MetaAdd, MetaRemove
  <2>2. /\ phase' = phase /\ want' = want /\ session' = session /\ folder' = folder
        /\ sent' = sent /\ unlike' = unlike
    BY <2>1 DEF Goes, pushVars
  <2>3. job'.on = job.on /\ job'.goal = job.goal /\ job'.exact = job.exact
    BY <1>1, <1>3, JobRuns
  <2>4. CASE phase[k] = "idle"
    BY <2>2, <2>4 DEF FreshPush
  <2>5. CASE phase[k] = "applying"
    <3>1. job.exact /\ job.goal = Stamp(k)
      BY <1>1, <2>2, <2>5 DEF FreshPush
    <3>2. job.on = Registry
      BY <1>1, <3>1 DEF OnItsWay, Way
    <3>3. rows'[k] = rows[k] /\ metas'[k] = metas[k]
      BY <1>1, <3>2, ApplyOwns
    <3>4. Stamp(k)' = Stamp(k)
      BY <3>3 DEF Stamp
    <3>5. QED
      BY <2>2, <2>3, <2>5, <3>1, <3>4 DEF FreshPush
  <2>6. CASE phase[k] \in {"meta", "upload", "applied"}
    <3>1. job.on \notin {k, Registry}
      BY <1>1, <2>2, <2>6 DEF FreshPush, Apart
    <3>2. /\ rows'[k] = rows[k] /\ disk'[k] = disk[k] /\ metas'[k] = metas[k]
          /\ rows'[Registry] = rows[Registry] /\ disk'[Registry] = disk[Registry]
          /\ metas'[Registry] = metas[Registry]
      BY <1>1, <3>1, ApplyOwns
    <3>3. QED
      BY <1>1, <2>2, <2>3, <3>2, PushStays
  <2>7. QED
    BY <1>1, <2>4, <2>5, <2>6 DEF Phases
<1>4. QED
  BY <1>2, <1>3

LEMMA ReconcileStep ==
  ReconcileInv /\ [ExchangeNext]_exchangeVars => Trees' /\ FreshPushes' /\ OnItsWay'
<1> SUFFICES ASSUME ReconcileInv, [ExchangeNext]_exchangeVars
             PROVE  Trees' /\ FreshPushes' /\ OnItsWay'
  OBVIOUS
<1>1. ExchangeInv /\ Trees /\ FreshPushes /\ OnItsWay
  BY DEF ReconcileInv
<1>2. ASSUME NEW c \in Clients, ClientNext(c) PROVE Trees' /\ FreshPushes' /\ OnItsWay'
  <2>1. \A k \in Clients : FreshPush(k)'
    BY <1>1, <1>2, OwnPush, OthersStay
  <2>2. FreshPushes'
    BY <2>1 DEF FreshPushes
  <2>3. QED
    BY <1>1, <1>2, <2>2, UserTrees, ClientWay
<1>3. CASE ApplyNext
  <2>1. \A k \in Clients : FreshPush(k)'
    BY <1>1, <1>3, ApplyPushes
  <2>2. FreshPushes'
    BY <2>1 DEF FreshPushes
  <2>3. QED
    BY <1>1, <1>3, <2>2, ApplyTrees, ApplyWay
<1>4. CASE UNCHANGED exchangeVars
  <2>1. UNCHANGED <<rows, disk, metas, stamp, phase, want, session, folder, sent, job, unlike>>
    BY <1>4 DEF exchangeVars, dataVars, pushVars
  <2>2. Trees' /\ OnItsWay'
    BY <1>1, <2>1 DEF Trees, Closed, OnItsWay, Way, FilesWay, MetasWay, FoldersAreFolders, Listed
  <2>3. \A k \in Clients : FreshPush(k)'
    BY <1>1, <2>1, PushStays DEF FreshPushes
  <2>4. QED
    BY <2>2, <2>3 DEF FreshPushes
<1>5. QED
  BY <1>2, <1>3, <1>4 DEF ExchangeNext

LEMMA ReconcileInit == ExchangeInit => ReconcileInv
<1> SUFFICES ASSUME ExchangeInit PROVE ReconcileInv
  OBVIOUS
<1>1. PICK files \in Contents :
        /\ \A p \in Paths : files[p] # None => \A q \in Ancestors(p) : files[q] = Dir
        /\ rows = [n \in Nodes |-> files]
        /\ disk = [n \in Nodes |-> files]
  BY DEF ExchangeInit
<1>2. job = None /\ \A c \in Clients : phase[c] = "idle"
  BY DEF ExchangeInit
<1>3. Trees
  BY <1>1, DirIsThere DEF Trees, Closed
<1>4. FreshPushes /\ OnItsWay
  BY <1>2 DEF FreshPushes, FreshPush, OnItsWay
<1>5. QED
  BY <1>3, <1>4, InitInv DEF ReconcileInv

LEMMA ReconcileHolds == ExchangeSpec => []ReconcileInv
<1>1. ReconcileInv /\ [ExchangeNext]_exchangeVars => ReconcileInv'
  <2>1. ExchangeInv /\ [ExchangeNext]_exchangeVars => ExchangeInv'
    BY StepTypes, StepKinds, StepOneAtATime, StepStands, StepSeen DEF ExchangeInv
  <2>2. QED
    BY <2>1, ReconcileStep DEF ReconcileInv
<1>2. QED
  BY ReconcileInit, <1>1, PTL DEF ExchangeSpec

\* A push that nothing came between makes the registry what the client sent the stamp
\* of, to the last file and record (registry.cpp, push and applyDelta; delta.cpp).
THEOREM PushesReconcile == ExchangeSpec => ApplyReconciles
<1>1. ReconcileInv /\ [ExchangeNext]_exchangeVars =>
        [job # None /\ job.exact /\ ApplyEnd => Stamp(Registry)' = job.goal]_exchangeVars
  <2> SUFFICES ASSUME ReconcileInv, job # None, job.exact, ApplyEnd
               PROVE  Stamp(Registry)' = job.goal
    OBVIOUS
  <2>1. Stamp(Registry) = job.goal
    BY WayEnds DEF ReconcileInv
  <2>2. rows' = rows /\ metas' = metas
    BY DEF ApplyEnd, dataVars
  <2>3. QED
    BY <2>1, <2>2 DEF Stamp
<1>2. QED
  BY <1>1, ReconcileHolds, PTL DEF ExchangeSpec, ApplyReconciles

\* What a client keeps as the stamp of the registry, after such a push, is that of the
\* registry (syncmanager.cpp, setLastStamp; pushmanager.cpp).
THEOREM StampsStayTrue == ExchangeSpec => PushedStampIsTheRegistrys
<1>1. ReconcileInv /\ [ExchangeNext]_exchangeVars =>
        [\A c \in Clients : ~ unlike[c] /\ PushEnd(c) => stamp'[c] = Stamp(Registry)]_exchangeVars
  <2> SUFFICES ASSUME ReconcileInv, NEW c \in Clients, ~ unlike[c], PushEnd(c)
               PROVE  stamp'[c] = Stamp(Registry)
    OBVIOUS
  <2>1. phase[c] = "applied" /\ stamp' = [stamp EXCEPT ![c] = Stamp(c)]
    BY DEF PushEnd
  <2>2. Stamp(c) = Stamp(Registry)
    BY <2>1 DEF ReconcileInv, FreshPushes, FreshPush
  <2>3. QED
    BY <2>1, <2>2 DEF ReconcileInv, ExchangeInv, ExchangeTypeOK
<1>2. QED
  BY <1>1, ReconcileHolds, PTL DEF ExchangeSpec, PushedStampIsTheRegistrys

==============================================================================
