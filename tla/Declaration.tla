---------------------------- MODULE Declaration ----------------------------
(***************************************************************************)
(* The life of one declared table: processes started from configuration    *)
(* files that open, verify and create its two tiers, write to it, archive  *)
(* it, read it and purge it; an operator who alters the tiers out of band; *)
(* and the table's name used again after a purge.                          *)
(*                                                                         *)
(* A file is [lines, settings, registered]: the lines it interpolates,     *)
(* what it says, and the names of every table it declares, this one first. *)
(* `told`, `purged`, `abandoned` and `eras` are of the specification only. *)
(***************************************************************************)
EXTENDS Schemas

LOCAL INSTANCE SequencesExt
LOCAL INSTANCE FiniteSetsExt

CONSTANTS
  Processes,  \* the processes of the deployment
  Files,      \* Files[f]: the configuration files they are started from
  Offered,    \* Offered[n]: the texts a writer supplies for a declared column
  NewColumns, \* the columns an operator may add
  LastWindow, MaxRows, MaxTables, MaxStarts, \* bounds of the instance
  MaxAltered  \* the operator alters the first tables created

ASSUME DeclarationAssumption ==
  /\ LastWindow \in Nat /\ MaxRows \in Nat /\ MaxTables \in Nat
  /\ MaxStarts \in Nat /\ MaxAltered \in Nat

\* What a file is read into has these fields, whatever it says.
ASSUME FilesAssumption ==
  \A f \in DOMAIN Files :
    /\ {"lines", "settings", "registered"} \subseteq DOMAIN Files[f]
    /\ {"hot", "cold"} \subseteq DOMAIN Files[f].settings
    /\ {"catalog", "uri", "scheme", "warehouse"} \subseteq DOMAIN Files[f].settings.cold

VARIABLES
  hot,        \* the hot table: [era, ddl]
  parts,      \* its partitions' relations, the detached ones too
  reclaimed,  \* its row of meterstore_reclaimed, which no purge deletes
  cold,       \* the cold table: [era, spec, fields, properties, rows, boundary]
  files,      \* the rows in data files no catalogue entry names
  registry,   \* whether the registry's tables exist
  proc,       \* the processes
  told,       \* told[id]: the values a row was written with
  purged,     \* the rows a purge has reported destroyed
  abandoned,  \* the rows whose files a crash orphaned, or a cold table was created over
  eras, starts  \* tables created, processes started

store == <<hot, parts, reclaimed, cold, files, registry>>
ghosts == <<told, purged, abandoned>>
vars == <<store, proc, ghosts, eras, starts>>

Windows == 0..LastWindow

\* A process that is not running, and the file if it was what its file says that stopped it.
Down(file) == [pc |-> "down", file |-> file]

RowsIn(relations) == UNION {relations[w].rows : w \in {v \in Windows : relations[v] # Null}}
Ids(rows) == {r.id : r \in rows}
ColdRows == IF cold = Null THEN {} ELSE cold.rows
Stored == Ids(RowsIn(parts)) \cup Ids(ColdRows) \cup files

-----------------------------------------------------------------------------
(* Starting: connect, open each table, build, create.                        *)

Refused(p, file) == proc' = [proc EXCEPT ![p] = Down(file)]

\* The settings a file reads as.
ReadSettings(file) ==
  {[read.settings EXCEPT !.hot.url = read.lines.url.text,
                         !.cold.warehouse = read.lines.warehouse.text] : read \in FromToml(file)}

\* What `check` accepts of a file.
CheckAccepts(file) == \E s \in ReadSettings(file) : ValidateAll(s)

Accepted == {f \in DOMAIN Files : CheckAccepts(Files[f])}

\* The table an accepted file declares first.
Declared == [f \in Accepted |->
  CHOOSE c \in ValidateTable(Files[f].settings.tables[1]) : TRUE]

Config(p) == Declared[proc[p].file]

Opening == {f \in Accepted : \E s \in ReadSettings(Files[f]) : OpenCold(s.cold)}

\* CREATE of the cold table, or the check and the restated properties of the one there is.
ColdReady(c) == cold # Null => CheckPartitionSpec(cold.spec, NameList(c.identity))

CreateColdTable(c) ==
  IF cold # Null
    THEN /\ cold' = [cold EXCEPT !.properties = ReconcileProperties(@, MaintenancePolicy(c))]
         /\ UNCHANGED <<eras, abandoned>>
    ELSE /\ eras < MaxTables /\ eras' = eras + 1
         /\ cold' = [era |-> eras', spec |-> PartitionSpec(NameList(c.identity)),
                     fields |-> StorageSchema(Extra(c)), rows |-> {}, boundary |-> 0,
                     properties |-> PolicyProperties(MaintenancePolicy(c))]
         /\ abandoned' = abandoned \cup Ids(RowsIn(parts))

\* The schema the declaration needs can be held by the one stored.
Compatible(c, stored) == RequireSafe(Compare(StorageSchema(Extra(c)), stored))

\* Settings::connect, which only reads the file.
Connect(p, f) ==
  /\ proc[p].pc = "down" /\ starts < MaxStarts
  /\ starts' = starts + 1
  /\ f \notin Opening
  /\ Refused(p, IF f \in Accepted THEN f ELSE Null)
  /\ UNCHANGED <<store, ghosts, eras>>

\* The same, Deployment::table, which creates the cold table and takes the schema its
\* provider keeps, and the builds of the session and of the table's store.
Open(p, f) ==
  LET c == Declared[f]
      builds == /\ RelationsApart(Files[f].registered)
                /\ Compatible(c, cold'.fields) /\ ResolutionPlans(c, cold'.fields)
  IN  /\ proc[p].pc = "down" /\ starts < MaxStarts
      /\ starts' = starts + 1
      /\ \/ /\ ~ColdReady(c) /\ Refused(p, Null)
            /\ UNCHANGED <<cold, eras, abandoned>>
         \/ /\ ColdReady(c) /\ CreateColdTable(c)
            /\ IF builds
                 THEN proc' = [proc EXCEPT ![p] = [pc |-> "built", file |-> f,
                                 schema |-> cold'.fields, coldEra |-> cold'.era]]
                 ELSE Refused(p, IF RelationsApart(Files[f].registered) THEN Null ELSE f)
      /\ UNCHANGED <<hot, parts, reclaimed, files, registry, told, purged>>

\* The first half of create_tables: CREATE TABLE IF NOT EXISTS, read back.
CreateHot(p) ==
  LET c == Config(p)
      verified(era) == proc' = [proc EXCEPT ![p] =
        [pc |-> "verified", file |-> @.file, schema |-> @.schema,
         coldEra |-> @.coldEra, hotEra |-> era]]
  IN  /\ proc[p].pc = "built"
      /\ \/ /\ hot = Null /\ eras < MaxTables /\ eras' = eras + 1
            /\ hot' = [era |-> eras', ddl |-> HotDdl(c)]
            /\ verified(eras')
         \/ /\ hot # Null /\ VerifyDeclaration(hot.ddl, c) /\ verified(hot.era)
            /\ UNCHANGED <<hot, eras>>
         \/ /\ hot # Null /\ ~VerifyDeclaration(hot.ddl, c) /\ Refused(p, Null)
            /\ UNCHANGED <<hot, eras>>
      /\ UNCHANGED <<parts, reclaimed, cold, files, registry, ghosts, starts>>

\* The second half: the cold table once more, and the registry's tables.
CreateCold(p) ==
  LET c == Config(p)
  IN  /\ proc[p].pc = "verified"
      /\ \/ /\ ~ColdReady(c) /\ Refused(p, Null)
            /\ UNCHANGED <<cold, registry, eras, abandoned>>
         \/ /\ ColdReady(c) /\ CreateColdTable(c)
            /\ registry' = (registry \/ c.subject # Null)
            /\ proc' = [proc EXCEPT ![p].pc = "ready"]
      /\ UNCHANGED <<hot, parts, reclaimed, files, told, purged, starts>>

-----------------------------------------------------------------------------
(* Writing.                                                                  *)

\* A reading as the encoder leaves it, for the texts supplied.
Encoded(p, id, window, supplied) ==
  LET c == Config(p)
  IN  {[id |-> id, window |-> window, values |-> v, hasEnd |-> HasIntervalEnd(c),
        hasMelo |-> MeloInMergeKey(c), key |-> MergeKey(c),
        opened |-> proc[p].coldEra, verified |-> proc[p].hotEra] :
         v \in EncodeExtra(Extra(c), supplied)}

HotAdmits(p, row) ==
  /\ hot # Null /\ parts[row.window] # Null /\ parts[row.window].attached
  /\ InsertAccepts(hot.ddl, MergeKey(Config(p)), row)

ColdAdmits(p, rows) ==
  AlignAccepts(StorageSchema(Extra(Config(p))), cold.fields, rows)

\* A write at the boundary or above goes to its partition, one below it to the cold table.
Write(p, window, supplied) ==
  /\ proc[p].pc = "ready" /\ cold # Null /\ Len(told) < MaxRows
  /\ \E row \in Encoded(p, Len(told) + 1, window, supplied) :
       /\ \/ /\ window >= cold.boundary /\ HotAdmits(p, row)
             /\ parts' = [parts EXCEPT ![window].rows = @ \cup {Inserted(hot.ddl, row)}]
             /\ UNCHANGED cold
          \/ /\ window < cold.boundary /\ ColdAdmits(p, {row})
             /\ cold' = [cold EXCEPT !.rows = @ \cup {Align(row, cold.fields)}]
             /\ UNCHANGED parts
       /\ told' = Append(told, row.values)
  /\ UNCHANGED <<hot, reclaimed, files, registry, proc, purged, abandoned, eras, starts>>

-----------------------------------------------------------------------------
(* An archival cycle: verify, reclaim, keep partitions ahead, archive.       *)

Detached == {w \in Windows : parts[w] # Null /\ ~parts[w].attached}

\* An orphan at or above the boundary stops the cycle, unless it is the window now due.
Resumable(now) == \A w \in Detached : w < cold.boundary \/ (w = cold.boundary /\ w < now)

NewPartition == [attached |-> TRUE, columns |-> hot.ddl.columns, rows |-> {}, era |-> hot.era]

\* The partitions once `dropped` are reclaimed and those from `now` on exist.
Supplied(dropped, now) ==
  [w \in Windows |-> IF w \in dropped THEN Null
                     ELSE IF w >= now /\ parts[w] = Null THEN NewPartition ELSE parts[w]]

Reclaim(dropped) ==
  IF dropped = {} THEN UNCHANGED reclaimed
  ELSE reclaimed' = [below |-> Max({reclaimed.below, Max(dropped) + 1}), era |-> cold.era]

\* Where the boundary goes over a stretch that holds no partition.
Widened(relations, now) ==
  Min({now} \cup {w \in Windows : w > cold.boundary /\ w < now /\ relations[w] # Null})

\* The cycle of a clock in window `now`, to the detach of the window due.
Cycle(p, now, dropped) ==
  LET relations == Supplied(dropped, now)
      b == cold.boundary
  IN  /\ proc[p].pc = "ready" /\ cold # Null /\ hot # Null
      /\ \A q \in Processes : proc[q].pc # "archiving"
      /\ Compatible(Config(p), cold.fields) /\ Resumable(now)
      /\ dropped \subseteq {w \in Detached : w < b}
      /\ Reclaim(dropped)
      /\ \/ /\ now <= b
            /\ parts' = relations /\ UNCHANGED <<cold, proc>>
         \/ /\ now > b /\ relations[b] = Null
            /\ parts' = relations
            /\ cold' = [cold EXCEPT !.boundary = Widened(relations, now)]
            /\ UNCHANGED proc
         \/ /\ now > b /\ relations[b] # Null
            /\ parts' = [relations EXCEPT ![b].attached = FALSE]
            /\ proc' = [proc EXCEPT ![p].pc = "archiving"]
            /\ UNCHANGED cold
      /\ UNCHANGED <<hot, files, registry, ghosts, eras, starts>>

\* The detached relation scanned and committed, the boundary with it; or the cycle fails.
Commit(p) ==
  LET w == cold.boundary
      spec == ScanSpec(Config(p))
  IN  /\ proc[p].pc = "archiving"
      /\ proc' = [proc EXCEPT ![p].pc = "ready"]
      /\ IF /\ cold # Null /\ w \in Windows /\ parts[w] # Null
            /\ ScanAccepts(DOMAIN parts[w].columns, spec)
            /\ AlignAccepts(BatchSchema(spec), cold.fields, parts[w].rows)
           THEN cold' = [cold EXCEPT !.boundary = w + 1,
                                     !.rows = @ \cup {Align(r, cold.fields) : r \in parts[w].rows}]
           ELSE UNCHANGED cold
      /\ UNCHANGED <<hot, parts, reclaimed, files, registry, ghosts, eras, starts>>

-----------------------------------------------------------------------------
(* A purge: the catalogue's entry, its files, the hot table, the orphans.    *)

DropEntry(p) ==
  /\ proc[p].pc = "ready"
  /\ proc' = [proc EXCEPT ![p] = [pc |-> "unlisted", doomed |-> Stored, files |-> Ids(ColdRows)]]
  /\ files' = files \cup Ids(ColdRows)
  /\ cold' = Null
  /\ UNCHANGED <<hot, parts, reclaimed, registry, ghosts, eras, starts>>

DeleteFiles(p) ==
  /\ proc[p].pc = "unlisted"
  /\ proc' = [proc EXCEPT ![p].pc = "deleted"]
  /\ files' = files \ proc[p].files
  /\ UNCHANGED <<hot, parts, reclaimed, cold, registry, ghosts, eras, starts>>

DropParent(p) ==
  /\ proc[p].pc = "deleted"
  /\ proc' = [proc EXCEPT ![p].pc = "parentless"]
  /\ hot' = Null
  /\ parts' = [w \in Windows |-> IF w \in Detached THEN parts[w] ELSE Null]
  /\ UNCHANGED <<reclaimed, cold, files, registry, ghosts, eras, starts>>

\* As DropOrphans, if a detached partition were taken for one of the table dropped.
DropOrphansForgotten(p) ==
  /\ proc[p].pc = "parentless"
  /\ proc' = [proc EXCEPT ![p] = Down(Null)]
  /\ purged' = purged \cup proc[p].doomed
  /\ UNCHANGED <<hot, parts, reclaimed, cold, files, registry, told, abandoned, eras, starts>>

DropOrphans(p) ==
  /\ proc[p].pc = "parentless"
  /\ proc' = [proc EXCEPT ![p] = Down(Null)]
  /\ parts' = [w \in Windows |-> IF w \in Detached THEN Null ELSE parts[w]]
  /\ purged' = purged \cup proc[p].doomed
  /\ UNCHANGED <<hot, reclaimed, cold, files, registry, told, abandoned, eras, starts>>

-----------------------------------------------------------------------------
(* Crashes, and what an operator does to the tiers.                          *)

Crash(p) ==
  /\ proc[p].pc # "down"
  /\ proc' = [proc EXCEPT ![p] = Down(Null)]
  /\ abandoned' = abandoned \cup (IF proc[p].pc = "unlisted" THEN proc[p].files ELSE {})
  /\ UNCHANGED <<store, told, purged, eras, starts>>

\* A nullable column, at the end: what either tier's ALTER TABLE does.
AlterCold(n) ==
  /\ cold # Null /\ eras <= MaxAltered /\ ~Has(cold.fields, n)
  /\ cold' = [cold EXCEPT
       !.fields = Append(@, [name |-> n, type |-> Utf8, nullable |-> TRUE]),
       !.rows = {[r EXCEPT !.values = [m \in DOMAIN @ \cup {n} |-> IF m = n THEN Null ELSE @[m]]] :
                   r \in @}]
  /\ UNCHANGED <<hot, parts, reclaimed, files, registry, proc, ghosts, eras, starts>>

\* PostgreSQL alters the table and the partitions attached to it.
AlterHot(n) ==
  LET added(columns) == [m \in DOMAIN columns \cup {n} |->
                           IF m = n THEN Field(n, Utf8, TRUE, Null, Null) ELSE columns[m]]
      widened(r) == [r EXCEPT !.values = [m \in DOMAIN @ \cup {n} |-> IF m = n THEN Null ELSE @[m]]]
  IN  /\ hot # Null /\ eras <= MaxAltered /\ n \notin DOMAIN hot.ddl.columns
      /\ hot' = [hot EXCEPT !.ddl.columns = added(@)]
      /\ parts' = [w \in Windows |->
           IF parts[w] # Null /\ parts[w].attached
             THEN [parts[w] EXCEPT !.columns = added(@), !.rows = {widened(r) : r \in @}]
             ELSE parts[w]]
          /\ UNCHANGED <<reclaimed, cold, files, registry, proc, ghosts, eras, starts>>

\* A decimal of the cold table, widened as a table evolution may.
WidenCold ==
  /\ cold # Null /\ eras <= MaxAltered
  /\ \E i \in DOMAIN cold.fields :
       /\ cold.fields[i].type.kind = "Decimal" /\ cold.fields[i].type = Core[i].type
       /\ cold' = [cold EXCEPT !.fields[i].type.width = @ + 1]
  /\ UNCHANGED <<hot, parts, reclaimed, files, registry, proc, ghosts, eras, starts>>

-----------------------------------------------------------------------------

Init ==
  /\ hot = Null /\ cold = Null /\ files = {} /\ registry = FALSE
  /\ parts = [w \in Windows |-> Null]
  /\ reclaimed = [below |-> 0, era |-> 0]
  /\ proc = [p \in Processes |-> Down(Null)]
  /\ told = <<>> /\ purged = {} /\ abandoned = {}
  /\ eras = 0 /\ starts = 0

\* What a writer supplies for the columns of its declaration.
Supplies(p) ==
  LET named == Names(Extra(Config(p)))
  IN  {s \in [named -> UNION {Offered[n] : n \in named}] : \A n \in named : s[n] \in Offered[n]}

Next ==
  \/ \E p \in Processes :
       \/ \E f \in DOMAIN Files : Connect(p, f)
       \/ \E f \in Opening : Open(p, f)
       \/ CreateHot(p) \/ CreateCold(p)
       \/ proc[p].pc = "ready" /\ \E w \in Windows, s \in Supplies(p) : Write(p, w, s)
       \/ \E now \in 0..(LastWindow + 1), dropped \in SUBSET Detached : Cycle(p, now, dropped)
       \/ Commit(p)
       \/ DropEntry(p) \/ DeleteFiles(p) \/ DropParent(p) \/ DropOrphans(p)
       \/ Crash(p)
  \/ \E n \in NewColumns : AlterCold(n) \/ AlterHot(n)
  \/ WidenCold

Spec == Init /\ [][Next]_vars

-----------------------------------------------------------------------------
(* Properties.                                                               *)

\* An S3 Tables warehouse that is no ARN is found only when the catalogue is opened, and
\* two tables whose relations clash only when the session is built.
NotAnArn(file) == file.settings.cold.catalog = "s3tables" /\ file.settings.cold.scheme # "arn"
Clashing(file) == ~RelationsApart(file.registered)
PartMinute(c) == c.archivalStep % UnitSize["m"] # 0

\* A process is refused for what its file says only by `check`, which answers for the
\* file before a deploy: what it accepted can fail on the tables it meets, not on itself
\* (settings.rs:583, catalog.rs:903).
CheckedStarts ==
  \A p \in Processes : proc[p].pc = "down" /\ proc[p].file # Null =>
    NotAnArn(Files[proc[p].file]) \/ Clashing(Files[proc[p].file])

\* What is derived from an accepted declaration agrees with it: a partition's start reads
\* back from the name of its relation, and a duration from its text; the pages of a scan
\* are cut by what identifies a row, so none is lost between two of them; completeness
\* groups by what tells two readings of one channel apart.  The names of a step of part of
\* a minute are excepted (tiering/store.rs:94, 223, config.rs:902, 1215, settings.rs:1321).
DerivedAgrees ==
  \A p \in Processes : proc[p].pc \in {"built", "verified", "ready", "archiving"} =>
    LET c == Config(p)
    IN  /\ \A w \in Windows : \/ PartMinute(c)
                             \/ FromRelationName(c, RelationName(c, (w + 1) * c.archivalStep))
                                  = {(w + 1) * c.archivalStep}
        /\ \A d \in {c.archivalStep, c.settlementLag, c.headroom, c.grace, c.pinAge, c.retention} :
             ParseDuration(FormatDuration(d)) = {d}
        /\ ToSet(CursorColumns(ScanSpec(c))) = ToSet(HotDdl(c).key)
        /\ ToSet(HotDdl(c).key) = ToSet(CoreKey) \cup ToSet(DiscriminatorColumns(c)) \cup {"version"}

-----------------------------------------------------------------------------
(* Reading, as a state answers it now.                                       *)

\* A process that reads the cold table it opened.
Reads(p) == /\ proc[p].pc \in {"ready", "archiving"}
            /\ cold # Null /\ proc[p].coldEra = cold.era

HotShare == RowsIn([w \in Windows |-> IF w >= cold.boundary THEN parts[w] ELSE Null])

\* The hot scan refuses a range below what was reclaimed.
HotAnswers(p) ==
  LET spec == ScanSpec(Config(p))
  IN  /\ reclaimed.below <= cold.boundary
      /\ \A w \in cold.boundary..LastWindow :
           parts[w] # Null => ScanAccepts(DOMAIN parts[w].columns, spec)
      /\ \A r \in HotShare : CastAccepts(BatchSchema(spec), proc[p].schema, r)

ColdAnswers(p) == ProjectAccepts(cold.fields, proc[p].schema)

Answer(p) ==
  {CastTo(BatchSchema(ScanSpec(Config(p))), proc[p].schema, r) : r \in HotShare}
    \cup {Project(cold.fields, proc[p].schema, r) : r \in cold.rows}

\* The declaration lists its columns in another order than the table was created with.
Permuted(p) ==
  NameList(Extra(Config(p)))
    # NameList(SelectSeq(proc[p].schema, LAMBDA f : f.name \notin CoreNames))

ValueIn(values, n) == IF n \in DOMAIN values THEN values[n] ELSE Null
AsTold(r, names) == \A n \in names : ValueIn(r.values, n) = ValueIn(told[r.id], n)

ArchivedUnderTheirNames ==
  \A r \in ColdRows : r.opened = cold.era => AsTold(r, DOMAIN r.values \cup DOMAIN told[r.id])

\* Rows archived into another cold table than the one their writer had opened.
Resettled == {r.id : r \in {q \in ColdRows : q.opened # cold.era}}

AnsweredUnderTheirNames(p) ==
  Reads(p) /\ HotAnswers(p) /\ ColdAnswers(p) =>
    \A r \in Answer(p) : r.id \notin Resettled => AsTold(r, DOMAIN r.values)

\* A value is archived and answered under the name it was written under, and no declared
\* value is left behind, whatever order a file lists its columns in, whatever columns
\* were added since, and whichever process wrote, archived or reads it.  An answer under
\* a permuted declaration is excepted, and so is what was archived into another cold table
\* than its writer had opened (cold/iceberg.rs:1302, planner/provider.rs:929).
ValuesKeepTheirNames ==
  /\ ArchivedUnderTheirNames
  /\ \A p \in Processes : AnsweredUnderTheirNames(p) \/ Permuted(p)

\* CHANGELOG.md:476 "where a schema is compared by name, the data must be moved by name":
\* what a query is answered is under the name it was written under.
ReadUnderItsName == \A p \in Processes : AnsweredUnderTheirNames(p)

-----------------------------------------------------------------------------

\* A row that a process which verified the hot table wrote, in whichever tier it lies now,
\* is identified as that table identifies readings and carries a span or an instant as that
\* table does, though a process verifies once, and the tables have been purged and created
\* again under other declarations (hot/postgres.rs:400).
OneMeaning ==
  hot # Null => \A r \in RowsIn(parts) \cup ColdRows : r.verified = hot.era =>
    r.key \o <<"version">> = hot.ddl.key /\ r.hasEnd = hot.ddl.hasEnd

\* Both tables are as the declaration has them, the hot one with all of its partitions made
\* after the cold one, and no mark is left of a table that was purged.
Current(p) ==
  LET c == Config(p)
  IN  /\ proc[p].pc = "ready" /\ Reads(p) /\ hot # Null
      /\ Compare(StorageSchema(Extra(c)), cold.fields) = {}
      /\ Compare(proc[p].schema, cold.fields) = {}
      /\ hot.ddl = HotDdl(c)
      /\ hot.era > cold.era
      /\ \A w \in Windows : parts[w] # Null =>
           parts[w].era = hot.era /\ parts[w].columns = hot.ddl.columns
      /\ reclaimed.era \in {0, cold.era}

\* What such a process does is not refused for the shape of anything: every value the
\* encoder makes passes the constraints, every row stored can be archived, a cycle left
\* half done is resumed, and every row is answered (config.rs:230, evolution.rs:42).
DeclaredWorks ==
  \A p \in Processes : Current(p) =>
    LET c == Config(p)
        spec == ScanSpec(c)
    IN  /\ \A w \in Windows, s \in Supplies(p) : \A row \in Encoded(p, 0, w, s) :
             /\ parts[w] # Null /\ parts[w].attached => InsertAccepts(hot.ddl, MergeKey(c), row)
             /\ ColdAdmits(p, {row})
        /\ \A w \in Windows : parts[w] # Null =>
             AlignAccepts(BatchSchema(spec), cold.fields, parts[w].rows)
        /\ Resumable(LastWindow + 1)
        /\ HotAnswers(p) /\ ColdAnswers(p)

BeingDeleted == UNION {proc[p].files : p \in {q \in Processes : proc[q].pc = "unlisted"}}

\* What a purge reported destroyed is in neither tier and in no file, whoever was writing,
\* archiving, starting or purging beside it, and though it was crashed and run again.
\* Rows whose files a crash orphaned, whose files another purge is still deleting, or that
\* a cold table was created over, are excepted (session/store.rs:3072,
\* cold/iceberg.rs:1518).
PurgedIsGone == (purged \cap Stored) \subseteq abandoned \cup BeingDeleted
=============================================================================
