# meterstore in TLA+

`meterstore` keeps meter readings in two tiers: recent rows in PostgreSQL (hot,
range-partitioned by archival step), settled rows in Iceberg (cold). One instant,
the *watermark* or boundary, says which tier owns a row: `from < watermark` is
cold, everything else hot. An archiver moves one window at a time from the hot to
the cold tier and advances the boundary; writers and queries route by it. There is
no transaction across the two stores. Around that stand a registry of data subjects
with erasure, a report of what is missing, versions and their resolution, and a
declaration from which the tables of both tiers are made.

This directory models these parts, model-checks them with TLC on small instances,
and proves with TLAPS, for every instance, the safety of the tiering protocol and of the
queries over it, of the cold table's chain and of the registry, that what is accepted is
stored once and that answers are true and whole, what the completeness
report's numbers mean, and what a row, a refusal and a purge of a declared table mean.

Paths below are those of the repository (`src/...`); in `PROJECT.json` they carry
the directory the repository is checked out in as well.

## 1. The system

### Components, their state and operations

| component | source | state it keeps | operations |
|---|---|---|---|
| boundary | `src/watermark.rs` | none of its own: a value read from Iceberg | `tier_for`, `next_window`, `align_to_step`, `advance_to` |
| archiver | `src/tiering/archive.rs` | none between cycles: all of it is in the stores | `run_once`, `widen_over_empty`, `archive_window`, `reclaim_orphans`, `catch_up`, `verify_invariant` |
| hot tier | `src/hot/postgres.rs`, `src/tiering/store.rs` | partitions (attached, detached), rows, `meterstore_reclaimed`, `meterstore_pins`, advisory locks | `create_table`, `ensure_partitions`, `detach_partition`, `drop_partition`, `drop_table`, `append`, `append_reporting`, `scan_range`, `scan_detached`, `pin_reader`, the two leases |
| cold tier | `src/cold/iceberg.rs` | chain of snapshots with their summaries (watermark, step, `archived_at`), data files | `append_and_commit`, `append_only`, `expire_snapshots`, `reassert_watermark`, `discard`, `align`, `purge_table` |
| write path | `src/session/store.rs` | a call; a `HotWriter`: boundary at opening, confirmed partitions | `append`, `append_readings`, `append_authoritative`, `HotWriter::append`, `create_tables`, `purge_table` |
| planner | `src/planner/*` | a plan: its boundary, pin, cold snapshot | split, pin and verify, lazy hot scan, pushed filters, row scopes, version resolution and its elision |
| query session | `src/session/series.rs`, `readings.rs`, `completeness.rs` | none | typed reads and their folds, `latest`, the completeness report |
| subject registry | `src/erasure.rs` | mapping of natural ids to references per epoch, suppressions, erasure trail, key ring | `register_in_epoch`, `erase*`, `expire_epochs_before`, `lift_suppression`, key rotation |
| encoding | `src/encode/*`, `src/version.rs` | none | rows to Arrow and back, canonical spellings, versions and their scopes |
| declaration | `src/config.rs`, `src/settings.rs`, `src/evolution.rs` | none; what a process was started with | interpolation, parsing, `check`, derived keys and names, DDL, comparison of schemas |
| maintenance | `src/session/maintenance.rs`, `src/session/catalog.rs` | the loop | over every store: archive, expire snapshots, sweep the registry |
| rest | `src/session/udf.rs`, `cli`, `serve`, `observe.rs`, `error.rs`, `testkit` | none with a part in a protocol | SQL functions, rendering, thin servers |

### How they interact

* Archiver and writers never talk to each other. They meet in PostgreSQL (partitions,
  advisory locks) and in the Iceberg catalogue (compare-and-swap on the snapshot).
* The boundary travels *inside* the snapshot whose rows it describes: the archival
  commit is the one atomic step that moves rows and boundary together.
* Every other pair of remote calls has a gap in which the rest of the system runs:
  boundary read / insert / acknowledgement in `append`; partition probe / detach /
  scan / commit in the archiver; reconcile / commit in a late correction; boundary read /
  pin / verification / enumeration / scan in a query; question for pins / drop in the
  reclaimer; load / plan / delete in snapshot expiry; catalogue entry / files / hot
  parent / orphans in a purge; the two scans of the completeness report.
* Two session-scoped advisory locks, `archive` and `cold-append`, give mutual
  exclusion between archivers and between late corrections. They are held on a
  connection of their own and never checked again by the run they protect.
* Registration, erasure and the sweep meet in row locks, in one advisory lock per
  identifier, and in what READ COMMITTED lets each statement see.
* Processes agree on a table only through what they find: the hot one is compared with
  the declaration once, at start, the cold one at start and per archival.

### What is hard, and what makes it right

* tiering: an accepted row is always in one tier and never twice in the cold one;
  no step destroys a row; the cold tier holds nothing above the boundary; the
  boundary never goes back and never enters the settlement lag.
* archiver: any interrupted cycle can be resumed by a later one; archival keeps up
  with the horizon; archived partitions are reclaimed after the grace.
* readers: a plan that ends without an error has seen every row its boundary promised,
  once, whatever was reclaimed meanwhile.
* cold commits: no live snapshot loses a file; the boundary survives expiry and other
  tools' commits and moves only with its rows; skipping version resolution is sound;
  the past is answered as it was.
* writes and queries: what is accepted is stored once under its version, an authored value is in
  force when the call returns, an answer is whole, current, confined to its tenant
  and attributed to the meter and source it was stored with.
* registry: every reference is live or audited; an erased identifier has no link and
  stays out; what is past its period is swept.
* completeness: what is called missing is what is absent; nothing incomplete is called
  complete; a day is charged to one grid.
* declaration: what `check` accepts starts; both tiers keep one meaning of a row;
  values keep their names; what is declared works; what is purged is gone.

`PROJECT.json` lists the hazards at their lines, with the properties that cover each.

## 2. Modules

| module | what it is |
|---|---|
| `Tiering` | one table: clock, partitions, rows, snapshot, leases, archivers, appenders and HotWriters; its properties and the inductive invariant `Coherent` |
| `TieredLedger` | what tiering promises: a boundary, the settled rows, the open rows, and four actions (`Accept`, `Correct`, `Settle`, `Release`) |
| `TieringFaults` | `Tiering` with leases that vanish under the run that holds them |
| `Readers` | `Tiering` with queries, reader pins, and drops as the transactions that ask for pins |
| `ColdTable` | the chain of snapshots: archival, corrections, expiry and a foreign compaction committing by compare-and-swap, files, late requests, queries that elide version resolution |
| `ColdLedger` | what the cold table promises: a boundary and rows that move together |
| `Registry` | registrations, erasures, lifts, key rotation and the sweep, statement by statement |
| `Completeness` | the report, its two scans, days of differing lengths, grids that change |
| `Encoding` | a delivery to rows and back: checks, spellings, merge keys, versions, runs of the decoder |
| `Writes` | `append`, `append_readings`, `append_authoritative` with values and versions, beside archival (extends `Encoding`, `Predicates`) |
| `Predicates` | from filters to the planned range and to what the tiers are asked |
| `Queries` | sessions, read modes, scopes, resolution, typed reads and folds beside `Writes` (extends `Writes`, `Predicates`) |
| `Settings` | a configuration file: interpolation, parsing, `check`, the declaration and what is derived from it |
| `Schemas` | DDL, insert checks, comparison of schemas, moving a batch by name and by position (extends `Settings`) |
| `Declaration` | the life of a declared table: processes that open, create, write, archive, read and purge it (extends `Schemas`) |
| `MC*` | the instances for TLC |
| `TieringProofs` (of `Tiering` and `Readers`), `ColdTableProofs`, `RegistryProofs`, `CompletenessProofs`, `DeclarationProofs`, `WritesProofs`, `QueriesProofs` | the proofs (section 4) |
| `Counting` | what the proofs share: least counterexamples in place of induction, and sums as the sizes of what they count |

### Correspondence of `Tiering` with the code

* *Time* is counted in archival steps. A window, its partition and a clock tick are
  one number; `watermark = w` means that window `w` is the first hot one; 0 is the
  Unix epoch, where a table that was never archived stands. The rounding of
  `align_to_step` is modelled by `Unaligned` rows, for which `last + step` creates
  one partition more (`Until`).
* *A row* is one `(merge key, version)`; its value is abstracted. `hot[w]` is a set,
  because the primary key makes an insert idempotent; `cold[r]` is a count, because
  nothing in Iceberg does.
* *An archiver* is a record with a program counter: `run_once` with everything it
  calls. `AcquireLease`; `ListOrphans`, `DropOrphan`, `KeepOrphan`, `ReclaimDone`
  (`reclaim_orphans`); `EnsureAhead`; `PickWindow` (`next_window`); `WidenOverEmpty`;
  `ArchiveWindow` (the second look for a partition), `DetachPartition`,
  `LoadArchiveBase`, `ScanDetached`; `CommitAdvance`, `LoseAdvance`
  (another attempt, or the error; `append_with_summary` under `Summary::Advance`). `StopCycle` is a
  failure or a crash at any point.
* *An appender* is `append`: `BeginAppend`, `ReadBoundary`, `EnsureForAppend`,
  `InsertHot`, `TakeColdLease`, `ReconcileCold`, `LoadAppendBase`, `CommitPreserve`,
  `CommitUnheard` (landed, but the caller is told it failed), `RetryPreserve`, then
  `Acknowledge` or `Reroute`. `StopWrite` is a failure or a crash at any point; the
  same delivery may come again at any time.
* *A streamer* is a `HotWriter`: `OpenHotWriter`, `BeginStream`, `EnsureForStream`,
  `InsertStream`, `FailStream`.
* `passedOver` is history: the windows the boundary passed without a scan. No guard
  reads it.

Choices a reader should know:

* Reading the orphans, the boundary and the snapshots at the start of a reclamation
  is one step: while the lease is held nobody else changes what they say of a
  detached partition.
* `create_partition`, `detach_partition`, `drop_partition` and an insert are one
  transaction each, and one step each.
* The scan of a detached partition is one step: the relation is invisible to writers.
* A cycle takes `now` from the clock when it starts. `catch_up` passes one `now` to
  several cycles, and replicas have clocks of their own: an older `now` only makes a
  cycle refuse a detached window as not due yet and leave it to a later one.
* A drop that a pinned reader or a lock holds up is `KeepOrphan`; `Readers` adds the pins.
* `verify_schema` and `verify_archival_step` can only end a cycle before it began,
  which `StopCycle` does too. Metrics and logs are left out.


### Correspondence of the other modules with the code

`Readers` (`src/planner/provider.rs`, `split.rs`, `src/hot/postgres.rs`). A query is a
record with a program counter: `Plan` (boundary read once), `PinBoundary`, `VerifyPin`
(`reclaimed_below`), `ScanCold`, `EnumeratePartitions`, `GuardScan`, `ScanPartition` one
relation at a time by its name, `EndQuery`. The reclaimer's drop is split into
`AskForPins` and `CommitDrop`, one transaction with the rest of the system between.
`TiersStep` is any other step of `Tiering`. Two pins of one reader with the same boundary
and expiry are one record.

`ColdTable` (`src/cold/iceberg.rs`, `src/planner/resolved.rs`, `version.rs`). A snapshot is
`[parent, mark, step, at, files]`; the catalogue pointer is `meta`. `WriteDataFiles`,
`CommitLands`, `CommitDeclined`, `CommitConflict`, `CommitFails`, `DeleteFiles` are the
phases of `append_with_summary` and `discard`; `RequestApplied` is a request that lands
after its caller gave up. `AppendAndCommit` is archival, `AppendOnly` a correction,
`ChooseDoomed`, `ExpireSnapshots`, `ReassertWatermark` are expiry; `ScanCold`,
`ResolutionFromStats` a query. The library's compare-and-swap is taken from its use; one
clock dates all commits.

`Registry` (`src/erasure.rs`, `src/session/catalog.rs`). One process per kind, statement by
statement: advisory lock, lookup, check, insert; selection, row by row locking
(`WaitForRow`, `TakeRow`), write, commit. `queue` is PostgreSQL's lock queue, and
`DeadlockAbort` what it does about a circle. Tags are a hash of the identifier under a
key, so a rotated key makes another tag of the same identifier.

`Completeness` (`src/session/completeness.rs`). `Call` or `Refuse` the argument list,
`ScanRange`, `ScanRoster`, with `Deliver` between the scans. The roll-up is the operators
`Rolled`, `InForce`, `Judges`, `Shortfall`, `Silent`. A row stands for a resolved reading.

`Encoding`, `Writes`, `Predicates`, `Queries` (`src/encode`, `src/version.rs`,
`src/session/store.rs`, `series.rs`, `readings.rs`, `src/planner`). `Writes` has what
`Tiering` abstracts: values, versions, meters, sources, columns, the displacement report
and its re-authoring. In return archiving a window, a cold append and a scan of the hot
relations are one step each, which `Tiering`, `ColdTable` and `Readers` take apart. One
Marktlokation; a result in one batch; an `AsOf` question pins the newest snapshot when
asked. Which of two rows that tie in `Resolve` stays is arbitrary, as in the code. Instants count half microseconds, so that a literal can lie
between two instants of the columns; values count half of the smallest stored decimal.

`Settings`, `Schemas`, `Declaration` (`src/settings.rs`, `src/config.rs`,
`src/evolution.rs`, both tiers' DDL). A process is started from a file with `Connect` or
`Open`, goes through `CreateHot` and `CreateCold` (the halves of `create_tables`), then
writes, runs cycles (`Cycle`, `Commit`) or purges (`DropEntry`, `DeleteFiles`,
`DropParent`, `DropOrphans`), and may crash between any two. `AlterCold`, `AlterHot` and
`WidenCold` are what an operator does out of band. `told`, `purged` and `abandoned` are
history, and so are the eras and the processes they are noted with. Commit and reclamation are one step each; a cycle may see any clock.

## 3. Runs

The tiering runs have `r0`, strictly inside window 0, and `r1`, at the start of window 1.

| run | instance | checks |
|---|---|---|
| `tiering` | 1 archiver, 2 appenders of a straddling delivery, windows 0..1, clock 0..2, lag and grace 0 | `Durable`, `ReadOnce`, `StrandedOnlyWherePassedOver`, `Coherent`, `DropDestroysNothing`, `ImplementsLedger` |
| `tiering_progress` | 1 archiver, 1 appender of a late `r0`, the pin of a dead reader, windows 0..2, clock 1..4, lag 1, grace 1, fair | `TypeOK`, `NeverWedged`, `BoundaryReachesHorizon`, `ArchivedIsReclaimed` |
| `readers` | 1 archiver, 1 HotWriter, 1 reader, windows 0..1, clock 1..2, grace 0, pins of age 1 | `WholeUnlessUnguarded`, `NeverTwice`, `PinProtects` |
| `cold` | archiver, corrector, expirer, 1 query, 1 foreign commit, 4 snapshots, 4 files, 1 fault | `NothingDangling`, `BoundaryReadable`, `TwiceOnlyIfLate`, `ElisionSound`, `Reproducible`, `ImplementsColdLedger` |
| `registry` | 1 identifier, 1 registrar, 1 eraser, 1 sweeper, years 0..2, 2 keys, 2 references, 1 crash, fair | `LinkedOrAudited`, `SuppressedIsUnlinked`, `ErasureHonoured`, `DueIsSwept` |
| `completeness` | 900 tables of 2 channels over days of 2, 6 and 4 ticks, 9 argument lists, 1 late row | `MissingIsWhatIsAbsent`, `CompleteMeansDelivered`, `AbsentDayChargedOnce`, `SilentExactlyOnce` |
| `queries` | 52 stores, up to 2 concurrent writes and 1 question each, 2 windows to archive | `AcceptedIsStored`, `StoredOnce`, `AnswerTrue`, `AnswerWhole`, `FoldsOneReading`, `SourceKept`, `AuthoredTookEffect` |
| `declaration` | 2 processes, 17 files, 3 starts, 4 tables created, 1 row, 1 window | `CheckedStarts`, `DerivedAgrees`, `ValuesKeepTheirNames`, `OneMeaning`, `DeclaredWorks`, `PurgedIsGone` |
| `tiering_stranded` | 1 archiver, 1 appender, clock 0..2 | finds `AckedReadable` violated |
| `lost_archive_lease` | 2 archivers, 1 appender, the lease can be lost | finds `Durable` violated |
| `reauthored` | 1 store, 2 writers | finds `OneRowPerVersion` violated |
| `permuted` | 2 processes, 2 starts | finds `ReadUnderItsName` violated |

`ColdBelowBoundary`, `LagRespected` and the typing of `Tiering` are conjuncts of
`Coherent` and checked with it. `BoundaryNeverRetreats` follows from `ImplementsLedger`.
`Registry`, `Readers` and `Completeness` state type invariants too, which hold of the instances of
their runs and are left out of them: they would say little next to the others.

### What the passing runs show

* `tiering`: whatever is interrupted, retried or delivered again, no accepted row is
  lost or stored twice in the cold tier, none is dropped before it is cold, and the
  protocol is a ledger in which settling a window is one step.
* `tiering_progress`: a cycle that crashed after the detach is resumed by a later one;
  the boundary reaches the horizon of the last tick, although a late correction competes for
  the commit and may use up its attempts; every archived partition whose
  grace ends before the clock stops is dropped, although a reader died and
  left its pin. The grace is dated by the *first* snapshot that covers the window.
* `readers`: pins, verification, guard and failing names together make an answer whole or
  refuse it. Two exceptions are in the property because the code has them: `scan_range`
  skips its guard for a range without a start (`src/hot/postgres.rs:2430`), which is what
  a plan at the epoch boundary asks for; and a partition that was dropped and made again
  under its name between enumeration and scan answers empty. A pin taken before a drop
  asked for pins protects without exception.
* `cold`: the files of a failed commit are deleted only where no snapshot can come to name
  them; expiry and a compaction leave the boundary to be found; statistics read from a
  later snapshot than the scan's still prove its elision; a pinned session sees the past
  as it was, where the boundary it stood at can still be read.
* `registry`: an erased identifier is not linked in any year and not registered again, under
  whichever key it was recorded; sweeps and erasures wait for each other's rows and what
  is due is swept nevertheless.
* `completeness`: counting starts instead of steps is right on short and long days, for ranges
  that cut them anywhere.
* `queries`: an answer in any mode, scope, filter and fold is true, whole, of one reading
  per series and attributed as stored, with the boundary moving under both writes and
  question.
* `declaration`: two processes with different declarations, crashes and out-of-band
  changes leave both tiers with one meaning of a row; a purge reports destroyed only what
  is gone.

### Exceptions the properties make

A property that excepts something says so, because the code does otherwise there:

* `AcceptedIsStored` is not claimed of rows a HotWriter streamed: `hot_writer` documents
  the settlement lag as its margin.
* `StoredOnce` excepts a reading that one batch names twice, off the grid or in another
  spelling (cold reconciliation compares the raw `from` and identity text), and one authored
  while the boundary moved (run `reauthored`).
* `AuthoredTookEffect` excepts batches that name two meters: `merge_authored`
  (`src/session/store.rs:2563`) merges re-authored rows that agree on Marktlokation,
  version, register and extra columns, whatever their meter, unit or source, although its
  comment and `docs` promise the value is put back as it was; and readings another writer
  stored after the call last read them.
* `AnswerTrue` and `AnswerWhole` except the row at a bound that lies between two instants of
  the columns: `range_filters` cuts both ends down, so the row before a start comes back
  and the row at an end is lost, where `src/planner/predicate.rs:7` says ranges only widen.
* `TwiceOnlyIfLate`: a request applied after its caller gave up and read the table stores a
  correction twice.
* `CheckedStarts` excepts an S3 Tables warehouse that is no ARN and two tables that register
  one relation: `check` passes both.
* `DerivedAgrees` excepts an archival step that is no multiple of a minute: partition names are
  cut to the minute, while any step above the minimum is accepted.
* `ValuesKeepTheirNames` excepts answers under a permuted declaration (run `permuted`), and rows archived
  into another cold table than the one their writer had opened: a hot row whose cold table a crashed
  purge dropped is aligned to the columns of whatever table is created next, so a column added to that
  one later reads as absent.
* `DeclaredWorks` is claimed of tables made under the declaration, the hot after the cold, with no mark left of a
  purged one: `drop_table` never deletes the row of `meterstore_reclaimed`, so a table
  created again under the name may have its scans refused.
* `PurgedIsGone` excepts rows whose files a crash between the catalogue entry and the
  files orphaned (the retry finds no table and reports success), whose files another purge is still deleting, and hot rows over
  which a cold table was created again.

### The violations

Disagreements of the code with its own comments or documents, quoted in `PROJECT.json`:

1. `tiering_stranded`: `widen_over_empty` and `archive_window` ask whether there is a
   partition and commit the window as empty when there is none. An append that read the
   boundary earlier may create the partition, insert, look at the boundary again and
   return `Ok` before that commit lands. `StrandedOnlyWherePassedOver` is proved: passing a
   window without a scan is the *only* way an acknowledged row becomes invisible.
2. `lost_archive_lease`: archival outliving its lease loses a row that was acknowledged.
3. `reauthored`: a value displaced in both tiers of a moving boundary is reported twice,
   re-authored twice in one batch, and the filter of the cold append goes by reading, not
   by version: two cold rows at one version.
4. `permuted`: schemas are compared by name, but the union of the tiers moves hot columns
   by position: a column added to the cold table and listed elsewhere in the file swaps two
   values in every hot answer.

### Bounds, and why they are enough

*Tiering and readers.* Two rows in adjacent windows give every relation of a delivery to
the boundary. Two windows let a boundary move past one while the other is still hot; the
third of `tiering_progress` lets a widened window span more than one step and a partition
beyond its end exist. A clock one past the last window lets the first window be archived,
its grace run out and a second cycle reclaim it. `BoundaryAttempts` and `CommitAttempts`
are 1 or 2 (3 and 4 in the code): a retry in `tiering`, exhaustion in `tiering_progress`; no safety property depends on
the number. `MaxClock` bounds the windows that become due. `readers` starts with both rows
delivered and the first window due, since what happens before is `tiering`'s. `tiering_progress` starts with
`r1` delivered and `r0` on its way. `LastPin` ends the taking of pins.

*Cold.* Four snapshots are an archival, a correction, a compaction and a second archival in
any order, with room for expiry to remove one of the middle; a fault is a refusal, an
unheard answer or a stop.

*Registry.* One identifier is enough because locks, tags and links are per identifier; two
references let it be registered for two years or again after a sweep, two keys
are one rotation, three years let a link become due while another is not.

*Completeness.* Three days of unequal length, a channel that changes its grid at any of
them, delivers partly, twice or not at all; the ranges start and end on and off the grid.

*Queries.* Each of the fifty-two stores is built around one theme (corrections across the
boundary, rival writers, tenants, meters, sources, filters, refused deliveries, rows another
tool left), since the product of all would be out of reach. Two writers make every race of
two writes, two windows every relation to the boundary.

*Declaration.* Six accepted files (an interval table, one grown by a column, a point table
with a step of part of a minute, one with tenant, coded column and subject, an S3 bucket,
two clashing tables) and one refused file for each kind of rule. Three starts and four
created tables allow create, purge, and creation under another declaration while a second
process is still alive.

Appenders, archivers, writers and processes are interchangeable where `SYMMETRY` is used,
no definition names one, and no such run has a liveness property.

Deadlock is checked in the tiering, readers, cold and registry runs, where something can always
start again. `completeness`, `queries`, `declaration` and `permuted` count their calls, questions and starts, and really end.
### Fairness

Two runs have liveness properties, and neither assumes anything of the writers or readers:
they may stop for good anywhere, with rows half delivered and pins left behind.

`tiering_progress` (`ReadersFairness`): the clock goes on (`WF` of `Tick`); maintenance is
called for ever (`WF` of `Cycle(a)`: the loop of `src/session/maintenance.rs` runs a cycle on
every tick and carries on after a failed one); a drop that is possible again and again
is asked for and commits at some time (`SF` of `AskForPins` and `CommitDrop`: what is in
their way is a pin, which expires, or a lock a reader holds for one scan); and failures come to an
end (`<>[]` of no `Interrupted` step). A cycle that finds nothing due ends in the same
state as one that failed, so a step is a failure only when it is no step of the cycle.

`registry` (`Fairness` of `Registry`): each statement of a registration, an erasure and the
sweep is executed when PostgreSQL can execute it (`WF` each), and it breaks a circle of
waiting transactions (`WF` of `DeadlockAbort`: `deadlock_timeout`). New registrations and
erasures are not assumed; the maintenance loop calls the sweep again.

## 4. Proofs

Nothing below depends on the size of an instance: the theorems hold for any finite or infinite
set of processes, windows, lags, attempts, snapshots, keys, years, channels, days, ranges, files
and columns that the assumptions admit. TLC evaluates every assumption on the instances it checks.

| assumption | what it says, and why the code justifies it |
|---|---|
| `RowsAssumption`, `ProcessAssumption`, `BoundsAssumption` (`Tiering`) | the constants have their types, and the clock ends before windows outside the modelled time line become due |
| `ReadersAssumption` (`Readers`) | ranges are not empty, `Nobody` is not a process |
| `RegistryAssumption` (`Registry`) | the bounds are numbers, identifiers are finitely many, no process has two roles |
| `ColdAssumption` (`ColdTable`) | rows are finitely many and lie in the window they are hot in, the bounds are numbers |
| `CalendarAssumption` (`Completeness`) | days are consecutive, each ends where the next one starts and is so many whole intervals long: `balancing_day_bounds` of `src/planner/calendar.rs`, whose days are 23 to 25 hours |
| `CallsAssumption` (`Completeness`) | a store holds one resolved row per channel and start (`ResolvedTableProvider`), and the instants of rows and of accepted calls are on days the calendar knows |
| `EncodingAssumption` (`Encoding`) | the bounds are numbers; a text with a canonical spelling has one that is its own |
| `PredicatesAssumption` (`Predicates`) | filters are of the kinds `range_of` tells apart, over instants the columns can hold, and nest finitely deep (`Depth`): an expression tree is finite |
| `WritesAssumption` (`Writes`) | a store starts as writers, archival and reclaiming leave one (`IsScene`): rows on the grid in the one spelling of their columns (`IsRow`), at or above the boundary where hot and below it where cold, each once, under a declaration that can be built; a delivery has the fields of the struct and instants a timestamp can hold (`IsDelivery`) |
| `QueriesAssumption` (`Queries`) | a question has its fields; texts have a total order (`Collation`); a table has finitely many columns |
| `DeclarationAssumption`, `FilesAssumption` (`Declaration`), `SettingsAssumption` (`Settings`) | the bounds are numbers; what a file is read into has the fields of the structs of `src/settings.rs`; units are positive, and the merge key is of core columns |

| theorem | statement |
|---|---|
| `CoherentAlways` | `Spec => []Coherent` |
| `TypeCorrect` | `Spec => []TypeOK` |
| `DurableAlways` | `Spec => []Durable` |
| `ColdCopiesAlways` | `Spec => [](ReadOnce /\ ColdBelowBoundary)` |
| `StrandedAlways` | `Spec => []StrandedOnlyWherePassedOver` |
| `LagAlways` | `Spec => []LagRespected` |
| `NeverWedgedAlways` | `Spec => []NeverWedged` |
| `NothingDestroyed` | `Spec => DropDestroysNothing` |
| `BoundaryMonotone` | `Spec => BoundaryNeverRetreats` |
| `LedgerImplemented` | `Spec => ImplementsLedger` |
| `ReadersOverTiering` | `ReadersSpec => Spec` |
| `WholeAlways` | `ReadersSpec => []WholeUnlessUnguarded` |
| `NeverTwiceAlways` | `ReadersSpec => []NeverTwice` |
| `PinProtectsAlways` | `ReadersSpec => []PinProtects` |
| `ColdCoherentAlways` | `Spec => []ColdCoherent` (of `ColdTable`, as the next six) |
| `NothingDanglingAlways` | `Spec => []NothingDangling` |
| `BoundaryReadableAlways` | `Spec => []BoundaryReadable` |
| `TwiceOnlyIfLateAlways` | `Spec => []TwiceOnlyIfLate` |
| `ElisionSoundAlways` | `Spec => []ElisionSound` |
| `ReproducibleAlways` | `Spec => []Reproducible` |
| `ColdLedgerImplemented` | `Spec => ImplementsColdLedger` |
| `RegistryCoherentAlways` | `Spec => []RegistryCoherent` (of `Registry`, as the next three) |
| `LinkedOrAuditedAlways` | `Spec => []LinkedOrAudited` |
| `SuppressedIsUnlinkedAlways` | `Spec => []SuppressedIsUnlinked` |
| `ErasureHonouredAlways` | `Spec => ErasureHonoured` |
| `ReportCoherentAlways` | `Spec => []ReportCoherent` (of `Completeness`, as the next five) |
| `ReportTyped` | `Spec => []TypeOK` |
| `MissingIsWhatIsAbsentAlways` | `Spec => []MissingIsWhatIsAbsent` |
| `CompleteMeansDeliveredAlways` | `Spec => []CompleteMeansDelivered` |
| `AbsentDayChargedOnceAlways` | `Spec => []AbsentDayChargedOnce` |
| `SilentExactlyOnceAlways` | `Spec => []SilentExactlyOnce` |
| `CheckedStartsAlways` | `Spec => []CheckedStarts` (of `Declaration`, as the next two) |
| `OneMeaningAlways` | `Spec => []OneMeaning` |
| `PurgedIsGoneAlways` | `Spec => []PurgedIsGone` |
| `WritesInvariant` | `Spec => []WritesInv` (of `Queries`, as the rest) |
| `AcceptedIsAlwaysStored` | `Spec => []AcceptedIsStored` |
| `StoredAlwaysOnce` | `Spec => []StoredOnce` |
| `AnswersAlwaysTrue` | `Spec => []AnswerTrue` |
| `AnswersAlwaysWhole` | `Spec => []AnswerWhole` |

None of them uses fairness.

### Tiering: the inductive invariant

None of the promises is inductive alone. `Durable` needs to know that what is
detached below the boundary is in the cold tier; that needs what an archiver is about
to commit to be exactly the rows of the partition it detached; that needs the lease,
because a second archiver would move the boundary under the window the first one
picked. `Coherent` names these parts:

* `PartitionsCoherent`: rows sit in the partition of their window; what is detached
  is no newer than the boundary, below it also cold, at it due.
* `ArchiverInStep(a)`, for each phase: a running archiver holds the lease; its window
  starts at the boundary; its window ends within the horizon; a scan that is done
  equals the partition; an empty commit has no detached partition at the boundary.
* `WriterInStep(p)`: a writer past its reconcile holds the lease; what it is about to
  commit is below the boundary and missing from the cold tier; if its base is still
  current, its mark is the boundary.
* the promises themselves.

Every step is split by who takes it. `TieringProofs` first shows what each kind
of step may touch (`ArchiverGrows`, `WriterGrows`: boundary and snapshot only grow,
nothing stored is lost; `WriterTouches`), then that the others are left in step
(`ArchiverUndisturbed`, `WriterUndisturbed`, `OneArchiverRuns`) and that the process
itself is (`ArchiverStepArchiver`, `WriterStepSelf`). It then derives the
promises from those facts, and maps each action to a ledger action or a stutter, with
`Coherent` as its hypothesis.

### Queries over it

`ReadersOverTiering` shows that each step of `Readers` is a step of `Tiering` or leaves it
alone, so `Coherent` holds under queries. `ReadersCoherent` adds three parts per query:

* `PinInStep`: while a timely pin lives, nothing of its plan is reclaimed *and no open
  drop is about to*; the second half is what makes the first inductive, since a drop
  asks for pins some time before it commits.
* `GotInStep`: what was returned is of the cold half, or of a partition already scanned.
* `PromiseInStep`: a promised row is cold, hot, or marked as reclaimed; behind the guard, its
  partition is still to be scanned, gone by its name, or was scanned with the row in it.

The tiers' steps keep them because only a drop takes rows from the hot tier, and it leaves both
the mark and a missing name (`TiersMove`); queries do not touch each other
(`QueryLeavesOthers`); each own step has a lemma (`PlanInStep` to `EndQueryInStep`).

### The cold table

`ColdCoherent` is what every state has in common:

* `ChainCoherent`: nothing branches; boundary and rows grow along the chain; what is
  no longer live was too old; a table lists a snapshot that states the boundary (`Listed`).
* `FilesCoherent`: the files of every snapshot ever committed are stored. That is more
  than `NothingDangling` asks, and needed: expiry removes the snapshot, not yet the request
  that was built on it.
* `RunCoherent(p)`: a commit in the making has a file no snapshot names, nor the request
  nobody waits for; its base, if still current, *is* the catalogue's table (`Loaded`).
* `ArchiverCoherent`, `CorrectorCoherent`, `ExpirerCoherent`: what each is about to
  commit, in the phase it is in.
* `FlightCoherent`: a request that may still be applied says what its writer would have
  committed, and unless a retry has passed it, its rows are new.
* `QueryCoherent(q)`: what a query reads unresolved has no key twice.

The compare-and-swap makes it inductive: a commit lands only on the base it was built on
(`Proposal`, `Landing`), a late request likewise (`Applying`), and what has moved meanwhile only grew
(`RowsStay`, `ListedStays`, `CommitGrows`, `ExpiryGrows`). The walk back along the chain for the
boundary is a recursive function; that it finds it (`WalkFinds`) and what a past snapshot
stated (`ThenStated`) are shown by a least counterexample. `ElisionSound` rests on the sweep over
the statistics never counting fewer overlaps than there are (`StatsBound`, `ElidableMeansOnce`).

### The registry

Each transaction runs at READ COMMITTED: what it has read may be stale at its next statement unless
it holds a lock. `RegistryCoherent` says per process what its locks preserve:

* `RegistrarInStep`: what was found under the advisory lock still holds when it inserts.
* `EraserInStep`: an erasure past its selection has every link of its identifier before it
  or in its hands, because a registration of the same identifier waits for the lock.
* `ReferencesCoherent`: two erasures by one reference, which take no lock until they know
  whose it is, come to the same identifier.
* `RowsCoherent`, `LockExclusive`: a held row is there and has one holder.
* `LinksCoherent`, `TrailCoherent`: references are minted once; the trail names only
  keys of the ring.

`SweeperInStep` needs little: a sweep decides row by row, on rows it holds.

### The report

The steps of a report are few; its arithmetic is the difficulty. `ReportCoherent` keeps, after
the range was scanned, that the report *is* the roll-up of what was seen and one silent row per
rostered channel; the four properties are then facts about the roll-up, for any calendar:

* A day owes as many intervals as there are starts of its grid in the part the range
  covers (`ExpectedCounts`), by counting multiples of the step (`PointsCounted`).
* Every sum of the report is the size of a union of disjoint sets: rows for what was
  delivered (`TotalCounts`), starts for what is owed (`ExpectedPoints`), and for a
  shortfall as many tagged pairs as are lacking (`ShortfallCounts`, `NoneShort`). `Counting`
  shows once that adding up a family ends with the size of its union (`SumCounts`).
* The grid in force is defined day after day; `ForceModel` shows that on every day it is a
  grid of the last day before that delivered, or of the first.
* So a day without a row is judged by exactly one grid (`JudgedByOne`), which is why nothing is charged
  twice (`ExpectedTogether`) and nothing falls between two grids (`Answered`).

### A declared table

Twelve operations touch the rows, the tables and the processes. `DataStep`, `ProcStep` and
`GhostStep` say what any of them may do, and each operation is shown once to be such a step;
the invariants are then kept by those three alone.

* `DataStep`: a row of a partition was in that partition, which is never attached again; a row of the
  cold table was there, or in a partition *while the cold table was there*; or it is what a
  process writes now. What moves keeps its identity (`Kept`).
* `MeaningInv`: eras are of tables created so far, so a table made anew is of an era no process
  has verified and no row carries; a process that verified the table there now runs a declaration
  that agrees with it. `OneMeaning` follows: a write takes its key and its end from that declaration.
* `GoneInv`: what makes a purge's report true is the order of its steps. Once the catalogue's entry is
  dropped, its rows are out of the cold table, and can come back only through a table created over
  the partitions, which is the exception (`NotCold`). Once the parent is dropped, they are in no
  partition attached (`NotAttached`), so what the orphans' drop leaves holds none of them.
  `BeingDeleted` accounts for the files until their purge deletes them or a crash orphans them.
* `CheckedStarts` is inductive with the shape of the processes: what connecting refuses that
  `check` accepts is read off the two sets of rules (`AcceptedOpens`).

### What is accepted is stored

`append` narrows, encodes, sorts and splits sequences, so a batch is followed by the *places* of its
values, a delivery and a position in it. A narrowed batch holds the places its filter keeps
(`NarrowPlaces`), encoding makes one row of each or fails (`EncodedPlaces`), sorting permutes them
(`ArrangedRearranges`). `WritesInv` is inductive:

* `StoreOk`: every row is one of the table, on the grid; the cold files lie below the boundary,
  which is a multiple of the step; what is detached is below it.
* `CallsOk`: each call has a batch, a part still to be written, reports of what it displaced, and the
  base it was routed at, never above the boundary.
* `Landed(w)`: after the insert, each value at or above the base is stored *or the boundary has passed
  it*; after the cold append, each value below the base is stored. The exception is what the second
  look at the boundary is for: a call returns only when it finds it unmoved, and is routed again otherwise.

Archival moves rows and keeps them visible; reclaiming drops what is also cold (`DropStore`).

### What is answered

`QueriesInv` adds to it

* `StoreKept`: the boundary never falls below the scene's, a hot row whose relation is
  detached is cold as well, and the primary key holds in the hot tier;
* `QueriesOk`: for each query, that every row visible when the question was asked
  is in the files the query will read, or at or above the boundary it is planned at and still hot.

*Whole* (`AnswersAlwaysWhole`). A row in force that the question asks for lies in the range read off the
filters (`RangeOf` never narrows: induction over nesting, by a least counterexample on `Depth`), in
exactly one half of the split (`Halved`), and is brought by that half's scan. Resolution drops it
only for a higher version, or for another row of its version; both would make it `Overtaken`.

*True* (`AnswersAlwaysTrue`). Resolution leaves no row that another scanned row outranks, and what was
visible was scanned. Where the file statistics have resolution skipped, `Elidable` shows one
version, which means one row only if the cold tier stores it once. Hence

*Once* (`StoredAlwaysOnce`), with an invariant of its own. For a reading that every
batch names at most once and plainly, `KeyInv` says that the cold files have it once at each version
(`UniqueAt`) and, of each call, that it names the reading at most once, has reported it displaced
at most once since its last round, and that by the hot half only where the reading is not
the cold half's to write (`KeyCall`). The report is what a call authors again, so a reading
reported twice would be written twice at one version, past the filter of the cold append, which looks at
the store and not at the batch. That is what the run `reauthored` shows happening to a call that was
routed twice, and why `PlainlyNamed` excepts it.

### Only model-checked

* Liveness (`BoundaryReachesHorizon`, `ArchivedIsReclaimed`, `DueIsSwept`): out of the
  prover's reach.
* `ValuesKeepTheirNames`, `DerivedAgrees` and `DeclaredWorks` of `Declaration`: they compare the
  positions of columns in sequences that the library's folds and selections build.
* `FoldsOneReading`, `SourceKept` and `AuthoredTookEffect` of `Queries`: the first two are about what the library's
  `SortSeq`, `SelectSeq` and folds make of the rows of an answer. The provers know
  nothing of these operators, and what one computes for every input needs induction over an operator,
  which they cannot instantiate. The proofs above avoid it by unfolding one named
  recursion each, and by taking a listing of a set for *some* sequence of its elements.
* Leases that vanish, where `Coherent` does not hold; and the violations.

## 5. Not modelled, and the plan

* `src/session/udf.rs`: SQL functions are per-row computations over columns `Queries` reads
  already; DataFusion, which calls them, is a library.
* `src/cli`, `src/serve`, `src/observe.rs`, `src/error.rs`: argument parsing, rendering, thin servers and
  metrics over calls that are modelled. `src/testkit`: test data.
* The text of SQL statements, Arrow and Parquet encodings, manifests and object-store
  retries of the Iceberg library, connection pools. A lease whose release fails goes
  back to the pool with its connection (`src/hot/postgres.rs:1942`): its effect, a lock
  nobody holds on purpose, is an archiver that does not run.
* The order in which the maintenance loop visits stores, its shutdown and its reports:
  runs of one table do not see another's. The check of subject references on the write
  path reads one table the registry module has no writer for.
* Values beyond what comparisons tell apart: units, quality grades and decimal arithmetic
  outside the folds.

What would come next: that a value keeps its name when it is archived
(`ValuesKeepTheirNames`), from the columns a row and its table have at each move; and
`AuthoredTookEffect`, from what a call knows of the highest version stored at each of its rounds.

### Noticed while modelling, not claimed by a run

* The sweep erases every link of a reference while `src/session/catalog.rs:651` speaks of one
  collection year.
* `anonymise_across` fails for a deployment in which no store declares a subject column.
* After expiry took the last archival snapshot, the step of the committed windows is no longer
  found and `verify_archival_step` passes silently (`src/tiering/archive.rs:633`).
* The lease is released after each `run_once`, so snapshot expiry may run on two replicas
  although `src/session/maintenance.rs:457` gives it to the winner; compare-and-swap keeps that harmless.
* A channel that changes its grid within a day has both grids reported short.
