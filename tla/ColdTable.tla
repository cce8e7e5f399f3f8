------------------------------ MODULE ColdTable ------------------------------
(***************************************************************************)
(* The Iceberg table: a chain of snapshots behind one pointer that moves   *)
(* by compare-and-swap.  Three runs of MeterStore commit to it (archival,  *)
(* a late correction, snapshot expiry), an out-of-band compaction does,    *)
(* and queries read it, judging from file statistics whether the rows of   *)
(* a range need version resolution.                                        *)
(*                                                                         *)
(* A `from` instant is a window, and a mark is the first window not yet    *)
(* archived.                                                               *)
(***************************************************************************)
EXTENDS Naturals, Sequences, FiniteSets

CONSTANTS
  Rows,        \* rows that exist: [malo, from, version]
  Hot,         \* Hot[w]: the rows the hot tier holds of window w, one entry per window
  Queries,     \* concurrent queries
  Ranges,      \* the ranges they ask for, each a pair of windows, the end left out
  Attempts,    \* COMMIT_ATTEMPTS
  RetainFor,   \* snapshot_retention, in ticks
  RetainLast,  \* min_snapshots_to_keep
  MaxSnaps,    \* bound: snapshots ever committed
  MaxForeign,  \* bound: commits by other tools
  MaxFiles,    \* bound: data files ever written
  MaxClock,    \* bound: ticks
  MaxFaults,   \* bound: commits that fail, runs that stop
  None         \* no mark, no step, no request

Writers == {"archiver", "corrector", "expirer"}
Windows == DOMAIN Hot

ASSUME ColdAssumption ==
  /\ IsFiniteSet(Rows)
  /\ \A r \in Rows : /\ r = [malo |-> r.malo, from |-> r.from, version |-> r.version]
                     /\ r.from \in Nat /\ r.version \in Nat
  /\ \A w \in Windows : Hot[w] \subseteq {r \in Rows : r.from = w}
  /\ Windows \subseteq Nat /\ Ranges \subseteq Nat \X Nat /\ Attempts \in Nat \ {0}
  /\ RetainFor \in Nat /\ RetainLast \in Nat
  /\ \A n \in {MaxSnaps, MaxForeign, MaxFiles, MaxClock, MaxFaults} : n \in Nat
  /\ None \notin Nat

VARIABLES
  snaps,    \* every snapshot ever committed, in order; its position is its id
  meta,     \* what the catalogue points at: a version, the current snapshot, the live ones
  file,     \* the data files ever written: their rows, and whether they record a span
  stored,   \* the data files that are in object storage
  run,      \* run[p]: the commit p is making
  flight,   \* a commit request nobody waits for and the catalogue may still apply
  query,    \* query[q]: a plan over the cold tier
  clock,    \* the time of commits
  faults,   \* failures so far, for their bound
  late      \* history: a request was applied after a correction had looked past it

vars == <<snaps, meta, file, stored, run, flight, query, clock, faults, late>>

Idle      == [pc |-> "idle", advance |-> FALSE, rows |-> {}, to |-> 0, file |-> 0,
              base |-> [version |-> 0, current |-> 0, live |-> {}], attempt |-> 0,
              kept |-> {}, doomed |-> {}]
Unplanned == [pc |-> "idle", range |-> <<0, 0>>, snap |-> 0, elided |-> FALSE]

Init ==
  /\ snaps = <<>> /\ meta = Idle.base
  /\ file = <<>> /\ stored = {}
  /\ run = [p \in Writers |-> Idle]
  /\ flight = None
  /\ query = [q \in Queries |-> Unplanned]
  /\ clock = 0 /\ faults = 0 /\ late = FALSE

-----------------------------------------------------------------------------
(* What a loaded table says.                                                *)

Lowest(S)  == CHOOSE n \in S : \A m \in S : n <= m
Highest(S) == CHOOSE n \in S : \A m \in S : m <= n

FilesOf(id) == IF id = 0 THEN {} ELSE snaps[id].files
RowsOf(id)  == UNION {file[f].rows : f \in FilesOf(id)}

\* The walk along the parents stops at the first snapshot that says, or at a hole.
SummaryProperty(table, key) ==
  LET found[id \in 0..Len(snaps)] ==
        IF id \notin table.live THEN None
        ELSE IF snaps[id][key] # None THEN snaps[id][key] ELSE found[snaps[id].parent]
  IN  found[table.current]

WatermarkOf(table) == IF table.current = 0 THEN 0 ELSE SummaryProperty(table, "mark")
ArchivalStepOf(table) == SummaryProperty(table, "step")

\* A mistake a mutant makes: an instant before the history is given its beginning.
SnapshotAtOrOldest(table, instant) ==
  LET at == {id \in table.live : snaps[id].at <= instant}
  IN  IF at # {} THEN Highest(at) ELSE IF table.live # {} THEN Lowest(table.live) ELSE 0

\* Ordered by time and then by id, which for one clock is the order of commit.
SnapshotAt(table, instant) ==
  LET at == {id \in table.live : snaps[id].at <= instant}
  IN  IF at = {} THEN 0 ELSE Highest(at)

\* What a session pinned to a snapshot takes for its boundary: the first that the
\* listed snapshots state from the pinned one back, and none archived if none does.
PinnedWatermark(table, id) ==
  LET stating == {s \in table.live : s <= id /\ snaps[s].mark # None}
  IN  IF stating = {} THEN 0 ELSE snaps[Highest(stating)].mark

-----------------------------------------------------------------------------
(* append_with_summary                                                      *)

Set(p, new) == run' = [run EXCEPT ![p] = new]
Leave(p)    == Set(p, Idle)

\* Strictly forwards for archival, as found for everything else.
MarkFor(p) ==
  LET mark == WatermarkOf(run[p].base)
  IN  IF ~run[p].advance THEN mark
      ELSE IF mark # None /\ run[p].to > mark THEN run[p].to ELSE None

\* A mistake a mutant makes: the commit is applied to whatever is current.
AnyOlderBase(base) == base.version <= meta.version

\* The catalogue accepts a commit only on the base it was derived from.
CurrentBase(base) == base.version = meta.version

Proposed(p) ==
  [parent |-> run[p].base.current, mark |-> MarkFor(p),
   step   |-> IF run[p].advance THEN 1 ELSE None,
   files  |-> FilesOf(run[p].base.current) \union ({run[p].file} \ {0}),
   at     |-> clock]

Commit(snapshot) ==
  /\ snaps' = Append(snaps, snapshot)
  /\ meta' = [version |-> meta.version + 1, current |-> Len(snaps) + 1,
              live |-> meta.live \union {Len(snaps) + 1}]

\* A mistake a mutant makes: no answer is taken for a no.
AnyErrorRefuses(answer) == answer # "ok"

\* Whether the files of a failed commit may go: only on an answer that says no.
Refused(answer) == answer # "unknown"

Discard(p) == IF run[p].file = 0 THEN Leave(p) ELSE Set(p, [run[p] EXCEPT !.pc = "discard"])

\* The table is loaded, then the files are written once for all attempts.
WriteDataFiles(p) ==
  /\ run[p].pc = "write"
  /\ IF run[p].rows = {}
     THEN /\ Set(p, [run[p] EXCEPT !.pc = "commit", !.base = meta])
          /\ UNCHANGED <<file, stored>>
     ELSE /\ Len(file) < MaxFiles
          /\ file' = Append(file, [rows |-> run[p].rows, spanned |-> TRUE])
          /\ stored' = stored \union {Len(file) + 1}
          /\ Set(p, [run[p] EXCEPT !.pc = "commit", !.base = meta, !.file = Len(file) + 1])
  /\ UNCHANGED <<snaps, meta, flight, query, clock, faults, late>>

CommitLands(p) ==
  /\ run[p].pc = "commit" /\ MarkFor(p) # None
  /\ CurrentBase(run[p].base) /\ Len(snaps) < MaxSnaps
  /\ Commit(Proposed(p))
  /\ IF p = "expirer" THEN Set(p, [run[p] EXCEPT !.pc = "choose"]) ELSE Leave(p)
  /\ UNCHANGED <<file, stored, flight, query, clock, faults, late>>

\* The window is committed already, or no boundary can be found: an error, and the
\* files stay behind.
CommitDeclined(p) ==
  /\ run[p].pc = "commit" /\ MarkFor(p) = None
  /\ Leave(p)
  /\ UNCHANGED <<snaps, meta, file, stored, flight, query, clock, faults, late>>

CommitConflict(p) ==
  /\ run[p].pc = "commit" /\ MarkFor(p) # None /\ ~CurrentBase(run[p].base)
  /\ IF run[p].attempt + 1 < Attempts
     THEN Set(p, [run[p] EXCEPT !.base = meta, !.attempt = @ + 1])
     ELSE Discard(p)
  /\ UNCHANGED <<snaps, meta, file, stored, flight, query, clock, faults, late>>

\* Any other failure. One that does not say leaves a request behind that may yet land.
CommitFails(p) ==
  /\ run[p].pc = "commit" /\ MarkFor(p) # None
  /\ faults < MaxFaults /\ faults' = faults + 1
  /\ \E answer \in {"refused", "unknown"} :
       /\ answer = "unknown" => flight = None
       /\ IF Refused(answer) THEN Discard(p) ELSE Leave(p)
       /\ flight' = IF answer = "unknown"
                    THEN [base |-> run[p].base, snapshot |-> Proposed(p),
                          rows |-> run[p].rows, passed |-> FALSE]
                    ELSE flight
  /\ UNCHANGED <<snaps, meta, file, stored, query, clock, late>>

\* The answer was lost and not the request, or the request is applied much later, or
\* never.
RequestApplied ==
  /\ flight # None /\ CurrentBase(flight.base) /\ Len(snaps) < MaxSnaps
  /\ Commit([flight.snapshot EXCEPT !.at = clock])
  /\ flight' = None
  /\ late' = (late \/ flight.passed)
  /\ UNCHANGED <<file, stored, run, query, clock, faults>>

-----------------------------------------------------------------------------
(* discard                                                                  *)

ReferencedPaths(p) ==
  /\ run[p].pc = "discard"
  /\ Set(p, [run[p] EXCEPT !.pc = "delete", !.kept = FilesOf(meta.current)])
  /\ UNCHANGED <<snaps, meta, file, stored, flight, query, clock, faults, late>>

DeleteFiles(p) ==
  /\ run[p].pc = "delete"
  /\ stored' = stored \ ({run[p].file} \ run[p].kept)
  /\ Leave(p)
  /\ UNCHANGED <<snaps, meta, file, flight, query, clock, faults, late>>

\* A reload that fails, a delete that fails, an error on the way, a crash.
Stop(p) ==
  /\ run[p].pc # "idle" /\ Leave(p)
  /\ faults < MaxFaults /\ faults' = faults + 1
  /\ UNCHANGED <<snaps, meta, file, stored, flight, query, clock, late>>

-----------------------------------------------------------------------------
(* The three runs.                                                          *)

\* Archival takes the window at the mark it reads.
AppendAndCommit ==
  LET mark == WatermarkOf(meta)
  IN  /\ run["archiver"].pc = "idle" /\ mark \in Windows
      /\ Set("archiver", [Idle EXCEPT !.pc = "write", !.advance = TRUE,
                                      !.rows = Hot[mark], !.to = mark + 1])
      /\ UNCHANGED <<snaps, meta, file, stored, flight, query, clock, faults, late>>

\* A mistake a mutant makes: nothing is looked up.
Unreconciled == {r \in Rows : r.from < WatermarkOf(meta)}

\* What a correction of settled rows may bring that the table does not hold.
Missing == {r \in Rows : r.from < WatermarkOf(meta)} \ RowsOf(meta.current)

\* A late correction writes what it does not find, under the cold-append lease.
AppendOnly ==
  /\ run["corrector"].pc = "idle" /\ meta.current # 0 /\ WatermarkOf(meta) # None
  /\ \E new \in SUBSET Missing :
       /\ new # {}
       /\ Set("corrector", [Idle EXCEPT !.pc = "write", !.rows = new])
  /\ flight' = IF flight = None THEN None
               ELSE [flight EXCEPT !.passed = @ \/ flight.rows \cap run'["corrector"].rows # {}]
  /\ UNCHANGED <<snaps, meta, file, stored, query, clock, faults, late>>

\* expire_snapshots, which restates the boundary first where the current snapshot
\* does not.
ReassertWatermark ==
  /\ run["expirer"].pc = "idle" /\ meta.current # 0
  /\ Set("expirer", [Idle EXCEPT !.pc = IF snaps[meta.current].mark # None THEN "choose" ELSE "write"])
  /\ UNCHANGED <<snaps, meta, file, stored, flight, query, clock, faults, late>>

\* A mistake a mutant makes: the newest snapshots are all that is kept.
NewestOnly(table) == {id \in table.live : \A other \in table.live : other <= id}

\* The path from the current snapshot back to the first that states the boundary,
\* and the newest ones.
Protected(table) ==
  LET path[id \in 0..Len(snaps)] ==
        IF id \notin table.live THEN {}
        ELSE IF snaps[id].mark # None THEN {id} ELSE {id} \union path[snaps[id].parent]
      newest == {id \in table.live :
                   Cardinality({other \in table.live : other > id})
                     < (IF RetainLast = 0 THEN 1 ELSE RetainLast)}
  IN  path[table.current] \union newest

\* `now` is the caller's; an older one than this spares more.
TooOld(table) == {id \in table.live : snaps[id].at + RetainFor < clock}

ChooseDoomed ==
  /\ run["expirer"].pc = "choose"
  /\ LET doomed == TooOld(meta) \ Protected(meta)
     IN  IF doomed = {} THEN Leave("expirer")
         ELSE Set("expirer", [run["expirer"] EXCEPT !.pc = "expire", !.base = meta,
                                                    !.doomed = doomed])
  /\ UNCHANGED <<snaps, meta, file, stored, flight, query, clock, faults, late>>

ExpireSnapshots ==
  /\ run["expirer"].pc = "expire"
  /\ meta' = IF CurrentBase(run["expirer"].base)
             THEN [meta EXCEPT !.version = @ + 1, !.live = @ \ run["expirer"].doomed]
             ELSE meta
  /\ Leave("expirer")
  /\ UNCHANGED <<snaps, file, stored, flight, query, clock, faults, late>>

-----------------------------------------------------------------------------
(* Queries.                                                                 *)

\* A range wholly below the boundary of the plan; the cold scan loads the table and
\* pins what it finds.
ScanCold(q) ==
  /\ query[q].pc = "idle" /\ meta.current # 0 /\ WatermarkOf(meta) # None
  /\ \E range \in Ranges :
       /\ range[2] <= WatermarkOf(meta)
       /\ query' = [query EXCEPT ![q] = [pc |-> "judge", range |-> range,
                                         snap |-> meta.current, elided |-> FALSE]]
  /\ UNCHANGED <<snaps, meta, file, stored, run, flight, clock, faults, late>>

\* What the manifest says of a file; "none" where it records no span of `from`.
FileStats(f) ==
  LET versions == {r.version : r \in file[f].rows}
      froms    == {r.from : r \in file[f].rows}
  IN  [min |-> Lowest(versions), max |-> Highest(versions), spanned |-> file[f].spanned,
       lo  |-> Lowest(froms), hi |-> Highest(froms)]

VersionStats(id, range) ==
  {s \in {FileStats(f) : f \in FilesOf(id)} :
     ~s.spanned \/ ~(s.hi < range[1] \/ s.lo >= range[2])}

\* In the order the files begin, a run breaks where one begins after all those before
\* it have ended.
RunStarts(stats) ==
  {t.lo : t \in {t \in stats : \A s \in stats : s.lo < t.lo => s.hi < t.lo}}

\* A run is of one version.
SweepHolds(stats) ==
  \A s, t \in stats : s.lo <= t.lo /\ s.min # t.min =>
    \E start \in RunStarts(stats) : s.lo < start /\ start <= t.lo

\* A mistake a mutant makes: files of one version each are not compared.
OneVersionPerFile(stats) == \A s \in stats : s.min = s.max

\* planner::version::plan: TRUE where no key can come twice.
Elidable(stats) ==
  /\ \A s \in stats : s.min = s.max
  /\ IF \A s \in stats : s.spanned THEN SweepHolds(stats)
     ELSE \A s, t \in stats : s.min = t.min

\* Read after the scan was built; statistics that cannot be read prove nothing, and a
\* query that resolves has no more to ask of them.
ResolutionFromStats(q) ==
  /\ query[q].pc = "judge"
  /\ \E read \in BOOLEAN :
       LET elided == read /\ Elidable(VersionStats(meta.current, query[q].range))
       IN  query' = [query EXCEPT ![q] =
                       IF elided THEN [@ EXCEPT !.pc = "done", !.elided = TRUE] ELSE Unplanned]
  /\ UNCHANGED <<snaps, meta, file, stored, run, flight, clock, faults, late>>

EndQuery(q) ==
  /\ query[q].pc = "done" /\ query' = [query EXCEPT ![q] = Unplanned]
  /\ UNCHANGED <<snaps, meta, file, stored, run, flight, clock, faults, late>>

-----------------------------------------------------------------------------
(* Other tools.                                                             *)

\* A compaction rewrites some files into one, with or without statistics, and knows
\* nothing of marks.
ForeignCompaction ==
  /\ meta.current # 0 /\ Len(snaps) < MaxSnaps /\ Len(file) < MaxFiles
  /\ Cardinality({id \in DOMAIN snaps : snaps[id].mark = None}) < MaxForeign
  /\ \E some \in SUBSET FilesOf(meta.current), spanned \in BOOLEAN :
       /\ Cardinality(some) > 1
       /\ \A f, g \in some : f # g => file[f].rows \cap file[g].rows = {}
       /\ file' = Append(file, [rows |-> UNION {file[f].rows : f \in some}, spanned |-> spanned])
       /\ stored' = stored \union {Len(file) + 1}
       /\ Commit([parent |-> meta.current, mark |-> None, step |-> None, at |-> clock,
                  files |-> (FilesOf(meta.current) \ some) \union {Len(file) + 1}])
  /\ UNCHANGED <<run, flight, query, clock, faults, late>>

Tick ==
  /\ clock < MaxClock /\ clock' = clock + 1
  /\ UNCHANGED <<snaps, meta, file, stored, run, flight, query, faults, late>>

-----------------------------------------------------------------------------

CommitStep(p) ==
  \/ WriteDataFiles(p) \/ CommitLands(p) \/ CommitDeclined(p) \/ CommitConflict(p)
  \/ CommitFails(p) \/ ReferencedPaths(p) \/ DeleteFiles(p) \/ Stop(p)

QueryStep(q) ==
  ScanCold(q) \/ ResolutionFromStats(q) \/ EndQuery(q)

Next ==
  \/ \E p \in Writers : CommitStep(p)
  \/ AppendAndCommit \/ AppendOnly
  \/ ReassertWatermark \/ ChooseDoomed \/ ExpireSnapshots
  \/ \E q \in Queries : QueryStep(q)
  \/ RequestApplied \/ ForeignCompaction \/ Tick

Spec == Init /\ [][Next]_vars

-----------------------------------------------------------------------------
(* Properties.                                                              *)

\* A failed commit deletes its files only where no snapshot can ever come to name
\* them: whatever was refused, conflicted, unheard of or applied late, every file of
\* a live snapshot is in object storage (iceberg.rs, discard).
NothingDangling == \A id \in meta.live : snaps[id].files \subseteq stored

\* Expiry and other tools' commits leave the boundary to be found, and it is the
\* furthest that was ever committed; the archival step is found as long as any
\* archival snapshot is left (expire_snapshots, reassert_watermark, summary_property).
BoundaryReadable ==
  /\ \A id \in DOMAIN snaps :
       snaps[id].mark # None => /\ WatermarkOf(meta) # None
                                /\ snaps[id].mark <= WatermarkOf(meta)
  /\ (\E id \in meta.live : snaps[id].step # None) => ArchivalStepOf(meta) # None

\* No row is in two files of a snapshot, unless a request that had been given up was
\* applied after a retry had looked for its rows (append_with_summary, reconcile_cold).
TwiceOnlyIfLate ==
  \A id \in meta.live : \A f, g \in snaps[id].files :
    f # g /\ file[f].rows \cap file[g].rows # {} => late

\* Where a query reads the files as they are, no key comes twice: the statistics,
\* though read from a later snapshot than the scan's, prove it of what the scan reads
\* (resolved.rs, version.rs).
ElisionSound ==
  \A q \in Queries : query[q].pc = "done" /\ query[q].elided =>
    LET read == {r \in RowsOf(query[q].snap) :
                   query[q].range[1] <= r.from /\ r.from < query[q].range[2]}
    IN  /\ \A r, s \in read : r.malo = s.malo /\ r.from = s.from => r = s
        /\ \A r \in read : late \/
             Cardinality({f \in FilesOf(query[q].snap) : r \in file[f].rows}) = 1

\* The boundary the table stood at when a snapshot was committed.
BoundaryThen ==
  LET then[id \in DOMAIN snaps] ==
        IF snaps[id].mark # None THEN snaps[id].mark
        ELSE IF snaps[id].parent = 0 THEN 0 ELSE then[snaps[id].parent]
  IN  then

\* What is answered for a past instant is the table as it stood then, and nothing
\* committed within the retention is gone; where a boundary can still be read back
\* from it, it is the one it stood at (resolve_snapshot, expire_snapshots, as_of).
Reproducible ==
  /\ \A instant \in 0..clock :
       SnapshotAt(meta, instant) \in
         {0} \union {id \in DOMAIN snaps : /\ snaps[id].at <= instant
                                         /\ \A other \in DOMAIN snaps :
                                              snaps[other].at <= instant => other <= id}
  /\ \A id \in DOMAIN snaps : snaps[id].at + RetainFor >= clock => id \in meta.live
  /\ \A id \in meta.live : PinnedWatermark(meta, id) \in {0, BoundaryThen[id]}

\* The chain, its conflicts, its expiry and its compactions are one boundary and one
\* set of rows, which move together.
Ledger == INSTANCE ColdLedger WITH boundary <- WatermarkOf(meta), rows <- RowsOf(meta.current)
ImplementsColdLedger == Ledger!Spec

-----------------------------------------------------------------------------
(* Why the table keeps the promises: what holds between any two steps.      *)

Phases    == {"idle", "write", "commit", "discard", "delete", "choose", "expire"}
Tables    == [version : Nat, current : Nat, live : SUBSET Nat]
Snapshots == [parent : Nat, mark : Nat \union {None}, step : {1, None},
              files : SUBSET Nat, at : Nat]
Files     == [rows : SUBSET Rows, spanned : BOOLEAN]
Runs      == [pc : Phases, advance : BOOLEAN, rows : SUBSET Rows, to : Nat, file : Nat,
              base : Tables, attempt : Nat, kept : SUBSET Nat, doomed : SUBSET Nat]
Requests  == [base : Tables, snapshot : Snapshots, rows : SUBSET Rows, passed : BOOLEAN]
Plans     == [pc : {"idle", "judge", "done"}, range : Ranges \union {<<0, 0>>},
              snap : Nat, elided : BOOLEAN]

TypeOK ==
  /\ snaps \in Seq(Snapshots) /\ meta \in Tables
  /\ file \in Seq(Files) /\ stored \subseteq Nat
  /\ run \in [Writers -> Runs] /\ flight \in Requests \union {None}
  /\ query \in [Queries -> Plans]
  /\ clock \in Nat /\ faults \in Nat /\ late \in BOOLEAN

\* What a table lists, then or now: the snapshots from one on to its current one, and
\* one that states the boundary among them.
Listed(table) ==
  /\ table.current <= Len(snaps) /\ table.live \subseteq 1..table.current
  /\ \A id \in table.live : id..table.current \subseteq table.live
  /\ table.current # 0 => \E id \in table.live : snaps[id].mark # None

\* A table that was loaded and is still at the catalogue's version is what it points at.
Loaded(table) ==
  /\ Listed(table) /\ table.version <= meta.version
  /\ CurrentBase(table) => table = meta

\* The chain: nothing branches, the boundary and the rows only grow along it, and what
\* expiry took from it was too old.
ChainCoherent ==
  /\ meta.current = Len(snaps) /\ Listed(meta)
  /\ Len(snaps) # 0 => snaps[1].mark # None
  /\ \A id \in DOMAIN snaps :
       /\ snaps[id].parent + 1 = id /\ snaps[id].at <= clock
       /\ id \notin meta.live => snaps[id].at + RetainFor < clock
       /\ snaps[id].mark # None => snaps[id].mark <= WatermarkOf(meta)
  /\ \A id, next \in DOMAIN snaps : id <= next =>
       /\ snaps[id].at <= snaps[next].at
       /\ RowsOf(id) \subseteq RowsOf(next)
       /\ snaps[id].mark # None /\ snaps[next].mark # None => snaps[id].mark <= snaps[next].mark

\* No file is empty; the files of a snapshot, live or expired, are there, no two of them
\* hold a row, and no row is beyond the boundary.
FilesCoherent ==
  /\ stored \subseteq DOMAIN file /\ \A f \in DOMAIN file : file[f].rows # {}
  /\ \A id \in DOMAIN snaps :
       /\ snaps[id].files \subseteq stored
       /\ \A f, g \in snaps[id].files :
            f # g /\ file[f].rows \cap file[g].rows # {} => late
  /\ \A r \in RowsOf(meta.current) : r.from < WatermarkOf(meta)

\* What a file holds, where there is one.
Held(f) == IF f = 0 THEN {} ELSE file[f].rows

\* Rows the table does not hold yet, unless a request was applied too late.
New(some) == late \/ some \cap RowsOf(meta.current) = {}

Settled(some) == \A r \in some : r.from < WatermarkOf(meta)

\* A commit in the making: no snapshot names its file, which is its own.
RunCoherent(p) ==
  /\ Loaded(run[p].base)
  /\ run[p].file # 0 =>
       /\ run[p].file \in DOMAIN file /\ file[run[p].file].rows = run[p].rows
       /\ run[p].rows # {}
       /\ \A id \in DOMAIN snaps : run[p].file \notin snaps[id].files
       /\ \A q \in Writers : q # p => run[q].file # run[p].file
       /\ flight # None => run[p].file \notin flight.snapshot.files
       /\ run[p].pc \in {"commit", "discard", "delete"}
  /\ run[p].pc = "commit" => /\ run[p].rows = Held(run[p].file)
                             /\ run[p].file # 0 => run[p].file \in stored
  /\ run[p].pc = "idle" => run[p] = Idle

\* Only archival advances, by the window it found at the boundary.
ArchiverCoherent ==
  LET r == run["archiver"]
  IN  r.pc # "idle" => \E w \in Windows : /\ r.advance /\ r.to = w + 1 /\ r.rows = Hot[w]
                                          /\ w <= WatermarkOf(meta)
                                          /\ r.pc \in {"write", "commit", "discard", "delete"}

CorrectorCoherent ==
  LET r == run["corrector"]
  IN  r.pc # "idle" => /\ ~r.advance /\ meta.current # 0 /\ Settled(r.rows) /\ New(r.rows)
                       /\ r.pc \in {"write", "commit", "discard", "delete"}

\* What expiry means to remove is too old, and leaves a table that lists its boundary.
ExpirerCoherent ==
  LET r == run["expirer"]
  IN  r.pc # "idle" =>
        /\ ~r.advance /\ r.rows = {} /\ meta.current # 0
        /\ r.pc = "expire" => /\ r.doomed \subseteq r.base.live
                              /\ \A id \in r.doomed : snaps[id].at + RetainFor < clock
                              /\ Listed([r.base EXCEPT !.live = @ \ r.doomed])

\* A request that may still be applied says what its writer would have committed.
FlightCoherent ==
  flight # None =>
    /\ Loaded(flight.base)
    /\ flight.snapshot.parent = flight.base.current
    /\ flight.snapshot.files \subseteq stored
    /\ CurrentBase(flight.base) =>
         /\ \E f \in 0..Len(file) :
              /\ flight.snapshot.files = FilesOf(meta.current) \union ({f} \ {0})
              /\ flight.rows = Held(f)
         /\ \/ /\ WatermarkOf(meta) \in Windows /\ flight.rows = Hot[WatermarkOf(meta)]
               /\ flight.snapshot.mark = WatermarkOf(meta) + 1
            \/ /\ meta.current # 0 /\ flight.snapshot.mark = WatermarkOf(meta)
               /\ Settled(flight.rows)
               /\ ~flight.passed => /\ New(flight.rows)
                                    /\ flight.rows \cap run["corrector"].rows = {}

\* What a query reads as it is has no key twice.
QueryCoherent(q) ==
  query[q].pc # "idle" =>
    /\ query[q].range \in Ranges /\ query[q].snap \in DOMAIN snaps
    /\ query[q].pc = "done" =>
         \A r, s \in RowsOf(query[q].snap) :
           /\ query[q].range[1] <= r.from /\ r.from < query[q].range[2]
           /\ r.malo = s.malo /\ r.from = s.from
           => r = s

ColdCoherent ==
  /\ TypeOK /\ ChainCoherent /\ FilesCoherent /\ Loaded(Idle.base)
  /\ \A p \in Writers : RunCoherent(p)
  /\ ArchiverCoherent /\ CorrectorCoherent /\ ExpirerCoherent
  /\ FlightCoherent /\ \A q \in Queries : QueryCoherent(q)
=============================================================================
