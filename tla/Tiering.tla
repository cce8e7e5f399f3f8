------------------------------ MODULE Tiering ------------------------------
(***************************************************************************)
(* One table of the store: the PostgreSQL hot tier, the Iceberg cold tier, *)
(* the archiver that moves settled windows from one to the other, and the  *)
(* writers that route every row by the boundary between them.              *)
(*                                                                         *)
(* Time is counted in archival steps, so a window, a hot partition and a   *)
(* clock tick are all one number; the boundary `watermark` is the first    *)
(* window the hot tier still owns, and 0 is the Unix epoch, where a table  *)
(* that was never archived stands.                                         *)
(*                                                                         *)
(* Every remote call (an SQL transaction, a catalogue load, a catalogue    *)
(* commit) is a step of its own, because everything else can happen        *)
(* between two of them.  A row stands for one (merge key, version): what a *)
(* row says is not modelled here, only where it is stored.                 *)
(***************************************************************************)
EXTENDS Integers

CONSTANTS
  Rows,              \* the (merge key, version) pairs that may be written
  WindowOf,          \* WindowOf[r]: the window the row's `from` falls in
  Unaligned,         \* the rows whose `from` is strictly inside its window
  Deliveries,        \* the sets of rows one append call may carry
  Archivers,         \* processes that run archival cycles
  Appenders,         \* processes that call append
  Streamers,         \* processes that hold a HotWriter
  LastWindow,        \* windows are 0 .. LastWindow
  SettlementLag,     \* steps archival stays behind the clock
  PartitionHeadroom, \* steps of partitions created ahead of the clock
  ReaderGrace,       \* steps an archived partition is kept
  MaxClock,          \* bound on the clock
  BoundaryAttempts,  \* BOUNDARY_ATTEMPTS
  CommitAttempts,    \* COMMIT_ATTEMPTS
  Nobody             \* the holder of a free lease

Writers    == Appenders \union Streamers
Windows    == 0 .. LastWindow
Boundaries == 0 .. LastWindow + 1

ASSUME RowsAssumption ==
  /\ WindowOf \in [Rows -> Windows]
  /\ Unaligned \subseteq Rows
  /\ Deliveries \subseteq (SUBSET Rows) \ {{}}

ASSUME ProcessAssumption ==
  /\ Nobody \notin Archivers
  /\ Nobody \notin Writers

ASSUME BoundsAssumption ==
  /\ LastWindow \in Nat /\ SettlementLag \in Nat
  /\ PartitionHeadroom \in Nat /\ ReaderGrace \in Nat
  /\ MaxClock \in Nat /\ MaxClock - SettlementLag <= LastWindow + 1
  /\ BoundaryAttempts \in Nat /\ CommitAttempts \in Nat

VARIABLES
  clock,       \* the wall clock, which callers pass as `now`
  part,        \* part[w]: the relation that holds window w: absent, attached, detached
  hot,         \* hot[w]: the rows in that relation
  reclaimed,   \* meterstore_reclaimed.reclaimed_below
  snapshot,    \* identity of the current Iceberg snapshot
  watermark,   \* the boundary its summary publishes
  cold,        \* cold[r]: how many times the snapshot stores the row
  archivedAt,  \* archivedAt[w]: earliest archived_at of a snapshot that covers w
  archiveLease,\* holder of the session lock "archive"
  coldLease,   \* holder of the session lock "cold-append"
  arch,        \* arch[a]: the cycle archiver a is running
  writer,      \* writer[p]: the append writer p is running
  acked,       \* rows `append` returned Ok for
  streamed,    \* rows `HotWriter::append` returned Ok for
  passedOver   \* windows the boundary passed without a scan (history, never read)

hotVars   == <<part, hot, reclaimed>>
coldVars  == <<snapshot, watermark, cold, archivedAt>>
aux       == <<acked, streamed, passedOver>>
vars      == <<clock, hotVars, coldVars, archiveLease, coldLease, arch, writer, aux>>

-----------------------------------------------------------------------------
(* Routing and stored rows. *)

Below(B, w)     == {r \in B : WindowOf[r] < w}
AtOrAbove(B, w) == {r \in B : WindowOf[r] >= w}

InHot(r)  == r \in hot[WindowOf[r]]
InCold(r) == cold[r] > 0
Stored(r) == InHot(r) \/ InCold(r)

\* A query split at the current boundary finds the row.
Readable(r) == IF WindowOf[r] < watermark THEN InCold(r) ELSE InHot(r)

AddCopies(S) == [r \in Rows |-> IF r \in S THEN cold[r] + 1 ELSE cold[r]]

Attached(w) == part[w] = "attached"
Detached(w) == part[w] = "detached"
Exists(w)   == part[w] # "absent"

\* One iteration of ensure_partitions: a relation of that name, detached or
\* not, counts as existing.
Ensure(w) ==
  part' = IF w \in Windows /\ ~Exists(w) THEN [part EXCEPT ![w] = "attached"] ELSE part

-----------------------------------------------------------------------------
(* The archiver.                                                            *)

ArchiverPhase == {"idle", "list", "reclaim", "ensure", "pick", "probe", "archive",
                  "detach", "load", "scan", "commit"}

NoCycle == [pc |-> "idle", now |-> 0, orphans |-> {}, bound |-> 0, cursor |-> 0,
            from |-> 0, to |-> 0, scans |-> FALSE, rows |-> {},
            base |-> 0, mark |-> 0, tries |-> 0]

Horizon(now) == now - SettlementLag
Due(from, now) == from + 1 <= Horizon(now)

\* A session unlocks only what it holds.
Unlocked(lease, holder) == IF lease = holder THEN Nobody ELSE lease

\* The run is over: the result is returned and the lease is released.
EndCycle(a) ==
  /\ arch' = [arch EXCEPT ![a] = NoCycle]
  /\ archiveLease' = Unlocked(archiveLease, a)

\* run_once: one archiver per table.  Losing the lease is a no-op.
AcquireLease(a) ==
  /\ arch[a].pc = "idle" /\ archiveLease = Nobody
  /\ archiveLease' = a
  /\ arch' = [arch EXCEPT ![a] = [@ EXCEPT !.pc = "list", !.now = clock]]
  /\ UNCHANGED <<clock, hotVars, coldVars, coldLease, writer, aux>>

\* reclaim_orphans: the detached partitions and the boundary they are judged by.
ListOrphans(a) ==
  /\ arch[a].pc = "list"
  /\ arch' = [arch EXCEPT ![a] =
       [@ EXCEPT !.pc = "reclaim", !.orphans = {w \in Windows : Detached(w)},
                 !.bound = watermark]]
  /\ UNCHANGED <<clock, hotVars, coldVars, archiveLease, coldLease, writer, aux>>

\* Durable below the boundary, and older than any query planned before it moved.
DroppedOnceGraceIsOver(a, w) == arch[a].now - archivedAt[w] >= ReaderGrace

Reclaimable(a, w) ==
  /\ w < arch[a].bound
  /\ arch[a].now - archivedAt[w] >= ReaderGrace

\* The window an interrupted run left detached: the rest of the cycle takes it.
NeverResumable(a, w) == FALSE

Resumable(a, w) == w = arch[a].bound /\ Due(w, arch[a].now)

\* Oldest first.  The drop and the reclaimed_below mark are one transaction.
DropOrphan(a) ==
  /\ arch[a].pc = "reclaim"
  /\ \E w \in arch[a].orphans :
       /\ \A v \in arch[a].orphans : w <= v
       /\ Reclaimable(a, w)
       /\ part' = [part EXCEPT ![w] = "absent"]
       /\ hot' = [hot EXCEPT ![w] = {}]
       /\ reclaimed' = IF reclaimed < w + 1 THEN w + 1 ELSE reclaimed
       /\ arch' = [arch EXCEPT ![a].orphans = @ \ {w}]
  /\ UNCHANGED <<clock, coldVars, archiveLease, coldLease, writer, aux>>

\* Kept for another cycle: within the grace, the window about to be resumed, or
\* a drop that a pinned reader or a lock held up.
KeepOrphan(a) ==
  /\ arch[a].pc = "reclaim"
  /\ \E w \in arch[a].orphans :
       /\ \A v \in arch[a].orphans : w <= v
       /\ w < arch[a].bound \/ Resumable(a, w)
       /\ arch' = [arch EXCEPT ![a].orphans = @ \ {w}]
  /\ UNCHANGED <<clock, hotVars, coldVars, archiveLease, coldLease, writer, aux>>

\* Neither durable nor due: InvariantViolated ends every later cycle here too.
Wedged(a) == \E w \in arch[a].orphans : ~(w < arch[a].bound \/ Resumable(a, w))

ReclaimDone(a) ==
  /\ arch[a].pc = "reclaim" /\ arch[a].orphans = {}
  /\ arch' = [arch EXCEPT ![a] = [@ EXCEPT !.pc = "ensure", !.cursor = arch[a].now]]
  /\ UNCHANGED <<clock, hotVars, coldVars, archiveLease, coldLease, writer, aux>>

\* ensure_partitions(now, now + headroom), one partition per transaction.
EnsureAhead(a) ==
  /\ arch[a].pc = "ensure"
  /\ IF arch[a].cursor < arch[a].now + PartitionHeadroom
       THEN /\ Ensure(arch[a].cursor)
            /\ arch' = [arch EXCEPT ![a].cursor = @ + 1]
       ELSE /\ arch' = [arch EXCEPT ![a].pc = "pick"]
            /\ UNCHANGED part
  /\ UNCHANGED <<clock, hot, reclaimed, coldVars, archiveLease, coldLease, writer, aux>>

\* next_window: a whole step above the boundary and below the horizon, or idle.
PickWindow(a) ==
  /\ arch[a].pc = "pick"
  /\ IF Due(watermark, arch[a].now)
       THEN /\ arch' = [arch EXCEPT ![a] = [@ EXCEPT !.pc = "probe", !.from = watermark]]
            /\ UNCHANGED archiveLease
       ELSE EndCycle(a)
  /\ UNCHANGED <<clock, hotVars, coldVars, coldLease, writer, aux>>

\* Where a widened window ends: the next partition there is, or the horizon.
GapEndRoundedUp(from, now, to) == to = Horizon(now) + 1

GapEnd(from, now, to) ==
  LET later == {w \in Windows : Exists(w) /\ w >= from + 1 /\ w <= Horizon(now)}
  IN  /\ \A w \in later : to <= w
      /\ to \in later \union {Horizon(now)}

\* widen_over_empty: a window with no partition grows over the empty stretch.
WidenOverEmpty(a) ==
  /\ arch[a].pc = "probe"
  /\ \E to \in 0 .. LastWindow + 2 :
       /\ IF Exists(arch[a].from) THEN to = arch[a].from + 1
                                  ELSE GapEnd(arch[a].from, arch[a].now, to)
       /\ arch' = [arch EXCEPT ![a] = [@ EXCEPT !.pc = "archive", !.to = to]]
  /\ UNCHANGED <<clock, hotVars, coldVars, archiveLease, coldLease, writer, aux>>

\* archive_window asks again whether there is a partition to take; without one
\* the window is committed empty.
ArchiveWindowIf(a, found) ==
  /\ arch[a].pc = "archive"
  /\ arch' = [arch EXCEPT ![a] =
       [@ EXCEPT !.pc = IF found THEN "detach" ELSE "load", !.tries = 1]]
  /\ UNCHANGED <<clock, hotVars, coldVars, archiveLease, coldLease, writer, aux>>

ArchiveAttachedOnly(a) == ArchiveWindowIf(a, Attached(arch[a].from))

ArchiveWindow(a) == ArchiveWindowIf(a, Exists(arch[a].from))

\* detach_partition: already detached is already done.
DetachPartition(a) ==
  /\ arch[a].pc = "detach"
  /\ part' = IF Attached(arch[a].from)
               THEN [part EXCEPT ![arch[a].from] = "detached"] ELSE part
  /\ arch' = [arch EXCEPT ![a] = [@ EXCEPT !.pc = "load", !.scans = TRUE]]
  /\ UNCHANGED <<clock, hot, reclaimed, coldVars, archiveLease, coldLease, writer, aux>>

\* append_with_summary, first half of an attempt: the base the commit must land
\* on, and the boundary that base publishes.
LoadArchiveBase(a) ==
  /\ arch[a].pc = "load"
  /\ arch' = [arch EXCEPT ![a] =
       [@ EXCEPT !.pc = IF arch[a].scans /\ arch[a].tries = 1 THEN "scan" ELSE "commit",
                 !.base = snapshot, !.mark = watermark]]
  /\ UNCHANGED <<clock, hotVars, coldVars, archiveLease, coldLease, writer, aux>>

\* scan_detached streams into the data files, which every attempt reuses.
ScanDetached(a) ==
  /\ arch[a].pc = "scan" /\ Exists(arch[a].from)
  /\ arch' = [arch EXCEPT ![a] = [@ EXCEPT !.pc = "commit", !.rows = hot[arch[a].from]]]
  /\ UNCHANGED <<clock, hotVars, coldVars, archiveLease, coldLease, writer, aux>>

\* Summary::watermark_for under Advance: strictly forwards of the base.
MayAdvance(base, to) == to > base

\* The commit that first covered a window dates its grace.
LatestCover(c, w) == IF w >= c.to THEN archivedAt[w] ELSE c.now

FirstCover(c, w) ==
  IF w >= c.to \/ (w < watermark /\ archivedAt[w] < c.now) THEN archivedAt[w] ELSE c.now

\* What the catalogue does with an archival commit: the window's rows and the
\* new boundary are one snapshot.
LandBoundary(c) ==
  /\ snapshot' = snapshot + 1
  /\ watermark' = c.to
  /\ archivedAt' = [w \in Windows |-> FirstCover(c, w)]
  /\ passedOver' = passedOver \union
       {w \in Windows : w >= c.from /\ w < c.to /\ ~(c.scans /\ w = c.from)}

LandWithoutRows(c) == LandBoundary(c) /\ cold' = cold

LandAdvance(c) == LandBoundary(c) /\ cold' = AddCopies(c.rows)

\* The compare-and-swap wins.  An answer lost on the way back ends the cycle
\* in the same state: everything the cycle does is done.
CommitAdvance(a) ==
  /\ arch[a].pc = "commit"
  /\ arch[a].base = snapshot
  /\ MayAdvance(arch[a].mark, arch[a].to)
  /\ LandAdvance(arch[a])
  /\ EndCycle(a)
  /\ UNCHANGED <<clock, hotVars, coldLease, writer, acked, streamed>>

\* Somebody else committed first: the summary is derived again from a fresh base.
RetryAdvance(a) ==
  /\ arch[a].pc = "commit"
  /\ arch[a].base # snapshot /\ arch[a].tries < CommitAttempts
  /\ arch' = [arch EXCEPT ![a] = [@ EXCEPT !.pc = "load", !.tries = arch[a].tries + 1]]
  /\ UNCHANGED <<clock, hotVars, coldVars, archiveLease, coldLease, writer, aux>>

\* The race lost CommitAttempts times: the error ends the cycle.
CommitConflict(a) ==
  /\ arch[a].pc = "commit"
  /\ arch[a].base # snapshot /\ arch[a].tries >= CommitAttempts
  /\ EndCycle(a)
  /\ UNCHANGED <<clock, hotVars, coldVars, coldLease, writer, aux>>

\* The compare-and-swap is lost: another attempt while there is one.
LoseAdvance(a) == IF arch[a].tries < CommitAttempts THEN RetryAdvance(a) ELSE CommitConflict(a)

\* Any call may fail: a lock timeout (deferred), a catalogue that refuses, an
\* invariant found violated, or the process dies.  Nothing done so far is
\* undone and the session lock goes with the run.
StopCycle(a) ==
  /\ arch[a].pc # "idle"
  /\ EndCycle(a)
  /\ UNCHANGED <<clock, hotVars, coldVars, coldLease, writer, aux>>

-----------------------------------------------------------------------------
(* The writers.                                                             *)

WriterPhase == {"idle", "boundary", "ensure", "insert", "lease", "reconcile", "load",
                "commit", "recheck", "open", "openEnsure", "openInsert"}

NoWrite == [pc |-> "idle", batch |-> {}, bound |-> 0, cursor |-> 0, until |-> 0,
            ensured |-> {}, keep |-> {}, base |-> 0, mark |-> 0, round |-> 0, tries |-> 0]

HotPart(p)  == AtOrAbove(writer[p].batch, writer[p].bound)
ColdPart(p) == Below(writer[p].batch, writer[p].bound)

\* hot_bounds: the windows of the earliest and the latest row of B.
Spans(B, first, last) ==
  /\ \E r \in B : WindowOf[r] = first
  /\ \E r \in B : WindowOf[r] = last
  /\ \A r \in B : first <= WindowOf[r] /\ WindowOf[r] <= last

\* Partitions wanted below `last + step`, which reaches one window further when
\* the last row does not start its window.
Until(B, last) == IF \E r \in B \cap Unaligned : WindowOf[r] = last THEN last + 2 ELSE last + 1

EndWrite(p) ==
  /\ writer' = [writer EXCEPT ![p] = NoWrite]
  /\ coldLease' = Unlocked(coldLease, p)

BeginAppend(p) ==
  /\ writer[p].pc = "idle"
  /\ \E B \in Deliveries :
       writer' = [writer EXCEPT ![p] =
            [@ EXCEPT !.pc = "boundary", !.batch = B, !.round = 1]]
  /\ UNCHANGED <<clock, hotVars, coldVars, archiveLease, coldLease, arch, aux>>

\* append: read the boundary and split the delivery by it.
ReadBoundary(p) ==
  /\ writer[p].pc = "boundary"
  /\ LET H == AtOrAbove(writer[p].batch, watermark)
     IN  \/ /\ H = {}
            /\ writer' = [writer EXCEPT ![p] =
                 [@ EXCEPT !.pc = "lease", !.bound = watermark]]
         \/ \E first, last \in Windows :
              /\ Spans(H, first, last)
              /\ writer' = [writer EXCEPT ![p] =
                   [@ EXCEPT !.pc = "ensure", !.bound = watermark,
                             !.cursor = first, !.until = Until(H, last)]]
  /\ UNCHANGED <<clock, hotVars, coldVars, archiveLease, coldLease, arch, aux>>

\* ensure_partitions(first, last + step).
EnsureForAppend(p) ==
  /\ writer[p].pc = "ensure"
  /\ Ensure(writer[p].cursor)
  /\ writer' = [writer EXCEPT ![p] =
       [@ EXCEPT !.cursor = writer[p].cursor + 1,
                 !.pc = IF writer[p].cursor + 1 < writer[p].until THEN "ensure" ELSE "insert"]]
  /\ UNCHANGED <<clock, hot, reclaimed, coldVars, archiveLease, coldLease, arch, aux>>

\* One transaction.  Without an attached partition for every row PostgreSQL
\* refuses the statement, which StopWrite takes.  Rows already there stay.
Insert(H) ==
  /\ \A r \in H : Attached(WindowOf[r])
  /\ hot' = [w \in Windows |-> hot[w] \union {r \in H : WindowOf[r] = w}]

InsertHot(p) ==
  /\ writer[p].pc = "insert"
  /\ Insert(HotPart(p))
  /\ writer' = [writer EXCEPT ![p].pc = IF ColdPart(p) = {} THEN "recheck" ELSE "lease"]
  /\ UNCHANGED <<clock, part, reclaimed, coldVars, archiveLease, coldLease, arch, aux>>

TakeColdLeaseUnasked(p) ==
  /\ writer[p].pc = "lease"
  /\ coldLease' = p
  /\ writer' = [writer EXCEPT ![p].pc = "reconcile"]
  /\ UNCHANGED <<clock, hotVars, coldVars, archiveLease, arch, aux>>

TakeColdLease(p) ==
  /\ writer[p].pc = "lease" /\ coldLease = Nobody
  /\ coldLease' = p
  /\ writer' = [writer EXCEPT ![p].pc = "reconcile"]
  /\ UNCHANGED <<clock, hotVars, coldVars, archiveLease, arch, aux>>

\* The lease is released; with nothing in the hot tier there is no boundary to
\* read again and the append returns Ok.
FinishCold(p) ==
  /\ coldLease' = Unlocked(coldLease, p)
  /\ IF HotPart(p) = {}
       THEN /\ writer' = [writer EXCEPT ![p] = NoWrite]
            /\ acked' = acked \union writer[p].batch
       ELSE /\ writer' = [writer EXCEPT ![p].pc = "recheck"]
            /\ UNCHANGED acked

\* reconcile_cold: what the cold tier already stores is not written again.
Missing(B) == {r \in B : ~InCold(r)}

ReconcileCold(p) ==
  /\ writer[p].pc = "reconcile"
  /\ \/ /\ Missing(ColdPart(p)) = {}
        /\ FinishCold(p)
     \/ /\ Missing(ColdPart(p)) # {}
        /\ writer' = [writer EXCEPT ![p] =
             [@ EXCEPT !.pc = "load", !.keep = Missing(ColdPart(p)), !.tries = 1]]
        /\ UNCHANGED <<coldLease, acked>>
  /\ UNCHANGED <<clock, hotVars, coldVars, archiveLease, arch, streamed, passedOver>>

LoadAppendBase(p) ==
  /\ writer[p].pc = "load"
  /\ writer' = [writer EXCEPT ![p] =
       [@ EXCEPT !.pc = "commit", !.base = snapshot, !.mark = watermark]]
  /\ UNCHANGED <<clock, hotVars, coldVars, archiveLease, coldLease, arch, aux>>

\* What the catalogue does with a late correction: the rows, under the boundary
\* the base published.
LandPreserve(c) ==
  /\ snapshot' = snapshot + 1
  /\ cold' = AddCopies(c.keep)
  /\ watermark' = c.mark
  /\ UNCHANGED archivedAt

\* The commit lands only on the base it was derived from.
OnBase(p) == writer[p].base = snapshot

CommitPreserve(p) ==
  /\ writer[p].pc = "commit" /\ OnBase(p)
  /\ LandPreserve(writer[p])
  /\ FinishCold(p)
  /\ UNCHANGED <<clock, hotVars, archiveLease, arch, streamed, passedOver>>

\* The commit lands and its answer is lost: the caller is told it failed.
CommitUnheard(p) ==
  /\ writer[p].pc = "commit" /\ OnBase(p)
  /\ LandPreserve(writer[p])
  /\ EndWrite(p)
  /\ UNCHANGED <<clock, hotVars, archiveLease, arch, aux>>

RetryPreserve(p) ==
  /\ writer[p].pc = "commit" /\ ~OnBase(p) /\ writer[p].tries < CommitAttempts
  /\ writer' = [writer EXCEPT ![p] =
       [@ EXCEPT !.pc = "load", !.tries = writer[p].tries + 1]]
  /\ UNCHANGED <<clock, hotVars, coldVars, archiveLease, coldLease, arch, aux>>

\* boundary_moved_under: the boundary passed a row this append put in PostgreSQL.
NotAskedAgain(p) == FALSE

MovedUnder(p) == \E r \in HotPart(p) : WindowOf[r] < watermark

Acknowledge(p) ==
  /\ writer[p].pc = "recheck" /\ ~MovedUnder(p)
  /\ acked' = acked \union writer[p].batch
  /\ writer' = [writer EXCEPT ![p] = NoWrite]
  /\ UNCHANGED <<clock, hotVars, coldVars, archiveLease, coldLease, arch, streamed, passedOver>>

\* Lost the race: the whole delivery is routed again.
Reroute(p) ==
  /\ writer[p].pc = "recheck" /\ MovedUnder(p) /\ writer[p].round < BoundaryAttempts
  /\ writer' = [writer EXCEPT ![p] =
       [NoWrite EXCEPT !.pc = "boundary", !.batch = writer[p].batch,
                       !.round = writer[p].round + 1]]
  /\ UNCHANGED <<clock, hotVars, coldVars, archiveLease, coldLease, arch, aux>>

\* hot_writer: the boundary is read once, when the writer is opened.
OpenHotWriter(p) ==
  /\ writer[p].pc = "idle"
  /\ writer' = [writer EXCEPT ![p] = [@ EXCEPT !.pc = "open", !.bound = watermark]]
  /\ UNCHANGED <<clock, hotVars, coldVars, archiveLease, coldLease, arch, aux>>

\* HotWriter::append: a batch reaching below that boundary is refused whole.
\* The leading windows already confirmed are not asked about again.
BeginStream(p) ==
  /\ writer[p].pc = "open"
  /\ \E B \in Deliveries : \E first, last \in Windows : \E needed \in first .. last + 1 :
       /\ \A r \in B : WindowOf[r] >= writer[p].bound
       /\ Spans(B, first, last)
       /\ \A w \in first .. needed - 1 : w \in writer[p].ensured
       /\ needed <= last => needed \notin writer[p].ensured
       /\ writer' = [writer EXCEPT ![p] =
            [@ EXCEPT !.batch = B, !.cursor = needed, !.until = last + 1,
                      !.pc = IF needed <= last THEN "openEnsure" ELSE "openInsert"]]
  /\ UNCHANGED <<clock, hotVars, coldVars, archiveLease, coldLease, arch, aux>>

\* Windows are confirmed together, when the last of them exists.
EnsureForStream(p) ==
  /\ writer[p].pc = "openEnsure"
  /\ Ensure(writer[p].cursor)
  /\ LET last    == writer[p].cursor + 1 >= writer[p].until
         spanned == {w \in Windows : /\ w < writer[p].until
                                     /\ \E r \in writer[p].batch : WindowOf[r] <= w}
     IN  writer' = [writer EXCEPT ![p] =
          [@ EXCEPT !.cursor = writer[p].cursor + 1,
                    !.ensured = writer[p].ensured \union (IF last THEN spanned ELSE {}),
                    !.pc = IF last THEN "openInsert" ELSE "openEnsure"]]
  /\ UNCHANGED <<clock, hot, reclaimed, coldVars, archiveLease, coldLease, arch, aux>>

\* Accepted without a second look at the boundary; the writer stays open.
InsertStream(p) ==
  /\ writer[p].pc = "openInsert"
  /\ Insert(writer[p].batch)
  /\ streamed' = streamed \union writer[p].batch
  /\ writer' = [writer EXCEPT ![p] =
       [NoWrite EXCEPT !.pc = "open", !.bound = writer[p].bound, !.ensured = writer[p].ensured]]
  /\ UNCHANGED <<clock, part, reclaimed, coldVars, archiveLease, coldLease, arch, acked, passedOver>>

\* A refused statement ends the call, not the writer.
FailStream(p) ==
  /\ writer[p].pc \in {"openEnsure", "openInsert"}
  /\ writer' = [writer EXCEPT ![p] =
       [NoWrite EXCEPT !.pc = "open", !.bound = writer[p].bound, !.ensured = writer[p].ensured]]
  /\ UNCHANGED <<clock, hotVars, coldVars, archiveLease, coldLease, arch, aux>>

\* Any call may fail: no partition for a row, a lock timeout, the lease spun for
\* in vain, a catalogue that refuses, the attempts used up, or the process dies.
StopWrite(p) ==
  /\ writer[p].pc # "idle"
  /\ EndWrite(p)
  /\ UNCHANGED <<clock, hotVars, coldVars, archiveLease, arch, aux>>

-----------------------------------------------------------------------------

Tick ==
  /\ clock < MaxClock
  /\ clock' = clock + 1
  /\ UNCHANGED <<hotVars, coldVars, archiveLease, coldLease, arch, writer, aux>>

Init ==
  /\ clock = 0
  /\ part = [w \in Windows |-> "absent"]
  /\ hot = [w \in Windows |-> {}]
  /\ reclaimed = 0
  /\ snapshot = 0
  /\ watermark = 0
  /\ cold = [r \in Rows |-> 0]
  /\ archivedAt = [w \in Windows |-> 0]
  /\ archiveLease = Nobody
  /\ coldLease = Nobody
  /\ arch = [a \in Archivers |-> NoCycle]
  /\ writer = [p \in Writers |-> NoWrite]
  /\ acked = {} /\ streamed = {} /\ passedOver = {}

Cycle(a) ==
  \/ AcquireLease(a) \/ ListOrphans(a) \/ DropOrphan(a) \/ KeepOrphan(a) \/ ReclaimDone(a)
  \/ EnsureAhead(a) \/ PickWindow(a) \/ WidenOverEmpty(a) \/ ArchiveWindow(a)
  \/ DetachPartition(a) \/ LoadArchiveBase(a) \/ ScanDetached(a)
  \/ CommitAdvance(a) \/ LoseAdvance(a)

Appending(p) ==
  \/ BeginAppend(p) \/ ReadBoundary(p) \/ EnsureForAppend(p) \/ InsertHot(p)
  \/ TakeColdLease(p) \/ ReconcileCold(p) \/ LoadAppendBase(p)
  \/ CommitPreserve(p) \/ CommitUnheard(p) \/ RetryPreserve(p)
  \/ Acknowledge(p) \/ Reroute(p) \/ StopWrite(p)

Streaming(p) ==
  \/ OpenHotWriter(p) \/ BeginStream(p) \/ EnsureForStream(p) \/ InsertStream(p)
  \/ FailStream(p) \/ StopWrite(p)

Next ==
  \/ Tick
  \/ \E a \in Archivers : Cycle(a) \/ StopCycle(a)
  \/ \E p \in Appenders : Appending(p)
  \/ \E p \in Streamers : Streaming(p)

Spec == Init /\ [][Next]_vars

\* A cycle ended by a failure, not one that found nothing due and ended the same way.
Interrupted(a) == StopCycle(a) /\ ~Cycle(a)

(***************************************************************************)
(* Fairness: maintenance is called for ever, the failures of its calls and *)
(* the readers in the way of a drop come to an end, and the clock goes on. *)
(* Nothing is assumed of the writers, which may stop anywhere for good.    *)
(***************************************************************************)
FairSpec ==
  /\ Spec
  /\ WF_vars(Tick)
  /\ \A a \in Archivers : WF_vars(Cycle(a)) /\ SF_vars(DropOrphan(a))
  /\ <>[][\A a \in Archivers : ~Interrupted(a)]_vars

-----------------------------------------------------------------------------
(* What the tiering promises.                                               *)

CycleType ==
  [pc : ArchiverPhase, now : Nat, orphans : SUBSET Windows, bound : Boundaries, cursor : Nat,
   from : Boundaries, to : Boundaries, scans : BOOLEAN, rows : SUBSET Rows,
   base : Nat, mark : Boundaries, tries : Nat]

WriteType ==
  [pc : WriterPhase, batch : SUBSET Rows, bound : Boundaries, cursor : Nat, until : Nat,
   ensured : SUBSET Windows, keep : SUBSET Rows, base : Nat, mark : Boundaries,
   round : Nat, tries : Nat]

\* Every variable keeps its shape; in particular neither the boundary nor the
\* end of a window an archiver holds ever leaves the modelled time line.
TypeOK ==
  /\ clock \in 0 .. MaxClock
  /\ part \in [Windows -> {"absent", "attached", "detached"}]
  /\ hot \in [Windows -> SUBSET Rows]
  /\ reclaimed \in Boundaries
  /\ snapshot \in Nat
  /\ watermark \in Boundaries
  /\ cold \in [Rows -> Nat]
  /\ archivedAt \in [Windows -> Nat]
  /\ archiveLease \in Archivers \union {Nobody}
  /\ coldLease \in Appenders \union {Nobody}
  /\ arch \in [Archivers -> CycleType]
  /\ writer \in [Writers -> WriteType]
  /\ acked \subseteq Rows /\ streamed \subseteq Rows /\ passedOver \subseteq Windows

\* A row a caller was told is stored (by append or by a HotWriter) is in one
\* tier at every later moment, whatever fails in between.
Durable == \A r \in acked \union streamed : Stored(r)

\* Committed or not, acknowledged or not, no step of anybody unstores a row: a
\* partition is dropped only with every row of it in the cold tier.
DropDestroysNothing == [][\A r \in Rows : Stored(r) => Stored(r)']_vars

\* The cold tier stores a (merge key, version) at most once, although archival
\* and late corrections write to it from two sides and corrections are retried.
ReadOnce == \A r \in Rows : cold[r] <= 1

\* The cold tier holds nothing at or above the boundary, where a query asks
\* PostgreSQL instead.
ColdBelowBoundary == \A r \in Rows : InCold(r) => WindowOf[r] < watermark

\* Archival never reaches into the settlement lag, however far a window was
\* widened: what is still being corrected stays in PostgreSQL.
LagRespected == watermark = 0 \/ watermark <= Horizon(clock)

\* A commit derived from an older base never republishes an older boundary.
BoundaryNeverRetreats == [][watermark' >= watermark]_vars

\* Whatever interrupted the cycles before it, a cycle can always account for
\* the detached partitions it finds: archival never stops for an operator.
NeverWedged == \A a \in Archivers : arch[a].pc = "reclaim" => ~Wedged(a)

\* A row append returned Ok for is found by a query, unless the boundary passed
\* over its window without scanning it: the re-read of the boundary catches
\* every other race between a writer and the archiver.
StrandedOnlyWherePassedOver ==
  \A r \in acked : Readable(r) \/ WindowOf[r] \in passedOver

\* What append says of itself: rows it returned Ok for are not stranded below
\* the boundary in PostgreSQL, where a query cannot see them.
AckedReadable == \A r \in acked : Readable(r)

-----------------------------------------------------------------------------
(* Why those invariants hold: the inductive invariant, in named parts.      *)

PickedPhase == {"probe", "archive", "detach", "load", "scan", "commit"}
LeasedPhase == {"reconcile", "load", "commit"}
KeptPhase   == {"load", "commit"}

\* Rows sit in the partition of their window; what is detached was due when it
\* was, is no newer than the boundary, and below it is in the cold tier too.
PartitionsCoherent ==
  /\ \A w \in Windows : \A r \in hot[w] : WindowOf[r] = w
  /\ \A w \in Windows : ~Exists(w) => hot[w] = {}
  /\ \A w \in Windows : Detached(w) =>
       /\ w <= watermark
       /\ w < watermark => \A r \in hot[w] : InCold(r)
       /\ w = watermark => Due(w, clock)

\* A running archiver holds the lease, so the boundary it picked its window at
\* and the partition it detached cannot change under it.
ArchiverInStep(a) ==
  /\ arch[a].now <= clock
  /\ arch[a].pc # "idle" => archiveLease = a
  /\ arch[a].pc = "reclaim" =>
       arch[a].bound = watermark /\ \A w \in arch[a].orphans : Detached(w)
  /\ arch[a].pc \in {"list", "reclaim"} =>
       \A w \in Windows : Detached(w) /\ w = watermark => Due(w, arch[a].now)
  /\ arch[a].pc \in PickedPhase =>
       arch[a].from = watermark /\ Due(watermark, arch[a].now)
  /\ arch[a].pc \in PickedPhase \ {"probe"} =>
       arch[a].from < arch[a].to /\ arch[a].to <= Horizon(arch[a].now)
  /\ arch[a].pc = "detach" => Exists(watermark) /\ arch[a].tries = 1
  /\ arch[a].pc \notin {"load", "scan", "commit"} => ~arch[a].scans
  /\ ~arch[a].scans => arch[a].rows = {}
  /\ arch[a].pc \in {"load", "commit"} /\ ~arch[a].scans => ~Detached(watermark)
  /\ arch[a].scans => Detached(watermark)
  /\ arch[a].pc = "scan" => arch[a].scans
  /\ arch[a].pc = "commit" /\ arch[a].scans => arch[a].rows = hot[watermark]
  /\ arch[a].pc = "load" /\ arch[a].scans /\ arch[a].tries # 1 =>
       arch[a].rows = hot[watermark]

ArchiverCoherent == \A a \in Archivers : ArchiverInStep(a)

\* A writer past its reconcile holds the lease, and what it is about to commit
\* is below the boundary and missing from the cold tier.
WriterInStep(p) ==
  /\ writer[p].bound <= watermark
  /\ writer[p].pc \in LeasedPhase => coldLease = p
  /\ writer[p].pc \in KeptPhase =>
       /\ \A r \in writer[p].keep : ~InCold(r) /\ WindowOf[r] < writer[p].bound
       /\ \A r \in ColdPart(p) : r \in writer[p].keep \/ InCold(r)
  /\ writer[p].base <= snapshot
  /\ writer[p].pc = "commit" /\ writer[p].base = snapshot => writer[p].mark = watermark
  /\ writer[p].pc \in {"lease", "recheck"} \union LeasedPhase =>
       \A r \in HotPart(p) : Stored(r)
  /\ writer[p].pc = "recheck" => \A r \in ColdPart(p) : InCold(r)

WriterCoherent == \A p \in Writers : WriterInStep(p)

\* The state every step of every process leaves: the partitions, each archiver
\* and each writer agree with the boundary, and what is promised holds.
Coherent ==
  /\ TypeOK
  /\ PartitionsCoherent
  /\ ArchiverCoherent
  /\ WriterCoherent
  /\ ReadOnce
  /\ ColdBelowBoundary
  /\ LagRespected
  /\ Durable
  /\ StrandedOnlyWherePassedOver

-----------------------------------------------------------------------------
(* What goes on for ever, and what it all implements.                       *)

\* The boundary reaches the archival horizon of the last tick, whatever is
\* interrupted on the way.
BoundaryReachesHorizon == <>[](watermark >= Horizon(MaxClock))

\* An archived partition whose grace can run out before the clock stops is
\* dropped.
ArchivedIsReclaimed ==
  \A w \in Windows :
    (Detached(w) /\ w < watermark /\ archivedAt[w] + ReaderGrace <= MaxClock) ~> ~Detached(w)

\* The detailed protocol implements a ledger in which settling a window is one
\* step and a row moves between the tiers without ever being in neither.
Ledger == INSTANCE TieredLedger WITH
  boundary <- watermark,
  settled  <- {r \in Rows : InCold(r)},
  open     <- UNION {hot[w] : w \in Windows}

ImplementsLedger == Ledger!Spec
=============================================================================
