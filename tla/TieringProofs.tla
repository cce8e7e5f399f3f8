---------------------------- MODULE TieringProofs ----------------------------
(***************************************************************************)
(* What the tiering promises is an invariant of every instance of it.  The *)
(* state of a table keeps its types at every step.  Then each part of the  *)
(* inductive invariant Coherent, process by process: what a step of an     *)
(* archiver, of a writer or of the clock does to the partitions, to the    *)
(* archivers and to the writers.  Then the promises: they are kept by each *)
(* step, Coherent is inductive, and the rest follows.                      *)
(*                                                                         *)
(* The queries of Readers run over the same tiers, so Coherent comes for   *)
(* nothing there; an inductive invariant of the queries over it gives what *)
(* a query promises.                                                       *)
(***************************************************************************)
EXTENDS Readers, TLAPS


-----------------------------------------------------------------------------
(* Types, and the facts the other proofs start from.                        *)

\* The parts of the inductive invariant, and the numeric types the provers need of a coherent state.
LEMMA Facts ==
  ASSUME Coherent
  PROVE  /\ TypeOK /\ PartitionsCoherent /\ ArchiverCoherent /\ WriterCoherent
         /\ ReadOnce /\ ColdBelowBoundary
         /\ clock \in Int /\ watermark \in Int /\ snapshot \in Int
         /\ SettlementLag \in Int /\ LastWindow \in Int /\ MaxClock \in Int
         /\ \A w \in Windows : w \in Int
         /\ \A r \in Rows : WindowOf[r] \in Windows /\ WindowOf[r] \in Int
         /\ \A r \in Rows : cold[r] \in Nat /\ (InCold(r) \/ cold[r] = 0)
         /\ \A a \in Archivers : arch[a].now \in Int /\ arch[a].to \in Int
<1>1. /\ TypeOK /\ PartitionsCoherent /\ ArchiverCoherent /\ WriterCoherent
      /\ ReadOnce /\ ColdBelowBoundary
  BY DEF Coherent
<1>2. clock \in Int /\ watermark \in Int /\ snapshot \in Int
  BY <1>1, BoundsAssumption DEF TypeOK, Boundaries
<1>3. \A w \in Windows : w \in Int
  BY BoundsAssumption DEF Windows
<1>4. \A r \in Rows : WindowOf[r] \in Windows /\ WindowOf[r] \in Int
  BY <1>3, RowsAssumption
<1>5. \A r \in Rows : cold[r] \in Nat /\ (InCold(r) \/ cold[r] = 0)
  BY <1>1 DEF TypeOK, InCold
<1>6. \A a \in Archivers : arch[a].now \in Int /\ arch[a].to \in Int
  BY <1>1, BoundsAssumption DEF TypeOK, CycleType, Boundaries
<1> QED
  BY <1>1, <1>2, <1>3, <1>4, <1>5, <1>6, BoundsAssumption

\* A step of an archiver keeps every variable's type.  The only hard case is the
\* end of a widened window (widen_over_empty): it is on the time line because the
\* window was due and the horizon is no later than the clock.
LEMMA TypeStepArchiver ==
  ASSUME Coherent, NEW a \in Archivers, Cycle(a) \/ StopCycle(a)
  PROVE  TypeOK'
<1> USE DEF TypeOK, hotVars, coldVars, aux
<1>0. TypeOK /\ arch[a] \in CycleType
  BY DEF Coherent
<1>i. NoCycle \in CycleType
  BY BoundsAssumption DEF NoCycle, CycleType, ArchiverPhase, Boundaries
<1>e. ASSUME EndCycle(a)
      PROVE  arch' \in [Archivers -> CycleType] /\ archiveLease' \in Archivers \union {Nobody}
  BY <1>0, <1>i, <1>e DEF EndCycle, Unlocked
<1>1. CASE AcquireLease(a)
  <2>1. clock \in Nat
    BY <1>0
  <2>2. [arch[a] EXCEPT !.pc = "list", !.now = clock] \in CycleType
    BY <1>0, <2>1 DEF CycleType, ArchiverPhase
  <2> QED
    BY <1>0, <1>1, <2>2 DEF AcquireLease
<1>2. CASE ListOrphans(a)
  <2>1. [arch[a] EXCEPT !.pc = "reclaim", !.orphans = {w \in Windows : Detached(w)},
                        !.bound = watermark] \in CycleType
    BY <1>0 DEF CycleType, ArchiverPhase
  <2> QED
    BY <1>0, <1>2, <2>1 DEF ListOrphans
<1>3. CASE DropOrphan(a)
  <2>1. PICK w \in arch[a].orphans :
               /\ part' = [part EXCEPT ![w] = "absent"]
               /\ hot' = [hot EXCEPT ![w] = {}]
               /\ reclaimed' = IF reclaimed < w + 1 THEN w + 1 ELSE reclaimed
               /\ arch' = [arch EXCEPT ![a].orphans = @ \ {w}]
    BY <1>3 DEF DropOrphan
  <2>2. w \in Windows
    BY <1>0 DEF CycleType
  <2>3. [arch[a] EXCEPT !.orphans = arch[a].orphans \ {w}] \in CycleType
    BY <1>0 DEF CycleType
  <2>4. arch' \in [Archivers -> CycleType]
    BY <1>0, <2>1, <2>3
  <2>5. part' \in [Windows -> {"absent", "attached", "detached"}] /\ hot' \in [Windows -> SUBSET Rows]
    BY <1>0, <2>1, <2>2
  <2>6. reclaimed' \in Boundaries
    BY <1>0, <2>1, <2>2, BoundsAssumption DEF Windows, Boundaries
  <2> QED
    BY <1>0, <1>3, <2>4, <2>5, <2>6 DEF DropOrphan
<1>4. CASE KeepOrphan(a)
  <2>1. PICK w \in arch[a].orphans : arch' = [arch EXCEPT ![a].orphans = @ \ {w}]
    BY <1>4 DEF KeepOrphan
  <2>2. [arch[a] EXCEPT !.orphans = arch[a].orphans \ {w}] \in CycleType
    BY <1>0 DEF CycleType
  <2> QED
    BY <1>0, <1>4, <2>1, <2>2 DEF KeepOrphan
<1>5. CASE ReclaimDone(a)
  <2>1. [arch[a] EXCEPT !.pc = "ensure", !.cursor = arch[a].now] \in CycleType
    BY <1>0 DEF CycleType, ArchiverPhase
  <2> QED
    BY <1>0, <1>5, <2>1 DEF ReclaimDone
<1>6. CASE EnsureAhead(a)
  <2>1. [arch[a] EXCEPT !.pc = "pick"] \in CycleType
    BY <1>0 DEF CycleType, ArchiverPhase
  <2>2. [arch[a] EXCEPT !.cursor = arch[a].cursor + 1] \in CycleType
    <3>1. arch[a].cursor + 1 \in Nat
      BY <1>0 DEF CycleType
    <3> QED
      BY <1>0, <3>1 DEF CycleType
  <2>3. arch' \in [Archivers -> CycleType]
    BY <1>0, <1>6, <2>1, <2>2 DEF EnsureAhead
  <2>4. part' \in [Windows -> {"absent", "attached", "detached"}]
    BY <1>0, <1>6 DEF EnsureAhead, Ensure
  <2> QED
    BY <1>0, <1>6, <2>3, <2>4 DEF EnsureAhead
<1>7. CASE PickWindow(a)
  <2>1. [arch[a] EXCEPT !.pc = "probe", !.from = watermark] \in CycleType
    BY <1>0 DEF CycleType, ArchiverPhase
  <2>2. arch' \in [Archivers -> CycleType] /\ archiveLease' \in Archivers \union {Nobody}
    BY <1>0, <1>7, <1>e, <2>1 DEF PickWindow
  <2> QED
    BY <1>0, <1>7, <2>2 DEF PickWindow
<1>8. CASE WidenOverEmpty(a)
  <2>1. PICK to \in 0 .. LastWindow + 2 :
               /\ IF Exists(arch[a].from) THEN to = arch[a].from + 1
                                          ELSE GapEnd(arch[a].from, arch[a].now, to)
               /\ arch' = [arch EXCEPT ![a] = [@ EXCEPT !.pc = "archive", !.to = to]]
    BY <1>8 DEF WidenOverEmpty
  <2>2. /\ arch[a].from = watermark /\ arch[a].now <= clock
        /\ watermark + 1 <= arch[a].now - SettlementLag
    BY <1>8 DEF WidenOverEmpty, Coherent, ArchiverCoherent, ArchiverInStep, PickedPhase, Due, Horizon
  <2>3. arch[a].now \in Nat
    BY <1>0 DEF CycleType
  <2>4. to <= LastWindow + 1
    <3>1. clock <= MaxClock /\ clock \in Nat /\ watermark \in Nat
      BY <1>0, BoundsAssumption DEF Boundaries
    <3>2. CASE Exists(arch[a].from)
      BY <2>1, <2>2, <2>3, <3>1, <3>2, BoundsAssumption
    <3>3. CASE ~Exists(arch[a].from)
      <4>1. to \in Windows \/ to = arch[a].now - SettlementLag
        BY <2>1, <3>3 DEF GapEnd, Horizon
      <4> QED
        BY <2>2, <2>3, <3>1, <4>1, BoundsAssumption DEF Windows
    <3> QED
      BY <3>2, <3>3
  <2>5. to \in Boundaries
    BY <2>1, <2>4, BoundsAssumption DEF Boundaries
  <2>6. [arch[a] EXCEPT !.pc = "archive", !.to = to] \in CycleType
    BY <1>0, <2>5 DEF CycleType, ArchiverPhase
  <2> QED
    BY <1>0, <1>8, <2>1, <2>6 DEF WidenOverEmpty
<1>9. CASE ArchiveWindow(a)
  <2>1. [arch[a] EXCEPT !.pc = IF Exists(arch[a].from) THEN "detach" ELSE "load", !.tries = 1]
          \in CycleType
    BY <1>0 DEF CycleType, ArchiverPhase
  <2> QED
    BY <1>0, <1>9, <2>1 DEF ArchiveWindow, ArchiveWindowIf
<1>10. CASE DetachPartition(a)
  <2>1. [arch[a] EXCEPT !.pc = "load", !.scans = TRUE] \in CycleType
    BY <1>0 DEF CycleType, ArchiverPhase
  <2>2. part' \in [Windows -> {"absent", "attached", "detached"}]
    BY <1>0, <1>10 DEF DetachPartition
  <2> QED
    BY <1>0, <1>10, <2>1, <2>2 DEF DetachPartition
<1>11. CASE LoadArchiveBase(a)
  <2>1. [arch[a] EXCEPT !.pc = IF arch[a].scans /\ arch[a].tries = 1 THEN "scan" ELSE "commit",
                        !.base = snapshot, !.mark = watermark] \in CycleType
    BY <1>0 DEF CycleType, ArchiverPhase
  <2> QED
    BY <1>0, <1>11, <2>1 DEF LoadArchiveBase
<1>12. CASE ScanDetached(a)
  <2>1. arch[a].from \in Windows
    <3>1. /\ arch[a].from = watermark /\ arch[a].now <= clock
          /\ watermark + 1 <= arch[a].now - SettlementLag
      BY <1>12 DEF ScanDetached, Coherent, ArchiverCoherent, ArchiverInStep, PickedPhase, Due, Horizon
    <3>2. arch[a].now \in Nat
      BY <1>0 DEF CycleType
    <3> QED
      BY <1>0, <3>1, <3>2, BoundsAssumption DEF Windows, Boundaries
  <2>2. [arch[a] EXCEPT !.pc = "commit", !.rows = hot[arch[a].from]] \in CycleType
    BY <1>0, <2>1 DEF CycleType, ArchiverPhase
  <2> QED
    BY <1>0, <1>12, <2>2 DEF ScanDetached
<1>13. CASE CommitAdvance(a)
  <2>1. arch' \in [Archivers -> CycleType] /\ archiveLease' \in Archivers \union {Nobody}
    BY <1>e, <1>13 DEF CommitAdvance
  <2>2. arch[a].to \in Boundaries /\ arch[a].now \in Nat
    BY <1>0 DEF CycleType
  <2>3. watermark' \in Boundaries /\ cold' \in [Rows -> Nat] /\ snapshot' \in Nat
    BY <1>0, <1>13, <2>2 DEF CommitAdvance, LandAdvance, LandBoundary, AddCopies
  <2>4. archivedAt' \in [Windows -> Nat] /\ passedOver' \subseteq Windows
    BY <1>0, <1>13, <2>2 DEF CommitAdvance, LandAdvance, LandBoundary, FirstCover
  <2> QED
    BY <1>0, <1>13, <2>1, <2>3, <2>4 DEF CommitAdvance
<1>14. CASE RetryAdvance(a)
  <2>1. [arch[a] EXCEPT !.pc = "load", !.tries = arch[a].tries + 1] \in CycleType
    <3>1. arch[a].tries + 1 \in Nat
      BY <1>0 DEF CycleType
    <3> QED
      BY <1>0, <3>1 DEF CycleType, ArchiverPhase
  <2> QED
    BY <1>0, <1>14, <2>1 DEF RetryAdvance
<1>15. CASE CommitConflict(a)
  BY <1>0, <1>15, <1>e DEF CommitConflict
<1>16. CASE StopCycle(a)
  BY <1>0, <1>16, <1>e DEF StopCycle
<1> QED
  BY <1>1, <1>2, <1>3, <1>4, <1>5, <1>6, <1>7, <1>8, <1>9, <1>10, <1>11, <1>12,
     <1>13, <1>14, <1>15, <1>16 DEF Cycle, LoseAdvance

\* A step of an append keeps every variable's type.
LEMMA TypeStepAppender ==
  ASSUME Coherent, NEW p \in Appenders, Appending(p)
  PROVE  TypeOK'
<1> USE DEF TypeOK, hotVars, coldVars, aux
<1>0. TypeOK /\ p \in Writers /\ writer[p] \in WriteType
  BY DEF Coherent, Writers
<1>i. NoWrite \in WriteType
  BY BoundsAssumption DEF NoWrite, WriteType, WriterPhase, Boundaries
<1>e. ASSUME EndWrite(p)
      PROVE  writer' \in [Writers -> WriteType] /\ coldLease' \in Appenders \union {Nobody}
  BY <1>0, <1>i, <1>e DEF EndWrite, Unlocked
<1>f. ASSUME FinishCold(p)
      PROVE  /\ writer' \in [Writers -> WriteType]
             /\ coldLease' \in Appenders \union {Nobody} /\ acked' \subseteq Rows
  <2>1. [writer[p] EXCEPT !.pc = "recheck"] \in WriteType
    BY <1>0 DEF WriteType, WriterPhase
  <2>2. writer[p].batch \subseteq Rows
    BY <1>0 DEF WriteType
  <2> QED
    BY <1>0, <1>i, <1>f, <2>1, <2>2 DEF FinishCold, Unlocked
<1>p. ASSUME NEW c \in WriteType, LandPreserve(c)
      PROVE  snapshot' \in Nat /\ cold' \in [Rows -> Nat] /\ watermark' \in Boundaries
             /\ archivedAt' = archivedAt
  <2>1. c.mark \in Boundaries
    BY DEF WriteType
  <2> QED
    BY <1>0, <1>p, <2>1 DEF LandPreserve, AddCopies
<1>1. CASE BeginAppend(p)
  <2>1. PICK B \in Deliveries :
          writer' = [writer EXCEPT ![p] =
               [@ EXCEPT !.pc = "boundary", !.batch = B, !.round = 1]]
    BY <1>1 DEF BeginAppend
  <2>2. B \subseteq Rows
    BY RowsAssumption
  <2>3. [writer[p] EXCEPT !.pc = "boundary", !.batch = B, !.round = 1] \in WriteType
    BY <1>0, <2>2 DEF WriteType, WriterPhase
  <2> QED
    BY <1>0, <1>1, <2>1, <2>3 DEF BeginAppend
<1>2. CASE ReadBoundary(p)
  <2>1. CASE writer' = [writer EXCEPT ![p] = [@ EXCEPT !.pc = "lease", !.bound = watermark]]
    <3>1. [writer[p] EXCEPT !.pc = "lease", !.bound = watermark] \in WriteType
      BY <1>0 DEF WriteType, WriterPhase
    <3> QED
      BY <1>0, <1>2, <2>1, <3>1 DEF ReadBoundary
  <2>2. ASSUME NEW first \in Windows, NEW last \in Windows, NEW H,
               writer' = [writer EXCEPT ![p] =
                    [@ EXCEPT !.pc = "ensure", !.bound = watermark,
                              !.cursor = first, !.until = Until(H, last)]]
        PROVE  TypeOK'
    <3>1. first \in Nat /\ Until(H, last) \in Nat
      BY BoundsAssumption DEF Windows, Until
    <3> HIDE DEF Until
    <3>2. [writer[p] EXCEPT !.pc = "ensure", !.bound = watermark, !.cursor = first,
                            !.until = Until(H, last)] \in WriteType
      BY <1>0, <3>1 DEF WriteType, WriterPhase
    <3> QED
      BY <1>0, <1>2, <2>2, <3>2 DEF ReadBoundary
  <2> QED
    BY <1>2, <2>1, <2>2 DEF ReadBoundary
<1>3. CASE EnsureForAppend(p)
  <2>1. writer[p].cursor + 1 \in Nat
    BY <1>0 DEF WriteType
  <2>2. [writer[p] EXCEPT !.cursor = writer[p].cursor + 1,
                          !.pc = IF writer[p].cursor + 1 < writer[p].until THEN "ensure" ELSE "insert"]
             \in WriteType
    BY <1>0, <2>1 DEF WriteType, WriterPhase
  <2>3. part' \in [Windows -> {"absent", "attached", "detached"}]
    BY <1>0, <1>3 DEF EnsureForAppend, Ensure
  <2> QED
    BY <1>0, <1>3, <2>2, <2>3 DEF EnsureForAppend
<1>4. CASE InsertHot(p)
  <2>1. [writer[p] EXCEPT !.pc = IF ColdPart(p) = {} THEN "recheck" ELSE "lease"] \in WriteType
    BY <1>0 DEF WriteType, WriterPhase
  <2>2. HotPart(p) \subseteq Rows
    BY <1>0 DEF HotPart, AtOrAbove, WriteType
  <2>3. hot' \in [Windows -> SUBSET Rows]
    BY <1>0, <1>4, <2>2 DEF InsertHot, Insert
  <2> QED
    BY <1>0, <1>4, <2>1, <2>3 DEF InsertHot
<1>5. CASE TakeColdLease(p)
  <2>1. [writer[p] EXCEPT !.pc = "reconcile"] \in WriteType
    BY <1>0 DEF WriteType, WriterPhase
  <2> QED
    BY <1>0, <1>5, <2>1 DEF TakeColdLease
<1>6. CASE ReconcileCold(p)
  <2>1. Missing(ColdPart(p)) \subseteq Rows
    BY <1>0 DEF Missing, ColdPart, Below, WriteType
  <2>2. [writer[p] EXCEPT !.pc = "load", !.keep = Missing(ColdPart(p)), !.tries = 1] \in WriteType
    BY <1>0, <2>1 DEF WriteType, WriterPhase
  <2>3. /\ writer' \in [Writers -> WriteType]
        /\ coldLease' \in Appenders \union {Nobody} /\ acked' \subseteq Rows
    BY <1>0, <1>6, <1>f, <2>2 DEF ReconcileCold
  <2> QED
    BY <1>0, <1>6, <2>3 DEF ReconcileCold
<1>7. CASE LoadAppendBase(p)
  <2>1. [writer[p] EXCEPT !.pc = "commit", !.base = snapshot, !.mark = watermark] \in WriteType
    BY <1>0 DEF WriteType, WriterPhase
  <2> QED
    BY <1>0, <1>7, <2>1 DEF LoadAppendBase
<1>8. CASE CommitPreserve(p)
  <2>1. LandPreserve(writer[p]) /\ FinishCold(p)
    BY <1>8 DEF CommitPreserve
  <2> QED
    BY <1>0, <1>8, <1>f, <1>p, <2>1 DEF CommitPreserve
<1>9. CASE CommitUnheard(p)
  <2>1. LandPreserve(writer[p]) /\ EndWrite(p)
    BY <1>9 DEF CommitUnheard
  <2> QED
    BY <1>0, <1>9, <1>e, <1>p, <2>1 DEF CommitUnheard
<1>10. CASE RetryPreserve(p)
  <2>1. writer[p].tries + 1 \in Nat
    BY <1>0 DEF WriteType
  <2>2. [writer[p] EXCEPT !.pc = "load", !.tries = writer[p].tries + 1] \in WriteType
    BY <1>0, <2>1 DEF WriteType, WriterPhase
  <2> QED
    BY <1>0, <1>10, <2>2 DEF RetryPreserve
<1>11. CASE Acknowledge(p)
  <2>1. writer[p].batch \subseteq Rows
    BY <1>0 DEF WriteType
  <2> QED
    BY <1>0, <1>11, <1>i, <2>1 DEF Acknowledge
<1>12. CASE Reroute(p)
  <2>1. writer[p].batch \subseteq Rows /\ writer[p].round + 1 \in Nat
    BY <1>0 DEF WriteType
  <2>2. [NoWrite EXCEPT !.pc = "boundary", !.batch = writer[p].batch,
                        !.round = writer[p].round + 1] \in WriteType
    BY <1>i, <2>1 DEF WriteType, WriterPhase
  <2> QED
    BY <1>0, <1>12, <2>2 DEF Reroute
<1>13. CASE StopWrite(p)
  BY <1>0, <1>13, <1>e DEF StopWrite
<1> QED
  BY <1>1, <1>2, <1>3, <1>4, <1>5, <1>6, <1>7, <1>8, <1>9, <1>10, <1>11, <1>12, <1>13
  DEF Appending

\* A step of a HotWriter keeps every variable's type.
LEMMA TypeStepStreamer ==
  ASSUME Coherent, NEW p \in Streamers, Streaming(p)
  PROVE  TypeOK'
<1> USE DEF TypeOK, hotVars, coldVars, aux
<1>0. TypeOK /\ p \in Writers /\ writer[p] \in WriteType
  BY DEF Coherent, Writers
<1>i. NoWrite \in WriteType
  BY BoundsAssumption DEF NoWrite, WriteType, WriterPhase, Boundaries
<1>o. [NoWrite EXCEPT !.pc = "open", !.bound = writer[p].bound, !.ensured = writer[p].ensured]
        \in WriteType
  <2>1. writer[p].bound \in Boundaries /\ writer[p].ensured \subseteq Windows
    BY <1>0 DEF WriteType
  <2> QED
    BY <1>i, <2>1 DEF WriteType, WriterPhase
<1>1. CASE OpenHotWriter(p)
  <2>1. [writer[p] EXCEPT !.pc = "open", !.bound = watermark] \in WriteType
    BY <1>0 DEF WriteType, WriterPhase
  <2> QED
    BY <1>0, <1>1, <2>1 DEF OpenHotWriter
<1>2. CASE BeginStream(p)
  <2>1. PICK B \in Deliveries, first \in Windows, last \in Windows :
          \E needed \in first .. last + 1 :
            writer' = [writer EXCEPT ![p] =
                 [@ EXCEPT !.batch = B, !.cursor = needed, !.until = last + 1,
                           !.pc = IF needed <= last THEN "openEnsure" ELSE "openInsert"]]
    BY <1>2, Zenon DEF BeginStream
  <2>2. PICK needed \in first .. last + 1 :
            writer' = [writer EXCEPT ![p] =
                 [@ EXCEPT !.batch = B, !.cursor = needed, !.until = last + 1,
                           !.pc = IF needed <= last THEN "openEnsure" ELSE "openInsert"]]
    BY <2>1
  <2>3. B \subseteq Rows /\ needed \in Nat /\ last + 1 \in Nat
    BY RowsAssumption, BoundsAssumption DEF Windows
  <2>4. [writer[p] EXCEPT !.batch = B, !.cursor = needed, !.until = last + 1,
                          !.pc = IF needed <= last THEN "openEnsure" ELSE "openInsert"] \in WriteType
    BY <1>0, <2>3 DEF WriteType, WriterPhase
  <2> QED
    BY <1>0, <1>2, <2>2, <2>4 DEF BeginStream
<1>3. CASE EnsureForStream(p)
  <2> DEFINE last    == writer[p].cursor + 1 >= writer[p].until
             spanned == {w \in Windows : /\ w < writer[p].until
                                         /\ \E r \in writer[p].batch : WindowOf[r] <= w}
             ensured == writer[p].ensured \union (IF last THEN spanned ELSE {})
             phase   == IF last THEN "openInsert" ELSE "openEnsure"
  <2>1. writer' = [writer EXCEPT ![p] =
       [@ EXCEPT !.cursor = writer[p].cursor + 1, !.ensured = ensured,
                 !.pc = phase]]
    BY <1>3 DEF EnsureForStream
  <2>2. /\ writer[p].cursor + 1 \in Nat /\ ensured \subseteq Windows
        /\ phase \in WriterPhase
    BY <1>0 DEF WriteType, WriterPhase
  <2> HIDE DEF ensured, phase
  <2>3. [writer[p] EXCEPT !.cursor = writer[p].cursor + 1, !.ensured = ensured, !.pc = phase]
          \in WriteType
    BY <1>0, <2>2 DEF WriteType
  <2>4. part' \in [Windows -> {"absent", "attached", "detached"}]
    BY <1>0, <1>3 DEF EnsureForStream, Ensure
  <2> QED
    BY <1>0, <1>3, <2>1, <2>3, <2>4 DEF EnsureForStream
<1>4. CASE InsertStream(p)
  <2>1. writer[p].batch \subseteq Rows
    BY <1>0 DEF WriteType
  <2>2. hot' \in [Windows -> SUBSET Rows]
    BY <1>0, <1>4, <2>1 DEF InsertStream, Insert
  <2> QED
    BY <1>0, <1>4, <1>o, <2>1, <2>2 DEF InsertStream
<1>5. CASE FailStream(p)
  BY <1>0, <1>5, <1>o DEF FailStream
<1>6. CASE StopWrite(p)
  BY <1>0, <1>i, <1>6 DEF StopWrite, EndWrite, Unlocked
<1> QED
  BY <1>1, <1>2, <1>3, <1>4, <1>5, <1>6 DEF Streaming

-----------------------------------------------------------------------------
(* What each kind of step may touch, and what it leaves in step.            *)

\* What every step of a coherent table does: the boundary and the snapshots go on,
\* and no row is unstored.
Grows ==
  /\ watermark' >= watermark
  /\ snapshot' >= snapshot
  /\ \A r \in Rows : Stored(r) => Stored(r)'
  /\ \A r \in Rows : InCold(r) => InCold(r)'

\* What a late-correction commit does from a coherent state: it lands on the base
\* it was derived from, so the boundary it republishes is the current one, and no
\* row it writes is in the cold tier yet.
LEMMA AppenderLands ==
  ASSUME Coherent, NEW p \in Appenders, writer[p].pc = "commit", OnBase(p), LandPreserve(writer[p])
  PROVE  /\ watermark' = watermark /\ snapshot' = snapshot + 1 /\ archivedAt' = archivedAt
         /\ \A r \in Rows : cold'[r] = IF r \in writer[p].keep THEN cold[r] + 1 ELSE cold[r]
         /\ \A r \in writer[p].keep : cold[r] = 0 /\ WindowOf[r] < watermark
         /\ coldLease = p
<1>1. p \in Writers /\ writer[p] \in WriteType /\ WriterCoherent
  BY Facts DEF Writers, TypeOK
<1>2. writer[p].keep \subseteq Rows /\ writer[p].bound \in Int
  BY <1>1, BoundsAssumption DEF WriteType, Boundaries
<1>3. /\ watermark' = watermark /\ snapshot' = snapshot + 1 /\ archivedAt' = archivedAt
      /\ \A r \in Rows : cold'[r] = IF r \in writer[p].keep THEN cold[r] + 1 ELSE cold[r]
  BY <1>1, Facts DEF WriterCoherent, WriterInStep, OnBase, LandPreserve, AddCopies
<1>4. \A r \in writer[p].keep : cold[r] = 0 /\ WindowOf[r] < writer[p].bound
  BY <1>1, <1>2, Facts DEF WriterCoherent, WriterInStep, KeptPhase
<1>5. writer[p].bound <= watermark /\ coldLease = p
  BY <1>1 DEF WriterCoherent, WriterInStep, LeasedPhase
<1> QED
  BY <1>2, <1>3, <1>4, <1>5, Facts

\* What an archival commit does from a coherent state: it moves the boundary
\* forwards from the window it picked, and stores exactly what was in the hot
\* partition, none of it stored before.
LEMMA ArchiverLands ==
  ASSUME Coherent, NEW a \in Archivers, CommitAdvance(a)
  PROVE  /\ watermark' = arch[a].to /\ watermark' > watermark /\ snapshot' = snapshot + 1
         /\ \A r \in Rows : cold'[r] = IF r \in arch[a].rows THEN cold[r] + 1 ELSE cold[r]
         /\ \A r \in arch[a].rows : cold[r] = 0 /\ WindowOf[r] = watermark
         /\ arch[a].scans => arch[a].rows = hot[watermark]
         /\ passedOver' = passedOver \union
              {w \in Windows : w >= watermark /\ w < watermark' /\ ~(arch[a].scans /\ w = watermark)}
         /\ watermark \in Windows
<1> USE Facts
<1>1. arch[a].from = watermark /\ watermark < arch[a].to
  BY DEF CommitAdvance, ArchiverCoherent, ArchiverInStep, PickedPhase
<1>2. arch[a].scans => arch[a].rows = hot[watermark]
  BY DEF CommitAdvance, ArchiverCoherent, ArchiverInStep
<1>3. ~arch[a].scans => arch[a].rows = {}
  BY DEF ArchiverCoherent, ArchiverInStep
<1>4. /\ watermark' = arch[a].to /\ snapshot' = snapshot + 1
      /\ \A r \in Rows : cold'[r] = IF r \in arch[a].rows THEN cold[r] + 1 ELSE cold[r]
      /\ passedOver' = passedOver \union
           {w \in Windows : w >= watermark /\ w < arch[a].to /\ ~(arch[a].scans /\ w = watermark)}
  BY <1>1 DEF CommitAdvance, LandAdvance, LandBoundary, AddCopies
<1>5. watermark \in Windows
  <2>1. arch[a].to \in Boundaries
    BY DEF TypeOK, CycleType
  <2> QED
    BY <1>1, <2>1, BoundsAssumption DEF TypeOK, Boundaries, Windows
<1>6. \A r \in arch[a].rows : r \in Rows /\ WindowOf[r] = watermark
  BY <1>2, <1>3, <1>5 DEF PartitionsCoherent, TypeOK
<1>7. ASSUME NEW r \in arch[a].rows
      PROVE  cold[r] = 0
  <2>1. r \in Rows /\ ~InCold(r)
    BY <1>6 DEF ColdBelowBoundary
  <2> QED
    BY <2>1
<1> QED
  BY <1>1, <1>2, <1>4, <1>5, <1>6, <1>7

\* No step of an archiver unstores a row or moves the boundary back: the only
\* partitions it drops are detached and below the boundary.
LEMMA ArchiverGrows ==
  ASSUME Coherent, NEW a \in Archivers, Cycle(a) \/ StopCycle(a)
  PROVE  Grows
<1> USE Facts DEF TypeOK, hotVars, coldVars
<1>1. CASE DropOrphan(a)
  <2>1. PICK w \in arch[a].orphans :
               /\ Reclaimable(a, w)
               /\ hot' = [hot EXCEPT ![w] = {}]
    BY <1>1 DEF DropOrphan
  <2>2. w \in Windows
    BY DEF CycleType
  <2>3. Detached(w) /\ w < watermark
    BY <1>1, <2>1 DEF DropOrphan, Reclaimable, ArchiverCoherent, ArchiverInStep
  <2>4. \A r \in hot[w] : InCold(r)
    BY <2>2, <2>3 DEF PartitionsCoherent
  <2>5. UNCHANGED <<watermark, snapshot, cold>>
    BY <1>1 DEF DropOrphan
  <2> QED
    BY <2>1, <2>2, <2>4, <2>5 DEF Grows, Stored, InHot, InCold
<1>2. CASE CommitAdvance(a)
  <2>1. UNCHANGED hot
    BY <1>2 DEF CommitAdvance
  <2> QED
    BY <1>2, <2>1, ArchiverLands DEF Grows, Stored, InHot, InCold
<1>3. ASSUME UNCHANGED <<hot, watermark, cold, snapshot>>
      PROVE  Grows
  BY <1>3 DEF Grows, Stored, InHot, InCold
<1> QED
  BY <1>1, <1>2, <1>3
  DEF Cycle, LoseAdvance, AcquireLease, ListOrphans, KeepOrphan, ReclaimDone, EnsureAhead, PickWindow,
      WidenOverEmpty, ArchiveWindow, ArchiveWindowIf, DetachPartition, LoadArchiveBase,
      ScanDetached, RetryAdvance, CommitConflict, StopCycle

\* No step of a writer unstores a row or moves the boundary back.
LEMMA WriterGrows ==
  ASSUME Coherent, NEW p \in Writers,
         \/ p \in Appenders /\ Appending(p)
         \/ p \in Streamers /\ Streaming(p)
  PROVE  Grows
<1> USE Facts DEF TypeOK, hotVars, coldVars
<1>1. CASE p \in Appenders /\ (CommitPreserve(p) \/ CommitUnheard(p))
  <2>1. UNCHANGED hot /\ writer[p].pc = "commit" /\ OnBase(p) /\ LandPreserve(writer[p])
    BY <1>1 DEF CommitPreserve, CommitUnheard
  <2> QED
    BY <1>1, <2>1, AppenderLands DEF Grows, Stored, InHot, InCold
<1>2. ASSUME \A w \in Windows : hot[w] \subseteq hot'[w], UNCHANGED <<watermark, cold, snapshot>>
      PROVE  Grows
  BY <1>2 DEF Grows, Stored, InHot, InCold
<1>3. CASE InsertHot(p) \/ InsertStream(p)
  BY <1>2, <1>3 DEF InsertHot, InsertStream, Insert
<1>4. ASSUME UNCHANGED <<hot, watermark, cold, snapshot>>
      PROVE  Grows
  BY <1>4 DEF Grows, Stored, InHot, InCold
<1> QED
  BY <1>1, <1>3, <1>4
  DEF Appending, Streaming, BeginAppend, ReadBoundary, EnsureForAppend, TakeColdLease,
      ReconcileCold, LoadAppendBase, RetryPreserve, Acknowledge, Reroute, StopWrite,
      OpenHotWriter, BeginStream, EnsureForStream, FailStream
\* A step of an archiver leaves the partitions coherent with the boundary.
LEMMA PartitionsStepArchiver ==
  ASSUME Coherent, NEW a \in Archivers, Cycle(a) \/ StopCycle(a)
  PROVE  PartitionsCoherent'
<1> USE Facts DEF TypeOK, hotVars, coldVars
<1>1. CASE DropOrphan(a)
  <2>1. PICK w \in arch[a].orphans :
               /\ part' = [part EXCEPT ![w] = "absent"]
               /\ hot' = [hot EXCEPT ![w] = {}]
    BY <1>1 DEF DropOrphan
  <2>2. w \in Windows
    BY DEF CycleType
  <2>3. \A v \in Windows : /\ v = w => part'[v] = "absent" /\ hot'[v] = {}
                           /\ v # w => part'[v] = part[v] /\ hot'[v] = hot[v]
    BY <2>1, <2>2
  <2>4. UNCHANGED <<watermark, clock, cold>>
    BY <1>1 DEF DropOrphan
  <2> QED
    BY <2>3, <2>4 DEF PartitionsCoherent, Exists, Detached, InCold, Due, Horizon
<1>2. CASE EnsureAhead(a)
  <2>1. \A w \in Windows : part'[w] = part[w] \/ (part[w] = "absent" /\ part'[w] = "attached")
    BY <1>2 DEF EnsureAhead, Ensure, Exists
  <2> QED
    BY <1>2, <2>1 DEF EnsureAhead, PartitionsCoherent, Exists, Detached, InCold, Due, Horizon
<1>3. CASE DetachPartition(a)
  <2>1. arch[a].from = watermark /\ Due(watermark, clock)
    BY <1>3 DEF DetachPartition, ArchiverCoherent, ArchiverInStep, PickedPhase, Due, Horizon
  <2>2. \A w \in Windows : part'[w] = part[w] \/ (w = watermark /\ part[w] = "attached" /\ part'[w] = "detached")
    BY <1>3, <2>1 DEF DetachPartition, Attached
  <2> QED
    BY <1>3, <2>1, <2>2 DEF DetachPartition, PartitionsCoherent, Exists, Detached, InCold, Due, Horizon
<1>4. CASE CommitAdvance(a)
  <2>1. arch[a].from = watermark /\ watermark < arch[a].to
    BY <1>4 DEF CommitAdvance, ArchiverCoherent, ArchiverInStep, PickedPhase
  <2>2. arch[a].scans => arch[a].rows = hot[watermark]
    BY <1>4 DEF CommitAdvance, ArchiverCoherent, ArchiverInStep
  <2>3. ~arch[a].scans => ~Detached(watermark)
    BY <1>4 DEF CommitAdvance, ArchiverCoherent, ArchiverInStep
  <2>4. /\ watermark' = arch[a].to /\ UNCHANGED <<part, hot, clock>>
        /\ \A r \in Rows : cold'[r] = IF r \in arch[a].rows THEN cold[r] + 1 ELSE cold[r]
    BY <1>4 DEF CommitAdvance, LandAdvance, LandBoundary, AddCopies
  <2>5. \A w \in Windows : Detached(w) => \A r \in hot[w] : InCold(r)'
    BY <2>1, <2>2, <2>3, <2>4 DEF PartitionsCoherent, InCold, Detached
  <2>6. \A w \in Windows : Detached(w) => w < watermark'
    BY <2>1, <2>4 DEF PartitionsCoherent
  <2> QED
    BY <2>4, <2>5, <2>6 DEF PartitionsCoherent, Exists, Detached
<1>5. ASSUME UNCHANGED <<part, hot, watermark, cold, clock>>
      PROVE  PartitionsCoherent'
  BY <1>5 DEF PartitionsCoherent, Exists, Detached, InCold, Due
<1> QED
  BY <1>1, <1>2, <1>3, <1>4, <1>5
  DEF Cycle, LoseAdvance, AcquireLease, ListOrphans, KeepOrphan, ReclaimDone, PickWindow, WidenOverEmpty,
      ArchiveWindow, ArchiveWindowIf, LoadArchiveBase, ScanDetached, RetryAdvance,
      CommitConflict, StopCycle

\* A step that leaves the archivers, their lease, the boundary and the detached
\* partitions alone leaves every archiver in step.
LEMMA ArchiverUndisturbed ==
  ASSUME Coherent, UNCHANGED <<arch, archiveLease, watermark>>, clock' >= clock, clock' \in Int,
         \A w \in Windows : (Detached(w)' <=> Detached(w)) /\ (Exists(w) => Exists(w)'),
         \A w \in Windows : Detached(w) => hot'[w] = hot[w]
  PROVE  ArchiverCoherent'
<1> USE Facts
<1>1. ASSUME NEW b \in Archivers
      PROVE  ArchiverInStep(b)'
  <2>1. ArchiverInStep(b)
    BY DEF ArchiverCoherent
  <2>2. arch[b].scans => watermark \in Windows /\ hot'[watermark] = hot[watermark]
    <3>1. ASSUME arch[b].scans
          PROVE  watermark \in Windows
      <4>1. Due(watermark, arch[b].now) /\ arch[b].now <= clock
        BY <2>1, <3>1 DEF ArchiverInStep, PickedPhase
      <4> QED
        BY <4>1, BoundsAssumption DEF TypeOK, Due, Horizon, Windows, Boundaries
    <3> QED
      BY <2>1, <3>1 DEF ArchiverInStep
  <2>3. arch[b].orphans \subseteq Windows
    BY DEF TypeOK, CycleType
  <2>4. (arch[b].now <= clock)'
    BY <2>1 DEF ArchiverInStep
  <2>5. /\ \A w \in Windows : Due(w, arch[b].now)' <=> Due(w, arch[b].now)
        /\ Horizon(arch[b].now)' = Horizon(arch[b].now)
    BY DEF Due, Horizon
  <2>6. arch[b].pc \in PickedPhase => watermark \in Windows
    <3>1. ASSUME arch[b].pc \in PickedPhase
          PROVE  watermark \in Windows
      <4>1. Due(watermark, arch[b].now) /\ arch[b].now <= clock
        BY <2>1, <3>1 DEF ArchiverInStep
      <4> QED
        BY <4>1, BoundsAssumption DEF TypeOK, Due, Horizon, Windows, Boundaries
    <3> QED
      BY <3>1
  <2> QED
    BY <2>1, <2>2, <2>3, <2>4, <2>5, <2>6 DEF ArchiverInStep, PickedPhase
<1> QED
  BY <1>1 DEF ArchiverCoherent

\* The lease keeps the other archivers idle while one takes a step of a cycle.
LEMMA OneArchiverRuns ==
  ASSUME Coherent, NEW a \in Archivers, Cycle(a) \/ StopCycle(a),
         NEW b \in Archivers, b # a
  PROVE  arch[b].pc = "idle" /\ arch'[b] = arch[b]
<1> USE Facts
<1>1. archiveLease = a \/ archiveLease = Nobody
  BY DEF Cycle, LoseAdvance, AcquireLease, ListOrphans, DropOrphan, KeepOrphan, ReclaimDone, EnsureAhead,
         PickWindow, WidenOverEmpty, ArchiveWindow, ArchiveWindowIf, DetachPartition,
         LoadArchiveBase, ScanDetached, CommitAdvance, RetryAdvance, CommitConflict, StopCycle,
         ArchiverCoherent, ArchiverInStep
<1>2. arch[b].pc = "idle"
  BY <1>1, ProcessAssumption DEF ArchiverCoherent, ArchiverInStep
<1>3. arch'[b] = arch[b]
  BY DEF Cycle, LoseAdvance, AcquireLease, ListOrphans, DropOrphan, KeepOrphan, ReclaimDone, EnsureAhead,
         PickWindow, WidenOverEmpty, ArchiveWindow, ArchiveWindowIf, DetachPartition,
         LoadArchiveBase, ScanDetached, CommitAdvance, RetryAdvance, CommitConflict, StopCycle,
         EndCycle, TypeOK
<1> QED
  BY <1>2, <1>3

\* A step of an archiver leaves all archivers in step with the boundary.
LEMMA ArchiverStepArchiver ==
  ASSUME Coherent, NEW a \in Archivers, Cycle(a) \/ StopCycle(a)
  PROVE  ArchiverCoherent'
<1> USE Facts DEF hotVars, coldVars
<1>0. ArchiverInStep(a) /\ arch[a] \in CycleType
  BY DEF ArchiverCoherent, TypeOK
<1>c. clock' = clock
  BY DEF Cycle, LoseAdvance, AcquireLease, ListOrphans, DropOrphan, KeepOrphan, ReclaimDone, EnsureAhead,
         PickWindow, WidenOverEmpty, ArchiveWindow, ArchiveWindowIf, DetachPartition,
         LoadArchiveBase, ScanDetached, CommitAdvance, RetryAdvance, CommitConflict, StopCycle
<1>d. arch[a].pc \in PickedPhase => watermark \in Windows
  BY <1>0, BoundsAssumption DEF ArchiverInStep, TypeOK, Due, Horizon, Windows, Boundaries
<1>b. ASSUME NEW b \in Archivers, b # a
      PROVE  ArchiverInStep(b)'
  <2>1. arch[b].pc = "idle" /\ arch'[b] = arch[b] /\ ArchiverInStep(b)
    BY <1>b, OneArchiverRuns DEF ArchiverCoherent
  <2> QED
    BY <1>c, <2>1 DEF ArchiverInStep, PickedPhase
<1>s. SUFFICES ArchiverInStep(a)'
  BY <1>b DEF ArchiverCoherent
<1>e. ASSUME EndCycle(a)
      PROVE  ArchiverInStep(a)'
  <2>1. arch'[a] = NoCycle
    BY <1>e DEF EndCycle, TypeOK
  <2>2. clock >= 0
    BY DEF TypeOK
  <2> QED
    BY <1>c, <2>1, <2>2 DEF ArchiverInStep, NoCycle, PickedPhase
<1>1. CASE AcquireLease(a)
  <2>1. arch'[a] = [arch[a] EXCEPT !.pc = "list", !.now = clock] /\ archiveLease' = a
    BY <1>1 DEF AcquireLease, TypeOK
  <2>2. arch'[a].pc = "list" /\ arch'[a].now = clock /\ arch'[a].scans = arch[a].scans
        /\ arch'[a].rows = arch[a].rows
    BY <1>0, <2>1 DEF CycleType
  <2>3. UNCHANGED <<part, watermark>> /\ arch[a].pc = "idle"
    BY <1>1 DEF AcquireLease
  <2>4. \A w \in Windows : Detached(w)' /\ w = watermark' => Due(w, clock)
    BY <2>3 DEF PartitionsCoherent, Detached
  <2> QED
    BY <1>0, <1>c, <2>1, <2>2, <2>3, <2>4 DEF ArchiverInStep, PickedPhase, Due, Horizon
<1>2. CASE ListOrphans(a)
  <2>1. arch'[a] = [arch[a] EXCEPT !.pc = "reclaim", !.orphans = {w \in Windows : Detached(w)},
                                   !.bound = watermark]
    BY <1>2 DEF ListOrphans, TypeOK
  <2>2. /\ arch'[a].pc = "reclaim" /\ arch'[a].bound = watermark
        /\ arch'[a].orphans = {w \in Windows : Detached(w)}
        /\ arch'[a].now = arch[a].now /\ arch'[a].scans = arch[a].scans
        /\ arch'[a].rows = arch[a].rows
    BY <1>0, <2>1 DEF CycleType
  <2>3. UNCHANGED <<part, watermark, archiveLease>> /\ arch[a].pc = "list"
    BY <1>2 DEF ListOrphans
  <2> QED
    BY <1>0, <1>c, <2>2, <2>3 DEF ArchiverInStep, PickedPhase, Detached, Due, Horizon
<1>3. CASE DropOrphan(a) \/ KeepOrphan(a)
  <2>1. PICK w \in arch[a].orphans :
          /\ arch' = [arch EXCEPT ![a].orphans = @ \ {w}]
          /\ part' = [part EXCEPT ![w] = "absent"] \/ part' = part
    BY <1>3 DEF DropOrphan, KeepOrphan
  <2>2. arch'[a] = [arch[a] EXCEPT !.orphans = arch[a].orphans \ {w}]
    BY <2>1 DEF TypeOK
  <2>3. /\ arch'[a].pc = arch[a].pc /\ arch'[a].bound = arch[a].bound
        /\ arch'[a].orphans = arch[a].orphans \ {w}
        /\ arch'[a].now = arch[a].now /\ arch'[a].scans = arch[a].scans
        /\ arch'[a].rows = arch[a].rows
    BY <1>0, <2>2 DEF CycleType
  <2>4. UNCHANGED <<watermark, archiveLease>> /\ arch[a].pc = "reclaim"
    BY <1>3 DEF DropOrphan, KeepOrphan
  <2>5. /\ \A v \in Windows : Detached(v)' => Detached(v)
        /\ \A v \in Windows \ {w} : Detached(v) => Detached(v)'
    BY <2>1 DEF Detached, TypeOK
  <2>6. arch[a].orphans \subseteq Windows
    BY <1>0 DEF CycleType
  <2> QED
    BY <1>0, <1>c, <2>3, <2>4, <2>5, <2>6 DEF ArchiverInStep, PickedPhase, Due, Horizon
<1>4. CASE ReclaimDone(a)
  <2>1. arch'[a] = [arch[a] EXCEPT !.pc = "ensure", !.cursor = arch[a].now]
    BY <1>4 DEF ReclaimDone, TypeOK
  <2>2. /\ arch'[a].pc = "ensure"
        /\ arch'[a].now = arch[a].now /\ arch'[a].scans = arch[a].scans
        /\ arch'[a].rows = arch[a].rows
    BY <1>0, <2>1 DEF CycleType
  <2>3. archiveLease' = archiveLease /\ arch[a].pc = "reclaim"
    BY <1>4 DEF ReclaimDone
  <2> QED
    BY <1>0, <1>c, <2>2, <2>3 DEF ArchiverInStep, PickedPhase
<1>5. CASE EnsureAhead(a)
  <2>1. \/ arch'[a] = [arch[a] EXCEPT !.cursor = arch[a].cursor + 1]
        \/ arch'[a] = [arch[a] EXCEPT !.pc = "pick"]
    BY <1>5 DEF EnsureAhead, TypeOK
  <2>2. /\ arch'[a].pc \in {"ensure", "pick"}
        /\ arch'[a].now = arch[a].now /\ arch'[a].scans = arch[a].scans
        /\ arch'[a].rows = arch[a].rows
    BY <1>0, <1>5, <2>1 DEF CycleType, EnsureAhead
  <2>3. archiveLease' = archiveLease /\ arch[a].pc = "ensure"
    BY <1>5 DEF EnsureAhead
  <2> QED
    BY <1>0, <1>c, <2>2, <2>3 DEF ArchiverInStep, PickedPhase
<1>6. CASE PickWindow(a)
  <2>1. CASE Due(watermark, arch[a].now)
    <3>1. arch'[a] = [arch[a] EXCEPT !.pc = "probe", !.from = watermark]
      BY <1>6, <2>1 DEF PickWindow, TypeOK
    <3>2. /\ arch'[a].pc = "probe" /\ arch'[a].from = watermark
          /\ arch'[a].now = arch[a].now /\ arch'[a].scans = arch[a].scans
          /\ arch'[a].rows = arch[a].rows
      BY <1>0, <3>1 DEF CycleType
    <3>3. UNCHANGED <<archiveLease, watermark>> /\ arch[a].pc = "pick"
      BY <1>6, <2>1 DEF PickWindow
    <3> QED
      BY <1>0, <1>c, <2>1, <3>2, <3>3 DEF ArchiverInStep, PickedPhase, Due, Horizon
  <2> QED
    BY <1>6, <1>e, <2>1 DEF PickWindow
<1>7. CASE WidenOverEmpty(a)
  <2>1. PICK to \in 0 .. LastWindow + 2 :
               /\ IF Exists(arch[a].from) THEN to = arch[a].from + 1
                                          ELSE GapEnd(arch[a].from, arch[a].now, to)
               /\ arch' = [arch EXCEPT ![a] = [@ EXCEPT !.pc = "archive", !.to = to]]
    BY <1>7 DEF WidenOverEmpty
  <2>2. arch'[a] = [arch[a] EXCEPT !.pc = "archive", !.to = to]
    BY <2>1 DEF TypeOK
  <2>3. /\ arch'[a].pc = "archive" /\ arch'[a].to = to /\ arch'[a].from = arch[a].from
        /\ arch'[a].now = arch[a].now /\ arch'[a].scans = arch[a].scans
        /\ arch'[a].rows = arch[a].rows
    BY <1>0, <2>2 DEF CycleType
  <2>4. UNCHANGED <<archiveLease, watermark>> /\ arch[a].pc = "probe"
    BY <1>7 DEF WidenOverEmpty
  <2>5. arch[a].from = watermark /\ Due(watermark, arch[a].now)
    BY <1>0, <2>4 DEF ArchiverInStep, PickedPhase
  <2>6. arch[a].from < to /\ to <= Horizon(arch[a].now)
    <3>1. CASE Exists(arch[a].from)
      BY <2>1, <2>5, <3>1 DEF Due, Horizon
    <3>2. CASE ~Exists(arch[a].from)
      <4>1. \/ to = Horizon(arch[a].now)
            \/ to >= arch[a].from + 1 /\ to <= Horizon(arch[a].now)
        BY <2>1, <3>2 DEF GapEnd
      <4> QED
        BY <2>5, <4>1 DEF Due, Horizon
    <3> QED
      BY <3>1, <3>2
  <2> QED
    BY <1>0, <1>c, <2>3, <2>4, <2>5, <2>6 DEF ArchiverInStep, PickedPhase, Due, Horizon
<1>8. CASE ArchiveWindow(a)
  <2>1. arch'[a] = [arch[a] EXCEPT !.pc = IF Exists(arch[a].from) THEN "detach" ELSE "load",
                                   !.tries = 1]
    BY <1>8 DEF ArchiveWindow, ArchiveWindowIf, TypeOK
  <2>2. /\ arch'[a].pc = IF Exists(arch[a].from) THEN "detach" ELSE "load"
        /\ arch'[a].to = arch[a].to /\ arch'[a].from = arch[a].from /\ arch'[a].tries = 1
        /\ arch'[a].now = arch[a].now /\ arch'[a].scans = arch[a].scans
        /\ arch'[a].rows = arch[a].rows
    BY <1>0, <2>1 DEF CycleType
  <2>3. UNCHANGED <<archiveLease, watermark, part>> /\ arch[a].pc = "archive"
    BY <1>8 DEF ArchiveWindow, ArchiveWindowIf
  <2>4. /\ arch[a].from = watermark /\ Due(watermark, arch[a].now)
        /\ arch[a].from < arch[a].to /\ arch[a].to <= Horizon(arch[a].now) /\ ~arch[a].scans /\ arch[a].rows = {}
    BY <1>0, <2>3 DEF ArchiverInStep, PickedPhase
  <2>5. ~Exists(watermark) => ~Detached(watermark)'
    BY <2>3 DEF Exists, Detached
  <2> QED
    BY <1>0, <1>c, <2>2, <2>3, <2>4, <2>5 DEF ArchiverInStep, PickedPhase, Due, Horizon, Exists
<1>9. CASE DetachPartition(a)
  <2>1. arch'[a] = [arch[a] EXCEPT !.pc = "load", !.scans = TRUE]
    BY <1>9 DEF DetachPartition, TypeOK
  <2>2. /\ arch'[a].pc = "load" /\ arch'[a].scans
        /\ arch'[a].to = arch[a].to /\ arch'[a].from = arch[a].from
        /\ arch'[a].now = arch[a].now /\ arch'[a].tries = arch[a].tries
    BY <1>0, <2>1 DEF CycleType
  <2>3. UNCHANGED <<archiveLease, watermark, hot>> /\ arch[a].pc = "detach"
    BY <1>9 DEF DetachPartition
  <2>4. /\ arch[a].from = watermark /\ Due(watermark, arch[a].now)
        /\ arch[a].from < arch[a].to /\ arch[a].to <= Horizon(arch[a].now)
        /\ arch[a].tries = 1 /\ Exists(arch[a].from)
    BY <1>0, <2>3 DEF ArchiverInStep, PickedPhase
  <2>5. Detached(watermark)'
    BY <1>9, <1>d, <2>3, <2>4 DEF DetachPartition, Attached, Detached, Exists, TypeOK, PickedPhase
  <2> QED
    BY <1>0, <1>c, <2>2, <2>3, <2>4, <2>5 DEF ArchiverInStep, PickedPhase, Due, Horizon
<1>10. CASE LoadArchiveBase(a)
  <2>1. arch'[a] = [arch[a] EXCEPT !.pc = IF arch[a].scans /\ arch[a].tries = 1
                                            THEN "scan" ELSE "commit",
                                   !.base = snapshot, !.mark = watermark]
    BY <1>10 DEF LoadArchiveBase, TypeOK
  <2>2. /\ arch'[a].pc = IF arch[a].scans /\ arch[a].tries = 1 THEN "scan" ELSE "commit"
        /\ arch'[a].to = arch[a].to /\ arch'[a].from = arch[a].from
        /\ arch'[a].now = arch[a].now /\ arch'[a].scans = arch[a].scans
        /\ arch'[a].rows = arch[a].rows
    BY <1>0, <2>1 DEF CycleType
  <2>3. UNCHANGED <<archiveLease, watermark, hot, part>> /\ arch[a].pc = "load"
    BY <1>10 DEF LoadArchiveBase
  <2> QED
    BY <1>0, <1>c, <2>2, <2>3 DEF ArchiverInStep, PickedPhase, Due, Horizon, Detached
<1>11. CASE ScanDetached(a)
  <2>1. arch'[a] = [arch[a] EXCEPT !.pc = "commit", !.rows = hot[arch[a].from]]
    BY <1>11 DEF ScanDetached, TypeOK
  <2>2. /\ arch'[a].pc = "commit" /\ arch'[a].rows = hot[arch[a].from]
        /\ arch'[a].to = arch[a].to /\ arch'[a].from = arch[a].from
        /\ arch'[a].now = arch[a].now /\ arch'[a].scans = arch[a].scans
    BY <1>0, <2>1 DEF CycleType
  <2>3. UNCHANGED <<archiveLease, watermark, hot, part>> /\ arch[a].pc = "scan"
    BY <1>11 DEF ScanDetached
  <2> QED
    BY <1>0, <1>c, <2>2, <2>3 DEF ArchiverInStep, PickedPhase, Due, Horizon, Detached
<1>12. CASE RetryAdvance(a)
  <2>1. arch'[a] = [arch[a] EXCEPT !.pc = "load", !.tries = arch[a].tries + 1]
    BY <1>12 DEF RetryAdvance, TypeOK
  <2>2. /\ arch'[a].pc = "load" /\ arch'[a].rows = arch[a].rows
        /\ arch'[a].to = arch[a].to /\ arch'[a].from = arch[a].from
        /\ arch'[a].now = arch[a].now /\ arch'[a].scans = arch[a].scans
    BY <1>0, <2>1 DEF CycleType
  <2>3. UNCHANGED <<archiveLease, watermark, hot, part>> /\ arch[a].pc = "commit"
    BY <1>12 DEF RetryAdvance
  <2> QED
    BY <1>0, <1>c, <2>2, <2>3 DEF ArchiverInStep, PickedPhase, Due, Horizon, Detached
<1>13. CASE CommitAdvance(a) \/ CommitConflict(a) \/ StopCycle(a)
  BY <1>13, <1>e DEF CommitAdvance, CommitConflict, StopCycle
<1> QED
  BY <1>1, <1>2, <1>3, <1>4, <1>5, <1>6, <1>7, <1>8, <1>9, <1>10, <1>11, <1>12, <1>13 DEF Cycle, LoseAdvance

\* The steps of one writer, of either kind.
WritesOf(p) ==
  \/ p \in Appenders /\ Appending(p)
  \/ p \in Streamers /\ Streaming(p)

\* What a step of a writer can touch: partitions are only created, a detached one
\* is not written to, and every row sits in the partition of its window.
LEMMA WriterTouches ==
  ASSUME Coherent, NEW p \in Writers, WritesOf(p)
  PROVE  /\ UNCHANGED <<clock, watermark, archivedAt, arch, archiveLease, passedOver>>
         /\ \A w \in Windows : (Detached(w)' <=> Detached(w)) /\ (Exists(w) => Exists(w)')
         /\ \A w \in Windows : Detached(w) => hot'[w] = hot[w]
         /\ \A w \in Windows : \A r \in hot'[w] : WindowOf[r] = w
         /\ \A w \in Windows : ~Exists(w)' => hot'[w] = {}
<1> USE Facts DEF TypeOK, hotVars, coldVars, aux, WritesOf
<1>a. UNCHANGED <<clock, arch, archiveLease, passedOver>>
  BY DEF Appending, Streaming, BeginAppend, ReadBoundary, EnsureForAppend, InsertHot,
         TakeColdLease, ReconcileCold, LoadAppendBase, CommitPreserve, CommitUnheard,
         RetryPreserve, Acknowledge, Reroute, StopWrite, OpenHotWriter, BeginStream,
         EnsureForStream, InsertStream, FailStream
<1>1. CASE p \in Appenders /\ (CommitPreserve(p) \/ CommitUnheard(p))
  <2>1. /\ UNCHANGED <<part, hot>>
        /\ writer[p].pc = "commit" /\ OnBase(p) /\ LandPreserve(writer[p])
    BY <1>1 DEF CommitPreserve, CommitUnheard
  <2>2. watermark' = watermark /\ archivedAt' = archivedAt
    BY <1>1, <2>1, AppenderLands
  <2> QED
    BY <1>a, <2>1, <2>2 DEF PartitionsCoherent, Exists, Detached
<1>2. CASE EnsureForAppend(p) \/ EnsureForStream(p)
  <2>1. Ensure(writer[p].cursor) /\ UNCHANGED <<hot, watermark, archivedAt>>
    BY <1>2 DEF EnsureForAppend, EnsureForStream
  <2>2. \A w \in Windows : part'[w] = part[w] \/ (part[w] = "absent" /\ part'[w] = "attached")
    BY <2>1 DEF Ensure, Exists
  <2> QED
    BY <1>a, <2>1, <2>2 DEF PartitionsCoherent, Exists, Detached
<1>3. ASSUME NEW H, H \subseteq Rows, Insert(H), UNCHANGED <<part, watermark, archivedAt>>
      PROVE  /\ UNCHANGED <<clock, watermark, archivedAt, arch, archiveLease, passedOver>>
             /\ \A w \in Windows : (Detached(w)' <=> Detached(w)) /\ (Exists(w) => Exists(w)')
             /\ \A w \in Windows : Detached(w) => hot'[w] = hot[w]
             /\ \A w \in Windows : \A r \in hot'[w] : WindowOf[r] = w
             /\ \A w \in Windows : ~Exists(w)' => hot'[w] = {}
  <2>1. \A w \in Windows : hot'[w] = hot[w] \union {r \in H : WindowOf[r] = w}
    BY <1>3 DEF Insert
  <2>2. \A w \in Windows : ~Attached(w) => hot'[w] = hot[w]
    BY <1>3, <2>1 DEF Insert
  <2>3. \A w \in Windows : \A r \in hot'[w] : WindowOf[r] = w
    BY <2>1 DEF PartitionsCoherent
  <2>4. part' = part
    BY <1>3
  <2>5. \A w \in Windows : (Detached(w)' <=> Detached(w)) /\ (Exists(w) <=> Exists(w)')
    BY <2>4 DEF Detached, Exists
  <2>6. \A w \in Windows : Detached(w) \/ ~Exists(w) => ~Attached(w)
    BY DEF Detached, Exists, Attached
  <2>7. \A w \in Windows : Detached(w) => hot'[w] = hot[w]
    BY <2>2, <2>6
  <2>8. \A w \in Windows : ~Exists(w)' => hot'[w] = {}
    BY <2>2, <2>5, <2>6 DEF PartitionsCoherent
  <2> QED
    BY <1>3, <1>a, <2>3, <2>5, <2>7, <2>8
<1>4. CASE InsertHot(p) \/ InsertStream(p)
  <2>1. HotPart(p) \subseteq Rows /\ writer[p].batch \subseteq Rows
    BY DEF HotPart, AtOrAbove, WriteType
  <2> QED
    BY <1>3, <1>4, <2>1 DEF InsertHot, InsertStream
<1>5. ASSUME UNCHANGED <<part, hot, watermark, archivedAt>>
      PROVE  /\ UNCHANGED <<clock, watermark, archivedAt, arch, archiveLease, passedOver>>
             /\ \A w \in Windows : (Detached(w)' <=> Detached(w)) /\ (Exists(w) => Exists(w)')
             /\ \A w \in Windows : Detached(w) => hot'[w] = hot[w]
             /\ \A w \in Windows : \A r \in hot'[w] : WindowOf[r] = w
             /\ \A w \in Windows : ~Exists(w)' => hot'[w] = {}
  BY <1>5, <1>a DEF PartitionsCoherent, Exists, Detached
<1> QED
  BY <1>1, <1>2, <1>4, <1>5
  DEF Appending, Streaming, BeginAppend, ReadBoundary, TakeColdLease, ReconcileCold,
      LoadAppendBase, RetryPreserve, Acknowledge, Reroute, StopWrite, OpenHotWriter,
      BeginStream, FailStream

\* A step of a writer leaves the partitions coherent and the archivers in step.
LEMMA PartitionsStepWriter ==
  ASSUME Coherent, NEW p \in Writers, WritesOf(p)
  PROVE  PartitionsCoherent' /\ ArchiverCoherent'
<1>1. Grows
  BY WriterGrows DEF WritesOf
<1>2. PartitionsCoherent'
  <2>1. \A w \in Windows : \A r \in hot[w] : InCold(r) => InCold(r)'
    BY <1>1, Facts DEF Grows, TypeOK
  <2> QED
    BY <2>1, WriterTouches, Facts DEF PartitionsCoherent, Due, Horizon
<1>3. ArchiverCoherent'
  BY WriterTouches, ArchiverUndisturbed, Facts
<1> QED
  BY <1>2, <1>3

\* The clock only makes windows due that were not.
LEMMA TickStep ==
  ASSUME Coherent, Tick
  PROVE  TypeOK' /\ PartitionsCoherent' /\ ArchiverCoherent' /\ Grows
<1> USE Facts DEF Tick, hotVars, coldVars, aux
<1>1. TypeOK'
  <2>1. clock' \in 0 .. MaxClock
    BY DEF TypeOK
  <2> QED
    BY <2>1 DEF TypeOK
<1>2. PartitionsCoherent'
  BY DEF PartitionsCoherent, Exists, Detached, InCold, Due, Horizon
<1>3. ArchiverCoherent'
  <2>1. \A w \in Windows : (Detached(w)' <=> Detached(w)) /\ (Exists(w) => Exists(w)')
    BY DEF Detached, Exists
  <2> QED
    BY <2>1, ArchiverUndisturbed
<1>4. Grows
  BY DEF Grows, Stored, InHot, InCold
<1> QED
  BY <1>1, <1>2, <1>3, <1>4

\* A step of somebody else leaves a writer in step as long as its lease and the
\* rows it is about to commit are left alone.
LEMMA WriterUndisturbed ==
  ASSUME Coherent, TypeOK', Grows, NEW q \in Writers, writer'[q] = writer[q],
         writer[q].pc \in LeasedPhase => coldLease' = q,
         snapshot' = snapshot => watermark' = watermark,
         writer[q].pc \in KeptPhase => \A r \in writer[q].keep : ~InCold(r)'
  PROVE  WriterInStep(q)'
<1> USE Facts
<1>1. WriterInStep(q) /\ writer[q] \in WriteType
  BY DEF WriterCoherent, TypeOK
<1>2. /\ writer[q].batch \subseteq Rows /\ writer[q].keep \subseteq Rows
      /\ writer[q].bound \in Int /\ writer[q].base \in Int
  BY <1>1, BoundsAssumption DEF WriteType, Boundaries
<1>3. HotPart(q)' = HotPart(q) /\ ColdPart(q)' = ColdPart(q)
  BY DEF HotPart, ColdPart, AtOrAbove, Below
<1>4. HotPart(q) \subseteq Rows /\ ColdPart(q) \subseteq Rows
  BY <1>2 DEF HotPart, ColdPart, AtOrAbove, Below
<1>5. watermark' \in Int /\ snapshot' \in Int
  BY BoundsAssumption DEF TypeOK, Boundaries
<1>6. writer[q].bound <= watermark'
  BY <1>1, <1>2, <1>5 DEF WriterInStep, Grows
<1>7. writer[q].base <= snapshot' /\ (writer[q].base = snapshot' => snapshot' = snapshot)
  BY <1>1, <1>2, <1>5 DEF WriterInStep, Grows
<1>8. \A r \in Rows : (InCold(r) => InCold(r)') /\ (Stored(r) => Stored(r)')
  BY DEF Grows
<1> QED
  BY <1>1, <1>3, <1>4, <1>6, <1>7, <1>8 DEF WriterInStep, KeptPhase

\* A step of an archiver leaves the writers in step: what a writer keeps to commit
\* is below the boundary, what an archiver commits is at it.
LEMMA WriterStepArchiver ==
  ASSUME Coherent, TypeOK', NEW a \in Archivers, Cycle(a) \/ StopCycle(a)
  PROVE  WriterCoherent'
<1> USE Facts DEF hotVars, coldVars
<1>1. UNCHANGED <<writer, coldLease>>
  BY DEF Cycle, LoseAdvance, AcquireLease, ListOrphans, DropOrphan, KeepOrphan, ReclaimDone, EnsureAhead,
         PickWindow, WidenOverEmpty, ArchiveWindow, ArchiveWindowIf, DetachPartition,
         LoadArchiveBase, ScanDetached, CommitAdvance, RetryAdvance, CommitConflict, StopCycle
<1>2. \/ CommitAdvance(a)
      \/ UNCHANGED <<watermark, snapshot, cold>>
  BY DEF Cycle, LoseAdvance, AcquireLease, ListOrphans, DropOrphan, KeepOrphan, ReclaimDone, EnsureAhead,
         PickWindow, WidenOverEmpty, ArchiveWindow, ArchiveWindowIf, DetachPartition,
         LoadArchiveBase, ScanDetached, RetryAdvance, CommitConflict, StopCycle
<1>3. ASSUME NEW q \in Writers
      PROVE  WriterInStep(q)'
  <2>1. WriterInStep(q) /\ writer[q] \in WriteType
    BY DEF WriterCoherent, TypeOK
  <2>2. writer[q].keep \subseteq Rows /\ writer[q].bound \in Int
    BY <2>1, BoundsAssumption DEF WriteType, Boundaries
  <2>3. writer[q].pc \in KeptPhase =>
          \A r \in writer[q].keep : ~InCold(r) /\ WindowOf[r] < watermark
    BY <2>1, <2>2 DEF WriterInStep
  <2>4. writer[q].pc \in KeptPhase => \A r \in writer[q].keep : ~InCold(r)'
    <3>1. CASE CommitAdvance(a)
      <4>1. \A r \in writer[q].keep : WindowOf[r] < watermark => cold'[r] = cold[r]
        BY <2>2, <3>1, ArchiverLands
      <4> QED
        BY <2>3, <4>1 DEF InCold
    <3>2. CASE UNCHANGED <<watermark, snapshot, cold>>
      BY <2>3, <3>2 DEF InCold
    <3> QED
      BY <1>2, <3>1, <3>2
  <2>5. snapshot' = snapshot => watermark' = watermark
    BY <1>2, ArchiverLands
  <2>6. writer[q].pc \in LeasedPhase => coldLease' = q
    BY <1>1, <2>1 DEF WriterInStep
  <2> QED
    BY <1>1, <2>4, <2>5, <2>6, ArchiverGrows, WriterUndisturbed
<1> QED
  BY <1>3 DEF WriterCoherent

\* A step of one writer leaves the others in step: only the holder of the
\* cold-append lease commits.
LEMMA WriterStepOther ==
  ASSUME Coherent, TypeOK', NEW p \in Writers, WritesOf(p), NEW q \in Writers, q # p
  PROVE  WriterInStep(q)'
<1> USE Facts DEF hotVars, coldVars
<1>1. writer'[q] = writer[q]
  BY DEF WritesOf, Appending, Streaming, BeginAppend, ReadBoundary, EnsureForAppend, InsertHot,
         TakeColdLease, ReconcileCold, LoadAppendBase, CommitPreserve, CommitUnheard,
         RetryPreserve, Acknowledge, Reroute, StopWrite, OpenHotWriter, BeginStream,
         EnsureForStream, InsertStream, FailStream, FinishCold, EndWrite, TypeOK
<1>2. WriterInStep(q)
  BY DEF WriterCoherent
<1>3. writer[q].pc \in LeasedPhase => coldLease = q /\ q # Nobody
  BY <1>2, ProcessAssumption DEF WriterInStep
<1>4. coldLease' = coldLease \/ coldLease = p \/ coldLease = Nobody
  BY DEF WritesOf, Appending, Streaming, BeginAppend, ReadBoundary, EnsureForAppend, InsertHot,
         TakeColdLease, ReconcileCold, LoadAppendBase, CommitPreserve, CommitUnheard,
         RetryPreserve, Acknowledge, Reroute, StopWrite, OpenHotWriter, BeginStream,
         EnsureForStream, InsertStream, FailStream, FinishCold, EndWrite, Unlocked
<1>5. \/ p \in Appenders /\ writer[p].pc = "commit" /\ OnBase(p) /\ LandPreserve(writer[p])
      \/ cold' = cold
  BY DEF WritesOf, Appending, Streaming, BeginAppend, ReadBoundary, EnsureForAppend, InsertHot,
         TakeColdLease, ReconcileCold, LoadAppendBase, CommitPreserve, CommitUnheard,
         RetryPreserve, Acknowledge, Reroute, StopWrite, OpenHotWriter, BeginStream,
         EnsureForStream, InsertStream, FailStream
<1>6. writer[q].pc \in LeasedPhase => coldLease' = q
  BY <1>3, <1>4
<1>7. writer[q].pc \in KeptPhase => \A r \in writer[q].keep : ~InCold(r)'
  <2>1. ASSUME writer[q].pc \in KeptPhase
        PROVE  cold' = cold
    BY <1>3, <1>5, <2>1, AppenderLands DEF LeasedPhase, KeptPhase
  <2> QED
    BY <1>2, <2>1 DEF WriterInStep, InCold
<1>8. watermark' = watermark /\ Grows
  BY WriterTouches, WriterGrows DEF WritesOf
<1> QED
  BY <1>1, <1>6, <1>7, <1>8, WriterUndisturbed

\* A step of a writer leaves that writer in step.
LEMMA WriterStepSelf ==
  ASSUME Coherent, TypeOK', NEW p \in Writers, WritesOf(p)
  PROVE  WriterInStep(p)'
<1> USE Facts DEF hotVars, coldVars
<1>0. WriterInStep(p) /\ writer[p] \in WriteType
  BY DEF WriterCoherent, TypeOK
<1>1. /\ watermark' = watermark /\ watermark >= 0 /\ snapshot' \in Int
      /\ snapshot' >= snapshot /\ snapshot >= 0
      /\ \A r \in Rows : (InCold(r) => InCold(r)') /\ (Stored(r) => Stored(r)')
  BY WriterTouches, WriterGrows DEF WritesOf, Grows, TypeOK, Boundaries
<1>2. /\ writer[p].batch \subseteq Rows /\ writer[p].keep \subseteq Rows
      /\ writer[p].bound \in Int /\ writer[p].base \in Int
      /\ writer[p].bound <= watermark /\ writer[p].base <= snapshot
  BY <1>0, BoundsAssumption DEF WriteType, Boundaries, WriterInStep
<1>3. HotPart(p) \subseteq Rows /\ ColdPart(p) \subseteq Rows
  BY <1>2 DEF HotPart, ColdPart, AtOrAbove, Below
<1>n. ASSUME writer'[p] = NoWrite
      PROVE  WriterInStep(p)'
  BY <1>1, <1>n DEF WriterInStep, NoWrite, LeasedPhase, KeptPhase
\* The phases before the insertion and those of a HotWriter promise little.
<1>q. ASSUME writer'[p].pc \in {"boundary", "ensure", "insert", "open", "openEnsure", "openInsert"},
             writer'[p].bound \in {0, writer[p].bound, watermark},
             writer'[p].base \in {0, writer[p].base}
      PROVE  WriterInStep(p)'
  BY <1>1, <1>2, <1>q DEF WriterInStep, LeasedPhase, KeptPhase
<1>r. ASSUME writer'[p] = [writer[p] EXCEPT !.pc = "recheck"],
             \A r \in HotPart(p) : Stored(r)', \A r \in ColdPart(p) : InCold(r)'
      PROVE  WriterInStep(p)'
  <2>1. /\ writer'[p].pc = "recheck" /\ writer'[p].bound = writer[p].bound
        /\ writer'[p].base = writer[p].base /\ writer'[p].batch = writer[p].batch
    BY <1>0, <1>r DEF WriteType
  <2>2. HotPart(p)' = HotPart(p) /\ ColdPart(p)' = ColdPart(p)
    BY <2>1 DEF HotPart, ColdPart, AtOrAbove, Below
  <2> QED
    BY <1>1, <1>2, <1>r, <2>1, <2>2 DEF WriterInStep, LeasedPhase, KeptPhase
<1>f. ASSUME FinishCold(p),
             \A r \in HotPart(p) : Stored(r)', \A r \in ColdPart(p) : InCold(r)'
      PROVE  WriterInStep(p)'
  <2>1. writer'[p] = NoWrite \/ writer'[p] = [writer[p] EXCEPT !.pc = "recheck"]
    BY <1>f DEF FinishCold, TypeOK
  <2> QED
    BY <1>f, <1>n, <1>r, <2>1
<1>4. CASE p \in Appenders /\ BeginAppend(p)
  <2>1. PICK B : writer' = [writer EXCEPT ![p] =
                     [@ EXCEPT !.pc = "boundary", !.batch = B, !.round = 1]]
    BY <1>4 DEF BeginAppend
  <2>2. writer'[p] = [writer[p] EXCEPT !.pc = "boundary", !.batch = B, !.round = 1]
    BY <2>1 DEF TypeOK
  <2>3. /\ writer'[p].pc = "boundary" /\ writer'[p].bound = writer[p].bound
        /\ writer'[p].base = writer[p].base
    BY <1>0, <2>2 DEF WriteType
  <2> QED
    BY <1>q, <2>3
<1>5. CASE p \in Appenders /\ ReadBoundary(p)
  <2>1. CASE AtOrAbove(writer[p].batch, watermark) = {}
             /\ writer' = [writer EXCEPT ![p] = [@ EXCEPT !.pc = "lease", !.bound = watermark]]
    <3>1. writer'[p] = [writer[p] EXCEPT !.pc = "lease", !.bound = watermark]
      BY <2>1 DEF TypeOK
    <3>2. /\ writer'[p].pc = "lease" /\ writer'[p].bound = watermark
          /\ writer'[p].base = writer[p].base /\ writer'[p].batch = writer[p].batch
      BY <1>0, <3>1 DEF WriteType
    <3>3. HotPart(p)' = {}
      BY <2>1, <3>2 DEF HotPart
    <3> QED
      BY <1>1, <1>2, <3>2, <3>3 DEF WriterInStep, LeasedPhase, KeptPhase
  <2>2. ASSUME NEW first, NEW until,
               writer' = [writer EXCEPT ![p] =
                    [@ EXCEPT !.pc = "ensure", !.bound = watermark,
                              !.cursor = first, !.until = until]]
        PROVE  WriterInStep(p)'
    <3>1. writer'[p] = [writer[p] EXCEPT !.pc = "ensure", !.bound = watermark,
                                         !.cursor = first, !.until = until]
      BY <2>2 DEF TypeOK
    <3>2. /\ writer'[p].pc = "ensure" /\ writer'[p].bound = watermark
          /\ writer'[p].base = writer[p].base
      BY <1>0, <3>1 DEF WriteType
    <3> QED
      BY <1>q, <3>2
  <2> QED
    BY <1>5, <2>1, <2>2 DEF ReadBoundary
<1>6. CASE p \in Appenders /\ EnsureForAppend(p)
  <2>1. writer'[p] = [writer[p] EXCEPT !.cursor = writer[p].cursor + 1,
          !.pc = IF writer[p].cursor + 1 < writer[p].until THEN "ensure" ELSE "insert"]
    BY <1>6 DEF EnsureForAppend, TypeOK
  <2>2. /\ writer'[p].pc \in {"ensure", "insert"} /\ writer'[p].bound = writer[p].bound
        /\ writer'[p].base = writer[p].base
    BY <1>0, <2>1 DEF WriteType
  <2> QED
    BY <1>q, <2>2
<1>7. CASE p \in Appenders /\ InsertHot(p)
  <2>1. \A r \in HotPart(p) : Stored(r)'
    BY <1>3, <1>7 DEF InsertHot, Insert, Stored, InHot
  <2>2. CASE ColdPart(p) = {}
    <3>1. writer'[p] = [writer[p] EXCEPT !.pc = "recheck"]
      BY <1>7, <2>2 DEF InsertHot, TypeOK
    <3> QED
      BY <1>r, <2>1, <2>2, <3>1
  <2>3. CASE ColdPart(p) # {}
    <3>1. writer'[p] = [writer[p] EXCEPT !.pc = "lease"]
      BY <1>7, <2>3 DEF InsertHot, TypeOK
    <3>2. /\ writer'[p].pc = "lease" /\ writer'[p].bound = writer[p].bound
          /\ writer'[p].base = writer[p].base /\ writer'[p].batch = writer[p].batch
      BY <1>0, <3>1 DEF WriteType
    <3>3. HotPart(p)' = HotPart(p)
      BY <3>2 DEF HotPart, AtOrAbove
    <3> QED
      BY <1>1, <1>2, <2>1, <3>2, <3>3 DEF WriterInStep, LeasedPhase, KeptPhase
  <2> QED
    BY <2>2, <2>3
<1>8. CASE p \in Appenders /\ TakeColdLease(p)
  <2>1. writer'[p] = [writer[p] EXCEPT !.pc = "reconcile"] /\ coldLease' = p
        /\ writer[p].pc = "lease"
    BY <1>8 DEF TakeColdLease, TypeOK
  <2>2. /\ writer'[p].pc = "reconcile" /\ writer'[p].bound = writer[p].bound
        /\ writer'[p].base = writer[p].base /\ writer'[p].batch = writer[p].batch
    BY <1>0, <2>1 DEF WriteType
  <2>3. HotPart(p)' = HotPart(p)
    BY <2>2 DEF HotPart, AtOrAbove
  <2>4. \A r \in HotPart(p) : Stored(r)
    BY <1>0, <2>1 DEF WriterInStep
  <2> QED
    BY <1>1, <1>2, <1>3, <2>1, <2>2, <2>3, <2>4 DEF WriterInStep, LeasedPhase, KeptPhase
<1>9. CASE p \in Appenders /\ ReconcileCold(p)
  <2>0. \A r \in HotPart(p) : Stored(r)
    BY <1>0, <1>9 DEF ReconcileCold, WriterInStep, LeasedPhase
  <2>1. CASE Missing(ColdPart(p)) = {} /\ FinishCold(p)
    <3>1. \A r \in ColdPart(p) : InCold(r)
      BY <2>1 DEF Missing
    <3> QED
      BY <1>1, <1>3, <1>f, <2>0, <2>1, <3>1
  <2>2. CASE /\ writer' = [writer EXCEPT ![p] =
                  [@ EXCEPT !.pc = "load", !.keep = Missing(ColdPart(p)), !.tries = 1]]
             /\ UNCHANGED <<coldLease, acked>>
    <3>1. writer'[p] = [writer[p] EXCEPT !.pc = "load", !.keep = Missing(ColdPart(p)), !.tries = 1]
      BY <2>2 DEF TypeOK
    <3>2. /\ writer'[p].pc = "load" /\ writer'[p].keep = Missing(ColdPart(p))
          /\ writer'[p].bound = writer[p].bound /\ writer'[p].base = writer[p].base
          /\ writer'[p].batch = writer[p].batch
      BY <1>0, <3>1 DEF WriteType
    <3>3. HotPart(p)' = HotPart(p) /\ ColdPart(p)' = ColdPart(p)
      BY <3>2 DEF HotPart, ColdPart, AtOrAbove, Below
    <3>4. coldLease' = p
      BY <1>0, <1>9, <2>2 DEF ReconcileCold, WriterInStep, LeasedPhase
    <3>5. UNCHANGED cold
      BY <1>9 DEF ReconcileCold
    <3>6. \A r \in Missing(ColdPart(p)) : ~InCold(r)' /\ WindowOf[r] < writer[p].bound
      BY <3>5 DEF Missing, ColdPart, Below, InCold
    <3>7. \A r \in ColdPart(p) : r \in Missing(ColdPart(p)) \/ InCold(r)'
      BY <3>5 DEF Missing, InCold
    <3> QED
      BY <1>1, <1>2, <1>3, <2>0, <3>2, <3>3, <3>4, <3>6, <3>7
      DEF WriterInStep, LeasedPhase, KeptPhase
  <2> QED
    BY <1>9, <2>1, <2>2 DEF ReconcileCold
<1>10. CASE p \in Appenders /\ (LoadAppendBase(p) \/ RetryPreserve(p))
  <2>1. \/ writer'[p] = [writer[p] EXCEPT !.pc = "commit", !.base = snapshot, !.mark = watermark]
        \/ writer'[p] = [writer[p] EXCEPT !.pc = "load", !.tries = writer[p].tries + 1]
    BY <1>10 DEF LoadAppendBase, RetryPreserve, TypeOK
  <2>2. /\ writer'[p].bound = writer[p].bound /\ writer'[p].batch = writer[p].batch
        /\ writer'[p].keep = writer[p].keep
        /\ \/ writer'[p].pc = "commit" /\ writer'[p].base = snapshot /\ writer'[p].mark = watermark
           \/ writer'[p].pc = "load" /\ writer'[p].base = writer[p].base
    BY <1>0, <2>1 DEF WriteType
  <2>3. HotPart(p)' = HotPart(p) /\ ColdPart(p)' = ColdPart(p)
    BY <2>2 DEF HotPart, ColdPart, AtOrAbove, Below
  <2>4. UNCHANGED <<coldLease, cold, snapshot>> /\ writer[p].pc \in {"load", "commit"}
    BY <1>10 DEF LoadAppendBase, RetryPreserve
  <2>5. \A r \in Rows : InCold(r)' <=> InCold(r)
    BY <2>4 DEF InCold
  <2> QED
    BY <1>0, <1>1, <1>2, <1>3, <2>2, <2>3, <2>4, <2>5 DEF WriterInStep, LeasedPhase, KeptPhase
<1>11. CASE p \in Appenders /\ CommitPreserve(p)
  <2>1. /\ writer[p].pc = "commit" /\ OnBase(p) /\ LandPreserve(writer[p]) /\ FinishCold(p)
    BY <1>11 DEF CommitPreserve
  <2>2. \A r \in writer[p].keep : InCold(r)'
    BY <1>2, <1>11, <2>1, AppenderLands DEF InCold
  <2>3. \A r \in ColdPart(p) : InCold(r)'
    BY <1>0, <1>1, <1>3, <2>1, <2>2 DEF WriterInStep, KeptPhase
  <2>4. \A r \in HotPart(p) : Stored(r)'
    BY <1>0, <1>1, <1>3, <2>1 DEF WriterInStep, LeasedPhase
  <2> QED
    BY <1>f, <2>1, <2>3, <2>4
<1>12. CASE p \in Appenders /\ Reroute(p)
  <2>1. writer'[p] = [NoWrite EXCEPT !.pc = "boundary", !.batch = writer[p].batch,
                                     !.round = writer[p].round + 1]
    BY <1>12 DEF Reroute, TypeOK
  <2>2. writer'[p].pc = "boundary" /\ writer'[p].bound = 0 /\ writer'[p].base = 0
    BY <2>1 DEF NoWrite
  <2> QED
    BY <1>q, <2>2
<1>13. CASE \/ p \in Appenders /\ (CommitUnheard(p) \/ Acknowledge(p))
            \/ StopWrite(p)
  BY <1>13, <1>n DEF CommitUnheard, Acknowledge, StopWrite, EndWrite, TypeOK
<1>14. CASE p \in Streamers /\ OpenHotWriter(p)
  <2>1. writer'[p] = [writer[p] EXCEPT !.pc = "open", !.bound = watermark]
    BY <1>14 DEF OpenHotWriter, TypeOK
  <2>2. writer'[p].pc = "open" /\ writer'[p].bound = watermark /\ writer'[p].base = writer[p].base
    BY <1>0, <2>1 DEF WriteType
  <2> QED
    BY <1>q, <2>2
<1>15. CASE p \in Streamers /\ BeginStream(p)
  <2>1. PICK B \in Deliveries, first \in Windows, last \in Windows :
          \E needed \in first .. last + 1 :
            writer' = [writer EXCEPT ![p] =
                 [@ EXCEPT !.batch = B, !.cursor = needed, !.until = last + 1,
                           !.pc = IF needed <= last THEN "openEnsure" ELSE "openInsert"]]
    BY <1>15, Zenon DEF BeginStream
  <2>2. PICK needed \in first .. last + 1 :
          writer'[p] = [writer[p] EXCEPT !.batch = B, !.cursor = needed, !.until = last + 1,
                           !.pc = IF needed <= last THEN "openEnsure" ELSE "openInsert"]
    BY <2>1 DEF TypeOK
  <2>3. /\ writer'[p].pc \in {"openEnsure", "openInsert"} /\ writer'[p].bound = writer[p].bound
        /\ writer'[p].base = writer[p].base
    BY <1>0, <2>2 DEF WriteType
  <2> QED
    BY <1>q, <2>3
<1>16. CASE p \in Streamers /\ EnsureForStream(p)
  <2> DEFINE final   == writer[p].cursor + 1 >= writer[p].until
             spanned == {w \in Windows : /\ w < writer[p].until
                                         /\ \E r \in writer[p].batch : WindowOf[r] <= w}
             ensured == writer[p].ensured \union (IF final THEN spanned ELSE {})
             phase   == IF final THEN "openInsert" ELSE "openEnsure"
  <2>1. writer' = [writer EXCEPT ![p] =
       [@ EXCEPT !.cursor = writer[p].cursor + 1, !.ensured = ensured, !.pc = phase]]
    BY <1>16 DEF EnsureForStream
  <2>2. writer'[p] = [writer[p] EXCEPT !.cursor = writer[p].cursor + 1, !.ensured = ensured, !.pc = phase]
    BY <2>1 DEF TypeOK
  <2>3. /\ writer'[p].pc \in {"openEnsure", "openInsert"} /\ writer'[p].bound = writer[p].bound
        /\ writer'[p].base = writer[p].base
    BY <1>0, <2>2 DEF WriteType
  <2> QED
    BY <1>q, <2>3
<1>17. CASE p \in Streamers /\ (InsertStream(p) \/ FailStream(p))
  <2>1. writer'[p] = [NoWrite EXCEPT !.pc = "open", !.bound = writer[p].bound,
                                     !.ensured = writer[p].ensured]
    BY <1>17 DEF InsertStream, FailStream, TypeOK
  <2>2. writer'[p].pc = "open" /\ writer'[p].bound = writer[p].bound /\ writer'[p].base = 0
    BY <2>1 DEF NoWrite
  <2> QED
    BY <1>q, <2>2
<1> QED
  BY <1>4, <1>5, <1>6, <1>7, <1>8, <1>9, <1>10, <1>11, <1>12, <1>13, <1>14, <1>15, <1>16, <1>17
  DEF WritesOf, Appending, Streaming

-----------------------------------------------------------------------------
(* The promises: ReadOnce, ColdBelowBoundary and the action properties.     *)

\* Only a landing commit changes the cold tier or the boundary.
LEMMA ColdStep ==
  ASSUME [Next]_vars
  PROVE  \/ \E a \in Archivers : CommitAdvance(a)
         \/ \E p \in Appenders : CommitPreserve(p) \/ CommitUnheard(p)
         \/ UNCHANGED <<cold, watermark>>
<1> USE DEF hotVars, coldVars
<1>1. ASSUME NEW a \in Archivers, Cycle(a) \/ StopCycle(a)
      PROVE  CommitAdvance(a) \/ UNCHANGED <<cold, watermark>>
  <2>1. CASE StopCycle(a) \/ RetryAdvance(a) \/ CommitConflict(a)
    BY <2>1 DEF StopCycle, RetryAdvance, CommitConflict
  <2>2. CASE \/ AcquireLease(a) \/ ListOrphans(a) \/ DropOrphan(a)
             \/ KeepOrphan(a) \/ ReclaimDone(a)
    BY <2>2 DEF AcquireLease, ListOrphans, DropOrphan, KeepOrphan, ReclaimDone
  <2>3. CASE EnsureAhead(a) \/ PickWindow(a) \/ WidenOverEmpty(a) \/ ArchiveWindow(a)
    BY <2>3 DEF EnsureAhead, PickWindow, WidenOverEmpty, ArchiveWindow, ArchiveWindowIf
  <2>4. CASE DetachPartition(a) \/ LoadArchiveBase(a) \/ ScanDetached(a)
    BY <2>4 DEF DetachPartition, LoadArchiveBase, ScanDetached
  <2> QED
    BY <1>1, <2>1, <2>2, <2>3, <2>4 DEF Cycle, LoseAdvance
<1>2. ASSUME NEW p \in Appenders, Appending(p)
      PROVE  CommitPreserve(p) \/ CommitUnheard(p) \/ UNCHANGED <<cold, watermark>>
  <2>1. CASE BeginAppend(p) \/ ReadBoundary(p) \/ EnsureForAppend(p) \/ StopWrite(p)
    BY <2>1 DEF BeginAppend, ReadBoundary, EnsureForAppend, StopWrite
  <2>2. CASE InsertHot(p) \/ TakeColdLease(p) \/ ReconcileCold(p) \/ LoadAppendBase(p)
    BY <2>2 DEF InsertHot, TakeColdLease, ReconcileCold, LoadAppendBase
  <2>3. CASE RetryPreserve(p) \/ Acknowledge(p) \/ Reroute(p)
    BY <2>3 DEF RetryPreserve, Acknowledge, Reroute
  <2> QED
    BY <1>2, <2>1, <2>2, <2>3 DEF Appending
<1>3. ASSUME NEW p \in Streamers, Streaming(p)
      PROVE  UNCHANGED <<cold, watermark>>
  BY <1>3 DEF Streaming, OpenHotWriter, BeginStream, EnsureForStream, InsertStream,
              FailStream, StopWrite
<1>4. Tick \/ UNCHANGED vars => UNCHANGED <<cold, watermark>>
  BY DEF Tick, vars
<1> QED
  BY <1>1, <1>2, <1>3, <1>4 DEF Next

\* An archiver's step, or a tick, promises nothing to a caller; an appender's
\* promises nothing about streamed rows.
LEMMA PromisedBy ==
  ASSUME [Next]_vars
  PROVE  \/ UNCHANGED <<acked, streamed>>
         \/ UNCHANGED streamed /\ \E p \in Appenders : Appending(p)
         \/ \E p \in Streamers : Streaming(p)
<1> USE DEF aux
<1>1. ASSUME NEW a \in Archivers, Cycle(a) \/ StopCycle(a)
      PROVE  UNCHANGED <<acked, streamed>>
  <2>1. CASE StopCycle(a) \/ CommitAdvance(a) \/ RetryAdvance(a) \/ CommitConflict(a)
    BY <2>1 DEF StopCycle, CommitAdvance, RetryAdvance, CommitConflict
  <2>2. CASE \/ AcquireLease(a) \/ ListOrphans(a) \/ DropOrphan(a)
             \/ KeepOrphan(a) \/ ReclaimDone(a)
    BY <2>2 DEF AcquireLease, ListOrphans, DropOrphan, KeepOrphan, ReclaimDone
  <2>3. CASE EnsureAhead(a) \/ PickWindow(a) \/ WidenOverEmpty(a) \/ ArchiveWindow(a)
    BY <2>3 DEF EnsureAhead, PickWindow, WidenOverEmpty, ArchiveWindow, ArchiveWindowIf
  <2>4. CASE DetachPartition(a) \/ LoadArchiveBase(a) \/ ScanDetached(a)
    BY <2>4 DEF DetachPartition, LoadArchiveBase, ScanDetached
  <2> QED
    BY <1>1, <2>1, <2>2, <2>3, <2>4 DEF Cycle, LoseAdvance
<1>2. ASSUME NEW p \in Appenders, Appending(p)
      PROVE  UNCHANGED streamed
  <2>1. CASE BeginAppend(p) \/ ReadBoundary(p) \/ EnsureForAppend(p) \/ StopWrite(p)
    BY <2>1 DEF BeginAppend, ReadBoundary, EnsureForAppend, StopWrite
  <2>2. CASE InsertHot(p) \/ TakeColdLease(p) \/ ReconcileCold(p) \/ LoadAppendBase(p)
    BY <2>2 DEF InsertHot, TakeColdLease, ReconcileCold, LoadAppendBase
  <2>3. CASE \/ CommitPreserve(p) \/ CommitUnheard(p) \/ RetryPreserve(p)
             \/ Acknowledge(p) \/ Reroute(p)
    BY <2>3 DEF CommitPreserve, CommitUnheard, RetryPreserve, Acknowledge, Reroute
  <2> QED
    BY <1>2, <2>1, <2>2, <2>3 DEF Appending
<1>3. Tick \/ UNCHANGED vars => UNCHANGED <<acked, streamed>>
  BY DEF Tick, vars
<1> QED
  BY <1>1, <1>2, <1>3 DEF Next

\* No step stores a row in the cold tier twice, or at or above the boundary.
LEMMA CopiesStep ==
  ASSUME Coherent, TypeOK', [Next]_vars
  PROVE  ReadOnce' /\ ColdBelowBoundary'
<1> USE Facts
<1>0. watermark' \in Int
  BY BoundsAssumption DEF TypeOK, Boundaries
<1>1. ASSUME NEW S, S \subseteq Rows, watermark' >= watermark,
             \A r \in Rows : cold'[r] = IF r \in S THEN cold[r] + 1 ELSE cold[r],
             \A r \in S : cold[r] = 0 /\ WindowOf[r] < watermark'
      PROVE  ReadOnce' /\ ColdBelowBoundary'
  BY <1>0, <1>1 DEF ReadOnce, ColdBelowBoundary, InCold
<1>2. CASE \E a \in Archivers : CommitAdvance(a)
  <2>1. PICK a \in Archivers : CommitAdvance(a)
    BY <1>2
  <2>2. arch[a].rows \subseteq Rows
    BY DEF TypeOK, CycleType
  <2>3. /\ watermark' > watermark
        /\ \A r \in Rows : cold'[r] = IF r \in arch[a].rows THEN cold[r] + 1 ELSE cold[r]
        /\ \A r \in arch[a].rows : cold[r] = 0 /\ WindowOf[r] = watermark
    BY <2>1, ArchiverLands
  <2>4. watermark' >= watermark /\ \A r \in arch[a].rows : WindowOf[r] < watermark'
    BY <1>0, <2>3
  <2> QED
    BY <1>1, <2>2, <2>3, <2>4
<1>3. CASE \E p \in Appenders : CommitPreserve(p) \/ CommitUnheard(p)
  <2>1. PICK p \in Appenders :
          writer[p].pc = "commit" /\ OnBase(p) /\ LandPreserve(writer[p])
    BY <1>3 DEF CommitPreserve, CommitUnheard
  <2>2. writer[p].keep \subseteq Rows
    BY DEF TypeOK, WriteType, Writers
  <2>3. /\ watermark' = watermark
        /\ \A r \in Rows : cold'[r] = IF r \in writer[p].keep THEN cold[r] + 1 ELSE cold[r]
        /\ \A r \in writer[p].keep : cold[r] = 0 /\ WindowOf[r] < watermark
    BY <2>1, AppenderLands
  <2> QED
    BY <1>1, <2>2, <2>3
<1>4. CASE UNCHANGED <<cold, watermark>>
  BY <1>4 DEF ReadOnce, ColdBelowBoundary, InCold
<1> QED
  BY <1>2, <1>3, <1>4, ColdStep

\* The body of StrandedOnlyWherePassedOver, row by row.
Found(r) == Readable(r) \/ WindowOf[r] \in passedOver

\* A row a query finds, or one of a window passed over, stays so.
LEMMA FoundStays ==
  ASSUME Coherent, TypeOK', [Next]_vars, NEW r \in Rows, Found(r)
  PROVE  Found(r)'
<1> USE Facts DEF hotVars, coldVars, aux, Found, Readable
<1>0. watermark' \in Int
  BY BoundsAssumption DEF TypeOK, Boundaries
<1>1. ASSUME NEW a \in Archivers, CommitAdvance(a)
      PROVE  Found(r)'
  <2>1. /\ watermark' > watermark /\ watermark \in Windows /\ UNCHANGED hot
        /\ passedOver' = passedOver \union
             {w \in Windows : w >= watermark /\ w < watermark' /\ ~(arch[a].scans /\ w = watermark)}
        /\ arch[a].scans => arch[a].rows = hot[watermark]
        /\ cold'[r] = IF r \in arch[a].rows THEN cold[r] + 1 ELSE cold[r]
    BY <1>1, ArchiverLands DEF CommitAdvance
  <2>2. CASE WindowOf[r] < watermark
    BY <1>0, <2>1, <2>2 DEF InCold
  <2>3. CASE WindowOf[r] >= watermark'
    BY <1>0, <2>1, <2>3 DEF InHot
  <2>4. CASE WindowOf[r] >= watermark /\ WindowOf[r] < watermark'
    <3>1. CASE arch[a].scans /\ WindowOf[r] = watermark
      BY <1>0, <2>1, <2>4, <3>1 DEF InHot, InCold
    <3>2. CASE ~(arch[a].scans /\ WindowOf[r] = watermark)
      BY <2>1, <2>4, <3>2
    <3> QED
      BY <3>1, <3>2
  <2> QED
    BY <1>0, <2>2, <2>3, <2>4
<1>2. ASSUME NEW a \in Archivers, DropOrphan(a)
      PROVE  Found(r)'
  <2>1. PICK w \in arch[a].orphans :
               /\ Reclaimable(a, w)
               /\ hot' = [hot EXCEPT ![w] = {}]
    BY <1>2 DEF DropOrphan
  <2>2. w < watermark /\ w \in Windows
    BY <1>2, <2>1 DEF DropOrphan, Reclaimable, ArchiverCoherent, ArchiverInStep, TypeOK, CycleType
  <2>3. UNCHANGED <<watermark, cold, passedOver>>
    BY <1>2 DEF DropOrphan
  <2> QED
    BY <2>1, <2>2, <2>3 DEF InHot, InCold, TypeOK
<1>3. ASSUME NEW p \in Writers, WritesOf(p)
      PROVE  Found(r)'
  <2>1. UNCHANGED <<watermark, passedOver>>
    BY <1>3, WriterTouches
  <2>2. InCold(r) => InCold(r)'
    BY <1>3, WriterGrows DEF Grows, WritesOf
  <2>3. InHot(r) => InHot(r)'
    <3>1. \/ UNCHANGED hot
          \/ \E H : hot' = [w \in Windows |-> hot[w] \union {s \in H : WindowOf[s] = w}]
      BY <1>3 DEF WritesOf, Appending, Streaming, BeginAppend, ReadBoundary, EnsureForAppend,
         InsertHot, Insert, TakeColdLease, ReconcileCold, LoadAppendBase, CommitPreserve,
         CommitUnheard, RetryPreserve, Acknowledge, Reroute, StopWrite, OpenHotWriter,
         BeginStream, EnsureForStream, InsertStream, FailStream
    <3> QED
      BY <3>1 DEF InHot
  <2> QED
    BY <2>1, <2>2, <2>3
<1>4. ASSUME UNCHANGED <<watermark, cold, passedOver, hot>>
      PROVE  Found(r)'
  BY <1>4 DEF InHot, InCold
<1> QED
  BY <1>1, <1>2, <1>3, <1>4
  DEF Next, vars, Tick, Cycle, LoseAdvance, AcquireLease, ListOrphans, KeepOrphan, ReclaimDone,
      EnsureAhead, PickWindow, WidenOverEmpty, ArchiveWindow, ArchiveWindowIf, DetachPartition,
      LoadArchiveBase, ScanDetached, RetryAdvance, CommitConflict, StopCycle, WritesOf, Writers

\* What append returns Ok for at a step is stored after it, and found by a query or
\* passed over: the second reading of the boundary sees to it.
LEMMA AckedIsFound ==
  ASSUME Coherent, TypeOK', NEW p \in Writers, WritesOf(p), NEW r \in acked', r \notin acked
  PROVE  r \in Rows /\ Stored(r)' /\ Found(r)'
<1> USE Facts DEF hotVars, coldVars, aux, Found, Readable
<1>0. WriterInStep(p) /\ writer[p].batch \subseteq Rows /\ writer[p].bound \in Int
  BY BoundsAssumption DEF WriterCoherent, TypeOK, WriteType, Boundaries
<1>1. watermark' = watermark /\ writer[p].bound <= watermark
  BY <1>0, WriterTouches DEF WriterInStep
<1>2. \A s \in Rows : (InCold(s) => InCold(s)') /\ (Stored(s) => Stored(s)')
  BY WriterGrows DEF Grows, WritesOf
<1>c. ASSUME r \in ColdPart(p), InCold(r)'
      PROVE  r \in Rows /\ Stored(r)' /\ Found(r)'
  <2>1. r \in Rows /\ WindowOf[r] < writer[p].bound
    BY <1>0, <1>c DEF ColdPart, Below
  <2>2. WindowOf[r] < watermark'
    BY <1>0, <1>1, <2>1
  <2> QED
    BY <1>c, <2>1, <2>2 DEF Stored
<1>3. CASE p \in Appenders /\ Acknowledge(p)
  <2>1. r \in writer[p].batch /\ writer[p].pc = "recheck" /\ ~MovedUnder(p) /\ UNCHANGED <<hot, cold>>
    BY <1>3 DEF Acknowledge
  <2>2. r \in Rows
    BY <1>0, <2>1
  <2>3. CASE r \in ColdPart(p)
    BY <1>0, <1>2, <1>c, <2>1, <2>2, <2>3 DEF WriterInStep
  <2>4. CASE r \in HotPart(p)
    <3>1. Stored(r) /\ WindowOf[r] >= watermark
      BY <1>0, <2>1, <2>2, <2>4 DEF WriterInStep, MovedUnder
    <3>2. InHot(r)
      BY <2>2, <3>1 DEF Stored, ColdBelowBoundary
    <3> QED
      BY <1>1, <2>1, <2>2, <3>1, <3>2 DEF InHot, Stored
  <2>5. r \in ColdPart(p) \/ r \in HotPart(p)
    BY <1>0, <2>1, <2>2 DEF ColdPart, HotPart, Below, AtOrAbove
  <2> QED
    BY <2>3, <2>4, <2>5
<1>4. CASE p \in Appenders /\ (CommitPreserve(p) \/ ReconcileCold(p))
  <2>1. r \in writer[p].batch /\ HotPart(p) = {} /\ FinishCold(p)
    BY <1>4 DEF CommitPreserve, ReconcileCold, FinishCold
  <2>2. r \in ColdPart(p)
    BY <1>0, <2>1 DEF ColdPart, HotPart, Below, AtOrAbove
  <2>3. r \in Rows
    BY <1>0, <2>1
  <2>4. CASE CommitPreserve(p)
    <3>1. r \in writer[p].keep \/ InCold(r)
      BY <1>0, <2>2, <2>4 DEF CommitPreserve, WriterInStep, KeptPhase
    <3>2. cold'[r] = IF r \in writer[p].keep THEN cold[r] + 1 ELSE cold[r]
      BY <1>4, <2>3, <2>4, AppenderLands DEF CommitPreserve
    <3> QED
      BY <1>c, <2>2, <2>3, <3>1, <3>2 DEF InCold
  <2>5. CASE ReconcileCold(p)
    <3>1. Missing(ColdPart(p)) = {}
      BY <2>5 DEF ReconcileCold
    <3> QED
      BY <1>2, <1>c, <2>2, <2>3, <3>1 DEF Missing
  <2> QED
    BY <1>4, <2>4, <2>5
<1> QED
  BY <1>3, <1>4
  DEF WritesOf, Appending, Streaming, BeginAppend, ReadBoundary, EnsureForAppend, InsertHot,
      TakeColdLease, LoadAppendBase, CommitUnheard, RetryPreserve, Reroute, StopWrite,
      OpenHotWriter, BeginStream, EnsureForStream, InsertStream, FailStream

\* No step breaks what was promised to a caller.
LEMMA PromisesStep ==
  ASSUME Coherent, TypeOK', [Next]_vars
  PROVE  Durable' /\ StrandedOnlyWherePassedOver' /\ Grows
<1> USE DEF hotVars, coldVars, aux
<1>1. Grows
  <2>1. CASE UNCHANGED vars
    BY <2>1, Facts DEF vars, Grows, Stored, InHot, InCold
  <2> QED
    BY <2>1, ArchiverGrows, WriterGrows, TickStep DEF Next, Writers
<1>2. ASSUME NEW r \in acked', r \notin acked
      PROVE  r \in Rows /\ Stored(r)' /\ Found(r)'
  <2>1. PICK p \in Writers : WritesOf(p)
    BY <1>2, PromisedBy DEF WritesOf, Writers
  <2> QED
    BY <1>2, <2>1, AckedIsFound
<1>3. ASSUME NEW r \in streamed', r \notin streamed
      PROVE  Stored(r)'
  <2>1. PICK p \in Streamers : Streaming(p)
    BY <1>3, PromisedBy
  <2>2. InsertStream(p)
    BY <1>3, <2>1 DEF Streaming, OpenHotWriter, BeginStream, EnsureForStream, FailStream, StopWrite
  <2>3. r \in writer[p].batch /\ r \in Rows
    BY <1>3, <2>2, Facts DEF InsertStream, TypeOK, WriteType, Writers
  <2> QED
    BY <2>2, <2>3, Facts DEF InsertStream, Insert, Stored, InHot
<1>4. Durable'
  <2>1. acked \subseteq Rows /\ streamed \subseteq Rows /\ Durable
    BY DEF Coherent, TypeOK
  <2> QED
    BY <1>1, <1>2, <1>3, <2>1 DEF Durable, Grows
<1>5. StrandedOnlyWherePassedOver'
  <2>1. ASSUME NEW r \in acked
        PROVE  Found(r)'
    <3>1. r \in Rows /\ Found(r)
      BY DEF Coherent, TypeOK, StrandedOnlyWherePassedOver, Found
    <3> QED
      BY <3>1, FoundStays
  <2> QED
    BY <1>2, <2>1 DEF StrandedOnlyWherePassedOver, Found
<1> QED
  BY <1>1, <1>4, <1>5

\* Only a commit moves the boundary, to the end of a window that was due.
LEMMA LagStep ==
  ASSUME Coherent, TypeOK', [Next]_vars
  PROVE  LagRespected'
<1> USE Facts
<1>0. LagRespected
  BY DEF Coherent
<1>1. CASE \E a \in Archivers : CommitAdvance(a)
  <2>1. PICK a \in Archivers : CommitAdvance(a)
    BY <1>1
  <2>2. arch[a].to <= Horizon(arch[a].now) /\ arch[a].now <= clock
    BY <2>1 DEF CommitAdvance, ArchiverCoherent, ArchiverInStep, PickedPhase
  <2>3. watermark' = arch[a].to /\ clock' = clock
    BY <2>1, ArchiverLands DEF CommitAdvance
  <2> QED
    BY <2>2, <2>3 DEF LagRespected, Horizon
<1>2. CASE UNCHANGED <<watermark, clock>>
  BY <1>0, <1>2 DEF LagRespected, Horizon
<1>3. CASE Tick
  BY <1>0, <1>3 DEF Tick, coldVars, LagRespected, Horizon
<1>4. CASE \E p \in Writers : WritesOf(p)
  BY <1>2, <1>4, WriterTouches
<1> QED
  BY <1>1, <1>2, <1>3, <1>4
  DEF Next, vars, Cycle, LoseAdvance, AcquireLease, ListOrphans, DropOrphan, KeepOrphan, ReclaimDone,
      EnsureAhead, PickWindow, WidenOverEmpty, ArchiveWindow, ArchiveWindowIf, DetachPartition,
      LoadArchiveBase, ScanDetached, RetryAdvance, CommitConflict, StopCycle, WritesOf, Writers,
      coldVars

\* The empty table is coherent.
LEMMA CoherentInit == Init => Coherent
<1> SUFFICES ASSUME Init PROVE Coherent
  OBVIOUS
<1> USE DEF Init
<1>1. TypeOK
  <2>1. NoCycle \in CycleType /\ NoWrite \in WriteType
    BY BoundsAssumption DEF NoCycle, CycleType, ArchiverPhase, NoWrite, WriteType, WriterPhase,
                            Boundaries
  <2> QED
    BY <2>1, BoundsAssumption DEF TypeOK, Boundaries
<1>2. PartitionsCoherent
  BY DEF PartitionsCoherent, Exists, Detached
<1>3. ArchiverCoherent
  BY DEF ArchiverCoherent, ArchiverInStep, NoCycle, PickedPhase
<1>4. WriterCoherent
  BY DEF WriterCoherent, WriterInStep, NoWrite, LeasedPhase, KeptPhase
<1>5. ReadOnce /\ ColdBelowBoundary /\ LagRespected /\ Durable /\ StrandedOnlyWherePassedOver
  BY DEF ReadOnce, ColdBelowBoundary, LagRespected, Durable, StrandedOnlyWherePassedOver, InCold
<1> QED
  BY <1>1, <1>2, <1>3, <1>4, <1>5 DEF Coherent

\* Every step keeps the state coherent, and none unstores a row.
LEMMA CoherentStep == Coherent /\ [Next]_vars => Coherent' /\ Grows
<1> SUFFICES ASSUME Coherent, [Next]_vars PROVE Coherent' /\ Grows
  OBVIOUS
<1>1. TypeOK' /\ PartitionsCoherent' /\ ArchiverCoherent' /\ WriterCoherent'
  <2>1. ASSUME NEW a \in Archivers, Cycle(a) \/ StopCycle(a)
        PROVE  TypeOK' /\ PartitionsCoherent' /\ ArchiverCoherent' /\ WriterCoherent'
    BY <2>1, TypeStepArchiver, PartitionsStepArchiver, ArchiverStepArchiver, WriterStepArchiver
  <2>2. ASSUME NEW p \in Writers, WritesOf(p)
        PROVE  TypeOK' /\ PartitionsCoherent' /\ ArchiverCoherent' /\ WriterCoherent'
    <3>1. TypeOK'
      BY <2>2, TypeStepAppender, TypeStepStreamer DEF WritesOf
    <3>2. PartitionsCoherent' /\ ArchiverCoherent'
      BY <2>2, PartitionsStepWriter
    <3>3. WriterCoherent'
      BY <2>2, <3>1, WriterStepSelf, WriterStepOther DEF WriterCoherent
    <3> QED
      BY <3>1, <3>2, <3>3
  <2>3. CASE Tick
    <3>1. UNCHANGED <<writer, coldLease, cold, snapshot, watermark>>
      BY <2>3 DEF Tick, coldVars
    <3>2. TypeOK' /\ Grows
      BY <2>3, TickStep
    <3>3. ASSUME NEW q \in Writers
          PROVE  WriterInStep(q)'
      BY <3>1, <3>2, WriterUndisturbed, Facts DEF WriterCoherent, WriterInStep, InCold
    <3> QED
      BY <2>3, <3>3, TickStep DEF WriterCoherent
  <2>4. CASE UNCHANGED vars
    BY <2>4 DEF vars, hotVars, coldVars, aux, Coherent, TypeOK, PartitionsCoherent,
       ArchiverCoherent, ArchiverInStep, WriterCoherent, WriterInStep, Exists, Detached, InCold,
       Stored, InHot, HotPart, ColdPart, Due, Horizon
  <2> QED
    BY <2>1, <2>2, <2>3, <2>4 DEF Next, Writers, WritesOf
<1>2. ReadOnce' /\ ColdBelowBoundary' /\ LagRespected'
  BY <1>1, CopiesStep, LagStep
<1>3. Durable' /\ StrandedOnlyWherePassedOver' /\ Grows
  BY <1>1, PromisesStep
<1> QED
  BY <1>1, <1>2, <1>3 DEF Coherent

\* The inductive invariant holds in every reachable state, for every number of
\* rows, windows, archivers and writers.
THEOREM CoherentAlways == Spec => []Coherent
<1>1. Coherent /\ [Next]_vars => Coherent'
  BY CoherentStep
<1> QED
  BY <1>1, CoherentInit, PTL DEF Spec

\* Every variable keeps its type in every reachable state.
THEOREM TypeCorrect == Spec => []TypeOK
<1>1. Coherent => TypeOK
  BY DEF Coherent
<1> QED
  BY <1>1, CoherentAlways, PTL

\* The cold tier stores a row at most once, and only below the boundary.
THEOREM ColdCopiesAlways == Spec => [](ReadOnce /\ ColdBelowBoundary)
<1>1. Coherent => ReadOnce /\ ColdBelowBoundary
  BY DEF Coherent
<1> QED
  BY <1>1, CoherentAlways, PTL

\* Archival never reaches into the settlement lag.
THEOREM LagAlways == Spec => []LagRespected
<1>1. Coherent => LagRespected
  BY DEF Coherent
<1> QED
  BY <1>1, CoherentAlways, PTL

\* A row append returned Ok for is found by a query, unless the boundary passed over
\* its window without a scan: no other interleaving strands it.
THEOREM StrandedAlways == Spec => []StrandedOnlyWherePassedOver
<1>1. Coherent => StrandedOnlyWherePassedOver
  BY DEF Coherent
<1> QED
  BY <1>1, CoherentAlways, PTL

\* A row append or a HotWriter returned Ok for is in one tier for ever after.
THEOREM DurableAlways == Spec => []Durable
<1>1. Coherent => Durable
  BY DEF Coherent
<1> QED
  BY <1>1, CoherentAlways, PTL

\* reclaim_orphans never meets a detached partition it cannot account for, so
\* InvariantViolated never stops a table for good.
THEOREM NeverWedgedAlways == Spec => []NeverWedged
<1>1. Coherent => NeverWedged
  <2>1. ASSUME Coherent, NEW a \in Archivers, arch[a].pc = "reclaim", NEW w \in arch[a].orphans
        PROVE  w < arch[a].bound \/ Resumable(a, w)
    <3>1. w \in Windows /\ Detached(w) /\ arch[a].bound = watermark
      BY <2>1, Facts DEF ArchiverCoherent, ArchiverInStep, TypeOK, CycleType
    <3>2. w <= watermark /\ (w = watermark => Due(w, arch[a].now))
      BY <2>1, <3>1, Facts DEF PartitionsCoherent, ArchiverCoherent, ArchiverInStep
    <3>3. w \in Int /\ watermark \in Int
      BY <2>1, <3>1, Facts
    <3> QED
      BY <3>1, <3>2, <3>3 DEF Resumable
  <2> QED
    BY <2>1 DEF NeverWedged, Wedged
<1> QED
  BY <1>1, CoherentAlways, PTL

\* No step of any process removes the last copy of a row, acknowledged or not.
THEOREM NothingDestroyed == Spec => DropDestroysNothing
<1>1. Coherent /\ [Next]_vars => [\A r \in Rows : Stored(r) => Stored(r)']_vars
  BY CoherentStep DEF Grows
<1> QED
  BY <1>1, CoherentAlways, PTL DEF Spec, DropDestroysNothing

\* No commit, however stale the base it was derived from, takes the boundary back.
THEOREM BoundaryMonotone == Spec => BoundaryNeverRetreats
<1>1. Coherent /\ [Next]_vars => [watermark' >= watermark]_vars
  BY CoherentStep DEF Grows
<1> QED
  BY <1>1, CoherentAlways, PTL DEF Spec, BoundaryNeverRetreats

-----------------------------------------------------------------------------
(* The detailed protocol implements TieredLedger.                           *)

\* The mapping of Tiering, written out.
Open    == UNION {hot[w] : w \in Windows}
Settled == {r \in Rows : InCold(r)}

\* Every step of a coherent table is a step of the ledger, or leaves it alone.
LEMMA LedgerStep == Coherent /\ [Next]_vars => [Ledger!Next]_(Ledger!vars)
<1> SUFFICES ASSUME Coherent, [Next]_vars
             PROVE  \/ Ledger!Next
                    \/ watermark' = watermark /\ Settled' = Settled /\ Open' = Open
  BY Zenon DEF Ledger!vars, Settled, Open
<1> USE Facts DEF hotVars, coldVars
<1>0. watermark' \in Boundaries /\ cold' \in [Rows -> Nat]
  BY CoherentStep DEF Coherent, TypeOK
<1>o. \A r : r \in Open <=> r \in Rows /\ InHot(r)
  <2>1. \A w \in Windows : \A r \in hot[w] : r \in Rows /\ WindowOf[r] = w
    BY DEF PartitionsCoherent, TypeOK
  <2> QED
    BY <2>1 DEF Open, InHot
<1>p. \A r : r \in Open' <=> r \in Rows /\ InHot(r)'
  <2>1. \A w \in Windows : \A r \in hot'[w] : r \in Rows /\ WindowOf[r] = w
    BY CoherentStep DEF Coherent, PartitionsCoherent, TypeOK
  <2> QED
    BY <2>1 DEF Open, InHot
<1>1. ASSUME NEW a \in Archivers, CommitAdvance(a)
      PROVE  Ledger!Settle
  <2>1. /\ watermark' > watermark /\ watermark \in Windows /\ hot' = hot
        /\ \A r \in Rows : cold'[r] = IF r \in arch[a].rows THEN cold[r] + 1 ELSE cold[r]
        /\ arch[a].scans => arch[a].rows = hot[watermark]
        /\ ~arch[a].scans => arch[a].rows = {}
    BY <1>1, ArchiverLands DEF CommitAdvance, ArchiverCoherent, ArchiverInStep
  <2>2. Open' = Open
    BY <2>1 DEF Open
  <2>3. watermark' \in watermark + 1 .. LastWindow + 1
    BY <1>0, <2>1 DEF Boundaries
  <2>4. \A r \in Rows : InCold(r)' <=> InCold(r) \/ r \in arch[a].rows
    BY <2>1 DEF InCold
  <2>5. hot[watermark] = {r \in Open : WindowOf[r] = watermark}
    BY <1>o, <2>1 DEF InHot, PartitionsCoherent, TypeOK
  <2>6. arch[a].rows \subseteq Rows
    BY DEF TypeOK, CycleType
  <2>7. Settled' = Settled \union arch[a].rows
    BY <2>4, <2>6 DEF Settled
  <2> QED
    BY <2>1, <2>2, <2>3, <2>5, <2>7 DEF Ledger!Settle, Open, Settled
<1>2. ASSUME NEW a \in Archivers, DropOrphan(a)
      PROVE  Ledger!Release
  <2>1. PICK w \in arch[a].orphans : Reclaimable(a, w) /\ hot' = [hot EXCEPT ![w] = {}]
    BY <1>2 DEF DropOrphan
  <2>2. Detached(w) /\ w < watermark /\ w \in Windows
    BY <1>2, <2>1 DEF DropOrphan, Reclaimable, ArchiverCoherent, ArchiverInStep, TypeOK, CycleType
  <2>3. \A r \in hot[w] : InCold(r)
    BY <2>2 DEF PartitionsCoherent
  <2>4. UNCHANGED <<watermark, cold>>
    BY <1>2 DEF DropOrphan
  <2>5. Open' = {r \in Open : WindowOf[r] # w}
    BY <1>o, <1>p, <2>1, <2>2 DEF InHot, TypeOK
  <2>6. Open \ Open' \subseteq Settled
    BY <1>o, <2>3, <2>5 DEF InHot, Settled
  <2>7. w \in 0 .. watermark - 1
    BY <2>2 DEF Windows
  <2>8. Settled' = Settled
    BY <2>4 DEF Settled, InCold
  <2> QED
    BY <2>4, <2>5, <2>6, <2>7, <2>8 DEF Ledger!Release, Open, Settled
<1>3. ASSUME NEW p \in Appenders, CommitPreserve(p) \/ CommitUnheard(p)
      PROVE  Ledger!Correct \/ (watermark' = watermark /\ Settled' = Settled /\ Open' = Open)
  <2>1. /\ hot' = hot /\ writer[p].pc = "commit" /\ OnBase(p) /\ LandPreserve(writer[p])
    BY <1>3 DEF CommitPreserve, CommitUnheard
  <2>2. /\ watermark' = watermark
        /\ \A r \in Rows : cold'[r] = IF r \in writer[p].keep THEN cold[r] + 1 ELSE cold[r]
        /\ \A r \in writer[p].keep : cold[r] = 0 /\ WindowOf[r] < watermark
    BY <2>1, AppenderLands
  <2>3. writer[p].keep \subseteq Rows
    BY DEF TypeOK, WriteType, Writers
  <2>4. \A r \in Rows : InCold(r)' <=> InCold(r) \/ r \in writer[p].keep
    BY <2>2 DEF InCold
  <2>5. Settled' = Settled \union writer[p].keep /\ writer[p].keep \cap Settled = {}
    BY <2>2, <2>3, <2>4 DEF Settled, InCold
  <2>6. Open' = Open
    BY <2>1 DEF Open
  <2>7. CASE writer[p].keep = {}
    BY <2>2, <2>5, <2>6, <2>7
  <2>8. CASE writer[p].keep # {}
    <3>1. writer[p].keep \in (SUBSET Rows) \ {{}}
      BY <2>3, <2>8
    <3> QED
      BY <2>2, <2>5, <2>6, <3>1 DEF Ledger!Correct, Open, Settled
  <2> QED
    BY <2>7, <2>8
<1>4. ASSUME NEW H, H \subseteq Rows, Insert(H), UNCHANGED <<watermark, cold>>
      PROVE  Ledger!Accept \/ (watermark' = watermark /\ Settled' = Settled /\ Open' = Open)
  <2>1. \A r \in Rows : InHot(r)' <=> InHot(r) \/ r \in H
    BY <1>4 DEF Insert, InHot
  <2>2. Open' = Open \union H
    BY <1>o, <1>p, <1>4, <2>1
  <2>3. Settled' = Settled
    BY <1>4 DEF Settled, InCold
  <2>4. CASE H = {}
    BY <1>4, <2>2, <2>3, <2>4
  <2>5. CASE H # {}
    <3>1. H \in (SUBSET Rows) \ {{}}
      BY <1>4, <2>5
    <3> QED
      BY <1>4, <2>2, <2>3, <3>1 DEF Ledger!Accept, Open, Settled
  <2> QED
    BY <2>4, <2>5
<1>5. ASSUME NEW p \in Writers, InsertHot(p) \/ InsertStream(p)
      PROVE  Ledger!Accept \/ (watermark' = watermark /\ Settled' = Settled /\ Open' = Open)
  <2>1. HotPart(p) \subseteq Rows /\ writer[p].batch \subseteq Rows
    BY DEF TypeOK, HotPart, AtOrAbove, WriteType
  <2> QED
    BY <1>4, <1>5, <2>1 DEF InsertHot, InsertStream
<1>6. ASSUME UNCHANGED <<watermark, cold, hot>>
      PROVE  watermark' = watermark /\ Settled' = Settled /\ Open' = Open
  BY <1>6 DEF Settled, Open, InCold
<1>7. \/ \E a \in Archivers : CommitAdvance(a) \/ DropOrphan(a)
      \/ \E p \in Appenders : CommitPreserve(p) \/ CommitUnheard(p)
      \/ \E p \in Writers : InsertHot(p) \/ InsertStream(p)
      \/ UNCHANGED <<watermark, cold, hot>>
  <2>1. ASSUME NEW a \in Archivers, Cycle(a) \/ StopCycle(a)
        PROVE  CommitAdvance(a) \/ DropOrphan(a) \/ UNCHANGED <<watermark, cold, hot>>
    <3>1. CASE StopCycle(a) \/ RetryAdvance(a) \/ CommitConflict(a)
      BY <3>1 DEF StopCycle, RetryAdvance, CommitConflict
    <3>2. CASE AcquireLease(a) \/ ListOrphans(a) \/ KeepOrphan(a) \/ ReclaimDone(a)
      BY <3>2 DEF AcquireLease, ListOrphans, KeepOrphan, ReclaimDone
    <3>3. CASE EnsureAhead(a) \/ PickWindow(a) \/ WidenOverEmpty(a) \/ ArchiveWindow(a)
      BY <3>3 DEF EnsureAhead, PickWindow, WidenOverEmpty, ArchiveWindow, ArchiveWindowIf
    <3>4. CASE DetachPartition(a) \/ LoadArchiveBase(a) \/ ScanDetached(a)
      BY <3>4 DEF DetachPartition, LoadArchiveBase, ScanDetached
    <3> QED
      BY <2>1, <3>1, <3>2, <3>3, <3>4 DEF Cycle, LoseAdvance
  <2>2. ASSUME NEW p \in Appenders, Appending(p)
        PROVE  \/ CommitPreserve(p) \/ CommitUnheard(p) \/ InsertHot(p)
               \/ UNCHANGED <<watermark, cold, hot>>
    <3>1. CASE BeginAppend(p) \/ ReadBoundary(p) \/ EnsureForAppend(p) \/ StopWrite(p)
      BY <3>1 DEF BeginAppend, ReadBoundary, EnsureForAppend, StopWrite
    <3>2. CASE TakeColdLease(p) \/ ReconcileCold(p) \/ LoadAppendBase(p)
      BY <3>2 DEF TakeColdLease, ReconcileCold, LoadAppendBase
    <3>3. CASE RetryPreserve(p) \/ Acknowledge(p) \/ Reroute(p)
      BY <3>3 DEF RetryPreserve, Acknowledge, Reroute
    <3> QED
      BY <2>2, <3>1, <3>2, <3>3 DEF Appending
  <2>3. ASSUME NEW p \in Streamers, Streaming(p)
        PROVE  InsertStream(p) \/ UNCHANGED <<watermark, cold, hot>>
    BY <2>3 DEF Streaming, OpenHotWriter, BeginStream, EnsureForStream, FailStream, StopWrite
  <2>4. Tick \/ UNCHANGED vars => UNCHANGED <<watermark, cold, hot>>
    BY DEF Tick, vars
  <2> QED
    BY <2>1, <2>2, <2>3, <2>4 DEF Next, Writers
<1> QED
  BY <1>1, <1>2, <1>3, <1>5, <1>6, <1>7 DEF Ledger!Next

\* The leases, partitions, snapshots and retries implement the ledger: settling a
\* window looks like one step, and a row is never between the tiers.
THEOREM LedgerImplemented == Spec => ImplementsLedger
<1>1. Init => Ledger!Init
  <2>1. Init => \A w \in Windows : hot[w] = {}
    BY DEF Init
  <2>2. Init => watermark = 0 /\ {r \in Rows : InCold(r)} = {}
    BY DEF Init, InCold
  <2> QED
    BY <2>1, <2>2 DEF Ledger!Init
<1> QED
  BY <1>1, LedgerStep, CoherentAlways, PTL DEF Spec, ImplementsLedger, Ledger!Spec

-----------------------------------------------------------------------------
(* The tiers under the queries.                                             *)

\* Splitting the drop and adding queries adds no behaviour to the tiers.
LEMMA StepOfTiering ==
  ASSUME [ReadersNext]_allVars
  PROVE  [Next]_vars
<1>1. CASE TiersStep
  BY <1>1 DEF TiersStep
<1>2. ASSUME NEW a \in Archivers, AskForPins(a) \/ CommitDrop(a)
      PROVE  [Next]_vars
  <2>1. CASE AskForPins(a)
    BY <2>1 DEF AskForPins
  <2>2. CASE CommitDrop(a)
    BY <2>2 DEF CommitDrop, Next, Cycle, LoseAdvance
  <2> QED
    BY <1>2, <2>1, <2>2
<1>3. ASSUME NEW q \in Readers, Querying(q)
      PROVE  UNCHANGED vars
  BY <1>3 DEF Querying, Plan, PinBoundary, VerifyPin, ScanCold, EnumeratePartitions, GuardScan,
              ScanPartition, EndQuery
<1>4. CASE UNCHANGED allVars
  BY <1>4 DEF allVars
<1> QED
  BY <1>1, <1>2, <1>3, <1>4 DEF ReadersNext

\* Queries run over Tiering as it is: whatever is proved of it holds under them.
THEOREM ReadersOverTiering == ReadersSpec => Spec
<1>1. ReadersInit => Init
  BY DEF ReadersInit
<1>2. [ReadersNext]_allVars => [Next]_vars
  BY StepOfTiering
<1> QED
  BY <1>1, <1>2, PTL DEF ReadersSpec, Spec

-----------------------------------------------------------------------------
(* What a step of the tiers means for a query.                              *)

\* The drop takes the next orphan, a partition that is there, and marks it.
LEMMA DropTakesNextOrphan ==
  ASSUME Coherent, NEW a \in Archivers, DropOrphan(a)
  PROVE  \E w \in Windows :
           /\ NextOrphan(a, w) /\ Exists(w)
           /\ part' = [part EXCEPT ![w] = "absent"]
           /\ hot' = [hot EXCEPT ![w] = {}]
           /\ reclaimed' = IF reclaimed < w + 1 THEN w + 1 ELSE reclaimed
           /\ \A b \in Archivers : b # a => arch'[b] = arch[b]
           /\ UNCHANGED <<clock, coldVars>>
<1> USE Facts
<1>1. PICK w \in arch[a].orphans :
        /\ \A v \in arch[a].orphans : w <= v
        /\ part' = [part EXCEPT ![w] = "absent"]
        /\ hot' = [hot EXCEPT ![w] = {}]
        /\ reclaimed' = IF reclaimed < w + 1 THEN w + 1 ELSE reclaimed
        /\ arch' = [arch EXCEPT ![a].orphans = @ \ {w}]
  BY DEF DropOrphan
<1>2. w \in Windows
  BY DEF TypeOK, CycleType
<1>3. Detached(w)
  BY DEF DropOrphan, ArchiverCoherent, ArchiverInStep
<1>4. \A b \in Archivers : b # a => arch'[b] = arch[b]
  BY <1>1 DEF TypeOK
<1> QED
  BY <1>1, <1>2, <1>3, <1>4 DEF NextOrphan, Detached, Exists, DropOrphan

\* Time goes on, and but for a drop no row leaves the hot tier.
LEMMA HotMoves ==
  ASSUME Coherent, [Next]_vars
  PROVE  /\ clock' >= clock
         /\ \/ \E a \in Archivers : DropOrphan(a)
            \/ reclaimed' = reclaimed /\ \A r \in Rows : InHot(r) => InHot(r)'
<1> USE Facts DEF hotVars
<1>1. ASSUME NEW a \in Archivers, Cycle(a) \/ StopCycle(a), ~DropOrphan(a)
      PROVE  UNCHANGED <<clock, reclaimed, hot>>
  BY <1>1 DEF Cycle, LoseAdvance, AcquireLease, ListOrphans, KeepOrphan, ReclaimDone, EnsureAhead, PickWindow,
              WidenOverEmpty, ArchiveWindow, ArchiveWindowIf, DetachPartition, LoadArchiveBase,
              ScanDetached, CommitAdvance, RetryAdvance, CommitConflict, StopCycle
<1>2. ASSUME NEW a \in Archivers, DropOrphan(a)
      PROVE  UNCHANGED clock
  BY <1>2 DEF DropOrphan
<1>3. ASSUME NEW p \in Writers, WritesOf(p)
      PROVE  UNCHANGED <<clock, reclaimed>> /\ \A r \in Rows : InHot(r) => InHot(r)'
  <2>1. UNCHANGED <<clock, reclaimed>>
    BY <1>3 DEF WritesOf, Appending, Streaming, BeginAppend, ReadBoundary, EnsureForAppend,
                InsertHot, TakeColdLease, ReconcileCold, LoadAppendBase, CommitPreserve,
                CommitUnheard, RetryPreserve, Acknowledge, Reroute, StopWrite, OpenHotWriter,
                BeginStream, EnsureForStream, InsertStream, FailStream
  <2>2. UNCHANGED hot \/ \E H : Insert(H)
    BY <1>3 DEF WritesOf, Appending, Streaming, BeginAppend, ReadBoundary, EnsureForAppend,
                InsertHot, TakeColdLease, ReconcileCold, LoadAppendBase, CommitPreserve,
                CommitUnheard, RetryPreserve, Acknowledge, Reroute, StopWrite, OpenHotWriter,
                BeginStream, EnsureForStream, InsertStream, FailStream
  <2>3. \A r \in Rows : InHot(r) => InHot(r)'
    BY <2>2 DEF Insert, InHot
  <2> QED
    BY <2>1, <2>3
<1>4. CASE Tick
  BY <1>4 DEF Tick, InHot
<1>5. CASE UNCHANGED vars
  BY <1>5 DEF vars, InHot
<1> QED
  BY <1>1, <1>2, <1>3, <1>4, <1>5 DEF Next, Writers, WritesOf, InHot

-----------------------------------------------------------------------------
(* The halves of a plan.                                                    *)

\* What a plan's range and boundary can be.
Planned(range, bound) == range \in RangeType \union {Nothing} /\ bound \in Boundaries

\* Where a row of the range is looked for: below the boundary in the cold half only,
\* from the boundary on in the hot half only.
LEMMA HalvesSplit ==
  ASSUME NEW range, NEW bound, Planned(range, bound), NEW r \in Rows
  PROVE  /\ r \in Within(ColdHalf(range, bound)) => WindowOf[r] < bound
         /\ r \in Within(HotHalf(range, bound)) => WindowOf[r] >= bound
         /\ r \in Within(range) /\ WindowOf[r] < bound => r \in Within(ColdHalf(range, bound))
         /\ r \in Within(range) /\ WindowOf[r] >= bound => r \in Within(HotHalf(range, bound))
<1> USE BoundsAssumption, RowsAssumption
    DEF Planned, RangeType, Nothing, Windows, Boundaries, Within, Lesser, Greater
<1>1. /\ range.from \in Int /\ range.to \in Int /\ bound \in Int /\ bound >= 0
      /\ WindowOf[r] \in Int /\ WindowOf[r] >= 0
  OBVIOUS
<1>2. /\ r \in Within(ColdHalf(range, bound)) => WindowOf[r] < bound
      /\ r \in Within(range) /\ WindowOf[r] < bound => r \in Within(ColdHalf(range, bound))
  BY <1>1 DEF ColdHalf
<1>3. /\ r \in Within(HotHalf(range, bound)) => WindowOf[r] >= bound
      /\ r \in Within(range) /\ WindowOf[r] >= bound => r \in Within(HotHalf(range, bound))
  BY <1>1 DEF HotHalf
<1> QED
  BY <1>2, <1>3

\* The ends of the hot half are numbers.
LEMMA HotHalfType ==
  ASSUME NEW range, NEW bound, Planned(range, bound)
  PROVE  HotHalf(range, bound).from \in Int /\ HotHalf(range, bound).to \in Int
<1> USE BoundsAssumption DEF Planned, RangeType, Nothing, Windows, Boundaries
<1>1. range.from \in Int /\ range.to \in Int /\ bound \in Int
  OBVIOUS
<1>2. CASE bound = 0
  BY <1>1, <1>2 DEF HotHalf
<1>3. CASE bound # 0 /\ range.to <= bound
  <2>1. HotHalf(range, bound) = Nothing
    BY <1>3 DEF HotHalf
  <2> QED
    BY <2>1
<1>4. CASE bound # 0 /\ ~(range.to <= bound)
  <2>1. HotHalf(range, bound) = [range EXCEPT !.from = Greater(range.from, bound), !.open = FALSE]
    BY <1>4 DEF HotHalf
  <2>2. Greater(range.from, bound) \in Int
    BY <1>1 DEF Greater
  <2> QED
    BY <2>1, <2>2, <1>1
<1> QED
  BY <1>2, <1>3, <1>4

-----------------------------------------------------------------------------
(* Types.                                                                   *)

\* What is typed in a state in step with its tiers.
LEMMA ReadersFacts ==
  ASSUME ReadersCoherent
  PROVE  /\ Coherent /\ ReadersTypeOK /\ clock \in Nat /\ reclaimed \in Int
         /\ \A q \in Readers :
              /\ ReaderInStep(q) /\ query[q] \in QueryType /\ query[q].bound \in Int
              /\ Planned(query[q].range, query[q].bound)
<1>1. Coherent /\ ReadersTypeOK /\ \A q \in Readers : ReaderInStep(q)
  BY DEF ReadersCoherent
<1>2. clock \in Nat /\ reclaimed \in Int
  BY <1>1, Facts, BoundsAssumption DEF TypeOK, Boundaries
<1>3. ASSUME NEW q \in Readers
      PROVE  /\ query[q] \in QueryType /\ query[q].bound \in Int
             /\ Planned(query[q].range, query[q].bound)
  BY <1>1, BoundsAssumption DEF ReadersTypeOK, QueryType, Planned, Boundaries
<1> QED
  BY <1>1, <1>2, <1>3

\* A query that is not running has a type.
LEMMA NoQueryType == NoQuery \in QueryType
  BY BoundsAssumption DEF NoQuery, QueryType, QueryPhase, Boundaries

\* Every step keeps the types of the pins, the open drops and the queries.
LEMMA ReadersTypeStep ==
  ASSUME ReadersCoherent, [ReadersNext]_allVars
  PROVE  ReadersTypeOK'
<1> USE ReadersFacts, NoQueryType DEF ReadersTypeOK
<1>1. CASE TiersStep
  <2>1. ASSUME NEW q \in Readers
        PROVE  query'[q] \in QueryType
    <3>1. PICK remade \in BOOLEAN : query'[q] = [query[q] EXCEPT !.remade = remade]
      BY <1>1 DEF TiersStep
    <3> QED
      BY <3>1 DEF QueryType
  <2>2. query' \in [Readers -> QueryType]
    BY <1>1, <2>1 DEF TiersStep
  <2>3. reclaim' \in [Archivers -> [open : BOOLEAN, swept : SUBSET PinType]]
    BY <1>1 DEF TiersStep, NoTransaction
  <2> QED
    BY <1>1, <2>2, <2>3 DEF TiersStep
<1>2. ASSUME NEW a \in Archivers, AskForPins(a) \/ CommitDrop(a)
      PROVE  ReadersTypeOK'
  <2>1. UNCHANGED query /\ pins' \subseteq pins
    BY <1>2 DEF AskForPins, CommitDrop
  <2>2. reclaim' = [reclaim EXCEPT ![a] = NoTransaction]
          \/ reclaim' = [reclaim EXCEPT ![a] = [open |-> TRUE, swept |-> Expired]]
    BY <1>2 DEF AskForPins, CommitDrop
  <2>3. Expired \subseteq PinType
    BY DEF Expired
  <2>4. NoTransaction \in [open : BOOLEAN, swept : SUBSET PinType]
    BY DEF NoTransaction
  <2>5. [open |-> TRUE, swept |-> Expired] \in [open : BOOLEAN, swept : SUBSET PinType]
    BY <2>3
  <2> HIDE DEF ReadersTypeOK
  <2>6. reclaim' \in [Archivers -> [open : BOOLEAN, swept : SUBSET PinType]]
    BY <2>2, <2>4, <2>5 DEF ReadersTypeOK
  <2> QED
    BY <2>1, <2>6 DEF ReadersTypeOK
<1>3. ASSUME NEW q \in Readers, Querying(q)
      PROVE  ReadersTypeOK'
  <2>0. query[q] \in QueryType
    OBVIOUS
  <2>1. CASE Plan(q)
    <3>1. PICK range \in Ranges :
            query' = [query EXCEPT ![q] =
              [NoQuery EXCEPT !.pc = IF Empty(HotHalf(range, watermark)) THEN "cold" ELSE "pin",
                              !.range = range, !.bound = watermark,
                              !.promised = {r \in Within(range) : Readable(r)}]]
      BY <2>1 DEF Plan
    <3>2. range \in RangeType /\ watermark \in Boundaries
      BY ReadersAssumption, Facts DEF TypeOK
    <3>3. {r \in Within(range) : Readable(r)} \subseteq Rows
      BY DEF Within
    <3>4. query'[q] \in QueryType
      BY <3>1, <3>2, <3>3 DEF QueryType, QueryPhase
    <3> QED
      BY <2>1, <3>1, <3>4 DEF Plan
  <2>2. CASE PinBoundary(q)
    <3> DEFINE pin == [by |-> q, at |-> query[q].bound, expires |-> clock + MaxPinAge]
    <3>1. pin \in PinType
      BY ReadersAssumption DEF PinType, QueryType
    <3>2. pins' = pins \union {pin}
      BY <2>2 DEF PinBoundary
    <3>3. PICK timely \in BOOLEAN :
            query'[q] = [query[q] EXCEPT !.pc = "verify", !.pin = {pin}, !.timely = timely]
      BY <2>2 DEF PinBoundary
    <3>4. query'[q] \in QueryType
      <4>1. {pin} \in SUBSET PinType
        BY <3>1
      <4> HIDE DEF pin
      <4> QED
        BY <2>0, <3>3, <4>1 DEF QueryType, QueryPhase
    <3>5. \A p \in Readers : query'[p] = query[p] \/ p = q
      BY <2>2 DEF PinBoundary
    <3> QED
      BY <2>2, <3>1, <3>2, <3>4, <3>5 DEF PinBoundary
  <2>3. CASE VerifyPin(q)
    BY <2>0, <2>3 DEF VerifyPin, QueryType, QueryPhase
  <2>4. CASE ScanCold(q)
    <3>1. [r \in Rows |-> IF r \in Within(coldHalf(q)) THEN cold[r] ELSE 0] \in [Rows -> Nat]
      BY Facts
    <3> QED
      BY <2>0, <2>4, <3>1 DEF ScanCold, QueryType, QueryPhase
  <2>5. CASE EnumeratePartitions(q)
    BY <2>0, <2>5 DEF EnumeratePartitions, QueryType, QueryPhase
  <2>6. CASE GuardScan(q)
    BY <2>0, <2>6 DEF GuardScan, QueryType, QueryPhase
  <2>7. CASE ScanPartition(q)
    <3>1. PICK pc \in QueryPhase, todo \in SUBSET Windows, got \in [Rows -> Nat] :
            query' = [query EXCEPT ![q] = [@ EXCEPT !.pc = pc, !.todo = todo, !.got = got]]
      <4>1. PICK w \in query[q].todo :
              query' = [query EXCEPT ![q] =
                [@ EXCEPT !.pc = IF query[q].todo = {w} THEN "done" ELSE "scan",
                          !.todo = query[q].todo \ {w},
                          !.got = Got(q, hot[w] \intersect Within(hotHalf(q)))]]
        BY <2>7 DEF ScanPartition
      <4>2. Got(q, hot[w] \intersect Within(hotHalf(q))) \in [Rows -> Nat]
        BY <2>0 DEF Got, QueryType
      <4>3. query[q].todo \ {w} \in SUBSET Windows
        BY <2>0 DEF QueryType
      <4> QED
        BY <4>1, <4>2, <4>3 DEF QueryPhase
    <3>2. query'[q] \in QueryType
      BY <2>0, <3>1 DEF QueryType
    <3> QED
      BY <2>7, <3>1, <3>2 DEF ScanPartition
  <2>8. CASE EndQuery(q)
    BY <2>0, <2>8 DEF EndQuery, QueryType
  <2> QED
    BY <1>3, <2>1, <2>2, <2>3, <2>4, <2>5, <2>6, <2>7, <2>8 DEF Querying
<1>4. CASE UNCHANGED allVars
  BY <1>4 DEF allVars, readerVars
<1> QED
  BY <1>1, <1>2, <1>3, <1>4 DEF ReadersNext

-----------------------------------------------------------------------------
(* Steps of the tiers.                                                      *)

\* A step of the tiers changes nothing of a query but the mark that a partition
\* it enumerated was made again.
LEMMA TiersLeaveQueries ==
  ASSUME ReadersCoherent, NEW q \in Readers,
         TiersStep \/ \E a \in Archivers : AskForPins(a) \/ CommitDrop(a)
  PROVE  /\ query'[q].pc = query[q].pc /\ query'[q].range = query[q].range
         /\ query'[q].bound = query[q].bound /\ query'[q].pin = query[q].pin
         /\ query'[q].timely = query[q].timely /\ query'[q].layout = query[q].layout
         /\ query'[q].todo = query[q].todo /\ query'[q].got = query[q].got
         /\ query'[q].promised = query[q].promised
         /\ query[q].remade => query'[q].remade
<1> USE ReadersFacts
<1>1. CASE TiersStep
  <2>1. query'[q] = [query[q] EXCEPT !.remade = @ \/ Remade(q)]
    BY <1>1 DEF TiersStep
  <2> QED
    BY <2>1 DEF QueryType
<1>2. CASE \E a \in Archivers : AskForPins(a) \/ CommitDrop(a)
  BY <1>2 DEF AskForPins, CommitDrop
<1> QED
  BY <1>1, <1>2

\* What a step of the tiers does to the rows and partitions a query relies on.
LEMMA TiersMove ==
  ASSUME ReadersCoherent, NEW q \in Readers,
         TiersStep \/ \E a \in Archivers : AskForPins(a) \/ CommitDrop(a)
  PROVE  /\ clock' >= clock /\ clock' \in Nat /\ reclaimed' >= reclaimed /\ reclaimed' \in Int
         /\ \A r \in Rows : InCold(r) => InCold(r)'
         /\ \A r \in Rows :
              InHot(r) => InHot(r)' \/ (reclaimed' > WindowOf[r] /\ ~Exists(WindowOf[r])')
         /\ \A w \in query[q].layout : ~Exists(w) => ~Exists(w)' \/ query'[q].remade
         /\ TiersStep => reclaimed' = reclaimed
<1> USE ReadersFacts
<1>1. [Next]_vars
  BY StepOfTiering DEF ReadersNext
<1>2. Coherent' /\ Grows
  BY <1>1, CoherentStep
<1>3. clock' \in Nat /\ reclaimed' \in Int
  BY <1>2, BoundsAssumption DEF Coherent, TypeOK, Boundaries
<1>4. ASSUME NEW a \in Archivers, DropOrphan(a), NEW w \in Windows,
             part' = [part EXCEPT ![w] = "absent"], hot' = [hot EXCEPT ![w] = {}],
             reclaimed' = IF reclaimed < w + 1 THEN w + 1 ELSE reclaimed
      PROVE  /\ reclaimed' >= reclaimed
             /\ \A r \in Rows :
                  InHot(r) => InHot(r)' \/ (reclaimed' > WindowOf[r] /\ ~Exists(WindowOf[r])')
             /\ \A v \in Windows : ~Exists(v) => ~Exists(v)'
             /\ ~Exists(w)'
  BY <1>4, Facts DEF TypeOK, InHot, Exists
<1>5. CASE TiersStep
  <2>1. \A a \in Archivers : ~DropOrphan(a)
    BY <1>4, <1>5, DropTakesNextOrphan DEF TiersStep, Exists
  <2>2. reclaimed' = reclaimed /\ \A r \in Rows : InHot(r) => InHot(r)'
    BY <1>1, <2>1, HotMoves
  <2>3. query'[q] = [query[q] EXCEPT !.remade = @ \/ Remade(q)]
    BY <1>5 DEF TiersStep
  <2>4. Remade(q) => query'[q].remade
    BY <2>3 DEF QueryType
  <2>5. \A w \in query[q].layout : ~Exists(w) => ~Exists(w)' \/ query'[q].remade
    BY <2>4 DEF Remade, Exists
  <2> QED
    BY <1>1, <1>2, <1>3, <2>2, <2>5, HotMoves DEF Grows
<1>6. CASE \E a \in Archivers : CommitDrop(a) /\ ~TiersStep
  <2>1. PICK a \in Archivers : DropOrphan(a) /\ ~TiersStep
    BY <1>6 DEF CommitDrop
  <2>2. query[q].layout \subseteq Windows
    BY DEF QueryType
  <2> QED
    BY <1>1, <1>2, <1>3, <1>4, <2>1, <2>2, DropTakesNextOrphan, HotMoves DEF Grows
<1>7. CASE \E a \in Archivers : AskForPins(a) /\ ~TiersStep
  <2>1. UNCHANGED <<clock, part, hot, reclaimed>> /\ ~TiersStep
    BY <1>7 DEF AskForPins, vars, hotVars
  <2> QED
    BY <1>2, <1>3, <2>1 DEF Grows, InHot, Exists
<1> QED
  BY <1>5, <1>6, <1>7

\* A pin that lives now lived before, unless it is new.
LEMMA ShieldFades ==
  ASSUME ReadersCoherent, NEW q \in Readers, clock' >= clock, clock' \in Nat,
         query'[q].pin = query[q].pin, query'[q].timely = query[q].timely,
         pins' \intersect query[q].pin \subseteq pins
  PROVE  Shielded(q)' => Shielded(q)
<1> SUFFICES ASSUME Shielded(q)' PROVE Shielded(q)
  OBVIOUS
<1>1. PICK p \in query[q].pin : p \in pins' /\ ~(p.expires <= clock')
  BY DEF Shielded, Expired
<1>2. p \in pins /\ p.expires \in Nat /\ clock \in Nat
  BY <1>1, ReadersFacts DEF ReadersTypeOK, PinType
<1>3. p \notin Expired
  BY <1>1, <1>2 DEF Expired
<1> QED
  BY <1>1, <1>2, <1>3 DEF Shielded

\* The tiers never take from a shielded plan, nor prepare to: the drop asks for
\* pins first, and nothing else moves what was reclaimed.
LEMMA TiersKeepPins ==
  ASSUME ReadersCoherent, NEW q \in Readers,
         TiersStep \/ \E a \in Archivers : AskForPins(a) \/ CommitDrop(a)
  PROVE  PinInStep(q)'
<1> USE ReadersFacts
<1>1. PinInStep(q) /\ query[q].bound \in Int /\ query'[q].bound = query[q].bound
      /\ query'[q].pin = query[q].pin
  BY TiersLeaveQueries DEF ReaderInStep
<1>2. \A p \in query'[q].pin : p.by = q /\ p.at = query'[q].bound
  BY <1>1 DEF PinInStep
<1> SUFFICES ASSUME Shielded(q)'
             PROVE  /\ reclaimed' <= query[q].bound
                    /\ \A a \in Archivers : reclaim'[a].open =>
                         \A w \in Windows : NextOrphan(a, w)' => w + 1 <= query[q].bound
  BY <1>1, <1>2 DEF PinInStep
<1>3. pins' \subseteq pins
  BY DEF TiersStep, AskForPins, CommitDrop
<1>4. Shielded(q)
  BY <1>1, <1>3, TiersMove, TiersLeaveQueries, ShieldFades
<1>5. /\ reclaimed <= query[q].bound
      /\ \A a \in Archivers : reclaim[a].open =>
           \A w \in Windows : NextOrphan(a, w) => w + 1 <= query[q].bound
  BY <1>1, <1>4 DEF PinInStep
<1>6. CASE TiersStep
  <2>1. reclaimed' = reclaimed
    BY <1>6, TiersMove
  <2>2. \A a \in Archivers : reclaim'[a].open => reclaim[a].open /\ arch'[a] = arch[a]
    BY <1>6 DEF TiersStep, NoTransaction
  <2> QED
    BY <1>5, <2>1, <2>2 DEF NextOrphan
<1>7. ASSUME NEW a \in Archivers, AskForPins(a)
      PROVE  /\ reclaimed' = reclaimed
             /\ \A b \in Archivers : reclaim'[b].open =>
                  \A w \in Windows : NextOrphan(b, w)' => w + 1 <= query[q].bound
  <2>1. UNCHANGED <<arch, reclaimed>> /\ \A b \in Archivers : b # a => reclaim'[b] = reclaim[b]
    BY <1>7 DEF AskForPins, vars, hotVars, ReadersTypeOK
  <2>2. PICK v \in Windows : NextOrphan(a, v) /\ ~Held(v)
    BY <1>7 DEF AskForPins
  <2>3. PICK p \in pins \ Expired : p.at = query[q].bound
    BY <1>1, <1>4 DEF Shielded, PinInStep
  <2>4. v + 1 <= query[q].bound
    BY <1>1, <2>2, <2>3, Facts DEF Held
  <2>5. \A w \in Windows : NextOrphan(a, w) => w = v
    BY <2>2, Facts DEF NextOrphan
  <2> QED
    BY <1>5, <2>1, <2>4, <2>5 DEF NextOrphan
<1>8. ASSUME NEW a \in Archivers, CommitDrop(a)
      PROVE  /\ reclaimed' <= query[q].bound
             /\ \A b \in Archivers : reclaim'[b].open =>
                  \A w \in Windows : NextOrphan(b, w)' => w + 1 <= query[q].bound
  <2>1. DropOrphan(a) /\ reclaim[a].open /\ reclaim' = [reclaim EXCEPT ![a] = NoTransaction]
    BY <1>8 DEF CommitDrop
  <2>2. PICK v \in Windows :
          /\ NextOrphan(a, v)
          /\ reclaimed' = IF reclaimed < v + 1 THEN v + 1 ELSE reclaimed
          /\ \A b \in Archivers : b # a => arch'[b] = arch[b]
    BY <2>1, DropTakesNextOrphan
  <2>3. reclaimed' <= query[q].bound
    BY <1>1, <1>5, <2>1, <2>2, Facts
  <2>4. \A b \in Archivers : reclaim'[b].open => b # a /\ reclaim[b].open
    BY <2>1 DEF NoTransaction, ReadersTypeOK
  <2> QED
    BY <1>5, <2>2, <2>3, <2>4 DEF NextOrphan
<1> QED
  BY <1>5, <1>6, <1>7, <1>8

\* A promised row stays cold, or leaves the hot tier only with the mark the guard
\* reads, and a partition that is gone does not come back unnoticed.
LEMMA TiersKeepReaders ==
  ASSUME ReadersCoherent, NEW q \in Readers,
         TiersStep \/ \E a \in Archivers : AskForPins(a) \/ CommitDrop(a)
  PROVE  ReaderInStep(q)'
<1> USE ReadersFacts
<1>1. GotInStep(q) /\ PromiseInStep(q)
  BY DEF ReaderInStep
<1>2. coldHalf(q)' = coldHalf(q) /\ hotHalf(q)' = hotHalf(q) /\ Unguarded(q)' = Unguarded(q)
  BY TiersLeaveQueries DEF coldHalf, hotHalf, Unguarded
<1>3. GotInStep(q)'
  BY <1>1, <1>2, TiersLeaveQueries DEF GotInStep, Within
<1>4. PromiseInStep(q)'
  <2>1. query'[q].pc # "scan" => query'[q].todo = {}
    BY <1>1, TiersLeaveQueries DEF PromiseInStep
  <2>2. query'[q].todo \subseteq query'[q].layout
    BY <1>1, TiersLeaveQueries DEF PromiseInStep
  <2>3. ASSUME NEW r \in query[q].promised
        PROVE  /\ r \in Within(query[q].range)
               /\ WindowOf[r] < query[q].bound =>
                    /\ InCold(r)'
                    /\ query[q].pc \in {"enumerate", "guard", "scan", "done"} => query[q].got[r] > 0
               /\ WindowOf[r] >= query[q].bound =>
                    /\ InHot(r)' \/ reclaimed' > WindowOf[r]
                    /\ query[q].pc = "guard" =>
                         WindowOf[r] \in query[q].layout \/ reclaimed' > WindowOf[r]
                    /\ query[q].pc \in {"scan", "done"} =>
                         \/ Unguarded(q) \/ query'[q].remade \/ query[q].got[r] > 0
                         \/ WindowOf[r] \in query[q].todo /\ (InHot(r)' \/ ~Exists(WindowOf[r])')
    <3>1. r \in Rows /\ WindowOf[r] \in Int
      BY Facts DEF QueryType
    <3>2. query[q].remade => query'[q].remade
      BY TiersLeaveQueries
    <3>3. /\ reclaimed' >= reclaimed /\ reclaimed' \in Int /\ reclaimed \in Int
          /\ InCold(r) => InCold(r)'
          /\ InHot(r) => InHot(r)' \/ (reclaimed' > WindowOf[r] /\ ~Exists(WindowOf[r])')
          /\ WindowOf[r] \in query[q].layout /\ ~Exists(WindowOf[r]) =>
               ~Exists(WindowOf[r])' \/ query'[q].remade
      BY <3>1, TiersMove
    <3> QED
      BY <1>1, <3>1, <3>2, <3>3 DEF PromiseInStep
  <2> QED
    BY <1>2, <2>1, <2>2, <2>3, TiersLeaveQueries DEF PromiseInStep, Within
<1> QED
  BY <1>3, <1>4, TiersKeepPins DEF ReaderInStep

-----------------------------------------------------------------------------
(* Steps of the queries.                                                    *)

\* A step of a query touches neither the tiers nor an open drop, and only its own
\* record; of the pins it takes one of its own or gives it back.
LEMMA QueryTouches ==
  ASSUME ReadersCoherent, NEW p \in Readers, Querying(p)
  PROVE  /\ UNCHANGED <<vars, reclaim>>
         /\ \A q \in Readers : q # p => query'[q] = query[q]
         /\ \A pin \in pins' : pin \in pins \/ pin.by = p
         /\ PinBoundary(p) \/ pins' \subseteq pins
<1> USE ReadersFacts DEF ReadersTypeOK
<1>1. CASE PinBoundary(p)
  BY <1>1 DEF PinBoundary
<1>2. CASE EndQuery(p)
  <2>1. pins' \subseteq pins
    BY <1>2 DEF EndQuery
  <2> QED
    BY <1>2, <2>1 DEF EndQuery
<1>3. CASE Plan(p)
  BY <1>3 DEF Plan
<1>4. CASE VerifyPin(p) \/ ScanCold(p) \/ EnumeratePartitions(p) \/ GuardScan(p) \/ ScanPartition(p)
  BY <1>4 DEF VerifyPin, ScanCold, EnumeratePartitions, GuardScan, ScanPartition
<1> QED
  BY <1>1, <1>2, <1>3, <1>4 DEF Querying

\* What a query knows stays right while it does not move and the tiers stand still.
LEMMA ReaderUndisturbed ==
  ASSUME ReadersCoherent, NEW q \in Readers, UNCHANGED <<vars, reclaim>>, query'[q] = query[q],
         pins' \intersect query[q].pin \subseteq pins
  PROVE  ReaderInStep(q)'
<1> USE ReadersFacts
<1>1. UNCHANGED <<clock, part, hot, reclaimed, cold, arch>>
  BY DEF vars, hotVars, coldVars
<1>2. Shielded(q)' => Shielded(q)
  BY <1>1, ShieldFades
<1>3. PinInStep(q)'
  BY <1>1, <1>2 DEF ReaderInStep, PinInStep, NextOrphan
<1>4. GotInStep(q)'
  BY DEF ReaderInStep, GotInStep, coldHalf, Within
<1>5. PromiseInStep(q)'
  BY <1>1 DEF ReaderInStep, PromiseInStep, InCold, InHot, Exists, Unguarded, hotHalf, Within
<1> QED
  BY <1>3, <1>4, <1>5 DEF ReaderInStep

\* Queries do not see each other.
LEMMA QueryLeavesOthers ==
  ASSUME ReadersCoherent, NEW p \in Readers, Querying(p), NEW q \in Readers, q # p
  PROVE  ReaderInStep(q)'
<1>1. \A pin \in query[q].pin : pin.by = q
  BY ReadersFacts DEF ReaderInStep, PinInStep
<1>2. pins' \intersect query[q].pin \subseteq pins
  BY <1>1, QueryTouches
<1> QED
  BY <1>2, QueryTouches, ReaderUndisturbed

\* While a plan reads, its boundary, its pin and what it was promised stay.
LEMMA ReadingKeepsPin ==
  ASSUME ReadersCoherent, NEW q \in Readers, UNCHANGED <<vars, pins, reclaim>>,
         query'[q].bound = query[q].bound, query'[q].pin = query[q].pin,
         query'[q].timely = query[q].timely
  PROVE  PinInStep(q)'
<1> USE ReadersFacts
<1>1. UNCHANGED <<clock, reclaimed, arch>>
  BY DEF vars, hotVars
<1>2. Shielded(q)' => Shielded(q)
  BY <1>1, ShieldFades
<1> QED
  BY <1>1, <1>2 DEF ReaderInStep, PinInStep, NextOrphan

\* A plan starts in step: the boundary it cuts its range at is the one that says
\* where each promised row is, and nothing was returned yet.
LEMMA PlanInStep ==
  ASSUME ReadersCoherent, NEW q \in Readers, Plan(q)
  PROVE  ReaderInStep(q)'
<1> USE ReadersFacts
<1>1. UNCHANGED vars
  BY DEF Plan
<1>2. UNCHANGED <<reclaimed, watermark, hot, cold>>
  BY <1>1 DEF vars, hotVars, coldVars
<1>3. PICK range \in Ranges, pc \in {"cold", "pin"} :
        query'[q] = [NoQuery EXCEPT !.pc = pc, !.range = range, !.bound = watermark,
                                    !.promised = {r \in Within(range) : Readable(r)}]
  BY DEF Plan, ReadersTypeOK
<1>4. /\ query'[q].pc = pc /\ query'[q].range = range /\ query'[q].bound = watermark
      /\ query'[q].promised = {r \in Within(range) : Readable(r)}
      /\ query'[q].pin = {} /\ query'[q].timely = FALSE /\ query'[q].layout = {}
      /\ query'[q].todo = {} /\ query'[q].got = [r \in Rows |-> 0]
  BY <1>3 DEF NoQuery
<1>5. PinInStep(q)'
  BY <1>4 DEF PinInStep, Shielded
<1>6. GotInStep(q)'
  BY <1>4 DEF GotInStep
<1>7. \A r \in query'[q].promised :
        /\ r \in Within(range) /\ r \in Rows
        /\ WindowOf[r] < watermark => InCold(r)'
        /\ WindowOf[r] >= watermark => InHot(r)'
  BY <1>2, <1>4, Facts DEF Readable, InCold, InHot, Within
<1>8. PromiseInStep(q)'
  BY <1>4, <1>7 DEF PromiseInStep, Within
<1> QED
  BY <1>5, <1>6, <1>8 DEF ReaderInStep

\* A timely pin is taken while nothing of the plan was reclaimed and no drop asks.
LEMMA PinBoundaryInStep ==
  ASSUME ReadersCoherent, NEW q \in Readers, PinBoundary(q)
  PROVE  ReaderInStep(q)'
<1> USE ReadersFacts
<1>0. UNCHANGED <<part, hot, reclaimed, cold, arch, reclaim>>
  BY DEF PinBoundary, vars, hotVars, coldVars
<1> DEFINE timely == reclaimed <= query[q].bound /\ \A a \in Archivers : ~reclaim[a].open
           pin    == [by |-> q, at |-> query[q].bound, expires |-> clock + MaxPinAge]
<1>1. query'[q] = [query[q] EXCEPT !.pc = "verify", !.pin = {pin}, !.timely = timely]
  BY DEF PinBoundary, ReadersTypeOK
<1> HIDE DEF timely
<1>2. /\ query'[q].pc = "verify" /\ query'[q].range = query[q].range
      /\ query'[q].bound = query[q].bound /\ query'[q].pin = {pin}
      /\ query'[q].layout = query[q].layout /\ query'[q].todo = query[q].todo
      /\ query'[q].got = query[q].got /\ query'[q].promised = query[q].promised
  BY <1>1 DEF QueryType
<1>3. query'[q].timely => timely
  BY <1>1 DEF QueryType
<1>4. PinInStep(q)'
  BY <1>0, <1>2, <1>3 DEF PinInStep, Shielded, timely
<1>5. query[q].pc = "pin"
  BY DEF PinBoundary
<1>6. GotInStep(q)'
  BY <1>2, <1>5 DEF ReaderInStep, GotInStep, coldHalf, Within
<1>7. PromiseInStep(q)'
  BY <1>0, <1>2, <1>5 DEF ReaderInStep, PromiseInStep, InCold, InHot, Within
<1> QED
  BY <1>4, <1>6, <1>7 DEF ReaderInStep

\* The cold half returns every row of it once.
LEMMA ScanColdInStep ==
  ASSUME ReadersCoherent, NEW q \in Readers, ScanCold(q)
  PROVE  ReaderInStep(q)'
<1> USE ReadersFacts
<1>0. UNCHANGED <<part, hot, reclaimed, cold>> /\ UNCHANGED <<vars, pins, reclaim>>
  BY DEF ScanCold, vars, hotVars, coldVars
<1>1. query'[q] = [query[q] EXCEPT
        !.pc = IF Empty(hotHalf(q)) THEN "done" ELSE "enumerate",
        !.got = [r \in Rows |-> IF r \in Within(coldHalf(q)) THEN cold[r] ELSE 0]]
  BY DEF ScanCold, ReadersTypeOK
<1>2. /\ query'[q].pc = IF Empty(hotHalf(q)) THEN "done" ELSE "enumerate"
      /\ query'[q].got = [r \in Rows |-> IF r \in Within(coldHalf(q)) THEN cold[r] ELSE 0]
      /\ query'[q].range = query[q].range /\ query'[q].bound = query[q].bound
      /\ query'[q].pin = query[q].pin /\ query'[q].timely = query[q].timely
      /\ query'[q].layout = query[q].layout /\ query'[q].todo = query[q].todo
      /\ query'[q].promised = query[q].promised
  BY <1>1 DEF QueryType
<1>3. PinInStep(q)'
  BY <1>0, <1>2, ReadingKeepsPin
<1>4. coldHalf(q)' = coldHalf(q)
  BY <1>2 DEF coldHalf
<1>5. GotInStep(q)'
  BY <1>2, <1>4, Facts DEF GotInStep, ReadOnce, Within
<1>6. ASSUME NEW r \in query[q].promised, r \in Within(query[q].range)
      PROVE  /\ r \in Rows /\ WindowOf[r] \in Int
             /\ WindowOf[r] < query[q].bound => r \in Within(coldHalf(q))
             /\ WindowOf[r] >= query[q].bound => ~Empty(hotHalf(q))
  <2>1. r \in Rows /\ WindowOf[r] \in Int
    BY Facts DEF QueryType
  <2>2. /\ hotHalf(q).from \in Int /\ hotHalf(q).to \in Int
        /\ WindowOf[r] < query[q].bound => r \in Within(coldHalf(q))
        /\ WindowOf[r] >= query[q].bound => r \in Within(hotHalf(q))
    BY <1>6, <2>1, HotHalfType, HalvesSplit DEF hotHalf, coldHalf
  <2> QED
    BY <2>1, <2>2 DEF Within, Empty
<1>7. query[q].pc = "cold"
  BY DEF ScanCold
<1>8. PromiseInStep(q)
  BY DEF ReaderInStep
<1>9. \A r \in query[q].promised :
        /\ r \in Within(query[q].range) /\ r \in Rows
        /\ WindowOf[r] < query[q].bound => InCold(r)' /\ query'[q].got[r] > 0
        /\ WindowOf[r] >= query[q].bound =>
             (InHot(r)' \/ reclaimed' > WindowOf[r]) /\ query'[q].pc = "enumerate"
  BY <1>0, <1>2, <1>6, <1>8 DEF PromiseInStep, InCold, InHot
<1>10. PromiseInStep(q)'
  BY <1>2, <1>7, <1>8, <1>9 DEF PromiseInStep, Within
<1> QED
  BY <1>3, <1>5, <1>10 DEF ReaderInStep

\* What is hot has a relation, so the enumeration finds it.
LEMMA EnumerateInStep ==
  ASSUME ReadersCoherent, NEW q \in Readers, EnumeratePartitions(q)
  PROVE  ReaderInStep(q)'
<1> USE ReadersFacts
<1>0. UNCHANGED <<part, hot, reclaimed, cold>> /\ UNCHANGED <<vars, pins, reclaim>>
  BY DEF EnumeratePartitions, vars, hotVars, coldVars
<1>1. query'[q] = [query[q] EXCEPT !.pc = "guard", !.layout = {w \in Windows : Exists(w)}]
  BY DEF EnumeratePartitions, ReadersTypeOK
<1>2. /\ query'[q].pc = "guard" /\ query'[q].layout = {w \in Windows : Exists(w)}
      /\ query'[q].range = query[q].range /\ query'[q].bound = query[q].bound
      /\ query'[q].pin = query[q].pin /\ query'[q].timely = query[q].timely
      /\ query'[q].got = query[q].got /\ query'[q].todo = query[q].todo
      /\ query'[q].promised = query[q].promised
  BY <1>1 DEF QueryType
<1>3. PinInStep(q)'
  BY <1>0, <1>2, ReadingKeepsPin
<1>4. query[q].pc = "enumerate" /\ GotInStep(q) /\ PromiseInStep(q)
  BY DEF EnumeratePartitions, ReaderInStep
<1>5. GotInStep(q)'
  BY <1>2, <1>4 DEF GotInStep, coldHalf, Within
<1>6. \A r \in query[q].promised : InHot(r) => WindowOf[r] \in query'[q].layout
  BY <1>2, Facts DEF QueryType, InHot, PartitionsCoherent
<1>7. PromiseInStep(q)'
  BY <1>0, <1>2, <1>4, <1>6 DEF PromiseInStep, InCold, InHot, Within
<1> QED
  BY <1>3, <1>5, <1>7 DEF ReaderInStep

\* The guard lets a plan pass only while everything it was promised is there, in
\* partitions it enumerated.
LEMMA GuardScanInStep ==
  ASSUME ReadersCoherent, NEW q \in Readers, GuardScan(q)
  PROVE  ReaderInStep(q)'
<1> USE ReadersFacts
<1> DEFINE half == hotHalf(q)
           todo == {w \in query[q].layout : MayHold(query[q].layout, w, half)}
<1>0. UNCHANGED <<part, hot, reclaimed, cold>> /\ UNCHANGED <<vars, pins, reclaim>>
  BY DEF GuardScan, vars, hotVars, coldVars
<1>1. query'[q] = [query[q] EXCEPT !.pc = IF todo = {} THEN "done" ELSE "scan", !.todo = todo]
  BY DEF GuardScan, ReadersTypeOK
<1>2. /\ query'[q].pc = IF todo = {} THEN "done" ELSE "scan"
      /\ query'[q].todo = todo /\ query'[q].layout = query[q].layout
      /\ query'[q].range = query[q].range /\ query'[q].bound = query[q].bound
      /\ query'[q].pin = query[q].pin /\ query'[q].timely = query[q].timely
      /\ query'[q].got = query[q].got /\ query'[q].promised = query[q].promised
      /\ query'[q].remade = query[q].remade
  <2> HIDE DEF todo
  <2> QED
    BY <1>1 DEF QueryType
<1>3. PinInStep(q)'
  BY <1>0, <1>2, ReadingKeepsPin
<1>4. query[q].pc = "guard" /\ GotInStep(q) /\ PromiseInStep(q)
  BY DEF GuardScan, ReaderInStep
<1>5. coldHalf(q)' = coldHalf(q) /\ Unguarded(q)' = Unguarded(q) /\ (Unguarded(q) <=> half.open)
  BY <1>2 DEF coldHalf, hotHalf, Unguarded
<1>6. GotInStep(q)'
  BY <1>2, <1>4, <1>5 DEF GotInStep, Within
<1>7. ASSUME NEW r \in query[q].promised, WindowOf[r] >= query[q].bound, ~Unguarded(q)
      PROVE  InHot(r) /\ WindowOf[r] \in todo
  <2>1. /\ r \in Rows /\ WindowOf[r] \in Int /\ r \in Within(query[q].range)
        /\ InHot(r) \/ reclaimed > WindowOf[r]
        /\ WindowOf[r] \in query[q].layout \/ reclaimed > WindowOf[r]
    BY <1>4, <1>7, Facts DEF PromiseInStep, QueryType
  <2>2. r \in Within(half) /\ half.from \in Int /\ half.to \in Int
    BY <1>7, <2>1, HalvesSplit, HotHalfType DEF hotHalf
  <2>3. half.from <= WindowOf[r] /\ WindowOf[r] < half.to
    BY <2>2 DEF Within
  <2>4. half.from >= reclaimed
    BY <1>5, <1>7 DEF GuardScan, Unreclaimed
  <2>5. InHot(r) /\ WindowOf[r] \in query[q].layout
    BY <2>1, <2>2, <2>3, <2>4
  <2>6. \A v \in query[q].layout : v \in Int
    BY Facts DEF QueryType
  <2>7. MayHold(query[q].layout, WindowOf[r], half)
    <3> HIDE DEF half
    <3> QED
      BY <2>1, <2>2, <2>3, <2>6 DEF MayHold
  <2> QED
    BY <2>5, <2>7
<1>8. todo \subseteq query[q].layout
  OBVIOUS
<1>9. PromiseInStep(q)'
  <2> HIDE DEF todo
  <2>1. \A r \in query[q].promised :
          /\ r \in Within(query[q].range)
          /\ WindowOf[r] < query[q].bound => InCold(r) /\ query[q].got[r] > 0
          /\ WindowOf[r] >= query[q].bound =>
               /\ InHot(r) \/ reclaimed > WindowOf[r]
               /\ Unguarded(q) \/ (WindowOf[r] \in todo /\ InHot(r))
    BY <1>4, <1>7 DEF PromiseInStep
  <2> QED
    BY <1>0, <1>2, <1>5, <1>8, <2>1 DEF PromiseInStep, InCold, InHot, Within
<1> QED
  BY <1>3, <1>6, <1>9 DEF ReaderInStep

\* A scanned partition returns the rows of its own window, which nothing else
\* returned: not the cold half, and no other partition.
LEMMA ScanPartitionInStep ==
  ASSUME ReadersCoherent, NEW q \in Readers, ScanPartition(q)
  PROVE  ReaderInStep(q)'
<1> USE ReadersFacts
<1>0. UNCHANGED <<part, hot, reclaimed, cold>> /\ UNCHANGED <<vars, pins, reclaim>>
  BY DEF ScanPartition, vars, hotVars, coldVars
<1>1. PICK w \in query[q].todo :
        /\ Exists(w)
        /\ query' = [query EXCEPT ![q] =
             [@ EXCEPT !.pc = IF query[q].todo = {w} THEN "done" ELSE "scan",
                       !.todo = query[q].todo \ {w},
                       !.got = Got(q, hot[w] \intersect Within(hotHalf(q)))]]
  BY DEF ScanPartition
<1> DEFINE got == Got(q, hot[w] \intersect Within(hotHalf(q)))
<1>2. query'[q] = [query[q] EXCEPT !.pc = IF query[q].todo = {w} THEN "done" ELSE "scan",
                                   !.todo = query[q].todo \ {w}, !.got = got]
  BY <1>1 DEF ReadersTypeOK
<1>3. /\ query'[q].pc = IF query[q].todo = {w} THEN "done" ELSE "scan"
      /\ query'[q].todo = query[q].todo \ {w} /\ query'[q].got = got
      /\ query'[q].range = query[q].range /\ query'[q].bound = query[q].bound
      /\ query'[q].pin = query[q].pin /\ query'[q].timely = query[q].timely
      /\ query'[q].layout = query[q].layout /\ query'[q].promised = query[q].promised
      /\ query'[q].remade = query[q].remade
  <2> HIDE DEF got
  <2> QED
    BY <1>2 DEF QueryType
<1>4. PinInStep(q)'
  BY <1>0, <1>3, ReadingKeepsPin
<1>5. query[q].pc = "scan" /\ GotInStep(q) /\ PromiseInStep(q)
  BY DEF ScanPartition, ReaderInStep
<1>6. w \in Windows /\ \A r \in Rows : query[q].got[r] \in Nat
  BY DEF QueryType
<1>7. coldHalf(q)' = coldHalf(q) /\ Unguarded(q)' = Unguarded(q)
  BY <1>3 DEF coldHalf, hotHalf, Unguarded
<1>8. \A r \in Rows : got[r] =
        IF r \in hot[w] \intersect Within(hotHalf(q)) THEN query[q].got[r] + 1 ELSE query[q].got[r]
  BY DEF Got
<1>9. \A r \in Rows : r \in hot[w] \intersect Within(hotHalf(q)) =>
        WindowOf[r] = w /\ query[q].got[r] = 0
  <2>1. ASSUME NEW r \in Rows, r \in hot[w], r \in Within(hotHalf(q))
        PROVE  WindowOf[r] = w /\ query[q].got[r] = 0
    <3>1. WindowOf[r] = w
      BY <1>6, <2>1, Facts DEF PartitionsCoherent
    <3>2. r \notin Within(coldHalf(q))
      BY <2>1, HalvesSplit, Facts DEF hotHalf, coldHalf
    <3> QED
      BY <1>1, <1>5, <1>6, <3>1, <3>2 DEF GotInStep
  <2> QED
    BY <2>1
<1>10. GotInStep(q)'
  <2> HIDE DEF got
  <2>1. ASSUME NEW r \in Rows
        PROVE  /\ got[r] <= 1
               /\ got[r] > 0 => r \in Within(coldHalf(q)) \/ WindowOf[r] \notin query[q].todo \ {w}
    <3>1. CASE r \in hot[w] \intersect Within(hotHalf(q))
      BY <1>8, <1>9, <2>1, <3>1
    <3>2. CASE r \notin hot[w] \intersect Within(hotHalf(q))
      <4>1. got[r] = query[q].got[r]
        BY <1>8, <3>2
      <4> QED
        BY <1>5, <4>1 DEF GotInStep
    <3> QED
      BY <3>1, <3>2
  <2> QED
    BY <1>3, <1>7, <2>1 DEF GotInStep, Within
<1>11. \A r \in query[q].promised :
         /\ r \in Within(query[q].range)
         /\ WindowOf[r] < query[q].bound => InCold(r) /\ got[r] > 0
         /\ WindowOf[r] >= query[q].bound =>
              /\ InHot(r) \/ reclaimed > WindowOf[r]
              /\ \/ Unguarded(q) \/ query[q].remade \/ got[r] > 0
                 \/ WindowOf[r] \in query[q].todo \ {w} /\ (InHot(r) \/ ~Exists(WindowOf[r]))
  <2> HIDE DEF got
  <2>1. ASSUME NEW r \in query[q].promised
        PROVE  /\ r \in Rows /\ got[r] >= query[q].got[r] /\ query[q].got[r] \in Nat
               /\ got[r] \in Nat
    BY <1>6, <1>8 DEF QueryType
  <2>2. ASSUME NEW r \in query[q].promised, WindowOf[r] >= query[q].bound, WindowOf[r] = w, InHot(r)
        PROVE  got[r] > 0
    <3>1. r \in Within(hotHalf(q))
      BY <1>5, <2>1, <2>2, HalvesSplit DEF hotHalf, PromiseInStep
    <3> QED
      BY <1>6, <1>8, <2>1, <2>2, <3>1 DEF InHot
  <2> QED
    BY <1>1, <1>5, <2>1, <2>2 DEF PromiseInStep
<1>12. PromiseInStep(q)'
  <2> HIDE DEF got
  <2>1. query[q].todo \subseteq query[q].layout
    BY <1>5 DEF PromiseInStep
  <2> QED
    BY <1>0, <1>3, <1>7, <1>11, <2>1 DEF PromiseInStep, InCold, InHot, Exists, Within
<1> QED
  BY <1>4, <1>10, <1>12 DEF ReaderInStep

\* A query that is over, or goes away, is owed nothing.
LEMMA EndQueryInStep ==
  ASSUME ReadersCoherent, NEW q \in Readers, EndQuery(q)
  PROVE  ReaderInStep(q)'
<1> USE ReadersFacts
<1>1. query'[q] = NoQuery
  BY DEF EndQuery, ReadersTypeOK
<1>2. /\ query'[q].pin = {} /\ query'[q].timely = FALSE /\ query'[q].layout = {}
      /\ query'[q].todo = {} /\ query'[q].promised = {} /\ query'[q].got = [r \in Rows |-> 0]
  BY <1>1 DEF NoQuery
<1> QED
  BY <1>2 DEF ReaderInStep, PinInStep, Shielded, GotInStep, PromiseInStep

\* So a query stays in step with the tiers by its own steps.
LEMMA QueryKeepsItself ==
  ASSUME ReadersCoherent, NEW q \in Readers, Querying(q)
  PROVE  ReaderInStep(q)'
<1>1. CASE VerifyPin(q)
  <2> USE ReadersFacts
  <2>1. UNCHANGED <<part, hot, reclaimed, cold>> /\ UNCHANGED <<vars, pins, reclaim>>
    BY <1>1 DEF VerifyPin, vars, hotVars, coldVars
  <2>2. query'[q] = [query[q] EXCEPT !.pc = "cold"] /\ query[q].pc = "verify"
    BY <1>1 DEF VerifyPin, ReadersTypeOK
  <2>3. /\ query'[q].pc = "cold" /\ query'[q].range = query[q].range
        /\ query'[q].bound = query[q].bound /\ query'[q].pin = query[q].pin
        /\ query'[q].timely = query[q].timely /\ query'[q].layout = query[q].layout
        /\ query'[q].todo = query[q].todo /\ query'[q].got = query[q].got
        /\ query'[q].promised = query[q].promised
    BY <2>2 DEF QueryType
  <2>4. PinInStep(q)'
    BY <2>1, <2>3, ReadingKeepsPin
  <2>5. GotInStep(q)'
    BY <2>2, <2>3 DEF ReaderInStep, GotInStep, coldHalf, Within
  <2>6. PromiseInStep(q)'
    BY <2>1, <2>2, <2>3 DEF ReaderInStep, PromiseInStep, InCold, InHot, Within
  <2> QED
    BY <2>4, <2>5, <2>6 DEF ReaderInStep
<1> QED
  BY <1>1, PlanInStep, PinBoundaryInStep, ScanColdInStep, EnumerateInStep, GuardScanInStep,
     ScanPartitionInStep, EndQueryInStep DEF Querying

-----------------------------------------------------------------------------
(* The invariant and what follows from it.                                  *)

\* Nothing was asked yet.
LEMMA ReadersCoherentInit == ReadersInit => ReadersCoherent
<1> SUFFICES ASSUME ReadersInit PROVE ReadersCoherent
  OBVIOUS
<1> USE DEF ReadersInit
<1>1. Coherent
  BY CoherentInit
<1>2. NoTransaction \in [open : BOOLEAN, swept : SUBSET PinType]
  BY DEF NoTransaction
<1>3. ReadersTypeOK
  BY <1>2, NoQueryType DEF ReadersTypeOK
<1>4. ASSUME NEW q \in Readers
      PROVE  ReaderInStep(q)
  <2>1. /\ query[q].pin = {} /\ query[q].timely = FALSE /\ query[q].layout = {}
        /\ query[q].todo = {} /\ query[q].promised = {} /\ query[q].got = [r \in Rows |-> 0]
    BY DEF NoQuery
  <2> QED
    BY <2>1 DEF ReaderInStep, PinInStep, Shielded, GotInStep, PromiseInStep
<1> QED
  BY <1>1, <1>3, <1>4 DEF ReadersCoherent

\* Tiers keep queries in step, queries themselves and each other.
LEMMA ReadersCoherentStep == ReadersCoherent /\ [ReadersNext]_allVars => ReadersCoherent'
<1> SUFFICES ASSUME ReadersCoherent, [ReadersNext]_allVars PROVE ReadersCoherent'
  OBVIOUS
<1>1. Coherent'
  BY StepOfTiering, CoherentStep DEF ReadersCoherent
<1>2. ASSUME NEW q \in Readers
      PROVE  ReaderInStep(q)'
  <2>1. CASE TiersStep \/ \E a \in Archivers : AskForPins(a) \/ CommitDrop(a)
    BY <2>1, TiersKeepReaders
  <2>2. CASE \E p \in Readers : Querying(p)
    BY <2>2, QueryKeepsItself, QueryLeavesOthers
  <2>3. CASE UNCHANGED allVars
    <3>1. UNCHANGED <<vars, pins, reclaim, query>>
      BY <2>3 DEF allVars, readerVars
    <3> QED
      BY <3>1, ReaderUndisturbed
  <2> QED
    BY <2>1, <2>2, <2>3 DEF ReadersNext
<1> QED
  BY <1>1, <1>2, ReadersTypeStep DEF ReadersCoherent

\* Every query is in step with the tiers in every reachable state.
THEOREM ReadersCoherentAlways == ReadersSpec => []ReadersCoherent
  BY ReadersCoherentInit, ReadersCoherentStep, PTL DEF ReadersSpec

\* A query that ends without an error has every row its boundary promised, whatever
\* was moved and dropped meanwhile, but for the two ways the code leaves open.
THEOREM WholeAlways == ReadersSpec => []WholeUnlessUnguarded
<1>1. ReadersCoherent => WholeUnlessUnguarded
  <2>1. ASSUME ReadersCoherent, NEW q \in Readers, query[q].pc = "done",
               ~Unguarded(q), ~query[q].remade, NEW r \in query[q].promised
        PROVE  query[q].got[r] > 0
    <3>1. PromiseInStep(q) /\ query[q].todo = {}
      BY <2>1 DEF ReadersCoherent, ReaderInStep, PromiseInStep
    <3>2. WindowOf[r] \in Int /\ query[q].bound \in Int
      BY <2>1, ReadersFacts, Facts DEF QueryType
    <3> QED
      BY <2>1, <3>1, <3>2 DEF PromiseInStep
  <2> QED
    BY <2>1 DEF WholeUnlessUnguarded, Complete
<1> QED
  BY <1>1, ReadersCoherentAlways, PTL

\* No row comes back twice, however far archival is by the time a half is read.
THEOREM NeverTwiceAlways == ReadersSpec => []NeverTwice
<1>1. ReadersCoherent => NeverTwice
  BY DEF ReadersCoherent, ReaderInStep, GotInStep, NeverTwice
<1> QED
  BY <1>1, ReadersCoherentAlways, PTL

\* A pin taken before a drop asked keeps the whole range of its plan while it lives.
THEOREM PinProtectsAlways == ReadersSpec => []PinProtects
<1>1. ReadersCoherent => PinProtects
  BY DEF ReadersCoherent, ReaderInStep, PinInStep, PinProtects
<1> QED
  BY <1>1, ReadersCoherentAlways, PTL
=============================================================================
