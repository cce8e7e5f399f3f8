------------------------------ MODULE Readers ------------------------------
(***************************************************************************)
(* Queries over the tiers that Tiering moves rows between.  A query reads  *)
(* the boundary, pins it in PostgreSQL so that archival keeps what the     *)
(* plan is entitled to, makes sure that nothing was taken back meanwhile,  *)
(* pins a snapshot for the cold half and, much later, enumerates and scans *)
(* the partitions of the hot half one by one.  Each of these is a remote   *)
(* call, and the archiver drops a partition in a transaction that asks for *)
(* pins some time before it commits.                                       *)
(***************************************************************************)
EXTENDS Tiering

CONSTANTS
  Readers,    \* processes that run queries
  Ranges,     \* the interval ranges queries ask for
  MaxPinAge,  \* max_pin_age: how long a pin holds
  LastPin     \* bound: no pin is taken after this clock

\* A half-open range of windows; `open` when the query gave no start.
RangeType == [from : Windows, to : Boundaries, open : BOOLEAN]

ASSUME ReadersAssumption ==
  /\ Ranges \subseteq RangeType
  /\ \A range \in Ranges : range.from < range.to /\ (range.open => range.from = 0)
  /\ MaxPinAge \in Nat /\ LastPin \in Nat

VARIABLES
  pins,     \* meterstore_pins
  reclaim,  \* reclaim[a]: the drop transaction archiver a has open
  query     \* query[q]: the statement reader q is running

readerVars == <<pins, reclaim, query>>
allVars    == <<vars, readerVars>>

-----------------------------------------------------------------------------
(* The split of a range at a boundary.                                      *)

Within(range) == {r \in Rows : range.from <= WindowOf[r] /\ WindowOf[r] < range.to}

Lesser(m, n)  == IF m <= n THEN m ELSE n
Greater(m, n) == IF m <= n THEN n ELSE m

Nothing == [from |-> 0, to |-> 0, open |-> FALSE]

\* Nothing was ever archived at the epoch, so the range is left whole.
ColdHalf(range, bound) ==
  IF bound = 0 \/ range.from >= bound
    THEN Nothing ELSE [range EXCEPT !.to = Lesser(range.to, bound)]

HotHalfFromItsStart(range, bound) == range

HotHalf(range, bound) ==
  CASE bound = 0         -> range
    [] range.to <= bound -> Nothing
    [] OTHER             -> [range EXCEPT !.from = Greater(range.from, bound), !.open = FALSE]

-----------------------------------------------------------------------------
(* The reclaimer's side: drop_partition, in a cycle of Tiering.             *)

NoTransaction == [open |-> FALSE, swept |-> {}]

Expired == {p \in pins : p.expires <= clock}

HeldByAnyPin(w) == \E p \in pins : p.at < w + 1

HeldBelowItsStart(w) == \E p \in pins \ Expired : p.at < w

\* Some live pin's plan still asks for window w.
Held(w) == \E p \in pins \ Expired : p.at < w + 1

NextOrphan(a, w) == w \in arch[a].orphans /\ \A v \in arch[a].orphans : w <= v

\* The transaction sweeps what expired, asks for pins below the window's end and
\* rolls back, sweep included, when there is one.
AskForPins(a) ==
  /\ arch[a].pc = "reclaim" /\ ~reclaim[a].open
  /\ \E w \in Windows : NextOrphan(a, w) /\ Reclaimable(a, w) /\ ~Held(w)
  /\ reclaim' = [reclaim EXCEPT ![a] = [open |-> TRUE, swept |-> Expired]]
  /\ UNCHANGED <<vars, pins, query>>

\* The drop, its mark and the sweep commit together.
CommitDrop(a) ==
  /\ reclaim[a].open
  /\ DropOrphan(a)
  /\ pins' = pins \ reclaim[a].swept
  /\ reclaim' = [reclaim EXCEPT ![a] = NoTransaction]
  /\ UNCHANGED query

\* A partition with the name of one that a query has enumerated is made again.
Remade(q) == \E w \in query[q].layout : part[w] = "absent" /\ part'[w] # "absent"

\* Every other step of the tiers.  A transaction still open when its archiver
\* moves on is rolled back.
TiersStep ==
  /\ Next
  /\ \A w \in Windows : Exists(w) => part'[w] # "absent"
  /\ reclaim' = [a \in Archivers |-> IF arch'[a] = arch[a] THEN reclaim[a] ELSE NoTransaction]
  /\ query' = [q \in Readers |-> [query[q] EXCEPT !.remade = @ \/ Remade(q)]]
  /\ UNCHANGED pins

-----------------------------------------------------------------------------
(* The reader's side.                                                       *)

QueryPhase == {"idle", "pin", "verify", "cold", "enumerate", "guard", "scan", "done"}

NoQuery == [pc |-> "idle", range |-> Nothing, bound |-> 0, pin |-> {}, timely |-> FALSE,
            layout |-> {}, todo |-> {}, got |-> [r \in Rows |-> 0],
            promised |-> {}, remade |-> FALSE]

hotHalf(q)  == HotHalf(query[q].range, query[q].bound)
coldHalf(q) == ColdHalf(query[q].range, query[q].bound)

Empty(half) == half.from >= half.to

Got(q, S) == [r \in Rows |-> IF r \in S THEN query[q].got[r] + 1 ELSE query[q].got[r]]

\* The boundary is read once; what it promises is what a query would find now.
Plan(q) ==
  /\ query[q].pc = "idle"
  /\ \E range \in Ranges :
       query' = [query EXCEPT ![q] =
         [NoQuery EXCEPT !.pc = IF Empty(HotHalf(range, watermark)) THEN "cold" ELSE "pin",
                         !.range = range, !.bound = watermark,
                         !.promised = {r \in Within(range) : Readable(r)}]]
  /\ UNCHANGED <<vars, pins, reclaim>>

\* pin_reader.  `promised`, `timely` and `remade` are history, never read: the pin
\* is timely when no drop that could take the plan's rows has asked before it.
PinBoundary(q) ==
  /\ query[q].pc = "pin" /\ clock <= LastPin
  /\ LET pin == [by |-> q, at |-> query[q].bound, expires |-> clock + MaxPinAge]
     IN  /\ pins' = pins \union {pin}
         /\ query' = [query EXCEPT ![q] =
              [@ EXCEPT !.pc = "verify", !.pin = {pin},
                        !.timely = reclaimed <= query[q].bound
                                     /\ \A a \in Archivers : ~reclaim[a].open]]
  /\ UNCHANGED <<vars, reclaim>>

\* Pin, then verify: a plan whose boundary was reclaimed past is refused.
VerifyPin(q) ==
  /\ query[q].pc = "verify" /\ reclaimed <= query[q].bound
  /\ query' = [query EXCEPT ![q].pc = "cold"]
  /\ UNCHANGED <<vars, pins, reclaim>>

\* scan_cold pins the current snapshot and reads it below the boundary.
ScanCold(q) ==
  /\ query[q].pc = "cold"
  /\ query' = [query EXCEPT ![q] =
       [@ EXCEPT !.pc = IF Empty(hotHalf(q)) THEN "done" ELSE "enumerate",
                 !.got = [r \in Rows |-> IF r \in Within(coldHalf(q)) THEN cold[r] ELSE 0]]]
  /\ UNCHANGED <<vars, pins, reclaim>>

\* scan_range, when the stream is first polled: every partition there is.
EnumeratePartitions(q) ==
  /\ query[q].pc = "enumerate"
  /\ query' = [query EXCEPT ![q] =
       [@ EXCEPT !.pc = "guard", !.layout = {w \in Windows : Exists(w)}]]
  /\ UNCHANGED <<vars, pins, reclaim>>

\* A partition is taken to reach up to the next one there is.
MayHold(layout, w, half) ==
  /\ w < half.to
  /\ half.open \/ \A v \in layout : v > w /\ (\A u \in layout : u > w => v <= u) => v > half.from

NeverAsked(half) == TRUE

\* The guard against a range reclaimed in the meantime needs a start to compare.
Unreclaimed(half) == half.open \/ half.from >= reclaimed

GuardScan(q) ==
  /\ query[q].pc = "guard" /\ Unreclaimed(hotHalf(q))
  /\ LET todo == {w \in query[q].layout : MayHold(query[q].layout, w, hotHalf(q))}
     IN  query' = [query EXCEPT ![q] =
           [@ EXCEPT !.pc = IF todo = {} THEN "done" ELSE "scan", !.todo = todo]]
  /\ UNCHANGED <<vars, pins, reclaim>>

\* One relation after the other, by name; a name that is gone fails the query.
ScanPartition(q) ==
  /\ query[q].pc = "scan"
  /\ \E w \in query[q].todo :
       /\ \A v \in query[q].todo : w <= v
       /\ Exists(w)
       /\ query' = [query EXCEPT ![q] =
            [@ EXCEPT !.pc = IF query[q].todo = {w} THEN "done" ELSE "scan",
                      !.todo = query[q].todo \ {w},
                      !.got = Got(q, hot[w] \intersect Within(hotHalf(q)))]]
  /\ UNCHANGED <<vars, pins, reclaim>>

\* The plan goes away: finished, refused, failed or abandoned.  The release is
\* spawned, and never runs when the process is gone.
EndQuery(q) ==
  /\ query[q].pc # "idle"
  /\ query' = [query EXCEPT ![q] = NoQuery]
  /\ pins' \in {pins, pins \ query[q].pin}
  /\ UNCHANGED <<vars, reclaim>>

Querying(q) ==
  \/ Plan(q) \/ PinBoundary(q) \/ VerifyPin(q) \/ ScanCold(q) \/ EnumeratePartitions(q)
  \/ GuardScan(q) \/ ScanPartition(q) \/ EndQuery(q)

-----------------------------------------------------------------------------

ReadersInit ==
  /\ Init
  /\ pins = {}
  /\ reclaim = [a \in Archivers |-> NoTransaction]
  /\ query = [q \in Readers |-> NoQuery]

ReadersNext ==
  \/ TiersStep
  \/ \E a \in Archivers : AskForPins(a) \/ CommitDrop(a)
  \/ \E q \in Readers : Querying(q)

ReadersSpec == ReadersInit /\ [][ReadersNext]_allVars

(***************************************************************************)
(* Fairness: as in Tiering, with the drop split into its two halves.       *)
(* Nothing is assumed of the readers, which may stop anywhere for good and *)
(* leave their pins behind.                                                *)
(***************************************************************************)
ReadersFairness ==
  /\ WF_allVars(Tick /\ TiersStep)
  /\ \A a \in Archivers :
       WF_allVars(Cycle(a) /\ TiersStep) /\ SF_allVars(AskForPins(a)) /\ SF_allVars(CommitDrop(a))
  /\ <>[][\A a \in Archivers : ~(Interrupted(a) /\ TiersStep)]_allVars

-----------------------------------------------------------------------------
(* What a query promises.                                                   *)

PinType == [by : Readers, at : Boundaries, expires : Nat]

QueryType ==
  [pc : QueryPhase, range : RangeType \union {Nothing}, bound : Boundaries, pin : SUBSET PinType,
   timely : BOOLEAN, layout : SUBSET Windows, todo : SUBSET Windows, got : [Rows -> Nat],
   promised : SUBSET Rows, remade : BOOLEAN]

ReadersTypeOK ==
  /\ pins \subseteq PinType
  /\ reclaim \in [Archivers -> [open : BOOLEAN, swept : SUBSET PinType]]
  /\ query \in [Readers -> QueryType]

Complete(q) == \A r \in query[q].promised : query[q].got[r] > 0

\* A plan cut at the epoch over a range without a start leaves the hot scan
\* nothing to compare with what was reclaimed.
Unguarded(q) == hotHalf(q).open

\* A query that ends without an error has every row its boundary promised,
\* whatever archival moved, dropped or stopped at meanwhile and whether or not
\* its pin still held - unless its scan had no guard, or a partition it had
\* enumerated was dropped and made again under its name.
WholeUnlessUnguarded ==
  \A q \in Readers : query[q].pc = "done" => Complete(q) \/ Unguarded(q) \/ query[q].remade

\* No row comes back twice: the halves are disjoint at whatever boundary the
\* plan was cut, however far archival is by the time either is read.
NeverTwice == \A q \in Readers : \A r \in Rows : query[q].got[r] <= 1

\* The pin of a plan that took it before a drop asked, and that still lives.
Shielded(q) == query[q].timely /\ query[q].pin \intersect (pins \ Expired) # {}

\* A plan that pinned its boundary before a drop asked keeps its whole range for
\* as long as the pin lives: it is neither refused nor short.
PinProtects == \A q \in Readers : Shielded(q) => reclaimed <= query[q].bound

-----------------------------------------------------------------------------
(* Why those invariants hold: the inductive invariant, in named parts.      *)

\* No open transaction is about to drop what a shielded plan asks for.
PinInStep(q) ==
  /\ \A p \in query[q].pin : p.by = q /\ p.at = query[q].bound
  /\ Shielded(q) =>
       /\ reclaimed <= query[q].bound
       /\ \A a \in Archivers : reclaim[a].open =>
            \A w \in Windows : NextOrphan(a, w) => w + 1 <= query[q].bound

\* What was returned is of the cold half, or of a partition that was scanned.
GotInStep(q) ==
  \A r \in Rows :
    /\ query[q].got[r] <= 1
    /\ query[q].got[r] > 0 =>
         \/ r \in Within(coldHalf(q))
         \/ query[q].pc \in {"scan", "done"} /\ WindowOf[r] \notin query[q].todo

\* A promised row below the plan's boundary is cold and, once the cold half was
\* read, returned.  One above it is hot unless it was reclaimed; the guard passes
\* only if it was not, and from then on the partition that holds it is still to
\* be scanned, is gone by its name, or was scanned with the row in it.
PromiseInStep(q) ==
  /\ query[q].pc # "scan" => query[q].todo = {}
  /\ query[q].todo \subseteq query[q].layout
  /\ \A r \in query[q].promised :
       /\ r \in Within(query[q].range)
       /\ WindowOf[r] < query[q].bound =>
            /\ InCold(r)
            /\ query[q].pc \in {"enumerate", "guard", "scan", "done"} => query[q].got[r] > 0
       /\ WindowOf[r] >= query[q].bound =>
            /\ InHot(r) \/ reclaimed > WindowOf[r]
            /\ query[q].pc = "guard" =>
                 WindowOf[r] \in query[q].layout \/ reclaimed > WindowOf[r]
            /\ query[q].pc \in {"scan", "done"} =>
                 \/ Unguarded(q) \/ query[q].remade \/ query[q].got[r] > 0
                 \/ WindowOf[r] \in query[q].todo /\ (InHot(r) \/ ~Exists(WindowOf[r]))

ReaderInStep(q) == PinInStep(q) /\ GotInStep(q) /\ PromiseInStep(q)

\* The tiers are coherent, and every query is in step with them.
ReadersCoherent == Coherent /\ ReadersTypeOK /\ \A q \in Readers : ReaderInStep(q)
=============================================================================
