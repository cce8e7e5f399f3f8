------------------------------- MODULE Queries -------------------------------
(***************************************************************************)
(* A query beside the writes and the archiver: the session it is asked in, *)
(* the one boundary it is planned at, the scan of each tier, the           *)
(* resolution of versions or its elision, and the typed reads that decode  *)
(* and fold what comes back.                                               *)
(*                                                                         *)
(* Simplifications: a scan of a tier is one step, the hot relations a      *)
(* query is planned for are kept for it (Readers says how), and a result   *)
(* comes back in one batch.                                                *)
(***************************************************************************)
EXTENDS Writes, Predicates

LOCAL INSTANCE SequencesExt
LOCAL INSTANCE Functions

CONSTANTS
  Readers,  \* the concurrent readers
  MaxAsks,  \* bound: questions asked
  Collation \* Collation[text]: its place in the order of texts, no text among them

\* What is asked.
IsQuestion(q) ==
  /\ {"relation", "mode", "scope", "filter", "start", "end", "obis", "columns", "quality", "fold"} \subseteq DOMAIN q
  /\ q.filter = Null \/ q.filter \in Filters
  /\ {q.start, q.end} \subseteq Nat \cup {Null}

ASSUME QueriesAssumption ==
  /\ MaxAsks \in Nat /\ Texts \cup {Null} \subseteq DOMAIN Collation
  /\ \A t, u \in DOMAIN Collation : Collation[t] \in Nat /\ (Collation[t] = Collation[u] => t = u)
  /\ \A s \in Scenes :
       /\ IsFiniteSet(s.table.columns) /\ IdentityColumns(s.table) \subseteq DOMAIN Collation
       /\ \A q \in s.questions : IsQuestion(q)

VARIABLES
  query, \* query[r]: the question of reader r and how far its answer is
  asks   \* questions asked

queryVars == <<query, asks>>

vars == <<scene, hot, detached, cold, boundary, call, writes, query, asks>>

-----------------------------------------------------------------------------
(* The session.  A question is [relation, mode, scope, filter, start, end,  *)
(* obis, columns, quality, fold]: a relation, a read mode, the row scope of *)
(* the session and what narrows the read.                                   *)

ForcesResolution(mode) == mode.kind \in {"AsOf", "AsKnownAt"}

ModeApply(mode, split) ==
  CASE mode.kind \in {"Historical", "AsOf"} -> [split EXCEPT !.hot = {}]
    [] mode.kind = "Operational"            -> [split EXCEPT !.cold = {}]
    [] OTHER                                -> split

\* Only a merge-key column partitions readings.
ScopeAllowed(scope) == DOMAIN scope \subseteq Discriminators(table)

Filterable == {c.name : c \in table.columns} \cup Discriminators(table)

Askable(question) ==
  ScopeAllowed(question.scope) /\ DOMAIN question.columns \subseteq Filterable

\* With no lower bound, `latest` looks at the hot tier first.
LatestProbeBound(question, watermark) ==
  IF /\ question.fold = "latest" /\ question.start = Null
     /\ question.mode.kind = "Unified" /\ watermark # 0
    THEN {watermark} ELSE {}

-----------------------------------------------------------------------------
(* The predicate of a read and the range it is planned for.                 *)

\* Bounds are bound as values of the column's type, cut to its grid.
Wanted(question, probe, r) ==
  /\ question.filter = Null \/ [from |-> r.from, good |-> r.q = "MEASURED"] \in Satisfies[question.filter]
  /\ question.start = Null \/ r.from >= Micros(question.start)
  /\ question.end = Null \/ r.from < Micros(question.end)
  /\ \A bound \in probe : r.from >= bound
  /\ question.obis = Null \/ r.obis = question.obis
  /\ \A name \in DOMAIN question.columns : Column(r, name) = question.columns[name]
  /\ question.quality = {} \/ r.q \in question.quality

PlannedRange(question, probe) ==
  LET asked == IF question.filter = Null THEN WholeTime ELSE RangeOf[question.filter]
      from  == IF question.start = Null THEN NoStart ELSE Micros(question.start)
      to    == IF question.end = Null THEN NoEnd ELSE Micros(question.end)
      lower == IF probe = {} THEN NoStart ELSE CHOOSE bound \in probe : TRUE
  IN Intersect(Intersect(asked, TimeRange(from, to)), TimeRange(lower, NoEnd))

SplitAt(q, watermark) ==
  ModeApply(query[q].question.mode,
            Split(PlannedRange(query[q].question, query[q].probe), watermark))

-----------------------------------------------------------------------------
(* The scans.  What is scanned is an item: a row and where it was found.    *)

Item(place, row) == [place |-> place, row |-> row]

ColdItems(files) ==
  UNION {{Item(<<f, n>>, cold[f][n]) : n \in DOMAIN cold[f]} : f \in 1..files}

\* The version ceiling of a pinned read is enforced on its scan.
BelowCeiling(mode, r) ==
  mode.kind = "AsOf" /\ mode.maxVersion # Null => r.version <= mode.maxVersion

ScannedCold(q, files, half) ==
  {i \in ColdItems(files) : /\ RowsAskedFor(half, i.row.from)
                            /\ BelowCeiling(query[q].question.mode, i.row)}

ScannedHot(half) == {Item(<<0, 0>>, r) : r \in {s \in hot : RowsAskedFor(half, s.from)}}

\* What the engine never sees is applied below it: the transaction-time ceiling and the
\* row scope.
Enforced(question, r) ==
  /\ question.mode.kind = "AsKnownAt" => r.rec <= question.mode.at
  /\ \A name \in DOMAIN question.scope : Column(r, name) = question.scope[name]

-----------------------------------------------------------------------------
(* Resolution: the highest version of each reading in each scope, and of    *)
(* equal versions the one recorded last.                                    *)

Contender(r) == [key |-> KeyOf(table, r), scope |-> r.scope]

Outranks(r, s) == r.version > s.version \/ (r.version = s.version /\ r.rec > s.rec)

Resolve(items) ==
  LET contenders(i) == {j \in items : Contender(j.row) = Contender(i.row)}
  IN {CHOOSE j \in contenders(i) : \A k \in contenders(i) : ~Outranks(k.row, j.row) : i \in items}

\* Statistics of the files that may meet a range: the versions and the starts they hold.
FileStats(rows) ==
  LET starts   == {r.from : r \in ToSet(rows)}
      versions == {r.version : r \in ToSet(rows)}
      least(s) == CHOOSE x \in s : \A y \in s : x <= y
      most(s)  == CHOOSE x \in s : \A y \in s : x >= y
  IN [lo |-> least(starts), hi |-> most(starts), min |-> least(versions), max |-> most(versions)]

VersionStats(half) ==
  {s \in {FileStats(cold[f]) : f \in DOMAIN cold} :
     \E range \in half : s.hi >= range.start /\ s.lo < range.end}

\* Where every file before it ends, a run of overlapping files begins.
RunBreaks(stats) == {s \in stats : \A t \in stats : t.lo < s.lo => t.hi < s.lo}

InOneRun(stats, s, t) ==
  ~\E b \in RunBreaks(stats) : (s.lo < b.lo /\ b.lo <= t.lo) \/ (t.lo < b.lo /\ b.lo <= s.lo)

\* Mutant: files are judged one by one.
EachElidable(stats) == \A s \in stats : s.min = s.max

Elidable(stats) ==
  /\ \A s \in stats : s.min = s.max
  /\ \A s, t \in stats : InOneRun(stats, s, t) => s.min = t.min

-----------------------------------------------------------------------------
(* The typed reads.                                                         *)

\* The order of a scan: the merge key, the start last.
KeyTexts(r) ==
  LET names    == IdentityColumns(table)
      identity == Listed(names, {p \in names \X names : Collation[p[1]] < Collation[p[2]]})
  IN <<r.obis>> \o (IF table.byMelo THEN <<r.melo>> ELSE <<>>)
       \o [n \in DOMAIN identity |-> r.extra[identity[n]]]

TextsBefore(t, u) ==
  \E n \in DOMAIN t : /\ \A m \in 1..(n - 1) : t[m] = u[m]
                      /\ Collation[t[n]] < Collation[u[n]]

InSeriesOrder(i, j) ==
  \/ TextsBefore(KeyTexts(i.row), KeyTexts(j.row))
  \/ KeyTexts(i.row) = KeyTexts(j.row) /\ i.row.from < j.row.from

NewestFirst(i, j) ==
  \/ i.row.from > j.row.from
  \/ i.row.from = j.row.from /\ TextsBefore(KeyTexts(i.row), KeyTexts(j.row))

\* LIMIT 1.
Newest(items) ==
  IF items = {} THEN {} ELSE {CHOOSE i \in items : \A j \in items : ~NewestFirst(j, i)}

RowsInOrder(items) ==
  LET sorted == SetToSortSeq(items, InSeriesOrder)
  IN [n \in DOMAIN sorted |-> sorted[n].row]

\* What makes two deliveries two readings.
ReadingKey(d) ==
  [obis |-> d.obis,
   identity |-> [name \in Discriminators(table) |-> IF name = "melo" THEN d.melo ELSE d.extra[name]]]

\* Mutant: only the channel tells two readings apart.
MixedChannels(deliveries) ==
  \E n, m \in DOMAIN deliveries : deliveries[n].obis # deliveries[m].obis

MixedReadings(deliveries) ==
  \E n, m \in DOMAIN deliveries : ReadingKey(deliveries[n]) # ReadingKey(deliveries[m])

IntervalsOf(deliveries) ==
  SortSeq(FlattenSeq([n \in DOMAIN deliveries |-> deliveries[n].intervals]),
          LAMBDA i, j : i.from < j.from)

RepeatedInstants(deliveries) ==
  LET intervals == IntervalsOf(deliveries)
  IN \E n, m \in DOMAIN intervals : n # m /\ intervals[n].from = intervals[m].from

\* The last of the values that is one, or none.
LastSaid(values) ==
  LET said == SelectSeq(values, LAMBDA v : v # Null)
  IN IF said = <<>> THEN Null ELSE Last(said)

\* One series of many deliveries: the newest one describes it.
Merge(deliveries) ==
  IF MixedReadings(deliveries) \/ RepeatedInstants(deliveries) THEN {}
  ELSE LET byAge == SortSeq(deliveries, LAMBDA d, e : d.rec < e.rec)
       IN {[Last(byAge) EXCEPT
              !.intervals = IntervalsOf(byAge),
              !.melo = LastSaid([n \in DOMAIN byAge |-> byAge[n].melo]),
              !.res  = LastSaid([n \in DOMAIN byAge |-> byAge[n].res]),
              !.prov = [n \in DOMAIN byAge |-> byAge[n].prov]]}

Channels(deliveries) == {deliveries[n].obis : n \in DOMAIN deliveries}

OnChannel(deliveries, obis) == SelectSeq(deliveries, LAMBDA d : d.obis = obis)

\* The series of a read by their channels: one without a channel of its own, as many as
\* there are where they are split.  Empty when refused.
FoldOf(fold, deliveries) ==
  IF deliveries = <<>> THEN {<<>>}
  ELSE IF fold \in {"collect", "latest"} THEN {<<s>> : s \in Merge(deliveries)}
  ELSE IF \E c \in Channels(deliveries) : Merge(OnChannel(deliveries, c)) = {} THEN {}
  ELSE {LET channels == SetToSortSeq(Channels(deliveries), LAMBDA a, b : Collation[a] < Collation[b])
        IN [n \in DOMAIN channels |->
              CHOOSE s \in Merge(OnChannel(deliveries, channels[n])) : TRUE]}

\* SQL answers with rows and channels with codes; the others decode, and may refuse.
ResultOf(fold, items) ==
  CASE fold \in {"sql", "channels"} -> {items}
    [] fold = "deliveries"          -> Decode(table, RowsInOrder(items))
    [] OTHER -> UNION {FoldOf(fold, ds) : ds \in Decode(table, RowsInOrder(items))}

-----------------------------------------------------------------------------
(* The steps of a query.                                                    *)

Silent == [pc |-> "idle"]

QInit == Init /\ query = [q \in Readers |-> Silent] /\ asks = 0

\* A pinned session resolves its snapshot and the boundary it published; an unbounded
\* `latest` reads the boundary to probe at.
Ask(q, question) ==
  /\ query[q].pc = "idle" /\ asks < MaxAsks
  /\ asks' = asks + 1
  /\ query' = [query EXCEPT ![q] =
       [pc |-> IF Askable(question) THEN "label" ELSE "refused", question |-> question,
        files |-> Len(cold), pinned |-> boundary, began |-> Visible,
        probe |-> LatestProbeBound(question, boundary),
        label |-> 0, items |-> {}, answer |-> {}, result |-> {}]]
  /\ UNCHANGED writeVars

\* The one boundary of the statement, or the one its session is pinned to.
ReadBoundary(q) ==
  /\ query[q].pc = "label"
  /\ query' = [query EXCEPT ![q].pc = "cold",
       ![q].label = IF query[q].question.mode.kind = "AsOf" THEN query[q].pinned ELSE boundary]
  /\ UNCHANGED <<asks, writeVars>>

\* The boundary the providers plan at.
WatermarkFor(q) == query[q].label

FilesRead(q) == IF query[q].question.mode.kind = "AsOf" THEN query[q].files ELSE Len(cold)

ScanCold(q) ==
  /\ query[q].pc = "cold"
  /\ query' = [query EXCEPT ![q].pc = "hot",
       ![q].items = ScannedCold(q, FilesRead(q), SplitAt(q, WatermarkFor(q)).cold)]
  /\ UNCHANGED <<asks, writeVars>>

ProvenPlain(q, split) ==
  /\ ~ForcesResolution(query[q].question.mode)
  /\ split.hot = {}
  /\ split.cold = {} \/ Elidable(VersionStats(split.cold))

\* Where the statistics, read after the scan was built, prove nothing, the plan is built
\* anew.
ScannedItems(q, split) ==
  IF split.hot = {} /\ ~ProvenPlain(q, split)
    THEN ScannedCold(q, FilesRead(q), split.cold)
    ELSE query[q].items \cup ScannedHot(split.hot)

AnswerItems(q, split) ==
  LET question == query[q].question
      scanned  == {i \in ScannedItems(q, split) : Enforced(question, i.row)}
      resolved == IF question.relation = "raw" \/ ProvenPlain(q, split)
                    THEN scanned ELSE Resolve(scanned)
      wanted   == {i \in resolved : Wanted(question, query[q].probe, i.row)}
  IN IF question.fold = "latest" THEN Newest(wanted) ELSE wanted

\* A probe that finds nothing is followed by the read it stood for.
FallsThrough(q, items) == query[q].probe # {} /\ items = {}

Answer(q) ==
  LET items  == AnswerItems(q, SplitAt(q, WatermarkFor(q)))
      result == ResultOf(query[q].question.fold, items)
  IN /\ query[q].pc = "hot"
     /\ query' = [query EXCEPT ![q] =
          IF FallsThrough(q, items)
            THEN [@ EXCEPT !.pc = "label", !.probe = {}, !.items = {}]
            ELSE [@ EXCEPT !.pc = IF result = {} THEN "refused" ELSE "done", !.items = {},
                           !.answer = items, !.result = result]]
     /\ UNCHANGED <<asks, writeVars>>

\* A relation is kept while a query planned below it is under way.
Reclaim ==
  /\ \A q \in Readers : query[q].pc \in {"cold", "hot"} => query[q].label = boundary
  /\ DropDetached

Next ==
  \/ \E w \in Writers : WriteStep(w) /\ UNCHANGED queryVars
  \/ Archive /\ UNCHANGED queryVars
  \/ Reclaim /\ UNCHANGED queryVars
  \/ \E q \in Readers :
       \/ \E question \in scene.questions : Ask(q, question)
       \/ ReadBoundary(q) \/ ScanCold(q) \/ Answer(q)

Spec == QInit /\ [][Next]_vars

-----------------------------------------------------------------------------
(* Properties.                                                              *)

\* A value as the columns hold it: on their grid, its checked columns canonical.
AsStored(i) ==
  [i EXCEPT !.from = Micros(@), !.extra = CHOOSE resolved \in ResolveExtra(table, @) : TRUE]

\* What it is stored under: a value that does not resolve is accepted only as a replay, of
\* what is stored under the key it gives.
StoredKey(i) == KeyOf(table, IF ResolveExtra(table, i.extra) = {} THEN i ELSE AsStored(i))

\* Two authored deliveries that differ in what the merge of re-authored rows ignores.
MeterMixed(batch) ==
  \E n, m \in DOMAIN batch :
    /\ batch[n].obis = batch[m].obis /\ batch[n].extra = batch[m].extra
    /\ batch[n].melo # batch[m].melo

\* Every write names the reading once at most, on the grid and as the columns spell it;
\* no authored one merges two meters, and none that names it may have been routed twice.
PlainlyNamed(key) ==
  \A k \in DOMAIN scene.writes :
    LET given == IncomingOf(scene.writes[k].batch)
        named == {n \in DOMAIN given : StoredKey(given[n]) = key}
    IN /\ \A n, m \in named : n = m /\ KeyOf(table, given[n]) = key
       /\ \/ ~scene.writes[k].authored
          \/ ~MeterMixed(scene.writes[k].batch) /\ (named = {} \/ boundary = scene.boundary)

\* What append reports as accepted is there to be queried: every value of the batch, in
\* the tier that owns it by now, under its version and for its meter (store.rs:899, 929,
\* 1163, 1558).
AcceptedIsStored ==
  \A w \in Writers : call[w].pc = "ok" /\ ~call[w].authored =>
    LET given == IncomingOf(call[w].batch)
    IN \A n \in DOMAIN given : \E r \in Visible :
         /\ KeyOf(table, r) = StoredKey(given[n])
         /\ r.version = given[n].version /\ FromScaled(r.value) = given[n].value
         /\ r.melo = given[n].melo

\* A reading is stored once at each version, whatever is redelivered, re-routed and
\* archived meanwhile: file statistics that show one version then show one row
\* (planner/version.rs:145).  Excepted is a reading a write names twice, off
\* the grid or in another spelling, or one authored while the boundary moves, whose two
\* reports have it written again twice, or of two meters at once, one of which may be
\* written as the other.
StoredOnce ==
  \A i, j \in {k \in ColdItems(Len(cold)) : k.row.from < boundary} :
    i # j /\ SameVersion(i.row, j.row) => ~PlainlyNamed(KeyOf(table, i.row))

\* The cold tier never holds a reading twice at one version: a second interval of one
\* batch asserting a version the first asserted is seen as the replay it is, rather than
\* appended twice (store.rs:1855).
OneRowPerVersion ==
  \A i, j \in ColdItems(Len(cold)) : i # j => ~SameVersion(i.row, j.row)

InForce(key) ==
  {FromScaled(r.value) : r \in {s \in Visible : /\ KeyOf(table, s) = key
     /\ \A t \in Visible : KeyOf(table, t) = key => t.version <= s.version}}

\* An authored value is in force when the call returns, whatever outranked it, unless
\* another writer stored the reading after the call last read it, the batch merges two
\* meters, or it names the reading off the grid or in another spelling (store.rs:1278).
AuthoredTookEffect ==
  [][\A w \in Writers :
       call[w].pc # "ok" /\ call'[w].pc = "ok" /\ call[w].authored /\ ~MeterMixed(call[w].batch) =>
         LET given == IncomingOf(call[w].batch)
         IN \A n \in DOMAIN given :
              LET key == StoredKey(given[n])
              IN KeyOf(table, given[n]) # key \/ key \in call[w].raced \/
                 \E m \in DOMAIN given : /\ StoredKey(given[m]) = key
                                         /\ given[m].value \in InForce(key)]_vars

Answered(q) == query[q].pc = "done"

\* What the read mode admits of what was visible when the question was asked.
Universe(q) ==
  LET mode == query[q].question.mode
  IN {r \in query[q].began :
        CASE mode.kind = "Historical"  -> r.from < query[q].label
          [] mode.kind = "Operational" -> r.from >= query[q].label
          [] mode.kind = "AsOf"        -> r.from < query[q].label /\ BelowCeiling(mode, r)
          [] mode.kind = "AsKnownAt"   -> r.rec <= mode.at
          [] OTHER                     -> TRUE}

\* What the question asks of a row, bounds as they were given.
AsksFor(question, r) ==
  /\ Wanted([question EXCEPT !.start = Null, !.end = Null], {}, r)
  /\ question.start = Null \/ r.from >= question.start
  /\ question.end = Null \/ r.from < question.end
  /\ \A name \in DOMAIN question.scope : Column(r, name) = question.scope[name]

\* A start between two instants of the grid is cut to the earlier one, and its row comes
\* back; an end likewise, and its row is lost.
AtCutStart(question, r) == question.start # Null /\ r.from = Micros(question.start)
AtCutEnd(question, r) ==
  LET end == PlannedRange([question EXCEPT !.end = Null], {}).end
  IN \/ question.end # Null /\ r.from = Micros(question.end)
     \/ end % 2 = 1 /\ r.from = Micros(end)

\* An answered row is one that was asked for, of the tenant the session is confined to,
\* and in force: no higher version of its reading was visible when the question was
\* asked, and no reading comes twice (provider.rs:492, resolved.rs:206, version.rs:285).
AnswerTrue ==
  \A q \in Readers : Answered(q) => \A i \in query[q].answer :
    /\ AsksFor(query[q].question, i.row) \/ AtCutStart(query[q].question, i.row)
    /\ query[q].question.relation = "resolved" =>
         /\ \A r \in Universe(q) : Contender(r) = Contender(i.row) => r.version <= i.row.version
         /\ \A j \in query[q].answer : i # j /\ Contender(j.row) = Contender(i.row)
                                         => ~PlainlyNamed(KeyOf(table, i.row))

\* A version above it is stored, or another row of the same one.
Overtaken(r) ==
  \E s \in ColdRows \cup hot : /\ Contender(s) = Contender(r)
                              /\ \/ s.version > r.version
                                 \/ s.version = r.version /\ s # r

\* What was in force when the question was asked, and still is, is in the answer if the
\* question asks for it, whichever tier held it while the boundary moved; `latest` may
\* answer with a newer one.  A row at an end that lies off the grid is excepted
\* (predicate.rs:22, split.rs:122, series.rs:558).
AnswerWhole ==
  \A q \in Readers : Answered(q) =>
    LET question == query[q].question
    IN \A r \in Universe(q) :
         AsksFor(question, r) /\ ~Overtaken(r) /\ ~AtCutEnd(question, r) =>
           \E i \in query[q].answer :
             \/ SameVersion(i.row, r)
             \/ question.fold = "latest" /\ i.row.from >= r.from

\* A folded series holds the values of one reading's channel, each instant once, and all
\* of the answer; split by channel, one series holds what the channel has
\* (series.rs:686, 822, 896).
FoldsOneReading ==
  \A q \in Readers : Answered(q) /\ query[q].question.fold \in {"collect", "by_channel"} =>
    \A folded \in query[q].result :
      LET rows    == {i.row : i \in query[q].answer}
          of(s)   == {r \in rows : query[q].question.fold = "collect" \/ r.obis = s.obis}
          whole(s) ==
            /\ \A r, t \in of(s) : [KeyOf(table, r) EXCEPT !.from = 0] = [KeyOf(table, t) EXCEPT !.from = 0]
            /\ Len(s.intervals) = Cardinality(of(s))
            /\ \A r \in of(s) : IntervalOfRow(r) \in ToSet(s.intervals)
            /\ \A n \in 2..Len(s.intervals) : s.intervals[n - 1].from < s.intervals[n].from
      IN /\ \A n \in DOMAIN folded : whole(folded[n])
         /\ \A r \in rows : \E n \in DOMAIN folded : r \in of(folded[n])

\* An unfolded read gives every row back under the delivery columns it was stored with:
\* nothing is attributed to a neighbouring row's source, meter or version
\* (encode/mod.rs:1044, 1201).
SourceKept ==
  \A q \in Readers : Answered(q) /\ query[q].question.fold = "deliveries" =>
    \A deliveries \in query[q].result : \A i \in query[q].answer :
      \E n \in DOMAIN deliveries :
        LET alone == DeliveryOf(<<i.row>>)
        IN /\ [deliveries[n] EXCEPT !.intervals = <<>>] = [alone EXCEPT !.intervals = <<>>]
           /\ alone.intervals[1] \in ToSet(deliveries[n].intervals)
=============================================================================
