------------------------------- MODULE Writes -------------------------------
(***************************************************************************)
(* MeterStore::append, append_readings and append_authoritative: a         *)
(* delivery is routed at the tier boundary, the hot part inserted and      *)
(* reported, the cold part reconciled with what is archived, and a value   *)
(* its operator authors is raised above whatever outranks it.              *)
(*                                                                         *)
(* Simplifications: one Marktlokation; archiving a window is one step, and *)
(* so is a cold append, which holds the table's cold-append lease; instants *)
(* and values are those of Encoding, as many instants as Predicates knows. *)
(***************************************************************************)
EXTENDS Encoding, Predicates

LOCAL INSTANCE SequencesExt

CONSTANTS
  Writers,               \* the concurrent callers
  Scenes,                \* [table, boundary, hot, cold, writes]: a store, and the calls that
                         \* write to it in the order they begin
  Step,                  \* the width of a partition and of an archived window
  Frontier,              \* nothing is archived from here on
  BoundaryAttempts,      \* routings of one append
  AuthoritativeAttempts  \* rounds of one append_authoritative

\* A sequence, of whatever it holds.
Listing(s) == s \in Seq(ToSet(s))

\* The members of a finite set, each once.
InSomeOrder(S) ==
  CHOOSE s \in [1..Cardinality(S) -> S] : \A m, n \in DOMAIN s : s[m] = s[n] => m = n

\* What a caller hands over.
IsDelivery(d) ==
  /\ {"sparte", "unit", "obis", "melo", "res", "source", "prov", "label", "rec", "extra", "intervals"}
       \subseteq DOMAIN d
  /\ {"scope", "version"} \subseteq DOMAIN d.label /\ d.label.version \in Int /\ d.rec \in Int
  /\ {d.obis, d.melo} \subseteq Texts \cup {Null}
  /\ \A name \in DOMAIN d.extra : d.extra[name] \in Texts \cup {Null}
  /\ Listing(d.intervals)
  /\ \A i \in ToSet(d.intervals) : i.from \in Instants /\ i.value \in Int /\ i.obis \in Texts \cup {Null}

\* A row as this code stores one: on the grid, its identity in the one spelling.
IsRow(tbl, r) ==
  /\ r.from \in Instants /\ r.from % 2 = 0 /\ r.version \in Int /\ r.rec \in Int
  /\ {r.obis, r.melo} \subseteq Texts \cup {Null}
  /\ \A c \in tbl.columns : c.identity =>
       r.extra[c.name] \in Texts /\ CheckDeclaredValue(c, r.extra[c.name]) = {r.extra[c.name]}

\* Rows of one reading and version.
Again(tbl, r, s) == KeyOf(tbl, r) = KeyOf(tbl, s) /\ r.version = s.version

\* A store that writes, archival and reclaiming have left.
IsScene(s) ==
  /\ BuildAccepts(s.table)
  /\ s.boundary \in Nat /\ s.boundary % Step = 0
  /\ IsFiniteSet(s.hot) /\ \A r \in s.hot : IsRow(s.table, r) /\ r.from >= s.boundary
  /\ \A r, o \in s.hot : Again(s.table, r, o) => r = o
  /\ Listing(s.cold)
  /\ \A file \in ToSet(s.cold) :
       /\ Listing(file) /\ file # <<>>
       /\ \A r \in ToSet(file) : IsRow(s.table, r) /\ r.from < s.boundary
  /\ \A f, g \in DOMAIN s.cold : \A m \in DOMAIN s.cold[f], n \in DOMAIN s.cold[g] :
       Again(s.table, s.cold[f][m], s.cold[g][n]) => f = g /\ m = n
  /\ Listing(s.writes)
  /\ \A c \in ToSet(s.writes) : Listing(c.batch) /\ \A d \in ToSet(c.batch) : IsDelivery(d)

\* Partitions begin on the grid of the columns.
ASSUME WritesAssumption ==
  /\ Step \in Nat \ {0} /\ Step % 2 = 0 /\ Frontier \in Nat
  /\ BoundaryAttempts \in Nat \ {0} /\ AuthoritativeAttempts \in Nat \ {0}
  /\ \A s \in Scenes : IsScene(s)

VARIABLES
  scene,     \* the store
  hot,       \* the rows of the hot relations, attached or not
  detached,  \* starts of the windows archived and not dropped yet
  cold,      \* the rows of each cold file, in commit order
  boundary,  \* the tier boundary
  call,      \* call[w]: the write of w
  writes     \* calls begun

writeVars == <<scene, hot, detached, cold, boundary, call, writes>>

table == scene.table

Window(t) == t - (t % Step)

Attached == {r \in hot : Window(r.from) \notin detached}

ColdRows == UNION {ToSet(cold[f]) : f \in DOMAIN cold}

\* What a query at the boundary sees.
Visible == {r \in ColdRows : r.from < boundary} \cup {r \in hot : r.from >= boundary}

-----------------------------------------------------------------------------
(* A delivery's parts.                                                      *)

\* The values of a batch some condition keeps, without deliveries left empty.
Narrow(batch, Keep(_, _)) ==
  LET of(s) == FlattenSeq([m \in DOMAIN s.intervals |->
                 IF Keep(s, s.intervals[m]) THEN <<s.intervals[m]>> ELSE <<>>])
  IN FlattenSeq([n \in DOMAIN batch |->
       IF of(batch[n]) = <<>> THEN <<>> ELSE <<[batch[n] EXCEPT !.intervals = of(batch[n])]>>])

HotPart(batch, b)  == Narrow(batch, LAMBDA s, i : i.from >= b)
ColdPart(batch, b) == Narrow(batch, LAMBDA s, i : i.from < b)

\* The store asked must see the present, the table hold this kind of value, and where
\* a Messlokation identifies readings every delivery name one.
Admitted(c) ==
  /\ c.mode = "Unified"
  /\ c.points = table.points
  /\ table.byMelo => \A n \in DOMAIN c.batch : c.batch[n].melo # Null

-----------------------------------------------------------------------------
(* What a write did to the reading's current value.                         *)

Effects == {"Inserted", "Superseded", "Shadowed", "Duplicate"}

ChangedCurrentValue(effect) == effect \in {"Inserted", "Superseded"}

\* `written` and `superseded` in the caller's units; superseded is Null for the first.
Displacement(key, effect, superseded, written) ==
  [key |-> key, effect |-> effect, superseded |-> superseded, written |-> written]

StoredValue(row) ==
  [value |-> FromScaled(row.value), unit |-> row.unit, q |-> row.q,
   label |-> Label(row.scope, row.version), rec |-> row.rec]

AssertedValue(incoming) ==
  [value |-> incoming.value, unit |-> incoming.unit, q |-> incoming.q,
   label |-> Label(incoming.scope, incoming.version), rec |-> incoming.rec]

BestValue(values) == CHOOSE v \in values : \A u \in values : u.label.version <= v.label.version

TwoScopes(values) == \E u, v \in values : ~Comparable(u.label, v.label)

EffectOn(prior, written, replayed) ==
  IF prior = {} THEN "Inserted"
  ELSE IF replayed THEN "Duplicate"
  ELSE IF Supersedes(written.label, BestValue(prior).label) THEN "Superseded" ELSE "Shadowed"

BestOrNull(values) == IF values = {} THEN Null ELSE BestValue(values)

-----------------------------------------------------------------------------
(* The hot tier: insert_rows and the report of insert_reporting.            *)

\* Equal rows of the primary key.
SameVersion(r, s) == Again(table, r, s)

\* ON CONFLICT DO NOTHING: what is stored already, or earlier in the batch, is skipped.
Skipped(rows, n) ==
  \/ \E r \in Attached : SameVersion(r, rows[n])
  \/ \E m \in 1..(n - 1) : SameVersion(rows[m], rows[n])

FreshRows(rows) == {rows[n] : n \in {m \in DOMAIN rows : ~Skipped(rows, m)}}

\* The exclusion constraints of a partition: no two spans of one channel and version
\* overlap, and one reading has one network operator.
Excludes(r, s) ==
  \/ /\ ~table.points
     /\ [KeyOf(table, r) EXCEPT !.from = 0] = [KeyOf(table, s) EXCEPT !.from = 0]
     /\ r.version = s.version
     /\ r.from < s.to /\ s.from < r.to
  \/ /\ KeyOf(table, r) = KeyOf(table, s)
     /\ r.scope.operator # s.scope.operator

ConstraintsHold(fresh) ==
  table.constraints =>
    \A r \in fresh, s \in Attached \cup fresh :
      r # s /\ Window(r.from) = Window(s.from) => ~Excludes(r, s)

\* A skipped row is a replay only if it says what is stored.
Restated(rows) ==
  \E n \in DOMAIN rows : \E r \in Attached \cup FreshRows(rows) :
    SameVersion(r, rows[n]) /\ (r.value # rows[n].value \/ r.melo # rows[n].melo)

InsertAccepts(rows) ==
  /\ \A n \in DOMAIN rows : Window(rows[n].from) \notin detached
  /\ ConstraintsHold(FreshRows(rows))
  /\ (\E n \in DOMAIN rows : Skipped(rows, n)) => ~Restated(rows)

PriorFor(prior, rows) ==
  {r \in prior : \E n \in DOMAIN rows : r.obis = rows[n].obis /\ r.from = rows[n].from}

\* The report folds the batch in ascending versions, from the rows the SELECT returned.
HeldBefore(prior, rows, n) ==
  {StoredValue(r) : r \in {p \in prior : KeyOf(table, p) = KeyOf(table, rows[n])}}
    \cup {StoredValue(rows[m]) : m \in {k \in DOMAIN rows :
            /\ KeyOf(table, rows[k]) = KeyOf(table, rows[n])
            /\ rows[k].version < rows[n].version \/ (rows[k].version = rows[n].version /\ k < n)}}

HotReport(prior, rows) ==
  [n \in DOMAIN rows |->
     LET held    == HeldBefore(prior, rows, n)
         written == StoredValue(rows[n])
     IN Displacement(KeyOf(table, rows[n]),
                     EffectOn(held, written, \E p \in prior : SameVersion(p, rows[n])),
                     BestOrNull(held), written)]

\* A comparison across scopes fails the report, after the commit.
Reportable(prior, rows) ==
  \A n \in DOMAIN rows :
    \/ \E p \in prior : SameVersion(p, rows[n])
    \/ ~TwoScopes(HeldBefore(prior, rows, n) \cup {StoredValue(rows[n])})

-----------------------------------------------------------------------------
(* The cold tier: reconcile_cold and append_cold.                           *)

\* The merge key a value is reconciled under, from the delivery as it was given.
IdentityGiven(incoming) ==
  \A name \in IdentityColumns(table) : name \in DOMAIN incoming.extra /\ incoming.extra[name] # Null

\* What the raw view holds in the interval range being written.
Stored(incoming) ==
  {r \in Visible : /\ \E n \in DOMAIN incoming : Micros(incoming[n].from) <= r.from
                   /\ \E n \in DOMAIN incoming : r.from <= Micros(incoming[n].from)}

StoredUnder(stored, key) == {r \in stored : KeyOf(table, r) = key}

EarlierUnder(incoming, n) ==
  {m \in 1..(n - 1) : KeyOf(table, incoming[m]) = KeyOf(table, incoming[n])}

ColdHeldBefore(stored, incoming, n) ==
  {StoredValue(r) : r \in StoredUnder(stored, KeyOf(table, incoming[n]))}
    \cup {AssertedValue(incoming[m]) : m \in EarlierUnder(incoming, n)}

SaidBefore(stored, incoming, n) ==
  {v \in ColdHeldBefore(stored, incoming, n) : v.label.version = incoming[n].version}

ColdReplay(stored, incoming, n) == SaidBefore(stored, incoming, n) # {}

OneOperator(stored, incoming, n) ==
  \A v \in ColdHeldBefore(stored, incoming, n) : v.label.scope.operator = incoming[n].scope.operator

SameMelo(stored, incoming, n) ==
  \A r \in StoredUnder(stored, KeyOf(table, incoming[n])) :
    r.version = incoming[n].version => r.melo = incoming[n].melo

SameAssertion(stored, incoming, n) ==
  \A v \in SaidBefore(stored, incoming, n) : v.value = incoming[n].value

\* A value reconciles when it comes from the stored network operator, and under a stored
\* version says what is stored.
Reconciles(stored, incoming, n) ==
  /\ OneOperator(stored, incoming, n)
  /\ SameMelo(stored, incoming, n) /\ SameAssertion(stored, incoming, n)
  /\ ColdReplay(stored, incoming, n)
       \/ ~TwoScopes(ColdHeldBefore(stored, incoming, n) \cup {AssertedValue(incoming[n])})

StoredInOneScope(stored) ==
  \A r, s \in stored : KeyOf(table, r) = KeyOf(table, s) => r.scope = s.scope

ReconcileAccepts(stored, incoming) ==
  /\ \A n \in DOMAIN incoming : IdentityGiven(incoming[n]) /\ incoming[n].obis # Null
  /\ StoredInOneScope(stored)
  /\ \A n \in DOMAIN incoming : Reconciles(stored, incoming, n)

ColdReport(stored, incoming) ==
  [n \in DOMAIN incoming |->
     LET held    == ColdHeldBefore(stored, incoming, n)
         written == AssertedValue(incoming[n])
     IN Displacement(KeyOf(table, incoming[n]),
                     EffectOn(held, written, ColdReplay(stored, incoming, n)),
                     BestOrNull(held), written)]

\* Mutant: replays are written too.
AllKept(report) == {report[n].key : n \in DOMAIN report}

\* The readings of which some value is still to be written; every value of such a
\* reading is.
Kept(report) == {report[n].key : n \in {m \in DOMAIN report : report[m].effect # "Duplicate"}}

Retained(batch, keys) == Narrow(batch, LAMBDA s, i : KeyOf(table, Incoming(s, i)) \in keys)

-----------------------------------------------------------------------------
(* append_authoritative.                                                    *)

TookEffect(d) ==
  \/ ChangedCurrentValue(d.effect)
  \/ d.effect = "Duplicate" /\ d.superseded.value = d.written.value

\* Mutant: a displaced reading is looked up by its channel and start alone.
LocatedByChannel(batch, d) ==
  UNION {{<<n, m>> : m \in {k \in DOMAIN batch[n].intervals :
            /\ ObisFor(batch[n], batch[n].intervals[k]) = d.key.obis
            /\ batch[n].intervals[k].from = d.key.from}} : n \in DOMAIN batch}

\* Where the first value of the batch that has the displaced reading's key stands.
Located(batch, d) ==
  UNION {{<<n, m>> : m \in {k \in DOMAIN batch[n].intervals :
            KeyOf(table, Incoming(batch[n], batch[n].intervals[k])) = d.key}} : n \in DOMAIN batch}

FirstOf(places) ==
  CHOOSE p \in places : \A o \in places : p[1] < o[1] \/ (p[1] = o[1] /\ p[2] <= o[2])

\* The caller's own delivery of that value, one version above the one in force.
Reauthored(batch, d) ==
  LET place == FirstOf(Located(batch, d))
      given == batch[place[1]]
  IN [given EXCEPT !.intervals = <<given.intervals[place[2]]>>,
                   !.label = NextVersion(d.superseded.label)]

\* By version, then by start; rows of one of both stay in the order they come in.
MergeOrder(rows) ==
  LET key(n) == <<rows[n].label.version, rows[n].intervals[1].from, n>>
  IN {p \in (DOMAIN rows) \X (DOMAIN rows) :
        \E k \in 1..3 : /\ \A j \in 1..(k - 1) : key(p[1])[j] = key(p[2])[j]
                        /\ key(p[1])[k] < key(p[2])[k]}

Mergeable(s, t) == s.label = t.label /\ s.obis = t.obis /\ s.extra = t.extra

\* Where rows stop agreeing on label, channel and extra columns.
MergeStarts(rows) == {n \in DOMAIN rows : n = 1 \/ ~Mergeable(rows[n - 1], rows[n])}

\* The values of the rows from the n-th to where the next delivery starts.
MergedFrom(rows, n) ==
  FlattenSeq([k \in DOMAIN rows |->
    IF k >= n /\ MergeStarts(rows) \cap ((n + 1)..k) = {} THEN rows[k].intervals ELSE <<>>])

\* Adjacent rows that agree become one delivery, the first one's.
MergeAuthored(rows) ==
  LET sorted == Arranged(rows, MergeOrder(rows))
  IN FlattenSeq([n \in DOMAIN sorted |->
       IF n \in MergeStarts(sorted)
         THEN <<[sorted[n] EXCEPT !.intervals = MergedFrom(sorted, n)]>> ELSE <<>>])

-----------------------------------------------------------------------------
(* The steps of a call.                                                     *)

Idle == [pc |-> "idle"]

Finished == {"idle", "ok", "refused"}

Init ==
  /\ scene \in Scenes
  /\ hot = scene.hot /\ detached = {} /\ cold = scene.cold /\ boundary = scene.boundary
  /\ call = [w \in Writers |-> Idle] /\ writes = 0

\* A call that ended keeps what it was asked, for the properties.
End(w, result) ==
  [pc |-> result, authored |-> call[w].authored, batch |-> call[w].batch, raced |-> call[w].raced]

Begin(w) ==
  /\ call[w].pc \in Finished /\ writes < Len(scene.writes)
  /\ writes' = writes + 1
  /\ LET c == scene.writes[writes + 1]
     IN call' = [call EXCEPT ![w] =
          [pc |-> IF Admitted(c) THEN "route" ELSE "refused", authored |-> c.authored,
           batch |-> c.batch, pending |-> c.batch, base |-> 0, routings |-> 1, rounds |-> 1,
           prior |-> {}, displaced |-> <<>>, raced |-> {}]]
  /\ UNCHANGED <<scene, hot, detached, cold, boundary>>

\* The cold part follows the hot one.
ThenCold(w, base) == IF ColdPart(call[w].pending, base) # <<>> THEN "cold" ELSE "recheck"

FirstPart(w) ==
  IF HotPart(call[w].pending, boundary) # <<>> THEN "select" ELSE ThenCold(w, boundary)

\* Reads the boundary and routes at it; the hot part has to encode before anything of
\* the delivery is written.
Route(w) ==
  /\ call[w].pc = "route"
  /\ call' = [call EXCEPT ![w] =
       IF Encode(table, HotPart(call[w].pending, boundary)) = {}
         THEN End(w, "refused")
         ELSE [@ EXCEPT !.pc = FirstPart(w), !.base = boundary]]
  /\ UNCHANGED <<scene, hot, detached, cold, boundary, writes>>

HotRows(w) ==
  CHOOSE rows \in Encode(table, HotPart(call[w].pending, call[w].base)) : TRUE

KeysOf(rows) == {KeyOf(table, rows[n]) : n \in DOMAIN rows}

\* The SELECT of the transaction: a statement, and a snapshot, of its own.
SelectPrior(w) ==
  LET prior == PriorFor(Attached, HotRows(w))
  IN /\ call[w].pc = "select"
     /\ call' = [call EXCEPT ![w] =
          IF StoredInOneScope(prior)
            THEN [@ EXCEPT !.pc = "insert", !.prior = prior, !.raced = call[w].raced \ KeysOf(HotRows(w))]
            ELSE End(w, "refused")]
     /\ UNCHANGED <<scene, hot, detached, cold, boundary, writes>>

\* The others that are in flight learn that a reading was stored behind their back.
Race(w, keys) ==
  [v \in Writers |-> IF v = w \/ call[v].pc \in Finished THEN call[v]
                     ELSE [call[v] EXCEPT !.raced = @ \cup keys]]

InsertRefused(w) ==
  /\ call[w].pc = "insert"
  /\ ~InsertAccepts(HotRows(w))
  /\ call' = [call EXCEPT ![w] = End(w, "refused")]
  /\ UNCHANGED <<scene, hot, detached, cold, boundary, writes>>

\* Insert, commit, report.
Insert(w) ==
  LET rows  == HotRows(w)
      prior == call[w].prior
  IN /\ call[w].pc = "insert"
     /\ InsertAccepts(rows)
     /\ hot' = hot \cup FreshRows(rows)
     /\ call' = [Race(w, {KeyOf(table, r) : r \in FreshRows(rows)}) EXCEPT ![w] =
          IF Reportable(prior, rows)
            THEN [@ EXCEPT !.pc = ThenCold(w, call[w].base), !.prior = {},
                           !.displaced = call[w].displaced \o HotReport(prior, rows)]
            ELSE End(w, "refused")]
     /\ UNCHANGED <<scene, detached, cold, boundary, writes>>

ColdToWrite(w, incoming) ==
  Retained(ColdPart(call[w].pending, call[w].base), Kept(ColdReport(Stored(incoming), incoming)))

ColdAccepts(w, incoming) ==
  ReconcileAccepts(Stored(incoming), incoming) /\ Encode(table, ColdToWrite(w, incoming)) # {}

AppendColdRefused(w) ==
  /\ call[w].pc = "cold"
  /\ ~ColdAccepts(w, IncomingOf(ColdPart(call[w].pending, call[w].base)))
  /\ call' = [call EXCEPT ![w] = End(w, "refused")]
  /\ UNCHANGED <<scene, hot, detached, cold, boundary, writes>>

\* Under the lease: reconcile, drop what is stored, append the rest as one file.
AppendCold(w) ==
  LET incoming == IncomingOf(ColdPart(call[w].pending, call[w].base))
      report   == ColdReport(Stored(incoming), incoming)
  IN /\ call[w].pc = "cold"
     /\ ColdAccepts(w, incoming)
     /\ \E rows \in Encode(table, ColdToWrite(w, incoming)) :
          /\ cold' = IF rows = <<>> THEN cold ELSE Append(cold, SortedForStorage(rows))
          /\ call' = [Race(w, KeysOf(rows)) EXCEPT ![w] =
               [@ EXCEPT !.pc = "recheck", !.displaced = call[w].displaced \o report,
                         !.raced = call[w].raced \ KeysOf(incoming)]]
     /\ UNCHANGED <<scene, hot, detached, boundary, writes>>

\* Mutant: the boundary is not looked at again.
NeverMovedUnder(w) == FALSE

\* A hot row of this routing now lies below the boundary.
BoundaryMovedUnder(w) ==
  \E n \in DOMAIN call[w].pending : \E m \in DOMAIN call[w].pending[n].intervals :
    LET from == call[w].pending[n].intervals[m].from
    IN from >= call[w].base /\ from < boundary

Reroute(w) ==
  /\ call[w].pc = "recheck" /\ BoundaryMovedUnder(w)
  /\ call' = [call EXCEPT ![w] =
       IF call[w].routings < BoundaryAttempts
         THEN [@ EXCEPT !.pc = "route", !.routings = call[w].routings + 1] ELSE End(w, "refused")]
  /\ UNCHANGED <<scene, hot, detached, cold, boundary, writes>>

OutOfForce(w) ==
  FlattenSeq([n \in DOMAIN call[w].displaced |->
    IF TookEffect(call[w].displaced[n]) THEN <<>> ELSE <<call[w].displaced[n]>>])

Finish(w) ==
  /\ call[w].pc = "recheck" /\ ~BoundaryMovedUnder(w)
  /\ ~call[w].authored \/ OutOfForce(w) = <<>>
  /\ call' = [call EXCEPT ![w] = End(w, "ok")]
  /\ UNCHANGED <<scene, hot, detached, cold, boundary, writes>>

\* What did not take effect is written again above what holds the reading.
AuthorAgain(w) ==
  LET shadowed == OutOfForce(w)
  IN /\ call[w].pc = "recheck" /\ ~BoundaryMovedUnder(w)
     /\ call[w].authored /\ shadowed # <<>>
     /\ call' = [call EXCEPT ![w] =
          IF /\ call[w].rounds < AuthoritativeAttempts
             /\ \A n \in DOMAIN shadowed : Located(call[w].pending, shadowed[n]) # {}
            THEN [@ EXCEPT !.pc = "route", !.routings = 1, !.rounds = call[w].rounds + 1, !.displaced = <<>>,
                           !.pending = MergeAuthored([n \in DOMAIN shadowed |->
                                         Reauthored(call[w].pending, shadowed[n])])]
            ELSE End(w, "refused")]
     /\ UNCHANGED <<scene, hot, detached, cold, boundary, writes>>

-----------------------------------------------------------------------------
(* Archival, as the tier boundary's modules refine it.                      *)

Archive ==
  /\ boundary < Frontier
  /\ LET window == {r \in hot : Window(r.from) = boundary}
     IN cold' = IF window = {} THEN cold
                ELSE Append(cold, SortedForStorage(InSomeOrder(window)))
  /\ detached' = detached \cup {boundary}
  /\ boundary' = boundary + Step
  /\ UNCHANGED <<scene, hot, call, writes>>

DropDetached ==
  /\ detached # {}
  /\ hot' = Attached /\ detached' = {}
  /\ UNCHANGED <<scene, cold, boundary, call, writes>>

WriteStep(w) ==
  \/ Begin(w) \/ Route(w) \/ SelectPrior(w) \/ Insert(w) \/ InsertRefused(w)
  \/ AppendCold(w) \/ AppendColdRefused(w)
  \/ Reroute(w) \/ Finish(w) \/ AuthorAgain(w)
=============================================================================
