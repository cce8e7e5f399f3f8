------------------------------ MODULE Encoding ------------------------------
(***************************************************************************)
(* How a delivery becomes rows and rows become deliveries again: the       *)
(* checks of the write path, the columns, the merge key and the runs of    *)
(* the decoder.  Instants count half microseconds, so the odd ones lie     *)
(* between two instants the columns can hold; values count half of the     *)
(* smallest stored decimal.  A result that may be refused is a set: empty, *)
(* or the one thing it returns.                                            *)
(***************************************************************************)
EXTENDS Integers, Sequences, FiniteSets

LOCAL INSTANCE SequencesExt
LOCAL INSTANCE Functions

CONSTANTS
  Canonical,     \* Canonical[text]: what parsing a text and printing it again gives
  Malformed,     \* what Canonical gives for a text that does not parse
  Null,          \* no value
  MonthStart,    \* the instant at which, for Strom, the second month begins
  DayLength,     \* a balancing day
  GasShift,      \* how much later a gas day begins
  ValueLimit,    \* the first value a column is too narrow for
  ShortestMscons \* the smallest version MSCONS assigns

Texts == DOMAIN Canonical

ASSUME EncodingAssumption ==
  /\ Malformed \notin Texts
  /\ \A t \in Texts : Canonical[t] # Malformed =>
       Canonical[t] \in Texts /\ Canonical[Canonical[t]] = Canonical[t]
  /\ MonthStart \in Nat /\ DayLength \in Nat \ {0} /\ GasShift \in Nat
  /\ ValueLimit \in Nat /\ ShortestMscons \in Nat

-----------------------------------------------------------------------------
(* Scalars.                                                                  *)

\* Microseconds: an instant is cut to the grid of the columns.
Micros(t) == t - (t % 2)

\* A decimal is stored when it needs no more places than the column has, and fits.
ToScaled(v) == IF v % 2 = 1 \/ v >= ValueLimit THEN {} ELSE {v \div 2}

FromScaled(raw) == 2 * raw

Sparten == {"Strom", "Gas"}

Shift(sparte) == IF sparte = "Gas" THEN GasShift ELSE 0

BalancingDayOf(t, sparte) == (t - Shift(sparte)) \div DayLength

BalancingMonth(t, sparte) == IF t - Shift(sparte) < MonthStart THEN 1 ELSE 2

MeasuredUnit(sparte) == IF sparte = "Gas" THEN "m3" ELSE "kWh"
BillingUnit(sparte)  == "kWh"

CheckUnit(sparte, unit) == unit \in {MeasuredUnit(sparte), BillingUnit(sparte)}

\* A code column holds the canonical spelling and nothing else.
DecodeCode(text) == IF Canonical[text] = text THEN {text} ELSE {}

\* A caller's spelling is brought to the canonical one.
CanonicalCode(text) == IF Canonical[text] = Malformed THEN {} ELSE {Canonical[text]}

-----------------------------------------------------------------------------
(* Versions and the scope they are comparable in.                           *)

VersionScope(operator, month) ==
  IF operator \in Texts /\ Canonical[operator] = operator /\ month \in 1..12
    THEN {[operator |-> operator, month |-> month]} ELSE {}

ScopeForInterval(operator, t, sparte) == VersionScope(operator, BalancingMonth(t, sparte))

Covers(scope, t, sparte) == scope.month = BalancingMonth(t, sparte)

\* What a scope column is parsed as: the operator is checked for its one spelling.
ParseScope(text) == VersionScope(text.operator, text.month)

WellFormed(version) == version >= ShortestMscons

MsconsVersion(value) == IF WellFormed(value) THEN {value} ELSE {}

\* A delivery without a version gets one from its arrival, far below what MSCONS
\* assigns.
ArrivalVersion(recordedAt) == IF recordedAt < 0 THEN {} ELSE {recordedAt \div 2}

Label(scope, version) == [scope |-> scope, version |-> version]

Comparable(a, b) == a.scope = b.scope

Supersedes(a, b) == Comparable(a, b) /\ a.version > b.version

NextVersion(label) == [label EXCEPT !.version = @ + 1]

-----------------------------------------------------------------------------
(* A table's declared columns and what identifies a reading in it.  A table *)
(* is [points, byMelo, constraints, columns], a column [name, nullable,     *)
(* check, identity].                                                        *)

IdentityColumns(table) == {c.name : c \in {d \in table.columns : d.identity}}

\* The subject's reference is never part of a reading's identity, an identity column
\* is never null, and no two columns share a name.
BuildAccepts(table) ==
  /\ \A c \in table.columns : c.identity => ~c.nullable /\ c.name # "subject"
  /\ \A c, d \in table.columns : c.name = d.name => c = d

\* The columns of the merge key beyond channel and start.
Discriminators(table) == (IF table.byMelo THEN {"melo"} ELSE {}) \cup IdentityColumns(table)

Column(row, name) == IF name = "melo" THEN row.melo ELSE row.extra[name]

DiscriminatorValues(table, row) == [name \in Discriminators(table) |-> Column(row, name)]

\* The merge key: what one reading is.
KeyOf(table, row) == [obis |-> row.obis, from |-> row.from,
                      identity |-> DiscriminatorValues(table, row)]

\* Checked columns hold codes of a scheme, canonical; a scheme this build does not
\* know refuses every delivery.
KnownChecks == {"none", "code"}

CheckDeclaredValue(column, value) ==
  IF column.check \notin KnownChecks THEN {}
  ELSE IF column.check = "none" \/ value = Null THEN {value}
  ELSE CanonicalCode(value)

SuppliedFor(column, supplied) ==
  IF column.name \in DOMAIN supplied
    THEN {supplied[column.name]} \ (IF column.nullable THEN {} ELSE {Null})
    ELSE IF column.nullable THEN {Null} ELSE {}

ResolveColumn(column, supplied) ==
  UNION {CheckDeclaredValue(column, v) : v \in SuppliedFor(column, supplied)}

ResolveExtra(table, supplied) ==
  IF \E c \in table.columns : ResolveColumn(c, supplied) = {}
    THEN {}
    ELSE {[name \in {c.name : c \in table.columns} |->
             CHOOSE v \in Texts \cup {Null} :
               \E c \in table.columns : c.name = name /\ v \in ResolveColumn(c, supplied)]}

-----------------------------------------------------------------------------
(* A delivery: [sparte, unit, obis, melo, res, source, prov, label, rec,    *)
(* extra, intervals], each interval [from, to, value, q, obis]; a point     *)
(* table's interval is a register reading and its `to` is Null.             *)

EncodeSource(source) == [kind |-> source.kind, detail |-> source]

DecodeSource(kind, detail) ==
  IF detail = Null \/ detail.kind # kind THEN {} ELSE {detail}

ObisFor(s, i) == IF i.obis # Null THEN i.obis ELSE s.obis

\* One value of a delivery as its caller gave it.
Incoming(s, i) ==
  [obis |-> ObisFor(s, i), from |-> i.from, to |-> i.to, value |-> i.value, q |-> i.q,
   melo |-> s.melo, sparte |-> s.sparte, unit |-> s.unit, res |-> s.res,
   kind |-> EncodeSource(s.source).kind, detail |-> EncodeSource(s.source).detail,
   prov |-> s.prov, version |-> s.label.version, scope |-> s.label.scope,
   rec |-> s.rec, extra |-> s.extra]

\* The span is compared as it was given, before it is cut to the grid.
SpanInOrder(table, i) == table.points \/ i.to > i.from

EncodableInterval(table, s, i) ==
  /\ Covers(s.label.scope, i.from, s.sparte)
  /\ SpanInOrder(table, i)
  /\ ObisFor(s, i) # Null
  /\ ToScaled(i.value) # {}

Encodable(table, s) ==
  /\ CheckUnit(s.sparte, s.unit)
  /\ s.intervals # <<>> => ResolveExtra(table, s.extra) # {}
  /\ \A n \in DOMAIN s.intervals : EncodableInterval(table, s, s.intervals[n])

RowOf(table, s, i) ==
  LET stored == [Incoming(s, i) EXCEPT
                   !.from  = Micros(@),
                   !.to    = IF table.points THEN Null ELSE Micros(@),
                   !.value = CHOOSE raw \in ToScaled(@) : TRUE,
                   !.rec   = Micros(@),
                   !.extra = CHOOSE resolved \in ResolveExtra(table, @) : TRUE]
  IN [column \in DOMAIN stored \cup {"day"} |->
        IF column = "day" THEN BalancingDayOf(i.from, s.sparte) ELSE stored[column]]

RowsOfDelivery(table, s) == [n \in DOMAIN s.intervals |-> RowOf(table, s, s.intervals[n])]

\* A batch of deliveries is encoded whole or refused whole.
Encode(table, batch) ==
  IF \A n \in DOMAIN batch : Encodable(table, batch[n])
    THEN {FlattenSeq([n \in DOMAIN batch |-> RowsOfDelivery(table, batch[n])])} ELSE {}

IncomingOf(batch) ==
  FlattenSeq([n \in DOMAIN batch |->
                [m \in DOMAIN batch[n].intervals |-> Incoming(batch[n], batch[n].intervals[m])]])

\* The numbers of `places` in the order `before`, a set of pairs.
Listed(places, before) ==
  [k \in 1..Cardinality(places) |->
     CHOOSE n \in places : Cardinality({m \in places : <<m, n>> \in before}) = k - 1]

Arranged(rows, before) ==
  LET order == Listed(DOMAIN rows, before) IN [k \in DOMAIN rows |-> rows[order[k]]]

\* By start; rows of one start stay in the order they come in.
StorageOrder(rows) ==
  {p \in (DOMAIN rows) \X (DOMAIN rows) :
     \/ rows[p[1]].from < rows[p[2]].from
     \/ rows[p[1]].from = rows[p[2]].from /\ p[1] < p[2]}

SortedForStorage(rows) == Arranged(rows, StorageOrder(rows))

-----------------------------------------------------------------------------
(* Reading rows back: contiguous runs of rows that agree on every column    *)
(* that is not a value's own become one delivery.                           *)

IntervalColumns == {"from", "to", "value", "q", "day"}

\* Mutant: rows of two provenances run together.
RunKeyOfAny(row) == Restrict(row, DOMAIN row \ (IntervalColumns \cup {"prov"}))

RunKey(row) == Restrict(row, DOMAIN row \ IntervalColumns)

RunStarts(rows) == {n \in DOMAIN rows : n = 1 \/ RunKey(rows[n]) # RunKey(rows[n - 1])}

\* Whether the typed read takes a row; anything else refuses the whole result.
Decodable(table, row) ==
  /\ (row.to = Null) = table.points
  /\ DecodeSource(row.kind, row.detail) # {}
  /\ row.res = Null \/ DecodeCode(row.res) # {}
  /\ row.melo = Null \/ CanonicalCode(row.melo) # {}
  /\ row.sparte \in Sparten /\ CheckUnit(row.sparte, row.unit)
  /\ DecodeCode(row.obis) # {} /\ ParseScope(row.scope) # {} /\ row.version >= 0

IntervalOfRow(row) ==
  [from |-> row.from, to |-> row.to, value |-> FromScaled(row.value), q |-> row.q, obis |-> row.obis]

\* A Messlokation is parsed without asking for its canonical spelling.
DecodeMelo(text) == IF text = Null THEN Null ELSE Canonical[text]

DeliveryOf(run) ==
  LET first == run[1]
  IN [sparte |-> first.sparte, unit |-> first.unit, obis |-> first.obis, melo |-> DecodeMelo(first.melo),
      res |-> first.res, source |-> CHOOSE s \in DecodeSource(first.kind, first.detail) : TRUE,
      prov |-> first.prov, label |-> Label(first.scope, first.version), rec |-> first.rec,
      extra |-> first.extra, intervals |-> [n \in DOMAIN run |-> IntervalOfRow(run[n])]]

RunFrom(rows, start) ==
  LET later == {n \in RunStarts(rows) : n > start}
      last  == IF later = {} THEN Len(rows) ELSE (CHOOSE n \in later : \A m \in later : n <= m) - 1
  IN SubSeq(rows, start, last)

Decode(table, rows) ==
  IF \A n \in DOMAIN rows : Decodable(table, rows[n])
    THEN {LET starts == SetToSortSeq(RunStarts(rows), <)
          IN [k \in DOMAIN starts |-> DeliveryOf(RunFrom(rows, starts[k]))]}
    ELSE {}
=============================================================================
