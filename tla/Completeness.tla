---------------------------- MODULE Completeness ----------------------------
(***************************************************************************)
(* The completeness report: how many intervals each channel of a range     *)
(* should hold, holds, lacks and has too many of.                          *)
(*                                                                         *)
(* Time is a line of ticks.  A commodity (Sparte) cuts it into balancing   *)
(* days of differing lengths (a clock change makes one longer, another     *)
(* shorter), and the days of two commodities start at different ticks.  A  *)
(* grid is a declared resolution: so many ticks per interval, one interval *)
(* per day, or no count within a day at all.                               *)
(*                                                                         *)
(* A report scans the range, rolls the counts up per channel and grid, and *)
(* then, when it was given a reference window, scans that window for       *)
(* channels the range does not mention.  The two scans are two queries:    *)
(* deliveries land between them.  A row here is what version resolution    *)
(* leaves of a reading, so a channel holds at most one row per start.      *)
(***************************************************************************)
EXTENDS Integers, Sequences, FiniteSets, FiniteSetsExt

CONSTANTS
  Channels,     \* what names a reading beside its start: malo, obis, identity
  Sparten,
  Days,         \* consecutive integers
  DayStart,     \* DayStart[s][d]: the first tick of balancing day d
  DayEnd,       \* DayEnd[s][d]: the tick after its last
  Ticks,        \* Ticks[g]: how long an interval is, for a grid finer than a day
  Tables,       \* the rows a store may hold when the report is asked for
  LateRows,     \* the rows that may be delivered while it runs
  Calls,        \* the argument lists the report is called with
  Narrowings,   \* the channel a typed report is narrowed to, or None
  Names,        \* the two names of the table: its own and the resolved one
  None

VARIABLES
  stored,       \* the resolved rows of the table
  request,      \* the range, the reference window and the narrowing
  phase,        \* "idle", "range", "roster", "done" or "refused"
  report,       \* the rows of the report
  scanned       \* what the scan of the range saw (history)

vars == <<stored, request, phase, report, scanned>>

\* Days are consecutive, a day ends where the next one starts, and each is so many
\* whole intervals long.
ASSUME CalendarAssumption ==
  /\ Days \subseteq Int /\ \A d, e \in Days : d .. e \subseteq Days
  /\ \A s \in Sparten : \A d \in Days :
       /\ DayStart[s][d] \in Int /\ DayEnd[s][d] \in Int /\ DayStart[s][d] < DayEnd[s][d]
       /\ d + 1 \in Days => DayStart[s][d + 1] = DayEnd[s][d]
       /\ \A g \in DOMAIN Ticks : (DayEnd[s][d] - DayStart[s][d]) % Ticks[g] = 0
  /\ DOMAIN Ticks \subseteq {"PT15M", "PT1H"} /\ \A g \in DOMAIN Ticks : Ticks[g] \in Nat \ {0}
  /\ None \notin Int /\ None \notin Channels /\ None \notin {"P1D", "P1M", "PT15M", "PT1H"}

\* The declared resolutions in the order a BTreeSet of them keeps: none first.
Grids == <<None, "P1D", "P1M", "PT15M", "PT1H">>

Resolutions == {Grids[i] : i \in DOMAIN Grids}

First(gs) == Grids[Min({i \in DOMAIN Grids : Grids[i] \in gs})]

-----------------------------------------------------------------------------
(* The calendar. *)

BalancingDay(t, s) == CHOOSE d \in Days : DayStart[s][d] <= t /\ t < DayEnd[s][d]

\* Zero where the code has no number: no resolution, or one coarser than a day.
IntervalsInDay(d, g, s) ==
  CASE g = "P1D" -> 1
    [] g \in DOMAIN Ticks -> (DayEnd[s][d] - DayStart[s][d]) \div Ticks[g]
    [] OTHER -> 0

\* The days a range touches; its end is exclusive.
DaySpan(from, to, s) == BalancingDay(from, s) .. BalancingDay(to - 1, s)

\* Mutant: what the range covers of the day, divided by the step.
WholeStepsBefore(t, start, step) == (t - start) \div step

\* How many intervals of a day that starts at `start` begin before t.
GridPointsBefore(t, start, step) ==
  (t - start) \div step + IF (t - start) % step = 0 THEN 0 ELSE 1

\* What day d should hold of the range.
ExpectedInDay(d, g, s, from, to) ==
  LET full  == IntervalsInDay(d, g, s)
      start == DayStart[s][d]
      end   == DayEnd[s][d]
      lo    == Max({start, from})
      hi    == Min({end, to})
      step  == (end - start) \div full
      count == GridPointsBefore(hi, start, step) - GridPointsBefore(lo, start, step)
  IN  CASE full = 0 -> 0
        [] full > 0 /\ start >= from /\ end <= to -> full
        [] OTHER -> IF hi <= lo THEN 0 ELSE Max({0, Min({count, full})})

-----------------------------------------------------------------------------
(* The aggregate over the range, and its roll-up. *)

IsSubstitute(q) == q = "SUBSTITUTED"

\* An unreadable flag bars a row from billing.
IsBillable(q) == q \in {"MEASURED", "SUBSTITUTED"}

Narrowed(rows) == {r \in rows : request.only \in {None, r.channel}}

In(rows, from, to) == {r \in Narrowed(rows) : from <= r.from /\ r.from < to}

\* A row carries its balancing day: the encoder asked the calendar for it.
DailyRows(rows) ==
  {[channel |-> r.channel, sparte |-> r.sparte, grid |-> r.grid,
    day |-> BalancingDay(r.from, r.sparte), quality |-> r.quality,
    actual |-> Cardinality({o \in rows :
       /\ o.channel = r.channel /\ o.sparte = r.sparte /\ o.grid = r.grid
       /\ o.quality = r.quality
       /\ BalancingDay(o.from, o.sparte) = BalancingDay(r.from, r.sparte)})] : r \in rows}

Total(daily) == MapThenSumSet(LAMBDA r : r.actual, daily)

\* The grid an absent day is charged to: the one last in force before it.  A grid
\* stays in force while it delivers; the channel opens on its first one.
InForce(daily, span) ==
  LET On(d) == {r.grid : r \in {x \in daily : x.day = d}}
      force[d \in span] ==
        LET before == IF d - 1 \in span THEN force[d - 1]
                      ELSE First(On(Min({r.day : r \in daily})))
        IN  IF On(d) = {} \/ before \in On(d) THEN before ELSE First(On(d))
  IN  force

\* Mutant: a day nobody delivered on is charged to every grid.
EveryGridJudges(g, d, daily, force) ==
  LET on == {r \in daily : r.day = d} IN (\E r \in on : r.grid = g) \/ on = {}

\* A grid judges the days it delivered on, and those nobody did while it was in
\* force.
Judges(g, d, daily, force) ==
  LET on == {r \in daily : r.day = d}
  IN  (\E r \in on : r.grid = g) \/ (on = {} /\ force[d] = g)

\* Mutant: the difference of the totals.
NetShortfall(days, expected, actual) ==
  Max({0, MapThenSumSet(LAMBDA d : expected[d] - actual[d], days)})

\* Both sums are taken day by day.
Shortfall(days, expected, actual) ==
  MapThenSumSet(LAMBDA d : Max({0, expected[d] - actual[d]}), days)

\* One row of the report: a channel of one commodity on one grid.
Rolled(c, s, g, daily, from, to) ==
  LET own      == {r \in daily : r.channel = c /\ r.sparte = s}
      mine     == {r \in own : r.grid = g}
      span     == DaySpan(from, to, s)
      force    == InForce(own, span)
      expected == [d \in span |-> ExpectedInDay(d, g, s, from, to)]
      actual   == [d \in span |-> Total({r \in mine : r.day = d})]
      judged   == {d \in span : Judges(g, d, own, force) /\ expected[d] > 0}
      short    == {d \in judged : expected[d] > actual[d]}
  IN  [channel |-> c, sparte |-> s, grid |-> g,
       expected |-> MapThenSumSet(LAMBDA d : expected[d], judged),
       actual |-> Total(mine),
       missing |-> Shortfall(judged, expected, actual),
       surplus |-> Shortfall(judged, actual, expected),
       firstGap |-> IF short = {} THEN None ELSE Min(short),
       substituted |-> Total({r \in mine : IsSubstitute(r.quality)}),
       notBillable |-> Total({r \in mine : ~IsBillable(r.quality)})]

RollUp(daily, from, to) ==
  {Rolled(k[1], k[2], k[3], daily, from, to) :
     k \in {<<r.channel, r.sparte, r.grid>> : r \in daily}}

ReportRow ==
  [channel : Channels, sparte : Sparten, grid : Resolutions, expected : Nat, actual : Nat,
   missing : Nat, surplus : Nat, firstGap : Days \union {None}, substituted : Nat,
   notBillable : Nat]

IsComplete(r)   == r.missing = 0 /\ r.surplus = 0
IsMeasurable(r) == r.grid # None /\ r.expected > 0

-----------------------------------------------------------------------------
(* The reference window. *)

Roster(rows) == {[channel |-> r.channel, sparte |-> r.sparte, grid |-> r.grid] : r \in rows}

\* What a channel of the window that delivered nothing is reported as.
Silent(k, from, to) ==
  LET span     == DaySpan(from, to, k.sparte)
      expects  == [d \in span |-> ExpectedInDay(d, k.grid, k.sparte, from, to)]
      expected == MapThenSumSet(LAMBDA d : expects[d], span)
      days     == {d \in span : expects[d] > 0}
  IN  [channel |-> k.channel, sparte |-> k.sparte, grid |-> k.grid,
       expected |-> expected, actual |-> 0, missing |-> expected, surplus |-> 0,
       firstGap |-> IF days = {} THEN None ELSE Min(days),
       substituted |-> 0, notBillable |-> 0]

\* Mutant: matched on the reported key, the grid with it.
UnmentionedOnItsGrid(roster, rows) ==
  {k \in roster : ~\E r \in rows : r.channel = k.channel /\ r.grid = k.grid}

\* The rostered channels the report has no row of, whatever grid it is on.
Unmentioned(roster, rows) == {k \in roster : ~\E r \in rows : r.channel = k.channel}

\* One of them per channel: the first the aggregate happens to yield.
OnePerChannel(ks) ==
  {S \in SUBSET ks : \A k \in ks : Cardinality({x \in S : x.channel = k.channel}) = 1}

-----------------------------------------------------------------------------
(* The calls. *)

Request == [from : Int, to : Int, since : Int \union {None}, only : Channels \union {None}]

NoRequest == [from |-> 0, to |-> 0, since |-> None, only |-> None]

IsInstant(a) == a.kind = "instant"

\* (from, to), (since, from, to), (table, from, to) or (table, since, from, to):
\* the second is told from the third by what its first argument reads as.
Parsed(args) ==
  LET n     == Len(args)
      named == n = 4 \/ (n = 3 /\ ~IsInstant(args[1]))
      windowed == n = 4 \/ (n = 3 /\ IsInstant(args[1]))
  IN  [name     |-> IF named THEN {args[1]} ELSE {},
       since    |-> IF windowed THEN {args[n - 2]} ELSE {},
       range    |-> {args[n - 1], args[n]},
       from     |-> args[n - 1],
       to       |-> args[n]]

\* The function's own refusals, then those of every report.
Accepts(p) ==
  /\ \A a \in p.name : a.kind = "text" /\ a.text \in Names
  /\ \A a \in p.since \union p.range : IsInstant(a)
  /\ p.from.at < p.to.at
  /\ \A a \in p.since : a.at < p.from.at

\* An instant of a day the calendar knows.
Dated(t, s) == t \in Int /\ \E d \in Days : DayStart[s][d] <= t /\ t < DayEnd[s][d]

\* A key names one row, and a row is of a declared channel at a dated start.
Resolved(rows) ==
  /\ IsFiniteSet(rows)
  /\ \A x, y \in rows : x.channel = y.channel /\ x.from = y.from => x = y
  /\ \A r \in rows : /\ r.channel \in Channels /\ r.sparte \in Sparten /\ r.grid \in Resolutions
                     /\ Dated(r.from, r.sparte)

Dates(from, to) ==
  from \in Int /\ to \in Int /\ from < to /\ \A s \in Sparten : Dated(from, s) /\ Dated(to - 1, s)

ASSUME CallsAssumption ==
  /\ \A table \in Tables : Resolved(table)
  /\ \A r \in LateRows : Resolved({r})
  /\ Sparten # {} /\ Narrowings \subseteq Channels \union {None}
  /\ \A args \in Calls :
       LET p == Parsed(args)
       IN  Accepts(p) => Dates(p.from.at, p.to.at) /\ \A a \in p.since : a.at \in Int

Init ==
  /\ stored \in Tables
  /\ request = NoRequest
  /\ phase = "idle"
  /\ report = {}
  /\ scanned = {}

Refuse(args) ==
  /\ phase = "idle"
  /\ ~Accepts(Parsed(args))
  /\ phase' = "refused"
  /\ UNCHANGED <<stored, request, report, scanned>>

\* The typed builder narrows both scans; the SQL function does not narrow.
Call(args, only) ==
  LET p == Parsed(args)
  IN  /\ phase = "idle"
      /\ Accepts(p)
      /\ request' = [from |-> p.from.at, to |-> p.to.at, only |-> only,
                     since |-> IF p.since = {} THEN None ELSE (CHOOSE a \in p.since : TRUE).at]
      /\ phase' = "range"
      /\ UNCHANGED <<stored, report, scanned>>

ScanRange ==
  /\ phase = "range"
  /\ scanned' = In(stored, request.from, request.to)
  /\ report' = RollUp(DailyRows(scanned'), request.from, request.to)
  /\ phase' = IF request.since = None THEN "done" ELSE "roster"
  /\ UNCHANGED <<stored, request>>

ScanRoster ==
  /\ phase = "roster"
  /\ \E ks \in OnePerChannel(Unmentioned(Roster(In(stored, request.since, request.from)), report)) :
       report' = report \union {Silent(k, request.from, request.to) : k \in ks}
  /\ phase' = "done"
  /\ UNCHANGED <<stored, request, scanned>>

\* A delivery lands while the report runs; a correction takes its key's place.
Deliver(r) ==
  /\ phase \in {"range", "roster"}
  /\ r \notin stored
  /\ stored' = {o \in stored : o.channel # r.channel \/ o.from # r.from} \union {r}
  /\ UNCHANGED <<request, phase, report, scanned>>

Next ==
  \/ \E args \in Calls : Refuse(args) \/ \E only \in Narrowings : Call(args, only)
  \/ ScanRange
  \/ ScanRoster
  \/ \E r \in LateRows : Deliver(r)

Spec == Init /\ [][Next]_vars

-----------------------------------------------------------------------------
(* Properties. *)

\* Whether an interval of a grid starts at t, stated without days being clipped.
OnGrid(t, g, s) ==
  LET start == DayStart[s][BalancingDay(t, s)]
  IN  \/ g = "P1D" /\ t = start
      \/ g \in DOMAIN Ticks /\ (t - start) % Ticks[g] = 0

RangePoints(g, s) == {t \in request.from .. (request.to - 1) : OnGrid(t, g, s)}

Held(c, s) == {r \in scanned : r.channel = c /\ r.sparte = s}

\* Type correctness; the report never names a channel and grid twice.
TypeOK ==
  /\ phase \in {"idle", "range", "roster", "done", "refused"}
  /\ request \in Request
  /\ request.since = None \/ request.since < request.from
  /\ report \subseteq ReportRow
  /\ \A r \in scanned : r.channel \in Channels /\ request.from <= r.from /\ r.from < request.to
  /\ \A x, y \in report :
       x.channel = y.channel /\ x.sparte = y.sparte /\ x.grid = y.grid => x = y

\* A channel on one grid lacks exactly the interval starts of the range it has no
\* row at, whatever the range cuts off of its first and last day and however
\* long the days are; nothing is in surplus, and the first gap is on the day of
\* the earliest missing one.
MissingIsWhatIsAbsent ==
  \A x \in report :
    LET held   == {r.from : r \in Held(x.channel, x.sparte)}
        absent == RangePoints(x.grid, x.sparte) \ held
    IN  /\ \A r \in Held(x.channel, x.sparte) : r.grid = x.grid
        /\ \A t \in held : OnGrid(t, x.grid, x.sparte)
        => /\ x.missing = Cardinality(absent)
           /\ x.surplus = 0
           /\ x.firstGap = IF absent = {} THEN None
                           ELSE BalancingDay(Min(absent), x.sparte)

\* A channel every row of which is measurable and complete delivered, on every
\* day of the range, exactly what one of its grids expects of it if it expects
\* anything: no absent day falls between two grids, and a surplus never pays for
\* a gap.
CompleteMeansDelivered ==
  \A x \in report :
    LET own   == {y \in report : y.channel = x.channel /\ y.sparte = x.sparte}
        on(d, g) == Cardinality({r \in Held(x.channel, x.sparte) :
                       r.grid = g /\ BalancingDay(r.from, x.sparte) = d})
        due(d, g) == Cardinality({t \in RangePoints(g, x.sparte) : BalancingDay(t, x.sparte) = d})
    IN  (\A y \in own : IsMeasurable(y) /\ IsComplete(y))
        => \A d \in DaySpan(request.from, request.to, x.sparte) :
             \E y \in own : due(d, y.grid) \in {0, on(d, y.grid)}

\* A day nobody delivered on is charged to one grid only: a channel that changed
\* its grid between two days owes what the grid of each day would have owed.
AbsentDayChargedOnce ==
  \A x \in report :
    LET own     == {y \in report : y.channel = x.channel /\ y.sparte = x.sparte}
        held    == Held(x.channel, x.sparte)
        gridsOn(d) == {r.grid : r \in {h \in held : BalancingDay(h.from, x.sparte) = d}}
        span    == DaySpan(request.from, request.to, x.sparte)
        days    == {d \in span : gridsOn(d) # {}}
        \* the day whose grid stands for day d: the last one delivered on, or the first
        model(d) == IF \E e \in days : e <= d THEN Max({e \in days : e <= d}) ELSE Min(days)
        grid(d) == CHOOSE g \in gridsOn(model(d)) : TRUE
        due(d)  == Cardinality({t \in RangePoints(grid(d), x.sparte) : BalancingDay(t, x.sparte) = d})
    IN  x.actual > 0 /\ (\A d \in days : Cardinality(gridsOn(d)) = 1)
        => MapThenSumSet(LAMBDA y : y.expected, own) = MapThenSumSet(due, span)

\* A channel is reported silent when it reported in the reference window and had
\* no row in the range when the range was read, and then exactly once.
SilentExactlyOnce ==
  phase = "done" /\ request.since # None =>
    \A c \in Channels :
      LET silent == {x \in report : x.channel = c /\ x.actual = 0}
      IN  /\ Cardinality(silent) <= 1
          /\ silent # {} => \A r \in scanned : r.channel # c
          /\ (/\ \A r \in scanned : r.channel # c
              /\ \E r \in Narrowed(stored) : /\ r.channel = c /\ r \notin LateRows
                                             /\ request.since <= r.from
                                             /\ r.from < request.from)
             => silent # {}

-----------------------------------------------------------------------------
(* Why the properties hold: the inductive invariant.                         *)

\* The rows of the report that no row of the range stands behind.
Silenced == {[channel |-> x.channel, sparte |-> x.sparte, grid |-> x.grid] :
               x \in {y \in report : y.actual = 0}}

\* The report is what the rows that were scanned roll up to, and one row for every
\* channel of the reference window that is not among them.
ReportCoherent ==
  /\ Resolved(stored) /\ Resolved(scanned)
  /\ phase \in {"idle", "range", "roster", "done", "refused"}
  /\ phase \in {"range", "roster", "done"} =>
       /\ request \in Request /\ Dates(request.from, request.to)
       /\ request.since = None \/ request.since < request.from
  /\ phase \notin {"roster", "done"} => report = {} /\ scanned = {}
  /\ phase \in {"roster", "done"} =>
       /\ scanned = In(scanned, request.from, request.to)
       /\ report = RollUp(DailyRows(scanned), request.from, request.to)
                     \union {Silent(k, request.from, request.to) : k \in Silenced}
       /\ Silenced \subseteq [channel : Channels, sparte : Sparten, grid : Resolutions]
       /\ \A k, l \in Silenced : k.channel = l.channel => k = l
       /\ \A k \in Silenced : \A r \in scanned : r.channel # k.channel
  /\ phase = "roster" => Silenced = {}
  /\ phase = "done" /\ request.since # None =>
       \A r \in In(stored, request.since, request.from) :
         (\E x \in scanned : x.channel = r.channel) \/ \E k \in Silenced : k.channel = r.channel
=============================================================================
