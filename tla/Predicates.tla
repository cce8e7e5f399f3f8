----------------------------- MODULE Predicates -----------------------------
(***************************************************************************)
(* From a query's filters to the interval range it is planned for, and     *)
(* from that range to what the two tiers are asked.  Rows lie on the even  *)
(* instants; a literal may lie between two of them.  Filters are closed    *)
(* under their operands so that what they mean, and what is read off them, *)
(* are functions.                                                          *)
(***************************************************************************)
EXTENDS Integers, FiniteSets

CONSTANTS
  Filters,     \* the filter expressions of the instance, with their operands
  Depth,       \* Depth[f]: how deep f nests
  LastInstant, \* the last representable instant
  CoarseUnit   \* what a coarser type truncates an instant to

Instants == 0..LastInstant

\* Comparisons of `from` with a literal, on either side and under casts, BETWEEN, AND,
\* OR, and whatever else a filter may say, here a comparison of another column.
Comparisons == {"<", "<=", ">", ">=", "=", "!="}

Casts == {"none", "nano", "date"}

ASSUME PredicatesAssumption ==
  /\ LastInstant \in Nat /\ LastInstant % 2 = 0 /\ CoarseUnit \in Nat \ {0}
  /\ IsFiniteSet(Filters) /\ \A f \in Filters : Depth[f] \in Nat
  /\ \A f \in Filters :
       CASE f.kind = "compare"       -> /\ f.op \in Comparisons /\ f.value \in Instants
                                        /\ f.cast \in Casts /\ f.valueCast \in Casts
                                        /\ f.columnFirst \in BOOLEAN
         [] f.kind = "between"       -> /\ {f.low, f.high} \subseteq Instants
                                        /\ f.cast \in Casts /\ f.negated \in BOOLEAN
         [] f.kind \in {"and", "or"} -> \A g \in {f.left, f.right} : g \in Filters /\ Depth[g] < Depth[f]
         [] OTHER                    -> f.kind = "quality"

-----------------------------------------------------------------------------
(* What a filter means to the engine that evaluates it.                     *)

CastTo(cast, t) == IF cast = "date" THEN t - (t % CoarseUnit) ELSE t

Compare(op, x, y) ==
  CASE op = "<"  -> x < y  [] op = "<=" -> x <= y [] op = "="  -> x = y
    [] op = ">"  -> x > y  [] op = ">=" -> x >= y [] OTHER     -> x # y

\* What a filter tells rows apart by: the start, and whether the quality is the one asked for.
Readable == [from : Instants, good : BOOLEAN]

Satisfies[f \in Filters] ==
  CASE f.kind = "compare" ->
         LET literal == CastTo(f.valueCast, f.value)
         IN {r \in Readable : LET column == CastTo(f.cast, r.from)
                              IN IF f.columnFirst THEN Compare(f.op, column, literal)
                                                  ELSE Compare(f.op, literal, column)}
    [] f.kind = "between" ->
         {r \in Readable : f.negated # (f.low <= CastTo(f.cast, r.from) /\ CastTo(f.cast, r.from) <= f.high)}
    [] f.kind = "and" -> Satisfies[f.left] \cap Satisfies[f.right]
    [] f.kind = "or"  -> Satisfies[f.left] \cup Satisfies[f.right]
    [] OTHER          -> {r \in Readable : r.good}

-----------------------------------------------------------------------------
(* The range read off the filters.                                          *)

NoStart == -1
NoEnd   == LastInstant + 2

TimeRange(start, end) == [start |-> start, end |-> end]

WholeTime == TimeRange(NoStart, NoEnd)

IsEmpty(range) == range.start >= range.end

Earlier(a, b) == IF a <= b THEN a ELSE b
Later(a, b)   == IF a <= b THEN b ELSE a

Intersect(a, b) == TimeRange(Later(a.start, b.start), Earlier(a.end, b.end))

\* The next instant a row can lie on; none after the last.
NextStoredInstant(t) == {t - (t % 2) + 2} \cap Instants

NextOr(t, otherwise) == IF NextStoredInstant(t) = {} THEN otherwise ELSE CHOOSE n \in NextStoredInstant(t) : TRUE

\* A cast is seen through when it keeps every stored instant distinct.
LosslessTarget(cast) == cast \in {"none", "nano"}

Flip(op) ==
  CASE op = "<" -> ">" [] op = "<=" -> ">=" [] op = ">" -> "<" [] op = ">=" -> "<=" [] OTHER -> op

\* No bound where the next instant does not exist.
BoundFrom(op, t) ==
  CASE op = "<"  -> TimeRange(NoStart, t)
    [] op = "<=" -> TimeRange(NoStart, NextOr(t, NoEnd))
    [] op = ">"  -> TimeRange(NextOr(t, NoStart), NoEnd)
    [] op = ">=" -> TimeRange(t, NoEnd)
    [] op = "="  -> IF NextStoredInstant(t) = {} THEN WholeTime ELSE TimeRange(t, NextOr(t, NoEnd))
    [] OTHER     -> WholeTime

OfComparison(f) ==
  IF LosslessTarget(f.cast) /\ LosslessTarget(f.valueCast)
    THEN BoundFrom(IF f.columnFirst THEN f.op ELSE Flip(f.op), f.value) ELSE WholeTime

\* BETWEEN includes its end.
OfBetween(f) ==
  IF LosslessTarget(f.cast) /\ ~f.negated
    THEN TimeRange(f.low, NextOr(f.high, NoEnd)) ELSE WholeTime

\* Mutant: a disjunction narrows like a conjunction.
OfBoth(left, right) == Intersect(left, right)

OfOr(left, right) == WholeTime

RangeOf[f \in Filters] ==
  CASE f.kind = "compare" -> OfComparison(f)
    [] f.kind = "between" -> OfBetween(f)
    [] f.kind = "and"     -> Intersect(RangeOf[f.left], RangeOf[f.right])
    [] f.kind = "or"      -> OfOr(RangeOf[f.left], RangeOf[f.right])
    [] OTHER              -> WholeTime

-----------------------------------------------------------------------------
(* The split at a boundary, and what reaches a tier as a predicate.         *)

Neither == [cold |-> {}, hot |-> {}]

NonEmpty(range) == IF IsEmpty(range) THEN {} ELSE {range}

Split(range, boundary) ==
  IF IsEmpty(range) THEN Neither
  ELSE IF boundary = 0 THEN [cold |-> {}, hot |-> {range}]
  ELSE [cold |-> IF range.start >= boundary THEN {}
                 ELSE NonEmpty([range EXCEPT !.end = Earlier(@, boundary)]),
        hot  |-> IF range.end <= boundary THEN {}
                 ELSE NonEmpty([range EXCEPT !.start = Later(@, boundary)])]

\* A bound reaches the tier as a literal of the column's own type: both ends are cut to
\* the grid.
RangeFilter(range, t) ==
  /\ range.start = NoStart \/ t >= range.start - (range.start % 2)
  /\ range.end = NoEnd \/ t < range.end - (range.end % 2)

RowsAskedFor(half, t) == \E range \in half : RangeFilter(range, t)
=============================================================================
