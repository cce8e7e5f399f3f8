---------------------------- MODULE QueriesProofs ----------------------------
(***************************************************************************)
(* What a query answers, over the store the writes make.  The inductive    *)
(* invariant is that of the writes with one of the queries: each file of   *)
(* the plan and each half of a scan holds what its filters ask for.  An    *)
(* answer is then whole.  Who was stored under which name is an invariant  *)
(* of its own, KeyInv: where it holds a reading is stored once, and an     *)
(* answer is true.                                                         *)
(***************************************************************************)
EXTENDS WritesProofs

LOCAL INSTANCE SequencesExt

-----------------------------------------------------------------------------
(* Predicates: a range that is read off a filter holds what satisfies it.  *)

\* What RangeOf and Satisfies say of an expression, given what they say of its operands.
RangeIn(R, f) ==
  CASE f.kind = "compare" -> OfComparison(f)
    [] f.kind = "between" -> OfBetween(f)
    [] f.kind = "and"     -> Intersect(R[f.left], R[f.right])
    [] f.kind = "or"      -> OfOr(R[f.left], R[f.right])
    [] OTHER              -> WholeTime

RowsIn(S, f) ==
  CASE f.kind = "compare" ->
         LET literal == CastTo(f.valueCast, f.value)
         IN {r \in Readable : LET column == CastTo(f.cast, r.from)
                              IN IF f.columnFirst THEN Compare(f.op, column, literal)
                                                  ELSE Compare(f.op, literal, column)}
    [] f.kind = "between" ->
         {r \in Readable : f.negated # (f.low <= CastTo(f.cast, r.from) /\ CastTo(f.cast, r.from) <= f.high)}
    [] f.kind = "and" -> S[f.left] \cap S[f.right]
    [] f.kind = "or"  -> S[f.left] \cup S[f.right]
    [] OTHER          -> {r \in Readable : r.good}

\* An expression is one of five kinds, its operands less deep than itself.
LEMMA FilterKinds ==
  ASSUME NEW f \in Filters
  PROVE  /\ Depth[f] \in Nat
         /\ f.kind \in {"and", "or"} => /\ f.left \in Filters /\ Depth[f.left] < Depth[f]
                                        /\ f.right \in Filters /\ Depth[f.right] < Depth[f]
         /\ f.kind = "compare" => /\ f.op \in Comparisons /\ f.value \in Instants
                                  /\ f.cast \in Casts /\ f.valueCast \in Casts
                                  /\ f.columnFirst \in BOOLEAN
         /\ f.kind = "between" => {f.low, f.high} \subseteq Instants /\ f.cast \in Casts /\ f.negated \in BOOLEAN
         /\ f.kind \in {"and", "or", "compare", "between", "quality"}
BY PredicatesAssumption

\* An expression is read off what is read off its operands.
LEMMA RangeSame ==
  ASSUME NEW f \in Filters, NEW R, NEW T, f.kind \in {"and", "or"} => R[f.left] = T[f.left] /\ R[f.right] = T[f.right]
  PROVE  RangeIn(R, f) = RangeIn(T, f)
<1>1. CASE f.kind = "compare"
  BY <1>1 DEF RangeIn
<1>2. CASE f.kind = "between"
  BY <1>2 DEF RangeIn
<1>3. CASE f.kind = "and"
  BY <1>3 DEF RangeIn
<1>4. CASE f.kind = "or"
  BY <1>4 DEF RangeIn
<1>5. CASE f.kind = "quality"
  BY <1>5 DEF RangeIn
<1> QED BY <1>1, <1>2, <1>3, <1>4, <1>5, FilterKinds

LEMMA RowsSame ==
  ASSUME NEW f \in Filters, NEW R, NEW T, f.kind \in {"and", "or"} => R[f.left] = T[f.left] /\ R[f.right] = T[f.right]
  PROVE  RowsIn(R, f) = RowsIn(T, f)
<1>1. CASE f.kind = "compare"
  BY <1>1 DEF RowsIn
<1>2. CASE f.kind = "between"
  BY <1>2 DEF RowsIn
<1>3. CASE f.kind = "and"
  BY <1>3 DEF RowsIn
<1>4. CASE f.kind = "or"
  BY <1>4 DEF RowsIn
<1>5. CASE f.kind = "quality"
  BY <1>5 DEF RowsIn
<1> QED BY <1>1, <1>2, <1>3, <1>4, <1>5, FilterKinds

\* The expressions of a finite set nest boundedly deep.
LEMMA DepthBound == \E n \in Nat : \A f \in Filters : Depth[f] < n
<1>1. CASE Filters = {}
  BY <1>1
<1>2. CASE Filters # {}
  <2> DEFINE P == {p \in Filters \X Filters : Depth[p[1]] > Depth[p[2]]}
  <2>1. \A x, y \in Filters : <<x, y>> \in P <=> Depth[x] > Depth[y]
    OBVIOUS
  <2>2. \A x \in Filters : Depth[x] \in Nat
    BY FilterKinds
  <2> HIDE DEF P
  <2>3. (\A x \in Filters : <<x, x>> \notin P)
        /\ \A x, y, z \in Filters : <<x, y>> \in P /\ <<y, z>> \in P => <<x, z>> \in P
    BY <2>1, <2>2
  <2>4. PICK x \in Filters : \A y \in Filters : <<y, x>> \notin P
    BY <2>3, <1>2, FiniteExtreme, PredicatesAssumption
  <2>5. Depth[x] + 1 \in Nat
    BY <2>2
  <2>6. ASSUME NEW y \in Filters PROVE Depth[y] < Depth[x] + 1
    <3>1. ~(Depth[y] > Depth[x])
      BY <2>1, <2>4
    <3> QED BY <3>1, <2>2
  <2> QED BY <2>5, <2>6
<1> QED BY <1>1, <1>2

\* RangeOf is the recursion it is defined by.
LEMMA RangeOfIs == RangeOf = [f \in Filters |-> RangeIn(RangeOf, f)]
<1> DEFINE Solved(R, n) == R = [f \in Filters |-> R[f]] /\ \A f \in Filters : Depth[f] < n => R[f] = RangeIn(R, f)
           Bad == {n \in Nat : ~\E R : Solved(R, n)}
<1>1. Bad = {}
  <2> SUFFICES ASSUME Bad # {} PROVE FALSE
    OBVIOUS
  <2>1. PICK n \in Bad : \A m \in Bad : n <= m
    BY LeastNatural
  <2>2. n # 0
    <3>1. Solved([f \in Filters |-> 0], 0)
      BY FilterKinds
    <3> HIDE DEF Solved
    <3> QED BY <2>1, <3>1
  <2>3. n - 1 \in Nat /\ n - 1 \notin Bad
    BY <2>1, <2>2
  <2>4. PICK R : Solved(R, n - 1)
    BY <2>3
  <2> DEFINE T == [f \in Filters |-> RangeIn(R, f)]
  <2>5. ASSUME NEW f \in Filters, Depth[f] < n PROVE T[f] = RangeIn(T, f)
    <3>1. ASSUME NEW g \in Filters, Depth[g] < Depth[f] PROVE R[g] = T[g]
      BY <2>4, <2>5, <3>1, FilterKinds
    <3> HIDE DEF T
    <3>2. RangeIn(R, f) = RangeIn(T, f)
      BY <3>1, FilterKinds, RangeSame
    <3> QED BY <3>2 DEF T
  <2>6. Solved(T, n)
    BY <2>5
  <2> HIDE DEF Solved
  <2> QED BY <2>1, <2>6
<1>2. PICK n \in Nat : \A f \in Filters : Depth[f] < n
  BY DepthBound
<1>3. PICK R : Solved(R, n)
  BY <1>1, <1>2
<1>4. R = [f \in Filters |-> RangeIn(R, f)]
  BY <1>2, <1>3
<1> QED BY <1>4 DEF RangeOf, RangeIn

\* So is Satisfies.
LEMMA SatisfiesIs == Satisfies = [f \in Filters |-> RowsIn(Satisfies, f)]
<1> DEFINE Solved(R, n) == R = [f \in Filters |-> R[f]] /\ \A f \in Filters : Depth[f] < n => R[f] = RowsIn(R, f)
           Bad == {n \in Nat : ~\E R : Solved(R, n)}
<1>1. Bad = {}
  <2> SUFFICES ASSUME Bad # {} PROVE FALSE
    OBVIOUS
  <2>1. PICK n \in Bad : \A m \in Bad : n <= m
    BY LeastNatural
  <2>2. n # 0
    <3>1. Solved([f \in Filters |-> 0], 0)
      BY FilterKinds
    <3> HIDE DEF Solved
    <3> QED BY <2>1, <3>1
  <2>3. n - 1 \in Nat /\ n - 1 \notin Bad
    BY <2>1, <2>2
  <2>4. PICK R : Solved(R, n - 1)
    BY <2>3
  <2> DEFINE T == [f \in Filters |-> RowsIn(R, f)]
  <2>5. ASSUME NEW f \in Filters, Depth[f] < n PROVE T[f] = RowsIn(T, f)
    <3>1. ASSUME NEW g \in Filters, Depth[g] < Depth[f] PROVE R[g] = T[g]
      BY <2>4, <2>5, <3>1, FilterKinds
    <3> HIDE DEF T
    <3>2. RowsIn(R, f) = RowsIn(T, f)
      BY <3>1, FilterKinds, RowsSame
    <3> QED BY <3>2 DEF T
  <2>6. Solved(T, n)
    BY <2>5
  <2> HIDE DEF Solved
  <2> QED BY <2>1, <2>6
<1>2. PICK n \in Nat : \A f \in Filters : Depth[f] < n
  BY DepthBound
<1>3. PICK R : Solved(R, n)
  BY <1>1, <1>2
<1>4. R = [f \in Filters |-> RowsIn(R, f)]
  BY <1>2, <1>3
<1> QED BY <1>4 DEF Satisfies, RowsIn

\* A range read off a filter.
IsRange(range) == range.start \in Int /\ range.end \in Int /\ NoStart <= range.start /\ range.end <= NoEnd

Within(range, t) == range.start <= t /\ t < range.end

\* The instant of the grid that follows one.
LEMMA NextIs ==
  ASSUME NEW t \in Instants, NEW otherwise
  PROVE  \/ t - (t % 2) + 2 > LastInstant /\ NextOr(t, otherwise) = otherwise
         \/ NextOr(t, otherwise) = t - (t % 2) + 2 /\ NextOr(t, otherwise) \in Instants
<1>1. t \in Nat /\ t <= LastInstant /\ LastInstant \in Nat /\ t - (t % 2) + 2 \in Nat
  BY PredicatesAssumption DEF Instants
<1>2. t - (t % 2) + 2 \in Instants <=> t - (t % 2) + 2 <= LastInstant
  BY <1>1 DEF Instants
<1> DEFINE n == t - (t % 2) + 2
<1>3. CASE n \in Instants
  <2>1. NextStoredInstant(t) = {n}
    BY <1>3 DEF NextStoredInstant
  <2> QED BY <2>1, <1>3 DEF NextOr
<1>4. CASE n \notin Instants
  <2>1. NextStoredInstant(t) = {}
    BY <1>4 DEF NextStoredInstant
  <2> QED BY <2>1, <1>1, <1>2, <1>4 DEF NextOr
<1> QED BY <1>3, <1>4

\* The range of a comparison holds the instants of the grid that satisfy it.
LEMMA BoundSound ==
  ASSUME NEW op \in Comparisons, NEW v \in Instants, NEW t \in Instants, t % 2 = 0
  PROVE  /\ IsRange(BoundFrom(op, v))
         /\ Compare(op, t, v) => Within(BoundFrom(op, v), t)
<1>1. /\ t \in Nat /\ t <= LastInstant /\ v \in Nat /\ v <= LastInstant
      /\ LastInstant \in Nat /\ LastInstant % 2 = 0
  BY PredicatesAssumption DEF Instants
<1>2. \/ v - (v % 2) + 2 > LastInstant
      \/ v - (v % 2) + 2 \in Nat /\ v - (v % 2) + 2 <= LastInstant
  BY <1>1
<1>3. \/ /\ NextOr(v, NoEnd) = NoEnd /\ NextOr(v, NoStart) = NoStart
         /\ v - (v % 2) + 2 > LastInstant
      \/ /\ NextOr(v, NoEnd) = v - (v % 2) + 2 /\ NextOr(v, NoStart) = v - (v % 2) + 2
         /\ v - (v % 2) + 2 <= LastInstant
  <2>1. \A n : n \in Instants => n <= LastInstant
    BY DEF Instants
  <2> QED BY <1>1, <1>2, <2>1, NextIs
<1> DEFINE e == NextOr(v, NoEnd)
           s == NextOr(v, NoStart)
<1>4. NoStart = -1 /\ NoEnd = LastInstant + 2
  BY DEF NoStart, NoEnd
<1>5. e \in Int /\ s \in Int /\ -1 <= s /\ s <= LastInstant /\ e <= NoEnd /\ v < e /\ (t <= v => t < e) /\ (t > v => s <= t)
  BY <1>1, <1>3, <1>4
<1> HIDE DEF e, s
<1>6. CASE op = "<"
  BY <1>1, <1>4, <1>6 DEF BoundFrom, Compare, IsRange, Within, TimeRange
<1>7. CASE op = "<="
  BY <1>1, <1>4, <1>5, <1>7 DEF BoundFrom, Compare, IsRange, Within, TimeRange, e
<1>8. CASE op = ">"
  BY <1>1, <1>4, <1>5, <1>8 DEF BoundFrom, Compare, IsRange, Within, TimeRange, s
<1>9. CASE op = ">="
  BY <1>1, <1>4, <1>9 DEF BoundFrom, Compare, IsRange, Within, TimeRange
<1>10. CASE op = "="
  BY <1>1, <1>4, <1>5, <1>10 DEF BoundFrom, Compare, IsRange, Within, TimeRange, WholeTime, e
<1>11. CASE op = "!="
  BY <1>1, <1>4, <1>11 DEF BoundFrom, Compare, IsRange, Within, TimeRange, WholeTime
<1> QED BY <1>6, <1>7, <1>8, <1>9, <1>10, <1>11 DEF Comparisons

\* Every instant is in the whole of time.
LEMMA WholeIs ==
  ASSUME NEW t \in Instants
  PROVE  IsRange(WholeTime) /\ Within(WholeTime, t)
BY PredicatesAssumption DEF IsRange, Within, WholeTime, TimeRange, NoStart, NoEnd, Instants

\* What two ranges hold their intersection holds.
LEMMA BothSound ==
  ASSUME NEW a, NEW b, IsRange(a), IsRange(b)
  PROVE  /\ IsRange(Intersect(a, b))
         /\ \A t \in Int : Within(Intersect(a, b), t) <=> Within(a, t) /\ Within(b, t)
BY PredicatesAssumption DEF IsRange, Within, Intersect, TimeRange, Earlier, Later, NoStart, NoEnd

\* A comparison read from either side.
LEMMA FlipSound ==
  ASSUME NEW op \in Comparisons, NEW x \in Int, NEW y \in Int
  PROVE  Flip(op) \in Comparisons /\ (Compare(op, x, y) <=> Compare(Flip(op), y, x))
BY DEF Comparisons, Flip, Compare

\* What is read off a filter holds every row that satisfies it: pruning by it loses nothing,
\* and nothing satisfies it outside.
LEMMA FilterSound ==
  ASSUME NEW f \in Filters, NEW r \in Readable, r.from % 2 = 0
  PROVE  IsRange(RangeOf[f]) /\ (r \in Satisfies[f] => Within(RangeOf[f], r.from))
<1> DEFINE Sound(g) == IsRange(RangeOf[g]) /\ (r \in Satisfies[g] => Within(RangeOf[g], r.from))
           Bad == {Depth[g] : g \in {h \in Filters : ~Sound(h)}}
<1>0. r.from \in Instants /\ r.from \in Nat
  BY DEF Readable, Instants
<1>1. Bad = {}
  <2> SUFFICES ASSUME Bad # {} PROVE FALSE
    OBVIOUS
  <2>1. Bad \subseteq Nat
    BY FilterKinds
  <2>2. PICK n \in Bad : \A m \in Bad : n <= m
    BY <2>1, LeastNatural
  <2>3. PICK g \in Filters : Depth[g] = n /\ ~Sound(g)
    BY <2>2
  <2>4. ASSUME NEW h \in Filters, Depth[h] < Depth[g] PROVE Sound(h)
    <3>1. Depth[h] \in Nat /\ Depth[g] \in Nat
      BY FilterKinds
    <3>2. ~Sound(h) => n <= Depth[h]
      BY <2>2
    <3> HIDE DEF Sound
    <3> QED BY <2>3, <2>4, <3>1, <3>2
  <2>5. RangeOf[g] = RangeIn(RangeOf, g) /\ Satisfies[g] = RowsIn(Satisfies, g)
    BY RangeOfIs, SatisfiesIs
  <2>6. CASE g.kind = "compare"
    <3>1. /\ g.op \in Comparisons /\ g.value \in Instants /\ g.cast \in Casts /\ g.valueCast \in Casts
          /\ g.columnFirst \in BOOLEAN
      BY <2>6, FilterKinds
    <3>2. RangeOf[g] = OfComparison(g)
      BY <2>5, <2>6 DEF RangeIn
    <3>3. CASE LosslessTarget(g.cast) /\ LosslessTarget(g.valueCast)
      <4> DEFINE op == IF g.columnFirst THEN g.op ELSE Flip(g.op)
      <4>1. RangeOf[g] = BoundFrom(op, g.value)
        BY <3>2, <3>3 DEF OfComparison
      <4>2. g.value \in Int
        BY <3>1 DEF Instants
      <4>3. op \in Comparisons
        BY <3>1, <4>2, FlipSound
      <4>4. CastTo(g.cast, r.from) = r.from /\ CastTo(g.valueCast, g.value) = g.value
        BY <3>3 DEF LosslessTarget, CastTo
      <4>5. r \in Satisfies[g] =>
              IF g.columnFirst THEN Compare(g.op, r.from, g.value) ELSE Compare(g.op, g.value, r.from)
        BY <2>5, <2>6, <4>4 DEF RowsIn
      <4>6. r \in Satisfies[g] => Compare(op, r.from, g.value)
        BY <1>0, <3>1, <4>2, <4>5, FlipSound
      <4> HIDE DEF op
      <4> QED BY <1>0, <2>3, <3>1, <4>1, <4>3, <4>6, BoundSound
    <3>4. CASE ~(LosslessTarget(g.cast) /\ LosslessTarget(g.valueCast))
      BY <1>0, <2>3, <3>2, <3>4, WholeIs DEF OfComparison
    <3> QED BY <3>3, <3>4
  <2>7. CASE g.kind = "between"
    <3>1. g.low \in Instants /\ g.high \in Instants /\ g.cast \in Casts /\ g.negated \in BOOLEAN
      BY <2>7, FilterKinds
    <3>2. RangeOf[g] = OfBetween(g)
      BY <2>5, <2>7 DEF RangeIn
    <3>3. CASE LosslessTarget(g.cast) /\ ~g.negated
      <4>0. CastTo(g.cast, r.from) = r.from
        BY <3>3 DEF LosslessTarget, CastTo
      <4>1. r \in Satisfies[g] => g.low <= r.from /\ r.from <= g.high
        <5>1. RowsIn(Satisfies, g)
               = {s \in Readable : g.negated # (g.low <= CastTo(g.cast, s.from) /\ CastTo(g.cast, s.from) <= g.high)}
          BY <2>7 DEF RowsIn
        <5> DEFINE inside == g.low <= CastTo(g.cast, r.from) /\ CastTo(g.cast, r.from) <= g.high
        <5>2. r \in Satisfies[g] => g.negated # inside
          BY <2>5, <5>1
        <5>3. g.negated = FALSE
          BY <3>1, <3>3
        <5>4. inside \in BOOLEAN
          OBVIOUS
        <5>5. r \in Satisfies[g] => inside
          <6> HIDE DEF inside
          <6> QED BY <5>2, <5>3, <5>4
        <5> QED BY <4>0, <5>5
      <4>2. /\ IsRange(BoundFrom(">=", g.low)) /\ IsRange(BoundFrom("<=", g.high))
            /\ r \in Satisfies[g] => Within(BoundFrom(">=", g.low), r.from) /\ Within(BoundFrom("<=", g.high), r.from)
        BY <1>0, <3>1, <4>1, BoundSound DEF Comparisons, Compare
      <4>3. RangeOf[g] = TimeRange(g.low, NextOr(g.high, NoEnd))
        BY <3>2, <3>3 DEF OfBetween
      <4> QED BY <2>3, <4>2, <4>3 DEF BoundFrom, TimeRange, IsRange, Within
    <3>4. CASE ~(LosslessTarget(g.cast) /\ ~g.negated)
      BY <1>0, <2>3, <3>2, <3>4, WholeIs DEF OfBetween
    <3> QED BY <3>3, <3>4
  <2>8. CASE g.kind = "and"
    <3>1. Sound(g.left) /\ Sound(g.right)
      <4> HIDE DEF Sound
      <4> QED BY <2>4, <2>8, FilterKinds
    <3>2. RangeOf[g] = Intersect(RangeOf[g.left], RangeOf[g.right])
      BY <2>5, <2>8 DEF RangeIn
    <3>3. Satisfies[g] = Satisfies[g.left] \cap Satisfies[g.right]
      BY <2>5, <2>8 DEF RowsIn
    <3> QED BY <1>0, <2>3, <3>1, <3>2, <3>3, BothSound
  <2>9. CASE g.kind = "or"
    BY <1>0, <2>3, <2>5, <2>9, WholeIs DEF RangeIn, OfOr
  <2>10. CASE g.kind = "quality"
    BY <1>0, <2>3, <2>5, <2>10, WholeIs DEF RangeIn
  <2> QED BY <2>6, <2>7, <2>8, <2>9, <2>10, FilterKinds
<1>2. Sound(f)
  <2> HIDE DEF Sound
  <2> QED BY <1>1
<1> QED BY <1>2

-----------------------------------------------------------------------------
(* The store as it grows.                                                  *)

\* The rows of either tier.
StoredRows == ColdRows \cup hot

\* What the steps of the store preserve of it: the hot tier holds one row of a reading and
\* version, and of what a detached relation holds the cold tier has a copy.
StoreKept ==
  /\ scene.boundary \in Nat /\ scene.boundary <= boundary
  /\ \A r \in hot : Window(r.from) \in detached => r \in ColdRows
  /\ \A r, s \in hot : SameVersion(r, s) => r = s

\* The store as the next step finds it.
StoreGrows ==
  /\ scene' = scene /\ table' = table /\ boundary <= boundary' /\ boundary' \in Nat
  /\ Visible \subseteq Visible' /\ ColdRows \subseteq ColdRows' /\ StoredRows \subseteq StoredRows'
  /\ Len(cold) <= Len(cold') /\ Len(cold') \in Nat
  /\ \A f \in DOMAIN cold : f \in DOMAIN cold' /\ cold'[f] = cold[f]

\* The files are numbered.
LEMMA ColdLength ==
  ASSUME StoreOk
  PROVE  Len(cold) \in Nat /\ DOMAIN cold = 1..Len(cold)
BY DEF StoreOk, ColdFilesOk, Listing

\* Files are only added.
LEMMA FilesAdded ==
  ASSUME StoreOk, StoreOk', \A f \in DOMAIN cold : f \in DOMAIN cold' /\ cold'[f] = cold[f]
  PROVE  Len(cold) <= Len(cold') /\ Len(cold') \in Nat /\ ColdRows \subseteq ColdRows'
<1>1. Len(cold) \in Nat /\ DOMAIN cold = 1..Len(cold)
  BY ColdLength
<1>2. Len(cold') \in Nat /\ DOMAIN cold' = 1..Len(cold')
  BY DEF StoreOk, ColdFilesOk, Listing
<1>3. Len(cold) <= Len(cold')
  <2> SUFFICES ASSUME ~(Len(cold) <= Len(cold')) PROVE FALSE
    OBVIOUS
  <2>1. Len(cold) \in 1..Len(cold)
    BY <1>1, <1>2
  <2>2. Len(cold) \in 1..Len(cold')
    BY <2>1, <1>1, <1>2
  <2> QED BY <2>2, <1>1, <1>2
<1>4. \A r : r \in ColdRows => r \in ColdRows'
  BY InColdRows, InColdRowsNext
<1> QED BY <1>2, <1>3, <1>4

\* A row an insert adds was of no detached window, and no other of its reading and version
\* was there.
LEMMA InsertKept ==
  ASSUME StoreOk, CallsOk, StoreKept, NEW w \in Writers, Insert(w)
  PROVE  StoreKept'
<1> DEFINE rows == HotRows(w)
<1>1. /\ hot' = hot \cup FreshRows(rows) /\ InsertAccepts(rows)
      /\ scene' = scene /\ cold' = cold /\ boundary' = boundary /\ detached' = detached /\ table' = table
  BY InsertShape DEF table
<1>2. call[w].pc = "insert"
  BY DEF Insert
<1>3. Listing(rows)
  BY <1>2, HotRowsAre
<1> HIDE DEF rows
<1>4. \A n \in DOMAIN rows : Window(rows[n].from) \notin detached
  BY <1>1 DEF InsertAccepts
<1>5. \A r \in FreshRows(rows) : \E n \in DOMAIN rows : r = rows[n] /\ ~Skipped(rows, n)
  BY DEF FreshRows
<1>6. ASSUME NEW r \in hot', Window(r.from) \in detached' PROVE r \in ColdRows'
  <2>1. r \in hot
    BY <1>1, <1>4, <1>5, <1>6
  <2> QED BY <2>1, <1>1, <1>6 DEF StoreKept, ColdRows
<1>7. ASSUME NEW r \in FreshRows(rows), NEW s \in hot PROVE ~SameVersion(r, s)
  <2> SUFFICES ASSUME SameVersion(r, s) PROVE FALSE
    OBVIOUS
  <2>1. PICK n \in DOMAIN rows : r = rows[n] /\ ~Skipped(rows, n)
    BY <1>5, <1>7
  <2>2. SameVersion(s, rows[n]) /\ s.from = rows[n].from
    BY <2>1, SameVersionIs
  <2>3. s \in Attached
    BY <2>2, <1>4, <1>7 DEF Attached
  <2> QED BY <2>1, <2>2, <2>3 DEF Skipped
<1>8. ASSUME NEW r \in FreshRows(rows), NEW s \in FreshRows(rows), SameVersion(r, s) PROVE r = s
  <2>1. PICK n \in DOMAIN rows : r = rows[n] /\ ~Skipped(rows, n)
    BY <1>5, <1>8
  <2>2. PICK m \in DOMAIN rows : s = rows[m] /\ ~Skipped(rows, m)
    BY <1>5, <1>8
  <2>3. SameVersion(s, r)
    BY <1>8, SameVersionIs
  <2>4. ~(n < m) /\ ~(m < n) /\ n \in Int /\ m \in Int
    <3>1. n \in Int /\ m \in Int /\ (n < m => n \in 1..(m - 1)) /\ (m < n => m \in 1..(n - 1))
      BY <2>1, <2>2, <1>3 DEF Listing
    <3> QED BY <3>1, <2>1, <2>2, <2>3, <1>8 DEF Skipped
  <2>5. n = m
    BY <2>4
  <2> QED BY <2>1, <2>2, <2>5
<1>9. \A r, s \in hot' : SameVersion(r, s)' => r = s
  <2> TAKE r, s \in hot'
  <2>1. SameVersion(r, s)' <=> SameVersion(r, s)
    BY <1>1 DEF SameVersion
  <2>2. SameVersion(r, s) => SameVersion(s, r)
    BY SameVersionIs
  <2> QED BY <2>1, <2>2, <1>1, <1>7, <1>8 DEF StoreKept
<1> QED BY <1>1, <1>6, <1>9 DEF StoreKept

\* Every step preserves both.
LEMMA StoreSteps ==
  ASSUME WritesInv, StoreKept, Next
  PROVE  /\ StoreKept' /\ StoreGrows /\ StoreOk'
         /\ hot \subseteq hot' \/ (Reclaim /\ boundary' = boundary /\ \A r \in hot : r.from >= boundary => r \in hot')
<1>0. StoreOk /\ CallsOk /\ boundary \in Nat
  BY DEF WritesInv, StoreOk
<1>1. ASSUME StoreSame PROVE StoreKept' /\ StoreGrows /\ StoreOk' /\ hot \subseteq hot'
  <2>1. StoreOk' /\ Visible' = Visible /\ table' = table
    BY <1>0, <1>1, SameStore
  <2>2. Len(cold') \in Nat /\ Len(cold) <= Len(cold')
    BY <1>0, <1>1, ColdLength DEF StoreSame
  <2> QED BY <1>0, <1>1, <2>1, <2>2 DEF StoreSame, StoreKept, StoreGrows, ColdRows, StoredRows, SameVersion
<1>2. ASSUME NEW w \in Writers, WriteStep(w) PROVE StoreKept' /\ StoreGrows /\ StoreOk' /\ hot \subseteq hot'
  <2>1. /\ StoreOk' /\ Visible \subseteq Visible' /\ hot \subseteq hot'
        /\ scene' = scene /\ table' = table /\ boundary' = boundary /\ detached' = detached
        /\ \A f \in DOMAIN cold : f \in DOMAIN cold' /\ cold'[f] = cold[f]
    BY <1>0, <1>2, WriteKeeps
  <2>2. Len(cold) <= Len(cold') /\ Len(cold') \in Nat /\ ColdRows \subseteq ColdRows'
    BY <1>0, <2>1, FilesAdded
  <2>3. CASE Insert(w)
    <3>1. StoreKept'
      BY <1>0, <2>3, InsertKept
    <3> QED BY <1>0, <2>1, <2>2, <3>1 DEF StoreGrows, StoredRows
  <2>4. CASE ~Insert(w)
    <3>1. hot' = hot
      BY <1>2, <2>4 DEF WriteStep, Begin, Route, SelectPrior, InsertRefused, AppendCold, AppendColdRefused,
                        Reroute, Finish, AuthorAgain
    <3>2. StoreKept'
      BY <2>1, <2>2, <3>1 DEF StoreKept, SameVersion
    <3> QED BY <1>0, <2>1, <2>2, <3>2 DEF StoreGrows, StoredRows
  <2> QED BY <2>3, <2>4
<1>3. CASE Archive
  <2>1. /\ StoreOk' /\ Visible \subseteq Visible' /\ scene' = scene /\ boundary <= boundary'
        /\ \A f \in DOMAIN cold : f \in DOMAIN cold' /\ cold'[f] = cold[f]
        /\ hot' = hot /\ boundary' = boundary + Step /\ detached' = detached \cup {boundary}
        /\ ColdRows' = ColdRows \cup {r \in hot : Window(r.from) = boundary}
    BY <1>0, <1>3, ArchiveStore
  <2>2. Len(cold) <= Len(cold') /\ Len(cold') \in Nat /\ ColdRows \subseteq ColdRows'
    BY <1>0, <2>1, FilesAdded
  <2>3. table' = table /\ boundary' \in Nat
    BY <2>1 DEF table, StoreOk
  <2>4. \A r \in hot' : Window(r.from) \in detached' => r \in ColdRows'
    BY <2>1 DEF StoreKept
  <2>5. scene'.boundary \in Nat /\ scene'.boundary <= boundary'
    BY <2>1, <2>3, <1>0 DEF StoreKept
  <2>6. StoreKept'
    BY <2>1, <2>3, <2>4, <2>5 DEF StoreKept, SameVersion
  <2> QED BY <1>0, <2>1, <2>2, <2>3, <2>6 DEF StoreGrows, StoredRows
<1>4. CASE Reclaim
  <2>1. DropDetached
    BY <1>4 DEF Reclaim
  <2>2. /\ StoreOk' /\ Visible \subseteq Visible' /\ scene' = scene /\ boundary' = boundary
        /\ cold' = cold /\ hot' \subseteq hot /\ detached' = {}
        /\ \A r \in hot : r.from >= boundary => r \in hot'
    BY <1>0, <2>1, DropStore
  <2>3. hot' = Attached /\ table' = table
    BY <2>1, <2>2 DEF DropDetached, table
  <2>4. Len(cold') \in Nat /\ Len(cold) <= Len(cold') /\ ColdRows' = ColdRows
    BY <1>0, <2>2, ColdLength DEF ColdRows
  <2>5. StoredRows \subseteq StoredRows'
    BY <2>3, <2>4 DEF StoredRows, Attached, StoreKept
  <2>6. StoreKept'
    BY <2>2, <2>3 DEF StoreKept, SameVersion
  <2> QED BY <1>0, <1>4, <2>2, <2>3, <2>4, <2>5, <2>6 DEF StoreGrows
<1>5. ASSUME NEW q \in Readers,
             (\E question \in scene.questions : Ask(q, question)) \/ ReadBoundary(q) \/ ScanCold(q) \/ Answer(q)
      PROVE  StoreSame
  BY <1>5 DEF Ask, ReadBoundary, ScanCold, Answer, writeVars, StoreSame
<1> QED BY <1>1, <1>2, <1>3, <1>4, <1>5 DEF Next

\* Both hold of the scenes.
LEMMA StoreKeptStart == QInit => StoreKept
<1> SUFFICES ASSUME QInit PROVE StoreKept
  OBVIOUS
<1>1. scene \in Scenes /\ hot = scene.hot /\ detached = {} /\ boundary = scene.boundary
  BY DEF QInit, Init
<1>2. IsScene(scene)
  BY <1>1, WritesAssumption
<1> QED BY <1>1, <1>2 DEF StoreKept, IsScene, SameVersion, table

-----------------------------------------------------------------------------
(* Orders of rows: the newest, and what no other outranks.                 *)

\* Texts of one length, whose places in their order are known.
Placed(t, n) == DOMAIN t = 1..n /\ \A k \in 1..n : Collation[t[k]] \in Nat

\* The key columns are listed in their order, once each.
LEMMA KeyColumns ==
  ASSUME scene \in Scenes
  PROVE  LET names == IdentityColumns(table)
             order == {p \in names \X names : Collation[p[1]] < Collation[p[2]]}
         IN /\ Cardinality(names) \in Nat /\ DOMAIN Listed(names, order) = 1..Cardinality(names)
            /\ \A k \in 1..Cardinality(names) : Listed(names, order)[k] \in names
<1> DEFINE names == IdentityColumns(table)
           order == {p \in names \X names : Collation[p[1]] < Collation[p[2]]}
           D == {d \in table.columns : d.identity}
<1>1. IsFiniteSet(table.columns) /\ names \subseteq DOMAIN Collation
  BY QueriesAssumption DEF table
<1>2. IsFiniteSet(names)
  <2>1. IsFiniteSet(D)
    BY <1>1, FS_Subset
  <2> DEFINE g == [c \in D |-> c.name]
  <2>2. names = {g[c] : c \in D}
    BY DEF IdentityColumns
  <2> HIDE DEF D, g, names
  <2>3. IsFiniteSet({g[c] : c \in D})
    BY <2>1, ImageFinite
  <2> QED BY <2>2, <2>3
<1>3. \A m, n \in names : /\ Collation[m] \in Nat /\ Collation[n] \in Nat /\ (Collation[m] = Collation[n] => m = n)
                          /\ <<m, n>> \in order <=> Collation[m] < Collation[n]
  BY <1>1, QueriesAssumption
<1> HIDE DEF names, order
<1>4. StrictOrder(names, order)
  BY <1>3 DEF StrictOrder
<1>5. /\ Cardinality(names) \in Nat /\ DOMAIN Listed(names, order) = 1..Cardinality(names)
      /\ \A k \in 1..Cardinality(names) : Listed(names, order)[k] \in names
  BY <1>2, <1>4, ListedOnce
<1> QED BY <1>5 DEF names, order

\* Two sequences of a set make one.
LEMMA Joined ==
  ASSUME NEW S, NEW a \in Seq(S), NEW b \in Seq(S)
  PROVE  a \o b \in Seq(S) /\ Len(a \o b) = Len(a) + Len(b)
OBVIOUS

\* The keys of a table's rows have as many texts each, all of them placed.
LEMMA KeysPlaced ==
  ASSUME scene \in Scenes
  PROVE  \E n \in Nat : \A r : IsRow(table, r) => Placed(KeyTexts(r), n)
<1> DEFINE names == IdentityColumns(table)
           order == {p \in names \X names : Collation[p[1]] < Collation[p[2]]}
           identity == Listed(names, order)
           N == Cardinality(names)
           melo(r) == IF table.byMelo THEN <<r.melo>> ELSE <<>>
           rest(r) == [k \in DOMAIN identity |-> r.extra[identity[k]]]
           n == 1 + (IF table.byMelo THEN 1 ELSE 0) + N
<1>1. N \in Nat /\ DOMAIN identity = 1..N /\ \A k \in 1..N : identity[k] \in names
  BY KeyColumns
<1>2. n \in Nat
  BY <1>1
<1>3. ASSUME NEW r, IsRow(table, r) PROVE Placed(KeyTexts(r), n)
  <2>1. KeyTexts(r) = <<r.obis>> \o melo(r) \o rest(r)
    BY DEF KeyTexts
  <2>2. \A t \in Texts \cup {Null} : Collation[t] \in Nat
    BY QueriesAssumption
  <2>3. r.obis \in Texts \cup {Null} /\ r.melo \in Texts \cup {Null}
    BY <1>3 DEF IsRow
  <2>4. \A k \in 1..N : r.extra[identity[k]] \in Texts
    <3> SUFFICES ASSUME NEW k \in 1..N PROVE r.extra[identity[k]] \in Texts
      OBVIOUS
    <3>1. identity[k] \in names
      BY <1>1
    <3>2. PICK c \in table.columns : c.identity /\ c.name = identity[k]
      BY <3>1 DEF IdentityColumns
    <3> QED BY <1>3, <3>2 DEF IsRow
  <2> DEFINE T == Texts \cup {Null}
  <2>5. rest(r) \in Seq(T) /\ Len(rest(r)) = N
    <3>1. DOMAIN rest(r) = 1..N /\ \A k \in 1..N : rest(r)[k] \in T
      BY <1>1, <2>4
    <3>2. rest(r) = [k \in 1..N |-> rest(r)[k]]
      BY <1>1
    <3> HIDE DEF rest, T, N, n
    <3>3. rest(r) \in [1..N -> T]
      BY <3>1, <3>2
    <3> QED BY <3>3, <1>1
  <2>6. <<r.obis>> \in Seq(T) /\ melo(r) \in Seq(T) /\ Len(melo(r)) = IF table.byMelo THEN 1 ELSE 0
    <3>1. r.obis \in T /\ r.melo \in T
      BY <2>3
    <3> HIDE DEF T
    <3> QED BY <3>1
  <2> HIDE DEF melo, rest, T, identity
  <2>7. /\ KeyTexts(r) \in Seq(T)
        /\ Len(KeyTexts(r)) = 1 + Len(melo(r)) + Len(rest(r))
    <3>3. <<r.obis>> \in Seq(T) /\ Len(<<r.obis>>) = 1
      BY <2>6
    <3>1. <<r.obis>> \o melo(r) \in Seq(T) /\ Len(<<r.obis>> \o melo(r)) = 1 + Len(melo(r))
      BY <2>6, <3>3, Joined
    <3> DEFINE front == <<r.obis>> \o melo(r)
    <3> HIDE DEF front
    <3>2. front \o rest(r) \in Seq(T) /\ Len(front \o rest(r)) = Len(front) + Len(rest(r))
      BY <2>5, <3>1, Joined DEF front
    <3> QED BY <2>1, <3>1, <3>2 DEF front
  <2>8. Len(KeyTexts(r)) = n
    BY <2>5, <2>6, <2>7, <1>1
  <2> HIDE DEF n
  <2>9. DOMAIN KeyTexts(r) = 1..n /\ \A k \in 1..n : KeyTexts(r)[k] \in T
    BY <2>7, <2>8
  <2> QED BY <2>2, <2>9 DEF Placed, T
<1> HIDE DEF n
<1> QED BY <1>2, <1>3

\* Texts of one length are in one order or another, or the same.
LEMMA TextsOrder ==
  ASSUME NEW n \in Nat, NEW t, NEW u, NEW v, Placed(t, n), Placed(u, n), Placed(v, n)
  PROVE  ~TextsBefore(t, t) /\ (TextsBefore(t, u) /\ TextsBefore(u, v) => TextsBefore(t, v))
<1>1. ~TextsBefore(t, t)
  BY DEF TextsBefore, Placed
<1>2. ASSUME TextsBefore(t, u), TextsBefore(u, v) PROVE TextsBefore(t, v)
  <2>1. PICK k \in 1..n : (\A m \in 1..(k - 1) : t[m] = u[m]) /\ Collation[t[k]] < Collation[u[k]]
    BY <1>2 DEF TextsBefore, Placed
  <2>2. PICK l \in 1..n : (\A m \in 1..(l - 1) : u[m] = v[m]) /\ Collation[u[l]] < Collation[v[l]]
    BY <1>2 DEF TextsBefore, Placed
  <2>3. /\ Collation[t[k]] \in Nat /\ Collation[u[k]] \in Nat /\ Collation[v[k]] \in Nat
        /\ Collation[t[l]] \in Nat /\ Collation[u[l]] \in Nat /\ Collation[v[l]] \in Nat
    BY <2>1, <2>2 DEF Placed
  <2>4. k \in Int /\ l \in Int /\ DOMAIN t = 1..n
    BY DEF Placed
  <2>5. CASE k < l
    <3>1. Collation[t[k]] < Collation[v[k]]
      <4>1. k \in 1..(l - 1)
        BY <2>5, <2>4
      <4> QED BY <2>1, <2>2, <4>1
    <3>2. \A m \in 1..(k - 1) : t[m] = v[m]
      <4>1. \A m \in 1..(k - 1) : m \in 1..(l - 1)
        BY <2>5, <2>4
      <4> QED BY <2>1, <2>2, <4>1
    <3> QED BY <3>1, <3>2, <2>4 DEF TextsBefore
  <2>6. CASE l < k
    <3>1. Collation[t[l]] < Collation[v[l]]
      <4>1. l \in 1..(k - 1)
        BY <2>6, <2>4
      <4> QED BY <2>1, <2>2, <4>1
    <3>2. \A m \in 1..(l - 1) : t[m] = v[m]
      <4>1. \A m \in 1..(l - 1) : m \in 1..(k - 1)
        BY <2>6, <2>4
      <4> QED BY <2>1, <2>2, <4>1
    <3> QED BY <3>1, <3>2, <2>4 DEF TextsBefore
  <2>7. CASE k = l
    <3>1. Collation[t[k]] < Collation[v[k]]
      BY <2>1, <2>2, <2>3, <2>7
    <3>2. \A m \in 1..(k - 1) : t[m] = v[m]
      BY <2>1, <2>2, <2>7
    <3> QED BY <3>1, <3>2, <2>4 DEF TextsBefore
  <2> QED BY <2>4, <2>5, <2>6, <2>7
<1> QED BY <1>1, <1>2

\* Finitely many rows of the table, with where they were found.
ItemsOk(items) == IsFiniteSet(items) /\ \A i \in items : IsRow(table, i.row)

\* The newest of some rows is one of them, and none begins later.
LEMMA NewestIs ==
  ASSUME scene \in Scenes, NEW items, ItemsOk(items)
  PROVE  IF items = {} THEN Newest(items) = {}
         ELSE \E i \in items : Newest(items) = {i} /\ \A j \in items : j.row.from <= i.row.from
<1>1. CASE items = {}
  BY <1>1 DEF Newest
<1>2. CASE items # {}
  <2> DEFINE R == {p \in items \X items : NewestFirst(p[1], p[2])}
  <2>1. \A i, j \in items : <<i, j>> \in R <=> NewestFirst(i, j)
    OBVIOUS
  <2>2. PICK n \in Nat : \A r : IsRow(table, r) => Placed(KeyTexts(r), n)
    BY KeysPlaced
  <2>3. \A i \in items : Placed(KeyTexts(i.row), n) /\ i.row.from \in Int
    BY <2>2, RowFrom DEF ItemsOk
  <2>4. \A i \in items : ~NewestFirst(i, i)
    BY <2>3, TextsOrder DEF NewestFirst
  <2>5. ASSUME NEW i \in items, NEW j \in items, NEW k \in items, NewestFirst(i, j), NewestFirst(j, k)
        PROVE  NewestFirst(i, k)
    <3>1. i.row.from \in Int /\ j.row.from \in Int /\ k.row.from \in Int
      BY <2>3
    <3>2. i.row.from >= j.row.from /\ j.row.from >= k.row.from
      BY <2>5, <3>1 DEF NewestFirst
    <3>3. CASE i.row.from = k.row.from
      <4>1. TextsBefore(KeyTexts(i.row), KeyTexts(j.row)) /\ TextsBefore(KeyTexts(j.row), KeyTexts(k.row))
        BY <2>5, <3>1, <3>2, <3>3 DEF NewestFirst
      <4>2. TextsBefore(KeyTexts(i.row), KeyTexts(k.row))
        BY <4>1, <2>3, TextsOrder
      <4> QED BY <3>3, <4>2 DEF NewestFirst
    <3>4. CASE i.row.from # k.row.from
      BY <3>1, <3>2, <3>4 DEF NewestFirst
    <3> QED BY <3>3, <3>4
  <2> HIDE DEF R
  <2>6. PICK x \in items : \A y \in items : <<y, x>> \notin R
    <3>1. \A i \in items : <<i, i>> \notin R
      BY <2>1, <2>4
    <3>2. \A i, j, k \in items : <<i, j>> \in R /\ <<j, k>> \in R => <<i, k>> \in R
      BY <2>1, <2>5
    <3> QED BY <3>1, <3>2, <1>2, FiniteExtreme DEF ItemsOk
  <2>7. \E i \in items : \A j \in items : ~NewestFirst(j, i)
    BY <2>1, <2>6
  <2> DEFINE i == CHOOSE i \in items : \A j \in items : ~NewestFirst(j, i)
  <2>8. Newest(items) = {i}
    BY <1>2 DEF Newest
  <2>9. i \in items /\ \A j \in items : ~NewestFirst(j, i)
    BY <2>7
  <2> HIDE DEF i
  <2>10. \A j \in items : j.row.from <= i.row.from
    <3> SUFFICES ASSUME NEW j \in items PROVE j.row.from <= i.row.from
      OBVIOUS
    <3>1. ~(j.row.from > i.row.from)
      BY <2>9 DEF NewestFirst
    <3> QED BY <3>1, <2>3, <2>9
  <2> QED BY <1>2, <2>8, <2>9, <2>10
<1> QED BY <1>1, <1>2

\* Resolution leaves one row of each reading and scope, outranked by none.
LEMMA ResolveIs ==
  ASSUME NEW items, ItemsOk(items)
  PROVE  /\ \A j \in Resolve(items) : j \in items /\ \A k \in items : Contender(k.row) = Contender(j.row) => ~Outranks(k.row, j.row)
         /\ \A i \in items : \E j \in Resolve(items) : Contender(j.row) = Contender(i.row)
         /\ \A j, k \in Resolve(items) : Contender(j.row) = Contender(k.row) => j = k
<1> DEFINE contenders(i) == {j \in items : Contender(j.row) = Contender(i.row)}
           best(i) == CHOOSE j \in contenders(i) : \A k \in contenders(i) : ~Outranks(k.row, j.row)
<1>1. Resolve(items) = {best(i) : i \in items}
  BY DEF Resolve
<1>2. ASSUME NEW i \in items
      PROVE  best(i) \in contenders(i) /\ \A k \in contenders(i) : ~Outranks(k.row, best(i).row)
  <2> DEFINE C == contenders(i)
             R == {p \in C \X C : Outranks(p[1].row, p[2].row)}
  <2>1. IsFiniteSet(C)
    BY FS_Subset DEF ItemsOk
  <2>2. C # {} /\ \A j \in C : j.row.version \in Int /\ j.row.rec \in Int
    BY RowFrom DEF ItemsOk
  <2>3. \A j, k \in C : <<j, k>> \in R <=> Outranks(j.row, k.row)
    OBVIOUS
  <2> HIDE DEF R, C
  <2>4. (\A j \in C : <<j, j>> \notin R) /\ \A j, k, l \in C : <<j, k>> \in R /\ <<k, l>> \in R => <<j, l>> \in R
    BY <2>2, <2>3 DEF Outranks
  <2>5. PICK x \in C : \A y \in C : <<y, x>> \notin R
    BY <2>1, <2>2, <2>4, FiniteExtreme
  <2>6. \E j \in C : \A k \in C : ~Outranks(k.row, j.row)
    BY <2>3, <2>5
  <2>7. best(i) = CHOOSE j \in C : \A k \in C : ~Outranks(k.row, j.row)
    BY DEF C
  <2> HIDE DEF best, contenders
  <2>8. best(i) \in C /\ \A k \in C : ~Outranks(k.row, best(i).row)
    BY <2>6, <2>7
  <2> QED BY <2>8 DEF C
<1>3. \A i, k \in items : Contender(i.row) = Contender(k.row) => contenders(i) = contenders(k)
  OBVIOUS
<1>4. \A i, k \in items : Contender(i.row) = Contender(k.row) => best(i) = best(k)
  BY <1>3
<1>5. \A i \in items : best(i) \in items /\ Contender(best(i).row) = Contender(i.row)
                       /\ \A k \in items : Contender(k.row) = Contender(i.row) => ~Outranks(k.row, best(i).row)
  BY <1>2
<1> HIDE DEF best, contenders
<1> QED BY <1>1, <1>4, <1>5

-----------------------------------------------------------------------------
(* The range a question is planned for.                                    *)

\* A bound of the session's tier order.
IsProbe(probe) == probe = {} \/ \E bound \in Nat : probe = {bound}

\* The ends of the range a question is planned for.
LEMMA PlannedEnds ==
  ASSUME NEW question, IsQuestion(question), NEW probe, IsProbe(probe)
  PROVE  LET asked == IF question.filter = Null THEN WholeTime ELSE RangeOf[question.filter]
             from  == IF question.start = Null THEN NoStart ELSE Micros(question.start)
             to    == IF question.end = Null THEN NoEnd ELSE Micros(question.end)
             lower == IF probe = {} THEN NoStart ELSE CHOOSE bound \in probe : TRUE
             range == PlannedRange(question, probe)
         IN /\ IsRange(asked) /\ from \in Int /\ to \in Int /\ lower \in Int /\ to % 2 = 0
            /\ range = TimeRange(Later(Later(asked.start, from), lower), Earlier(Earlier(asked.end, to), NoEnd))
            /\ range.start \in Int /\ range.end \in Int /\ range.end <= NoEnd /\ NoEnd \in Nat /\ NoEnd % 2 = 0
            /\ \A bound \in probe : bound = lower /\ bound \in Nat
<1> DEFINE asked == IF question.filter = Null THEN WholeTime ELSE RangeOf[question.filter]
           from  == IF question.start = Null THEN NoStart ELSE Micros(question.start)
           to    == IF question.end = Null THEN NoEnd ELSE Micros(question.end)
           lower == IF probe = {} THEN NoStart ELSE CHOOSE bound \in probe : TRUE
           range == PlannedRange(question, probe)
<1>0. NoEnd \in Nat /\ NoEnd % 2 = 0 /\ NoStart = -1
  BY PredicatesAssumption DEF NoEnd, NoStart
<1>1. IsRange(asked)
  <2>1. question.filter = Null \/ question.filter \in Filters
    BY DEF IsQuestion
  <2>4. [from |-> 0, good |-> TRUE] \in Readable /\ [from |-> 0, good |-> TRUE].from % 2 = 0
    BY PredicatesAssumption DEF Readable, Instants
  <2>2. \A f \in Filters : IsRange(RangeOf[f])
    BY <2>4, FilterSound
  <2>3. IsRange(WholeTime)
    BY <1>0 DEF IsRange, WholeTime, TimeRange
  <2> QED BY <2>1, <2>2, <2>3
<1>2. from \in Int /\ to \in Int /\ to % 2 = 0
  <2>1. question.start \in Nat \cup {Null} /\ question.end \in Nat \cup {Null}
    BY DEF IsQuestion
  <2>2. \A t \in Nat : Micros(t) \in Nat /\ Micros(t) % 2 = 0
    BY OnGrid
  <2> QED BY <1>0, <2>1, <2>2
<1>3. lower \in Int /\ \A bound \in probe : bound = lower /\ bound \in Nat
  BY <1>0 DEF IsProbe
<1>4. range = Intersect(Intersect(asked, TimeRange(from, to)), TimeRange(lower, NoEnd))
  BY DEF PlannedRange
<1> HIDE DEF asked, from, to, lower, range
<1>5. range = TimeRange(Later(Later(asked.start, from), lower), Earlier(Earlier(asked.end, to), NoEnd))
  BY <1>4 DEF Intersect, TimeRange
<1>6. /\ range.start = Later(Later(asked.start, from), lower)
      /\ range.end = Earlier(Earlier(asked.end, to), NoEnd)
  BY <1>5 DEF TimeRange
<1>7. range.start \in Int /\ range.end \in Int /\ range.end <= NoEnd
  BY <1>0, <1>1, <1>2, <1>3, <1>6 DEF IsRange, Later, Earlier
<1> QED BY <1>0, <1>1, <1>2, <1>3, <1>5, <1>7 DEF asked, from, to, lower, range

\* What a filter sees of a row of the table.
LEMMA RowReadable ==
  ASSUME NEW tbl, NEW r, IsRow(tbl, r)
  PROVE  [from |-> r.from, good |-> r.q = "MEASURED"] \in Readable
BY DEF IsRow, Readable

\* The range a question is planned for holds every row it wants.
LEMMA WantedWithin ==
  ASSUME NEW question, IsQuestion(question), NEW probe, IsProbe(probe),
         NEW tbl, NEW r, IsRow(tbl, r), Wanted(question, probe, r)
  PROVE  Within(PlannedRange(question, probe), r.from)
<1> DEFINE asked == IF question.filter = Null THEN WholeTime ELSE RangeOf[question.filter]
           from  == IF question.start = Null THEN NoStart ELSE Micros(question.start)
           to    == IF question.end = Null THEN NoEnd ELSE Micros(question.end)
           lower == IF probe = {} THEN NoStart ELSE CHOOSE bound \in probe : TRUE
           range == PlannedRange(question, probe)
<1>1. /\ IsRange(asked) /\ from \in Int /\ to \in Int /\ lower \in Int /\ NoEnd \in Nat
      /\ range = TimeRange(Later(Later(asked.start, from), lower), Earlier(Earlier(asked.end, to), NoEnd))
      /\ \A bound \in probe : bound = lower /\ bound \in Nat
  BY PlannedEnds
<1>2. r.from \in Nat /\ r.from < NoEnd /\ NoStart = -1 /\ r.from % 2 = 0
  BY RowFrom, PredicatesAssumption DEF NoEnd, NoStart
<1>3. Within(asked, r.from)
  <2>1. CASE question.filter = Null
    BY <2>1, <1>2 DEF WholeTime, TimeRange, Within
  <2>2. CASE question.filter # Null
    <3> DEFINE s == [from |-> r.from, good |-> r.q = "MEASURED"]
    <3>1. question.filter \in Filters /\ s \in Satisfies[question.filter] /\ s \in Readable
      BY <2>2, RowReadable DEF IsQuestion, Wanted
    <3>2. s.from = r.from
      OBVIOUS
    <3> HIDE DEF s
    <3>3. Within(RangeOf[question.filter], s.from)
      BY <3>1, <3>2, <1>2, FilterSound
    <3> QED BY <2>2, <3>2, <3>3
  <2> QED BY <2>1, <2>2
<1>4. from <= r.from /\ r.from < to
  BY <1>2 DEF Wanted
<1>5. lower <= r.from
  BY <1>1, <1>2 DEF Wanted, IsProbe
<1> HIDE DEF asked, from, to, lower
<1>6. range.start = Later(Later(asked.start, from), lower) /\ range.end = Earlier(Earlier(asked.end, to), NoEnd)
  BY <1>1 DEF TimeRange
<1> HIDE DEF range
<1>7. Within(range, r.from)
  BY <1>1, <1>2, <1>3, <1>4, <1>5, <1>6 DEF Within, IsRange, Later, Earlier
<1> QED BY <1>7 DEF range

\* The bounds of a question are instants.
LEMMA QuestionEnds ==
  ASSUME NEW question, IsQuestion(question)
  PROVE  LET open == [question EXCEPT !.end = Null]
         IN /\ IsQuestion(open) /\ open.end = Null /\ open.filter = question.filter /\ open.start = question.start
            /\ [question EXCEPT !.start = Null, !.end = Null].filter = question.filter
            /\ [question EXCEPT !.start = Null, !.end = Null].start = Null
            /\ [question EXCEPT !.start = Null, !.end = Null].end = Null
            /\ [question EXCEPT !.start = Null, !.end = Null].obis = question.obis
            /\ [question EXCEPT !.start = Null, !.end = Null].columns = question.columns
            /\ [question EXCEPT !.start = Null, !.end = Null].quality = question.quality
BY DEF IsQuestion

\* What a question asks for is wanted, but for the rows its end is cut to.
LEMMA AskedIsWanted ==
  ASSUME NEW question, IsQuestion(question), NEW probe, NEW tbl, NEW r, IsRow(tbl, r),
         AsksFor(question, r), ~AtCutEnd(question, r), \A bound \in probe : r.from >= bound
  PROVE  Wanted(question, probe, r)
<1>1. /\ question.filter = Null \/ [from |-> r.from, good |-> r.q = "MEASURED"] \in Satisfies[question.filter]
      /\ question.obis = Null \/ r.obis = question.obis
      /\ \A name \in DOMAIN question.columns : Column(r, name) = question.columns[name]
      /\ question.quality = {} \/ r.q \in question.quality
  BY QuestionEnds DEF AsksFor, Wanted
<1>2. question.start \in Nat \cup {Null} /\ question.end \in Nat \cup {Null}
  BY DEF IsQuestion
<1>3. r.from \in Nat /\ r.from % 2 = 0
  BY RowFrom
<1>4. question.start = Null \/ r.from >= Micros(question.start)
  <2>1. question.start = Null \/ r.from >= question.start
    BY DEF AsksFor
  <2>2. \A t \in Nat : Micros(t) \in Nat /\ Micros(t) <= t
    BY OnGrid
  <2> QED BY <1>2, <1>3, <2>1, <2>2
<1>5. question.end = Null \/ r.from < Micros(question.end)
  <2>1. question.end = Null \/ (r.from < question.end /\ r.from # Micros(question.end))
    BY DEF AsksFor, AtCutEnd
  <2>2. \A t \in Nat : Micros(t) \in Nat /\ t <= Micros(t) + 1
    BY OnGrid
  <2> QED BY <1>2, <1>3, <2>1, <2>2
<1> QED BY <1>1, <1>4, <1>5 DEF Wanted

\* A wanted row is one asked for, but for those its start is cut to.
LEMMA WantedIsAsked ==
  ASSUME NEW question, IsQuestion(question), NEW probe, NEW tbl, NEW r, IsRow(tbl, r),
         Wanted(question, probe, r), \A name \in DOMAIN question.scope : Column(r, name) = question.scope[name]
  PROVE  AsksFor(question, r) \/ AtCutStart(question, r)
<1>1. Wanted([question EXCEPT !.start = Null, !.end = Null], {}, r)
  BY QuestionEnds DEF Wanted
<1>2. question.start \in Nat \cup {Null} /\ question.end \in Nat \cup {Null}
  BY DEF IsQuestion
<1>3. r.from \in Nat /\ r.from % 2 = 0
  BY RowFrom
<1>4. question.end = Null \/ r.from < question.end
  <2>1. question.end = Null \/ r.from < Micros(question.end)
    BY DEF Wanted
  <2>2. \A t \in Nat : Micros(t) \in Nat /\ Micros(t) <= t
    BY OnGrid
  <2> QED BY <1>2, <1>3, <2>1, <2>2
<1>5. question.start = Null \/ r.from >= question.start \/ r.from = Micros(question.start)
  <2>1. question.start = Null \/ r.from >= Micros(question.start)
    BY DEF Wanted
  <2>2. \A t \in Nat : Micros(t) \in Nat /\ t <= Micros(t) + 1
    BY OnGrid
  <2>3. \A t, m, f \in Nat : t <= m + 1 /\ f >= m => f >= t \/ f = m
    OBVIOUS
  <2> QED BY <1>2, <1>3, <2>1, <2>2, <2>3
<1> QED BY <1>1, <1>4, <1>5 DEF AsksFor, AtCutStart

\* A row asked for is not lost where the end of the range is cut to the grid.
LEMMA EndKept ==
  ASSUME NEW question, IsQuestion(question), NEW probe, IsProbe(probe), NEW tbl, NEW r, IsRow(tbl, r),
         Within(PlannedRange(question, probe), r.from), ~AtCutEnd(question, r)
  PROVE  LET end == PlannedRange(question, probe).end IN r.from < end - (end % 2)
<1> DEFINE asked == IF question.filter = Null THEN WholeTime ELSE RangeOf[question.filter]
           to    == IF question.end = Null THEN NoEnd ELSE Micros(question.end)
           end   == PlannedRange(question, probe).end
           open  == PlannedRange([question EXCEPT !.end = Null], {}).end
<1>1. /\ asked.end \in Int /\ asked.end <= NoEnd /\ to \in Int /\ to % 2 = 0 /\ NoEnd \in Nat /\ NoEnd % 2 = 0
      /\ end = Earlier(Earlier(asked.end, to), NoEnd)
  BY PlannedEnds DEF IsRange, TimeRange
<1>2. open = Earlier(Earlier(asked.end, NoEnd), NoEnd)
  <2> DEFINE opened == [question EXCEPT !.end = Null]
  <2>1. IsProbe({}) /\ IsQuestion(opened) /\ opened.end = Null /\ opened.filter = question.filter
    BY QuestionEnds DEF IsProbe
  <2> HIDE DEF opened
  <2>2. PlannedRange(opened, {}).end = Earlier(Earlier(asked.end, NoEnd), NoEnd)
    BY <2>1, PlannedEnds DEF TimeRange
  <2> QED BY <2>2 DEF opened
<1> HIDE DEF asked, to
<1>3. open = asked.end
  BY <1>1, <1>2 DEF Earlier
<1>4. r.from \in Nat /\ r.from % 2 = 0 /\ r.from < end
  BY RowFrom DEF Within
<1>5. end \in Int /\ (end = asked.end \/ end % 2 = 0)
  BY <1>1 DEF Earlier
<1>6. ~(open % 2 = 1 /\ r.from = Micros(open))
  BY DEF AtCutEnd
<1> HIDE DEF open, end
<1>7. ASSUME end % 2 = 0 PROVE r.from < end - (end % 2)
  <2>1. end - (end % 2) = end
    BY <1>5, <1>7
  <2> QED BY <1>4, <2>1
<1>8. ASSUME end % 2 # 0 PROVE r.from < end - (end % 2)
  <2>0. end % 2 = 1
    BY <1>5, <1>8
  <2>1. end = open
    BY <1>3, <1>5, <1>8
  <2>2. r.from # end - (end % 2) /\ end - (end % 2) = end - 1
    BY <1>5, <1>6, <2>0, <2>1 DEF Micros
  <2> QED BY <1>4, <1>5, <2>2
<1>9. r.from < end - (end % 2)
  BY <1>7, <1>8
<1> QED BY <1>9 DEF end

-----------------------------------------------------------------------------
(* The boundary splits it.                                                 *)

\* The halves of a split, each one range at most.
LEMMA SplitIs ==
  ASSUME NEW s \in Int, NEW e \in Int, NEW label \in Nat
  PROVE  LET halves == Split(TimeRange(s, e), label)
         IN /\ DOMAIN halves = {"cold", "hot"}
            /\ s < e /\ label # 0 /\ s < label => halves.cold = {TimeRange(s, Earlier(e, label))}
            /\ ~(s < e /\ label # 0 /\ s < label) => halves.cold = {}
            /\ s < e /\ label = 0 => halves.hot = {TimeRange(s, e)}
            /\ s < e /\ label # 0 /\ label < e => halves.hot = {TimeRange(Later(s, label), e)}
            /\ ~(s < e /\ (label = 0 \/ label < e)) => halves.hot = {}
<1> DEFINE range == TimeRange(s, e)
           halves == Split(range, label)
<1>1. range.start = s /\ range.end = e /\ (IsEmpty(range) <=> s >= e)
  BY DEF TimeRange, IsEmpty
<1>2. /\ [range EXCEPT !.end = Earlier(e, label)] = TimeRange(s, Earlier(e, label))
      /\ [range EXCEPT !.start = Later(s, label)] = TimeRange(Later(s, label), e)
  BY DEF TimeRange
<1>3. CASE s >= e
  <2>1. halves = Neither
    BY <1>1, <1>3 DEF Split
  <2> QED BY <1>3, <2>1 DEF Neither
<1>4. CASE s < e /\ label = 0
  <2>1. halves = [cold |-> {}, hot |-> {range}]
    BY <1>1, <1>4 DEF Split
  <2> HIDE DEF halves
  <2>2. DOMAIN halves = {"cold", "hot"} /\ halves.cold = {} /\ halves.hot = {range}
    BY <2>1
  <2> QED BY <1>4, <2>2 DEF halves
<1>5. CASE s < e /\ label # 0
  <2>1. halves = [cold |-> IF s >= label THEN {} ELSE NonEmpty(TimeRange(s, Earlier(e, label))),
                  hot |-> IF e <= label THEN {} ELSE NonEmpty(TimeRange(Later(s, label), e))]
    <3>1. halves = [cold |-> IF range.start >= label THEN {}
                             ELSE NonEmpty([range EXCEPT !.end = Earlier(range.end, label)]),
                    hot  |-> IF range.end <= label THEN {}
                             ELSE NonEmpty([range EXCEPT !.start = Later(range.start, label)])]
      BY <1>1, <1>5 DEF Split
    <3> HIDE DEF range, halves
    <3> QED BY <3>1, <1>1, <1>2
  <2>2. s < label => NonEmpty(TimeRange(s, Earlier(e, label))) = {TimeRange(s, Earlier(e, label))}
    BY <1>5 DEF NonEmpty, IsEmpty, TimeRange, Earlier
  <2>3. e > label => NonEmpty(TimeRange(Later(s, label), e)) = {TimeRange(Later(s, label), e)}
    BY <1>5 DEF NonEmpty, IsEmpty, TimeRange, Later
  <2> HIDE DEF range, halves
  <2> QED BY <1>5, <2>1, <2>2, <2>3 DEF range, halves
<1> QED BY <1>3, <1>4, <1>5

\* An instant lies on one side of a boundary.
LEMMA Halved ==
  ASSUME NEW x \in Int
  PROVE  x - (x % 2) \in Int /\ x - (x % 2) <= x /\ x <= x - (x % 2) + 1 /\ (x % 2 = 0 => x - (x % 2) = x)
OBVIOUS

\* An instant of the grid below another is below where that is cut to.
LEMMA EvenBelow ==
  ASSUME NEW x \in Int, NEW y \in Int, y % 2 = 0, y <= x
  PROVE  y <= x - (x % 2)
<1>1. x % 2 \in {0, 1}
  OBVIOUS
<1>2. CASE x % 2 = 0
  BY <1>2
<1>3. CASE x % 2 = 1
  <2>1. x # y
    BY <1>3
  <2>2. x - (x % 2) = x - 1
    BY <1>3
  <2> QED BY <2>1, <2>2
<1> QED BY <1>1, <1>2, <1>3

\* What a range holds is asked of the tier it belongs to.
LEMMA SplitHolds ==
  ASSUME NEW s \in Int, NEW e \in Int, NEW label \in Nat, label % 2 = 0, NEW t \in Nat,
         s <= t, t < e - (e % 2)
  PROVE  LET halves == Split(TimeRange(s, e), label)
         IN (t < label => RowsAskedFor(halves.cold, t)) /\ (t >= label => RowsAskedFor(halves.hot, t))
<1> DEFINE halves == Split(TimeRange(s, e), label)
<1>1. s < e /\ t < e
  BY Halved
<1>2. ASSUME t < label PROVE RowsAskedFor(halves.cold, t)
  <2>1. halves.cold = {TimeRange(s, Earlier(e, label))}
    BY <1>1, <1>2, SplitIs
  <2> DEFINE x == Earlier(e, label)
  <2>2. x \in Int /\ t < x - (x % 2) /\ s - (s % 2) <= t
    BY <1>2, Halved DEF Earlier
  <2>3. RangeFilter(TimeRange(s, x), t)
    BY <2>2 DEF RangeFilter, TimeRange
  <2> QED BY <2>1, <2>3 DEF RowsAskedFor
<1>3. ASSUME t >= label PROVE RowsAskedFor(halves.hot, t)
  <2>1. halves.hot = {TimeRange(IF label = 0 THEN s ELSE Later(s, label), e)}
    <3>1. e > label
      BY <1>1, <1>3
    <3>2. CASE label = 0
      BY <3>1, <3>2, <1>1, SplitIs
    <3>3. CASE label # 0
      BY <3>1, <3>3, <1>1, SplitIs
    <3> QED BY <3>2, <3>3
  <2> DEFINE x == IF label = 0 THEN s ELSE Later(s, label)
  <2>2. x \in Int /\ x <= t
    BY <1>3 DEF Later
  <2> HIDE DEF x
  <2>3. x - (x % 2) <= t
    BY <2>2, Halved
  <2>4. RangeFilter(TimeRange(x, e), t)
    BY <2>2, <2>3 DEF RangeFilter, TimeRange
  <2> QED BY <2>1, <2>4 DEF RowsAskedFor, x
<1> QED BY <1>2, <1>3

\* What a tier is asked for lies on its side of the boundary.
LEMMA SplitSides ==
  ASSUME NEW s \in Int, NEW e \in Int, NEW label \in Nat, label % 2 = 0, NEW t \in Nat, t < NoEnd
  PROVE  LET halves == Split(TimeRange(s, e), label)
         IN /\ RowsAskedFor(halves.cold, t) => t < label /\ halves.cold = {TimeRange(s, Earlier(e, label))}
            /\ RowsAskedFor(halves.hot, t) => t >= label
<1> DEFINE halves == Split(TimeRange(s, e), label)
<1>1. ASSUME RowsAskedFor(halves.cold, t) PROVE t < label /\ halves.cold = {TimeRange(s, Earlier(e, label))}
  <2>1. halves.cold # {}
    BY <1>1 DEF RowsAskedFor
  <2>2. halves.cold = {TimeRange(s, Earlier(e, label))}
    BY <2>1, SplitIs
  <2> DEFINE x == Earlier(e, label)
  <2>3. x \in Int /\ x <= label
    BY DEF Earlier
  <2>4. x = NoEnd \/ t < x - (x % 2)
    BY <1>1, <2>2 DEF RowsAskedFor, RangeFilter, TimeRange
  <2>5. x - (x % 2) <= x /\ x - (x % 2) \in Int
    BY <2>3, Halved
  <2> HIDE DEF x
  <2>6. t < label
    BY <2>3, <2>4, <2>5
  <2> QED BY <2>2, <2>6
<1>2. ASSUME RowsAskedFor(halves.hot, t) PROVE t >= label
  <2>1. CASE label = 0
    BY <2>1
  <2>2. CASE label # 0
    <3>1. halves.hot # {}
      BY <1>2 DEF RowsAskedFor
    <3>2. halves.hot = {TimeRange(Later(s, label), e)}
      BY <2>2, <3>1, SplitIs
    <3> DEFINE x == Later(s, label)
    <3>3. x \in Int /\ label <= x /\ x # NoStart
      BY <2>2 DEF Later, NoStart
    <3>4. t >= x - (x % 2)
      BY <1>2, <3>2, <3>3 DEF RowsAskedFor, RangeFilter, TimeRange
    <3>5. x - (x % 2) >= label /\ x - (x % 2) \in Int
      BY <3>3, EvenBelow, Halved
    <3> HIDE DEF x
    <3> QED BY <3>4, <3>5
  <2> QED BY <2>1, <2>2
<1> QED BY <1>1, <1>2

-----------------------------------------------------------------------------
(* Queries, and the scan of the cold half.                                 *)

\* The fields of a query under way.
QueryFields == {"pc", "question", "files", "pinned", "began", "probe", "label", "items", "answer", "result"}

\* The steps at which a query holds its question.
Asked == {"label", "cold", "hot", "done"}

\* The halves a query is planned for.
Halves(q) == SplitAt(q, WatermarkFor(q))

\* A row of the first files.
InFiles(r, n) == \E f \in 1..n : \E k \in DOMAIN cold[f] : r = cold[f][k]

\* What a scan of the cold half found: rows of it, and all of it that was there when the
\* question was asked.
Scanned(q, items) ==
  /\ items \subseteq ColdItems(Len(cold))
  /\ \A i \in items : RowsAskedFor(Halves(q).cold, i.row.from)
  /\ \A r \in query[q].began :
       /\ r.from < query[q].label /\ RowsAskedFor(Halves(q).cold, r.from)
       /\ BelowCeiling(query[q].question.mode, r)
       => \E i \in items : i.row = r

\* The inductive invariant of a query: what was visible when it was asked still is, below
\* the boundary it is planned at in the cold tier and above it in the relations kept for it.
QueryShape(q) ==
  /\ query[q].pc \in {"idle", "refused"} \cup Asked
  /\ query[q].pc \in Asked =>
       /\ DOMAIN query[q] = QueryFields
       /\ query[q].question \in scene.questions /\ Askable(query[q].question)
       /\ IsProbe(query[q].probe) /\ (query[q].probe # {} => query[q].question.fold = "latest")
       /\ query[q].files \in Nat /\ query[q].files <= Len(cold)
       /\ query[q].pinned \in Nat /\ query[q].pinned % 2 = 0 /\ query[q].pinned <= boundary
       /\ query[q].began \subseteq Visible
       /\ \A r \in query[q].began : r.from < query[q].pinned => InFiles(r, query[q].files)
  /\ query[q].pc \in {"cold", "hot", "done"} =>
       /\ query[q].label \in Nat /\ query[q].label % 2 = 0 /\ query[q].label <= boundary
       /\ query[q].question.mode.kind = "AsOf" => query[q].label = query[q].pinned
  /\ query[q].pc \in {"cold", "hot"} /\ query[q].question.mode.kind # "AsOf" =>
       \A r \in query[q].began : r.from >= query[q].label => r \in hot
  /\ query[q].pc = "hot" => Scanned(q, query[q].items)

QueriesOk == DOMAIN query = Readers /\ \A q \in Readers : QueryShape(q)

-----------------------------------------------------------------------------

\* The items of the first files.
LEMMA ItemsIn ==
  ASSUME StoreOk, NEW n \in Nat, n <= Len(cold), NEW i
  PROVE  i \in ColdItems(n) <=> \E f \in 1..n : \E k \in DOMAIN cold[f] : i = Item(<<f, k>>, cold[f][k])
<1> DEFINE at(f) == {Item(<<f, k>>, cold[f][k]) : k \in DOMAIN cold[f]}
<1>1. i \in UNION {at(f) : f \in 1..n} <=> \E f \in 1..n : i \in at(f)
  OBVIOUS
<1>2. ColdItems(n) = UNION {at(f) : f \in 1..n}
  BY DEF ColdItems
<1>3. \A f \in 1..n : i \in at(f) <=> \E k \in DOMAIN cold[f] : i = Item(<<f, k>>, cold[f][k])
  OBVIOUS
<1> HIDE DEF at
<1> QED BY <1>1, <1>2, <1>3

\* Where an item was found.
LEMMA ItemPlace ==
  ASSUME StoreOk, NEW i \in ColdItems(Len(cold))
  PROVE  \E f \in DOMAIN cold : \E k \in DOMAIN cold[f] : i = Item(<<f, k>>, cold[f][k]) /\ i.row = cold[f][k]
<1>1. Len(cold) \in Nat /\ DOMAIN cold = 1..Len(cold)
  BY ColdLength
<1>2. PICK f \in 1..Len(cold) : \E k \in DOMAIN cold[f] : i = Item(<<f, k>>, cold[f][k])
  <2>1. Len(cold) <= Len(cold)
    BY <1>1
  <2> HIDE DEF Item
  <2> QED BY <1>1, <2>1, ItemsIn
<1>3. PICK k \in DOMAIN cold[f] : i = Item(<<f, k>>, cold[f][k])
  BY <1>2
<1>4. i.row = cold[f][k]
  BY <1>3 DEF Item
<1> QED BY <1>1, <1>3, <1>4

\* Items name rows of the files.
LEMMA ItemRow ==
  ASSUME StoreOk, NEW i \in ColdItems(Len(cold))
  PROVE  i.row \in ColdRows /\ IsRow(table, i.row) /\ i.row.from < boundary
<1>1. i.row \in ColdRows
  BY ItemPlace, InColdRows
<1> QED BY <1>1, ColdBelow

\* Items stay where they are.
LEMMA ItemsGrow ==
  ASSUME StoreOk, StoreOk', StoreGrows
  PROVE  /\ ColdItems(Len(cold)) \subseteq ColdItems(Len(cold))'
         /\ \A n \in Nat : n <= Len(cold) => \A r : InFiles(r, n) => InFiles(r, n)'
<1>1. /\ Len(cold) \in Nat /\ DOMAIN cold = 1..Len(cold)
      /\ Len(cold') \in Nat /\ Len(cold) <= Len(cold') /\ \A f \in DOMAIN cold : cold'[f] = cold[f]
  BY ColdLength DEF StoreGrows
<1>2. \A f \in 1..Len(cold) : f \in 1..Len(cold')
  BY <1>1
<1>3. ColdItems(Len(cold)) \subseteq ColdItems(Len(cold))'
  <2> SUFFICES ASSUME NEW i \in ColdItems(Len(cold)) PROVE i \in ColdItems(Len(cold))'
    OBVIOUS
  <2> DEFINE at(c, f) == {Item(<<f, k>>, c[f][k]) : k \in DOMAIN c[f]}
  <2>1. ColdItems(Len(cold)) = UNION {at(cold, f) : f \in 1..Len(cold)}
    BY DEF ColdItems
  <2>2. ColdItems(Len(cold))' = UNION {at(cold', f) : f \in 1..Len(cold')}
    BY DEF ColdItems
  <2>3. \A f \in 1..Len(cold) : at(cold', f) = at(cold, f)
    BY <1>1
  <2> HIDE DEF at
  <2>4. PICK f \in 1..Len(cold) : i \in at(cold, f)
    BY <2>1
  <2> QED BY <1>2, <2>2, <2>3, <2>4
<1>4. ASSUME NEW n \in Nat, n <= Len(cold), NEW r, InFiles(r, n) PROVE InFiles(r, n)'
  <2>1. \A f \in 1..n : f \in DOMAIN cold
    BY <1>1, <1>4
  <2> QED BY <1>1, <1>4, <2>1 DEF InFiles
<1> QED BY <1>3, <1>4

\* A step of the store leaves a query what it is.
LEMMA QueryStays ==
  ASSUME StoreOk, StoreOk', StoreGrows, NEW q \in Readers, QueryShape(q), query'[q] = query[q],
         hot \subseteq hot' \/ (Reclaim /\ boundary' = boundary /\ \A r \in hot : r.from >= boundary => r \in hot')
  PROVE  QueryShape(q)'
<1>1. /\ boundary \in Nat /\ boundary' \in Nat /\ boundary <= boundary' /\ Visible \subseteq Visible'
      /\ scene' = scene /\ table' = table /\ Len(cold) <= Len(cold') /\ Len(cold') \in Nat /\ Len(cold) \in Nat
  BY ColdLength DEF StoreGrows, StoreOk
<1>2. CASE query[q].pc \notin Asked
  BY <1>2 DEF QueryShape, Asked
<1>3. CASE query[q].pc \in Asked
  <2>1. Askable(query[q].question)' <=> Askable(query[q].question)
    BY <1>1 DEF Askable, ScopeAllowed, Filterable
  <2>2. \A r \in query[q].began : r.from < query[q].pinned => InFiles(r, query[q].files)'
    BY <1>3, ItemsGrow DEF QueryShape
  <2>3. Halves(q)' = Halves(q)
    BY DEF Halves, SplitAt, WatermarkFor
  <2>4. Scanned(q, query[q].items) => Scanned(q, query[q].items)'
    BY <1>1, <2>3, ItemsGrow DEF Scanned
  <2>5. query[q].pc \in {"cold", "hot"} /\ query[q].question.mode.kind # "AsOf" =>
          \A r \in query[q].began : r.from >= query[q].label => r \in hot'
    <3>1. CASE hot \subseteq hot'
      BY <3>1 DEF QueryShape
    <3>2. CASE Reclaim /\ boundary' = boundary /\ \A r \in hot : r.from >= boundary => r \in hot'
      BY <3>2 DEF QueryShape, Reclaim
    <3> QED BY <3>1, <3>2
  <2>6. query[q].files <= Len(cold') /\ query[q].pinned <= boundary'
    BY <1>1, <1>3 DEF QueryShape
  <2>7. query[q].pc \in {"cold", "hot", "done"} => query[q].label <= boundary'
    BY <1>1, <1>3 DEF QueryShape
  <2> QED BY <1>1, <1>3, <2>1, <2>2, <2>4, <2>5, <2>6, <2>7 DEF QueryShape
<1> QED BY <1>2, <1>3

\* A row visible above a boundary is a hot one, below it one of the files.
LEMMA VisibleRow ==
  ASSUME StoreOk, NEW r \in Visible
  PROVE  /\ IsRow(table, r) /\ r.from \in Nat /\ r.from % 2 = 0 /\ r.from < NoEnd
         /\ r.from < boundary => InFiles(r, Len(cold))
         /\ r.from >= boundary => r \in hot
<1>1. IsRow(table, r)
  BY VisibleFinite
<1>2. r.from \in Nat /\ r.from % 2 = 0 /\ r.from < NoEnd
  BY <1>1, RowFrom, PredicatesAssumption DEF NoEnd
<1>3. boundary \in Nat
  BY DEF StoreOk
<1>4. ASSUME r.from < boundary PROVE InFiles(r, Len(cold))
  <2>1. r \in ColdRows
    BY <1>2, <1>3, <1>4 DEF Visible
  <2> QED BY <2>1, InColdRows, ColdLength DEF InFiles
<1>5. ASSUME r.from >= boundary PROVE r \in hot
  <2>1. r \notin ColdRows
    BY <1>2, <1>3, <1>5, ColdBelow
  <2> QED BY <2>1 DEF Visible
<1> QED BY <1>1, <1>2, <1>4, <1>5

\* The boundary is an instant of the grid.
LEMMA BoundaryEven ==
  ASSUME StoreOk
  PROVE  boundary \in Nat /\ boundary % 2 = 0
BY Grid DEF StoreOk

\* What a scan of the cold half finds.
LEMMA ScanFinds ==
  ASSUME StoreOk, NEW q \in Readers, QueryShape(q), query[q].pc \in {"cold", "hot"}
  PROVE  Scanned(q, ScannedCold(q, FilesRead(q), Halves(q).cold))
<1> DEFINE items == ScannedCold(q, FilesRead(q), Halves(q).cold)
           mode == query[q].question.mode
<1>1. Len(cold) \in Nat /\ DOMAIN cold = 1..Len(cold) /\ boundary \in Nat
  BY ColdLength, BoundaryEven
<1>2. FilesRead(q) \in Nat /\ FilesRead(q) <= Len(cold)
  BY <1>1 DEF FilesRead, QueryShape, Asked
<1>3. ColdItems(FilesRead(q)) \subseteq ColdItems(Len(cold))
  <2>1. \A f \in 1..FilesRead(q) : f \in 1..Len(cold)
    BY <1>1, <1>2
  <2> QED BY <2>1 DEF ColdItems
<1>4. items \subseteq ColdItems(Len(cold)) /\ \A i \in items : RowsAskedFor(Halves(q).cold, i.row.from)
  BY <1>3 DEF ScannedCold
<1>5. ASSUME NEW r \in query[q].began, r.from < query[q].label, RowsAskedFor(Halves(q).cold, r.from),
             BelowCeiling(mode, r)
      PROVE  \E i \in items : i.row = r
  <2>1. InFiles(r, FilesRead(q))
    <3>1. CASE mode.kind = "AsOf"
      BY <3>1, <1>5 DEF FilesRead, QueryShape, Asked
    <3>2. CASE mode.kind # "AsOf"
      <4>1. r \in Visible /\ query[q].label \in Nat /\ query[q].label <= boundary
        BY <1>5 DEF QueryShape, Asked
      <4>2. r.from < boundary
        BY <4>1, <1>1, <1>5, VisibleRow
      <4> QED BY <3>2, <4>1, <4>2, VisibleRow DEF FilesRead
    <3> QED BY <3>1, <3>2
  <2>2. PICK f \in 1..FilesRead(q) : \E k \in DOMAIN cold[f] : r = cold[f][k]
    BY <2>1 DEF InFiles
  <2>3. PICK k \in DOMAIN cold[f] : r = cold[f][k]
    BY <2>2
  <2>4. Item(<<f, k>>, r) \in ColdItems(FilesRead(q)) /\ Item(<<f, k>>, r).row = r
    BY <1>2, <2>3, ItemsIn DEF Item
  <2>5. Item(<<f, k>>, r) \in items
    BY <1>5, <2>4 DEF ScannedCold
  <2> QED BY <2>4, <2>5
<1> HIDE DEF items
<1>6. Scanned(q, items)
  BY <1>4, <1>5 DEF Scanned
<1> QED BY <1>6 DEF items

\* A question of the scene.
LEMMA SceneQuestion ==
  ASSUME scene \in Scenes, NEW question \in scene.questions
  PROVE  IsQuestion(question)
BY QueriesAssumption

\* A question that is asked holds what was visible then.
LEMMA AskShape ==
  ASSUME StoreOk, QueriesOk, NEW q \in Readers, NEW question \in scene.questions, Ask(q, question)
  PROVE  QueryShape(q)'
<1> DEFINE c == [pc |-> IF Askable(question) THEN "label" ELSE "refused", question |-> question,
                 files |-> Len(cold), pinned |-> boundary, began |-> Visible,
                 probe |-> LatestProbeBound(question, boundary),
                 label |-> 0, items |-> {}, answer |-> {}, result |-> {}]
<1>1. query'[q] = c /\ scene' = scene /\ cold' = cold /\ boundary' = boundary /\ hot' = hot
  BY DEF Ask, QueriesOk, writeVars
<1>2. DOMAIN c = QueryFields
  BY DEF QueryFields
<1>3. Len(cold) \in Nat /\ boundary \in Nat /\ boundary % 2 = 0
  BY ColdLength, BoundaryEven
<1>4. IsProbe(c.probe) /\ (c.probe # {} => question.fold = "latest")
  BY <1>3 DEF IsProbe, LatestProbeBound
<1>5. \A r \in Visible : r.from < boundary => InFiles(r, Len(cold))
  BY VisibleRow
<1>6. Visible' = Visible /\ (Askable(question)' <=> Askable(question)) /\ \A r, n : InFiles(r, n)' <=> InFiles(r, n)
  BY <1>1 DEF Visible, ColdRows, Askable, ScopeAllowed, Filterable, table, InFiles
<1>7. /\ c.pc = (IF Askable(question) THEN "label" ELSE "refused") /\ c.question = question
      /\ c.files = Len(cold) /\ c.pinned = boundary /\ c.began = Visible
  OBVIOUS
<1> HIDE DEF c
<1> QED BY <1>1, <1>2, <1>3, <1>4, <1>5, <1>6, <1>7 DEF QueryShape, Asked

\* A step of a query's own that leaves the store alone.
LEMMA OwnQuery ==
  ASSUME StoreOk, NEW q \in Readers, QueryShape(q), query[q].pc \in Asked, UNCHANGED writeVars,
         NEW c, query'[q] = c, DOMAIN c = QueryFields,
         c.question = query[q].question, c.files = query[q].files, c.pinned = query[q].pinned,
         c.began = query[q].began, c.probe = query[q].probe \/ c.probe = {},
         c.pc \in Asked,
         c.pc \in {"cold", "hot", "done"} =>
           /\ c.label \in Nat /\ c.label % 2 = 0 /\ c.label <= boundary
           /\ c.question.mode.kind = "AsOf" => c.label = c.pinned,
         c.pc \in {"cold", "hot"} /\ c.question.mode.kind # "AsOf" =>
           \A r \in c.began : r.from >= c.label => r \in hot,
         c.pc = "hot" => Scanned(q, c.items)'
  PROVE  QueryShape(q)'
<1>1. scene' = scene /\ cold' = cold /\ boundary' = boundary /\ hot' = hot
  BY DEF writeVars
<1>2. /\ query[q].question \in scene.questions /\ Askable(query[q].question)
      /\ IsProbe(query[q].probe) /\ (query[q].probe # {} => query[q].question.fold = "latest")
      /\ query[q].files \in Nat /\ query[q].files <= Len(cold)
      /\ query[q].pinned \in Nat /\ query[q].pinned % 2 = 0 /\ query[q].pinned <= boundary
      /\ query[q].began \subseteq Visible
      /\ \A r \in query[q].began : r.from < query[q].pinned => InFiles(r, query[q].files)
  BY DEF QueryShape
<1>3. Visible' = Visible
  BY <1>1 DEF Visible, ColdRows
<1>4. Askable(c.question)' <=> Askable(c.question)
  BY <1>1 DEF Askable, ScopeAllowed, Filterable, table
<1>5. \A r, n : InFiles(r, n)' <=> InFiles(r, n)
  BY <1>1 DEF InFiles
<1>6. IsProbe(c.probe) /\ (c.probe # {} => c.question.fold = "latest")
  BY <1>2 DEF IsProbe
<1>7. /\ c.question \in scene'.questions /\ Askable(c.question)'
      /\ c.files \in Nat /\ c.files <= Len(cold')
      /\ c.pinned \in Nat /\ c.pinned % 2 = 0 /\ c.pinned <= boundary'
      /\ c.began \subseteq Visible'
      /\ \A r \in c.began : r.from < c.pinned => InFiles(r, c.files)'
  BY <1>1, <1>2, <1>3, <1>4, <1>5
<1> QED BY <1>1, <1>6, <1>7 DEF QueryShape

-----------------------------------------------------------------------------
(* The steps of a query.                                                   *)

\* What holds at every moment of the store, of the writes and of the queries.
QueriesInv == WritesInv /\ StoreKept /\ QueriesOk

\* A query reads the boundary it is planned at once.
LEMMA BoundaryShape ==
  ASSUME StoreOk, QueriesOk, NEW q \in Readers, ReadBoundary(q)
  PROVE  QueryShape(q)'
<1> DEFINE mode == query[q].question.mode
           c == [query[q] EXCEPT !.pc = "cold", !.label = IF mode.kind = "AsOf" THEN query[q].pinned ELSE boundary]
<1>1. /\ query[q].pc \in Asked /\ QueryShape(q) /\ DOMAIN query[q] = QueryFields
      /\ query[q].pinned \in Nat /\ query[q].pinned % 2 = 0 /\ query[q].pinned <= boundary
      /\ query[q].began \subseteq Visible
  BY DEF ReadBoundary, QueriesOk, QueryShape, Asked
<1>2. query'[q] = c /\ UNCHANGED writeVars
  BY DEF ReadBoundary, QueriesOk
<1>3. /\ c.pc = "cold" /\ c.question = query[q].question /\ c.files = query[q].files
      /\ c.pinned = query[q].pinned /\ c.began = query[q].began /\ c.probe = query[q].probe
      /\ c.label = (IF mode.kind = "AsOf" THEN query[q].pinned ELSE boundary)
      /\ DOMAIN c = QueryFields
  BY <1>1 DEF QueryFields
<1>4. boundary \in Nat /\ boundary % 2 = 0
  BY BoundaryEven
<1>5. \A r \in query[q].began : r.from >= boundary => r \in hot
  BY <1>1, VisibleRow
<1> HIDE DEF c
<1> QED BY <1>1, <1>2, <1>3, <1>4, <1>5, OwnQuery DEF Asked

\* The cold scan finds what was there when the question was asked.
LEMMA ColdScanShape ==
  ASSUME StoreOk, QueriesOk, NEW q \in Readers, ScanCold(q)
  PROVE  QueryShape(q)'
<1>1. query[q].pc = "cold" /\ query[q].pc \in Asked /\ QueryShape(q) /\ DOMAIN query[q] = QueryFields
  BY DEF ScanCold, QueriesOk, QueryShape, Asked
<1>2. PICK found : found = ScannedCold(q, FilesRead(q), Halves(q).cold)
  OBVIOUS
<1>3. PICK c : c = [query[q] EXCEPT !.pc = "hot", !.items = found]
  OBVIOUS
<1>4. query'[q] = c /\ UNCHANGED writeVars
  BY <1>2, <1>3 DEF ScanCold, QueriesOk, Halves
<1>5. /\ c.pc = "hot" /\ c.question = query[q].question /\ c.files = query[q].files
      /\ c.pinned = query[q].pinned /\ c.began = query[q].began /\ c.probe = query[q].probe
      /\ c.label = query[q].label /\ c.items = found /\ DOMAIN c = QueryFields
  BY <1>1, <1>3 DEF QueryFields
<1>6. Scanned(q, found)
  BY <1>1, <1>2, ScanFinds
<1>7. cold' = cold
  BY <1>4 DEF writeVars
<1>8. Halves(q)' = Halves(q)
  BY <1>4, <1>5 DEF Halves, SplitAt, WatermarkFor
<1>9. ColdItems(Len(cold))' = ColdItems(Len(cold))
  BY <1>7 DEF ColdItems
<1>10. Scanned(q, c.items)'
  BY <1>4, <1>5, <1>6, <1>8, <1>9 DEF Scanned
<1>11. /\ c.label \in Nat /\ c.label % 2 = 0 /\ c.label <= boundary
       /\ c.question.mode.kind = "AsOf" => c.label = c.pinned
       /\ c.question.mode.kind # "AsOf" => \A r \in c.began : r.from >= c.label => r \in hot
  BY <1>1, <1>5 DEF QueryShape
<1> QED BY <1>1, <1>4, <1>5, <1>10, <1>11, OwnQuery DEF Asked

\* An answer ends the query, or begins it again without its probe.
LEMMA AnswerShape ==
  ASSUME StoreOk, QueriesOk, NEW q \in Readers, Answer(q)
  PROVE  QueryShape(q)'
<1> DEFINE items  == AnswerItems(q, SplitAt(q, WatermarkFor(q)))
           result == ResultOf(query[q].question.fold, items)
           pc     == IF result = {} THEN "refused" ELSE "done"
           c == IF FallsThrough(q, items)
                  THEN [query[q] EXCEPT !.pc = "label", !.probe = {}, !.items = {}]
                  ELSE [query[q] EXCEPT !.pc = pc, !.items = {}, !.answer = items, !.result = result]
<1>1. query[q].pc = "hot" /\ query[q].pc \in Asked /\ QueryShape(q) /\ DOMAIN query[q] = QueryFields
  BY DEF Answer, QueriesOk, QueryShape, Asked
<1>2. query'[q] = c /\ UNCHANGED writeVars
  BY DEF Answer, QueriesOk
<1> HIDE DEF items, result
<1>3. /\ c.pc \in {"label", "done", "refused"} /\ c.question = query[q].question /\ c.files = query[q].files
      /\ c.pinned = query[q].pinned /\ c.began = query[q].began /\ (c.probe = query[q].probe \/ c.probe = {})
      /\ c.label = query[q].label /\ DOMAIN c = QueryFields
  BY <1>1 DEF QueryFields
<1> HIDE DEF c
<1>4. CASE c.pc = "refused"
  BY <1>2, <1>4 DEF QueryShape, Asked
<1>5. CASE c.pc \in {"label", "done"}
  <2>1. /\ c.label \in Nat /\ c.label % 2 = 0 /\ c.label <= boundary
        /\ c.question.mode.kind = "AsOf" => c.label = c.pinned
    BY <1>1, <1>3 DEF QueryShape
  <2> QED BY <1>1, <1>2, <1>3, <1>5, <2>1, OwnQuery DEF Asked
<1> QED BY <1>3, <1>4, <1>5

\* A query step of one reader.
LEMMA ReaderSteps ==
  ASSUME StoreOk, QueriesOk, NEW q \in Readers,
         (\E question \in scene.questions : Ask(q, question)) \/ ReadBoundary(q) \/ ScanCold(q) \/ Answer(q)
  PROVE  QueryShape(q)' /\ DOMAIN query' = Readers /\ \A p \in Readers : p # q => query'[p] = query[p]
<1>1. QueryShape(q)'
  BY AskShape, BoundaryShape, ColdScanShape, AnswerShape
<1>2. DOMAIN query' = Readers /\ \A p \in Readers : p # q => query'[p] = query[p]
  BY DEF Ask, ReadBoundary, ScanCold, Answer, QueriesOk
<1> QED BY <1>1, <1>2

\* The invariant holds of the scenes.
LEMMA QueriesStart == QInit => QueriesInv
<1> SUFFICES ASSUME QInit PROVE QueriesInv
  OBVIOUS
<1>1. QueriesOk
  BY DEF QInit, QueriesOk, QueryShape, Silent, Asked
<1> QED BY <1>1, WritesStart, StoreKeptStart DEF QueriesInv

\* Every step keeps it.
LEMMA QueriesStep == QueriesInv /\ [Next]_vars => QueriesInv'
<1> SUFFICES ASSUME QueriesInv, [Next]_vars PROVE QueriesInv'
  OBVIOUS
<1>1. WritesInv /\ StoreKept /\ QueriesOk /\ StoreOk /\ WritesInv'
  BY WritesStep DEF QueriesInv, WritesInv
<1>2. CASE UNCHANGED vars
  <2>1. StoreKept'
    BY <1>1, <1>2 DEF vars, StoreKept, ColdRows, SameVersion, Again, table
  <2>2. QueriesOk'
    <3>1. query' = query /\ scene' = scene /\ cold' = cold /\ hot' = hot /\ boundary' = boundary
      BY <1>2 DEF vars
    <3> SUFFICES ASSUME NEW q \in Readers PROVE QueryShape(q)'
      BY <1>1, <3>1 DEF QueriesOk
    <3>2. StoreOk /\ StoreOk'
      BY <1>1 DEF WritesInv
    <3>3. boundary \in Nat /\ Len(cold) \in Nat
      BY <3>2, ColdLength, BoundaryEven
    <3>4. StoreGrows
      BY <3>1, <3>3 DEF StoreGrows, table, Visible, ColdRows, StoredRows
    <3>5. QueryShape(q) /\ query'[q] = query[q] /\ hot \subseteq hot'
      BY <1>1, <3>1 DEF QueriesOk
    <3> QED BY <3>2, <3>4, <3>5, QueryStays
  <2> QED BY <1>1, <2>1, <2>2 DEF QueriesInv
<1>3. CASE Next
  <2>1. /\ StoreKept' /\ StoreGrows /\ StoreOk'
        /\ hot \subseteq hot' \/ (Reclaim /\ boundary' = boundary /\ \A r \in hot : r.from >= boundary => r \in hot')
    BY <1>1, <1>3, StoreSteps
  <2>2. CASE query' = query
    <3>1. \A q \in Readers : QueryShape(q)'
      BY <1>1, <2>1, <2>2, QueryStays DEF QueriesOk
    <3> QED BY <1>1, <2>1, <2>2, <3>1 DEF QueriesInv, QueriesOk
  <2>3. ASSUME NEW q \in Readers,
               (\E question \in scene.questions : Ask(q, question)) \/ ReadBoundary(q) \/ ScanCold(q) \/ Answer(q)
        PROVE  QueriesInv'
    <3>1. QueryShape(q)' /\ DOMAIN query' = Readers /\ \A p \in Readers : p # q => query'[p] = query[p]
      BY <1>1, <2>3, ReaderSteps
    <3>2. \A p \in Readers : p # q => QueryShape(p)'
      BY <1>1, <2>1, <3>1, QueryStays DEF QueriesOk
    <3> QED BY <1>1, <2>1, <3>1, <3>2 DEF QueriesInv, QueriesOk
  <2>4. \/ query' = query
        \/ \E q \in Readers :
             (\E question \in scene.questions : Ask(q, question)) \/ ReadBoundary(q) \/ ScanCold(q) \/ Answer(q)
    BY <1>3 DEF Next, queryVars
  <2> QED BY <2>2, <2>3, <2>4
<1> QED BY <1>2, <1>3

-----------------------------------------------------------------------------
(* What the scans bring.                                                   *)

\* The range a query is planned for.
Planned(q) == PlannedRange(query[q].question, query[q].probe)

\* What a read mode leaves of a split.
LEMMA HalvesAre ==
  ASSUME StoreOk, NEW q \in Readers, QueryShape(q), query[q].pc \in {"cold", "hot"}
  PROVE  LET s == Planned(q).start
             e == Planned(q).end
             whole == Split(TimeRange(s, e), query[q].label)
             kind == query[q].question.mode.kind
         IN /\ IsQuestion(query[q].question) /\ IsProbe(query[q].probe)
            /\ s \in Int /\ e \in Int /\ query[q].label \in Nat /\ query[q].label % 2 = 0
            /\ Halves(q).cold = (IF kind = "Operational" THEN {} ELSE whole.cold)
            /\ Halves(q).hot = (IF kind \in {"Historical", "AsOf"} THEN {} ELSE whole.hot)
<1> DEFINE s == Planned(q).start
           e == Planned(q).end
           label == query[q].label
           whole == Split(TimeRange(s, e), label)
           mode == query[q].question.mode
<1>1. IsQuestion(query[q].question) /\ IsProbe(query[q].probe) /\ label \in Nat /\ label % 2 = 0
  BY SceneQuestion DEF QueryShape, Asked, StoreOk
<1>2. s \in Int /\ e \in Int /\ Planned(q) = TimeRange(s, e)
  BY <1>1, PlannedEnds DEF Planned, TimeRange
<1>3. DOMAIN whole = {"cold", "hot"}
  BY <1>1, <1>2, SplitIs
<1>4. Halves(q) = ModeApply(mode, whole)
  BY <1>2 DEF Halves, SplitAt, WatermarkFor, Planned
<1> HIDE DEF whole, mode
<1>5. /\ ModeApply(mode, whole).cold = (IF mode.kind = "Operational" THEN {} ELSE whole.cold)
      /\ ModeApply(mode, whole).hot = (IF mode.kind \in {"Historical", "AsOf"} THEN {} ELSE whole.hot)
  <2>1. CASE mode.kind = "Operational"
    BY <1>3, <2>1 DEF ModeApply
  <2>2. CASE mode.kind \in {"Historical", "AsOf"}
    BY <1>3, <2>2 DEF ModeApply
  <2>3. CASE mode.kind \notin {"Historical", "AsOf", "Operational"}
    BY <1>3, <2>3 DEF ModeApply
  <2> QED BY <2>1, <2>2, <2>3
<1> QED BY <1>1, <1>2, <1>4, <1>5 DEF whole, mode

\* Which half an instant is asked of.
LEMMA HalvesAsked ==
  ASSUME StoreOk, NEW q \in Readers, QueryShape(q), query[q].pc \in {"cold", "hot"},
         NEW t \in Nat, t < NoEnd
  PROVE  LET kind == query[q].question.mode.kind
             label == query[q].label
         IN /\ RowsAskedFor(Halves(q).cold, t) =>
                 t < label /\ Halves(q).cold = {TimeRange(Planned(q).start, Earlier(Planned(q).end, label))}
            /\ RowsAskedFor(Halves(q).hot, t) => t >= label /\ kind \notin {"Historical", "AsOf"} /\ Halves(q).hot # {}
            /\ Planned(q).start <= t /\ t < Planned(q).end - (Planned(q).end % 2) =>
                 /\ t < label /\ kind # "Operational" => RowsAskedFor(Halves(q).cold, t)
                 /\ t >= label /\ kind \notin {"Historical", "AsOf"} => RowsAskedFor(Halves(q).hot, t)
<1> DEFINE s == Planned(q).start
           e == Planned(q).end
           label == query[q].label
           whole == Split(TimeRange(s, e), label)
           kind == query[q].question.mode.kind
<1>1. /\ s \in Int /\ e \in Int /\ label \in Nat /\ label % 2 = 0
      /\ Halves(q).cold = (IF kind = "Operational" THEN {} ELSE whole.cold)
      /\ Halves(q).hot = (IF kind \in {"Historical", "AsOf"} THEN {} ELSE whole.hot)
  BY HalvesAre
<1>2. ~RowsAskedFor({}, t)
  BY DEF RowsAskedFor
<1>3. /\ RowsAskedFor(whole.cold, t) => t < label /\ whole.cold = {TimeRange(s, Earlier(e, label))}
      /\ RowsAskedFor(whole.hot, t) => t >= label
  BY <1>1, SplitSides
<1>4. s <= t /\ t < e - (e % 2) =>
        (t < label => RowsAskedFor(whole.cold, t)) /\ (t >= label => RowsAskedFor(whole.hot, t))
  BY <1>1, SplitHolds
<1> HIDE DEF s, e, whole, kind
<1>5. /\ RowsAskedFor(Halves(q).cold, t) => t < label /\ Halves(q).cold = {TimeRange(s, Earlier(e, label))}
      /\ RowsAskedFor(Halves(q).hot, t) => t >= label /\ kind \notin {"Historical", "AsOf"} /\ Halves(q).hot # {}
  BY <1>1, <1>2, <1>3
<1>6. s <= t /\ t < e - (e % 2) =>
        /\ t < label /\ kind # "Operational" => RowsAskedFor(Halves(q).cold, t)
        /\ t >= label /\ kind \notin {"Historical", "AsOf"} => RowsAskedFor(Halves(q).hot, t)
  BY <1>1, <1>4
<1> QED BY <1>5, <1>6 DEF s, e, kind

-----------------------------------------------------------------------------

\* Finitely many items are in the files.
LEMMA ItemsFinite ==
  ASSUME StoreOk
  PROVE  IsFiniteSet(ColdItems(Len(cold)))
<1> DEFINE at(f) == {Item(<<f, k>>, cold[f][k]) : k \in DOMAIN cold[f]}
           g == [f \in DOMAIN cold |-> at(f)]
           F == {g[f] : f \in DOMAIN cold}
<1>1. Len(cold) \in Nat /\ DOMAIN cold = 1..Len(cold)
  BY ColdLength
<1>2. IsFiniteSet(DOMAIN cold)
  BY <1>1, FS_Interval
<1>3. IsFiniteSet(F)
  <2> HIDE DEF g
  <2> QED BY <1>2, ImageFinite
<1>4. ASSUME NEW f \in DOMAIN cold PROVE IsFiniteSet(g[f])
  <2> DEFINE h == [k \in DOMAIN cold[f] |-> Item(<<f, k>>, cold[f][k])]
  <2>1. Len(cold[f]) \in Nat /\ DOMAIN cold[f] = 1..Len(cold[f])
    BY <1>4 DEF StoreOk, ColdFilesOk, Listing
  <2>2. IsFiniteSet(DOMAIN cold[f])
    BY <2>1, FS_Interval
  <2>3. g[f] = {h[k] : k \in DOMAIN cold[f]}
    BY <1>4
  <2> HIDE DEF h, g
  <2> QED BY <2>2, <2>3, ImageFinite
<1>5. ColdItems(Len(cold)) = UNION F
  BY <1>1 DEF ColdItems
<1> HIDE DEF g
<1> QED BY <1>3, <1>4, <1>5, FS_UNION

\* What the items of an answer are taken from: rows of the half they are asked of, each
\* half whole.
FoundIn(q, items) ==
  /\ ItemsOk(items)
  /\ \A i \in items :
       \/ i \in ColdItems(Len(cold)) /\ RowsAskedFor(Halves(q).cold, i.row.from)
       \/ i.row \in hot /\ i = Item(<<0, 0>>, i.row) /\ RowsAskedFor(Halves(q).hot, i.row.from)
  /\ \A r \in Universe(q) :
       RowsAskedFor(Halves(q).cold, r.from) \/ RowsAskedFor(Halves(q).hot, r.from) =>
         \E i \in items : i.row = r

\* What a mode admits is in the half it reads.
LEMMA AdmittedByMode ==
  ASSUME NEW q, NEW r \in Universe(q)
  PROVE  LET mode == query[q].question.mode
         IN /\ r \in query[q].began /\ BelowCeiling(mode, r)
            /\ mode.kind \in {"Historical", "AsOf"} => r.from < query[q].label
            /\ mode.kind = "Operational" => r.from >= query[q].label
            /\ mode.kind = "AsKnownAt" => r.rec <= mode.at
<1> DEFINE mode == query[q].question.mode
<1>1. CASE mode.kind = "Historical"
  BY <1>1 DEF Universe, BelowCeiling
<1>2. CASE mode.kind = "Operational"
  BY <1>2 DEF Universe, BelowCeiling
<1>3. CASE mode.kind = "AsOf"
  BY <1>3 DEF Universe, BelowCeiling
<1>4. CASE mode.kind = "AsKnownAt"
  BY <1>4 DEF Universe, BelowCeiling
<1>5. CASE mode.kind \notin {"Historical", "Operational", "AsOf", "AsKnownAt"}
  BY <1>5 DEF Universe, BelowCeiling
<1> QED BY <1>1, <1>2, <1>3, <1>4, <1>5

\* What is scanned is what is asked for.
LEMMA ItemsFound ==
  ASSUME StoreOk, NEW q \in Readers, QueryShape(q), query[q].pc = "hot"
  PROVE  FoundIn(q, ScannedItems(q, Halves(q)))
<1> DEFINE items == ScannedItems(q, Halves(q))
           again == ScannedCold(q, FilesRead(q), Halves(q).cold)
           both == query[q].items \cup ScannedHot(Halves(q).hot)
           kind == query[q].question.mode.kind
<1>1. \/ items = again /\ Halves(q).hot = {}
      \/ items = both
  BY DEF ScannedItems
<1>2. Scanned(q, again) /\ Scanned(q, query[q].items)
  BY ScanFinds DEF QueryShape
<1>3. IsFiniteSet(ColdItems(Len(cold))) /\ IsFiniteSet(hot)
  BY ItemsFinite DEF StoreOk
<1>4. ScannedHot(Halves(q).hot) = {Item(<<0, 0>>, r) : r \in {s \in hot : RowsAskedFor(Halves(q).hot, s.from)}}
  BY DEF ScannedHot
<1>5. IsFiniteSet(ScannedHot(Halves(q).hot))
  <2> DEFINE T == {s \in hot : RowsAskedFor(Halves(q).hot, s.from)}
             h == [r \in T |-> Item(<<0, 0>>, r)]
  <2>1. IsFiniteSet(T)
    BY <1>3, FS_Subset
  <2>2. ScannedHot(Halves(q).hot) = {h[r] : r \in T}
    BY <1>4
  <2> HIDE DEF h, T
  <2> QED BY <2>1, <2>2, ImageFinite
<1>6. \A i \in ScannedHot(Halves(q).hot) :
        i.row \in hot /\ i = Item(<<0, 0>>, i.row) /\ RowsAskedFor(Halves(q).hot, i.row.from)
  BY <1>4 DEF Item
<1>7. ASSUME NEW r \in hot, RowsAskedFor(Halves(q).hot, r.from)
      PROVE  \E i \in ScannedHot(Halves(q).hot) : i.row = r
  <2>1. Item(<<0, 0>>, r) \in ScannedHot(Halves(q).hot)
    BY <1>4, <1>7
  <2> QED BY <2>1 DEF Item
<1>8. \A r \in hot : IsRow(table, r)
  BY DEF StoreOk
<1> HIDE DEF items, again, both
<1>9. items \subseteq ColdItems(Len(cold)) \cup ScannedHot(Halves(q).hot)
  BY <1>1, <1>2 DEF Scanned, both
<1>10. ItemsOk(items)
  <2>1. IsFiniteSet(items)
    BY <1>3, <1>5, <1>9, FS_Union, FS_Subset
  <2> QED BY <1>6, <1>8, <1>9, <2>1, ItemRow DEF ItemsOk
<1>11. \A i \in items :
         \/ i \in ColdItems(Len(cold)) /\ RowsAskedFor(Halves(q).cold, i.row.from)
         \/ i.row \in hot /\ i = Item(<<0, 0>>, i.row) /\ RowsAskedFor(Halves(q).hot, i.row.from)
  BY <1>1, <1>2, <1>6 DEF Scanned, both
<1>12. ASSUME NEW r \in Universe(q), RowsAskedFor(Halves(q).cold, r.from) \/ RowsAskedFor(Halves(q).hot, r.from)
       PROVE  \E i \in items : i.row = r
  <2>1. r \in query[q].began /\ BelowCeiling(query[q].question.mode, r)
    BY AdmittedByMode
  <2>2. r \in Visible
    BY <2>1 DEF QueryShape, Asked
  <2>3. r.from \in Nat /\ r.from < NoEnd
    BY <2>2, VisibleRow
  <2>4. CASE RowsAskedFor(Halves(q).cold, r.from)
    <3>1. r.from < query[q].label
      BY <2>3, <2>4, HalvesAsked
    <3>2. (\E i \in again : i.row = r) /\ \E i \in query[q].items : i.row = r
      BY <1>2, <2>1, <2>4, <3>1 DEF Scanned
    <3> QED BY <1>1, <3>2 DEF both
  <2>5. CASE RowsAskedFor(Halves(q).hot, r.from)
    <3>1. r.from >= query[q].label /\ kind # "AsOf" /\ Halves(q).hot # {}
      BY <2>3, <2>5, HalvesAsked
    <3>2. r \in hot
      BY <2>1, <3>1 DEF QueryShape
    <3> QED BY <1>1, <1>7, <2>5, <3>1, <3>2 DEF both
  <2> QED BY <1>12, <2>4, <2>5
<1> QED BY <1>10, <1>11, <1>12 DEF FoundIn, items

-----------------------------------------------------------------------------
(* Answers.                                                                *)

\* The stages of an answer: what the scans bring, what the versions leave of it, and what
\* of that is wanted.
Brought(q) == {i \in ScannedItems(q, Halves(q)) : Enforced(query[q].question, i.row)}

Unresolved(q) == query[q].question.relation = "raw" \/ ProvenPlain(q, Halves(q))

Chosen(q) == IF Unresolved(q) THEN Brought(q) ELSE Resolve(Brought(q))

Fitting(q) == {i \in Chosen(q) : Wanted(query[q].question, query[q].probe, i.row)}

\* What is answered is what fits, or the newest of it.
LEMMA AnswerIs ==
  ASSUME NEW q
  PROVE  AnswerItems(q, Halves(q)) = IF query[q].question.fold = "latest" THEN Newest(Fitting(q)) ELSE Fitting(q)
BY DEF AnswerItems, Fitting, Chosen, Unresolved, Brought

\* What is chosen is brought, and outranked by nothing that is.
LEMMA ChosenIs ==
  ASSUME StoreOk, NEW q \in Readers, QueryShape(q), query[q].pc = "hot"
  PROVE  /\ ItemsOk(Brought(q)) /\ ItemsOk(Chosen(q)) /\ ItemsOk(Fitting(q))
         /\ Fitting(q) \subseteq Chosen(q) /\ Chosen(q) \subseteq Brought(q)
         /\ \A i \in Chosen(q) : ~Unresolved(q) =>
              \A k \in Brought(q) : Contender(k.row) = Contender(i.row) => ~Outranks(k.row, i.row)
         /\ \A i, j \in Chosen(q) : ~Unresolved(q) /\ Contender(i.row) = Contender(j.row) => i = j
         /\ \A i \in Brought(q) : \E j \in Chosen(q) :
              /\ Contender(j.row) = Contender(i.row)
              /\ ~Outranks(i.row, j.row) \/ j = i
<1>1. FoundIn(q, ScannedItems(q, Halves(q)))
  BY ItemsFound
<1>2. ItemsOk(Brought(q))
  BY <1>1, FS_Subset DEF FoundIn, ItemsOk, Brought
<1>3. /\ \A j \in Resolve(Brought(q)) : j \in Brought(q)
          /\ \A k \in Brought(q) : Contender(k.row) = Contender(j.row) => ~Outranks(k.row, j.row)
      /\ \A i \in Brought(q) : \E j \in Resolve(Brought(q)) : Contender(j.row) = Contender(i.row)
      /\ \A j, k \in Resolve(Brought(q)) : Contender(j.row) = Contender(k.row) => j = k
  BY <1>2, ResolveIs
<1>4. Chosen(q) \subseteq Brought(q) /\ Fitting(q) \subseteq Chosen(q)
  BY <1>3 DEF Chosen, Fitting
<1>5. ItemsOk(Chosen(q)) /\ ItemsOk(Fitting(q))
  BY <1>2, <1>4, FS_Subset DEF ItemsOk
<1>6. CASE Unresolved(q)
  <2>1. Chosen(q) = Brought(q)
    BY <1>6 DEF Chosen
  <2> QED BY <1>2, <1>4, <1>5, <1>6, <2>1
<1>7. CASE ~Unresolved(q)
  <2>1. Chosen(q) = Resolve(Brought(q))
    BY <1>7 DEF Chosen
  <2> QED BY <1>2, <1>3, <1>4, <1>5, <1>7, <2>1
<1> QED BY <1>6, <1>7

\* Where a row lies that was brought.
LEMMA BroughtRow ==
  ASSUME StoreOk, NEW q \in Readers, QueryShape(q), query[q].pc = "hot", NEW i \in Brought(q)
  PROVE  /\ IsRow(table, i.row) /\ i.row \in StoredRows /\ Enforced(query[q].question, i.row)
         /\ i.row.from \in Nat /\ i.row.from < NoEnd
         /\ RowsAskedFor(Halves(q).cold, i.row.from) \/ RowsAskedFor(Halves(q).hot, i.row.from)
         /\ Halves(q).hot = {} => i \in ColdItems(Len(cold)) /\ RowsAskedFor(Halves(q).cold, i.row.from)
<1>1. FoundIn(q, ScannedItems(q, Halves(q))) /\ i \in ScannedItems(q, Halves(q))
  BY ItemsFound DEF Brought
<1>2. IsRow(table, i.row) /\ Enforced(query[q].question, i.row)
  BY <1>1 DEF FoundIn, ItemsOk, Brought
<1>3. i.row.from \in Nat /\ i.row.from < NoEnd
  BY <1>2, RowFrom, PredicatesAssumption DEF NoEnd
<1>4. \/ i \in ColdItems(Len(cold)) /\ RowsAskedFor(Halves(q).cold, i.row.from)
      \/ i.row \in hot /\ RowsAskedFor(Halves(q).hot, i.row.from)
  BY <1>1 DEF FoundIn
<1>5. i.row \in StoredRows
  BY <1>4, ItemRow DEF StoredRows
<1>6. ~RowsAskedFor({}, i.row.from)
  BY DEF RowsAskedFor
<1> QED BY <1>2, <1>3, <1>4, <1>5, <1>6

\* What was in force when the question was asked, and still is, is in the answer.
LEMMA WholeAnswer ==
  ASSUME StoreOk, NEW q \in Readers, QueryShape(q), query[q].pc = "hot",
         ~FallsThrough(q, AnswerItems(q, Halves(q))),
         NEW r \in Universe(q), AsksFor(query[q].question, r), ~Overtaken(r), ~AtCutEnd(query[q].question, r)
  PROVE  \E i \in AnswerItems(q, Halves(q)) :
           SameVersion(i.row, r) \/ (query[q].question.fold = "latest" /\ i.row.from >= r.from)
<1> DEFINE question == query[q].question
           probe == query[q].probe
<1>1. r \in query[q].began /\ r \in Visible
  BY AdmittedByMode DEF QueryShape, Asked
<1>2. IsRow(table, r) /\ r.from \in Nat /\ r.from < NoEnd
  BY <1>1, VisibleRow
<1>3. IsQuestion(question) /\ IsProbe(probe) /\ (probe # {} => question.fold = "latest")
  BY SceneQuestion DEF QueryShape, Asked, StoreOk
<1>4. /\ ItemsOk(Fitting(q)) /\ Fitting(q) \subseteq Chosen(q) /\ Chosen(q) \subseteq Brought(q)
      /\ \A i \in Brought(q) : \E j \in Chosen(q) :
           Contender(j.row) = Contender(i.row) /\ (~Outranks(i.row, j.row) \/ j = i)
  BY ChosenIs
<1>5. /\ question.fold # "latest" => AnswerItems(q, Halves(q)) = Fitting(q)
      /\ question.fold = "latest" => AnswerItems(q, Halves(q)) = Newest(Fitting(q))
  BY AnswerIs
<1>6. question.fold = "latest" /\ Fitting(q) # {} =>
        \E i \in Fitting(q) : AnswerItems(q, Halves(q)) = {i} /\ \A j \in Fitting(q) : j.row.from <= i.row.from
  BY <1>4, <1>5, NewestIs DEF StoreOk
<1>7. \A i \in Fitting(q) : i.row.from \in Nat /\ Wanted(question, probe, i.row)
  BY <1>4, RowFrom DEF ItemsOk, Fitting
<1>8. CASE \E bound \in probe : ~(r.from >= bound)
  <2>1. PICK bound \in Nat : probe = {bound} /\ ~(r.from >= bound)
    BY <1>3, <1>8 DEF IsProbe
  <2>2. question.fold = "latest" /\ AnswerItems(q, Halves(q)) # {}
    BY <1>3, <2>1 DEF FallsThrough
  <2>3. Fitting(q) # {}
    <3>1. Newest({}) = {}
      BY DEF Newest
    <3> QED BY <1>5, <2>2, <3>1
  <2>4. PICK i \in Fitting(q) : AnswerItems(q, Halves(q)) = {i}
    BY <1>6, <2>2, <2>3
  <2>5. i.row.from >= bound
    BY <1>7, <2>1 DEF Wanted
  <2> QED BY <1>2, <1>7, <2>1, <2>2, <2>4, <2>5
<1>9. CASE \A bound \in probe : r.from >= bound
  <2>1. Wanted(question, probe, r)
    BY <1>2, <1>3, <1>9, AskedIsWanted
  <2>2. Planned(q).start <= r.from /\ r.from < Planned(q).end - (Planned(q).end % 2)
    BY <1>2, <1>3, <2>1, WantedWithin, EndKept DEF Planned, Within
  <2>3. RowsAskedFor(Halves(q).cold, r.from) \/ RowsAskedFor(Halves(q).hot, r.from)
    <3>1. query[q].label \in Nat
      BY DEF QueryShape
    <3>2. CASE r.from < query[q].label
      <4>1. question.mode.kind # "Operational"
        BY <1>2, <3>1, <3>2, AdmittedByMode
      <4> QED BY <1>2, <2>2, <3>2, <4>1, HalvesAsked
    <3>3. CASE r.from >= query[q].label
      <4>1. question.mode.kind \notin {"Historical", "AsOf"}
        BY <1>2, <3>1, <3>3, AdmittedByMode
      <4> QED BY <1>2, <2>2, <3>3, <4>1, HalvesAsked
    <3> QED BY <1>2, <3>1, <3>2, <3>3
  <2>4. PICK i \in ScannedItems(q, Halves(q)) : i.row = r
    BY <2>3, ItemsFound DEF FoundIn
  <2>5. Enforced(question, r)
    <3>1. question.mode.kind = "AsKnownAt" => r.rec <= question.mode.at
      BY AdmittedByMode
    <3> QED BY <3>1 DEF Enforced, AsksFor
  <2>6. i \in Brought(q)
    BY <2>4, <2>5 DEF Brought
  <2>7. PICK j \in Chosen(q) : Contender(j.row) = Contender(r) /\ (~Outranks(r, j.row) \/ j = i)
    BY <1>4, <2>4, <2>6
  <2>8. j.row = r
    <3>1. j.row \in StoredRows /\ j.row.version \in Int /\ r.version \in Int
      BY <1>2, <1>4, BroughtRow, RowFrom
    <3>2. ~(j.row.version > r.version) /\ (j.row.version = r.version => j.row = r)
      BY <2>7, <3>1 DEF Overtaken, StoredRows
    <3> QED BY <2>4, <2>7, <3>1, <3>2 DEF Outranks
  <2>9. j \in Fitting(q)
    BY <2>1, <2>7, <2>8 DEF Fitting
  <2>10. CASE question.fold = "latest"
    <3>1. PICK k \in Fitting(q) : AnswerItems(q, Halves(q)) = {k} /\ \A m \in Fitting(q) : m.row.from <= k.row.from
      BY <1>6, <2>9, <2>10
    <3> QED BY <1>2, <1>7, <2>8, <2>9, <2>10, <3>1
  <2>11. CASE question.fold # "latest"
    BY <1>5, <2>8, <2>9, <2>11, SameVersionIs
  <2> QED BY <2>10, <2>11
<1> QED BY <1>8, <1>9

-----------------------------------------------------------------------------
(* Answers are whole.                                                      *)

\* An answer misses nothing that was in force and still is.
WholeOf(q) ==
  Answered(q) =>
    \A r \in Universe(q) :
      AsksFor(query[q].question, r) /\ ~Overtaken(r) /\ ~AtCutEnd(query[q].question, r) =>
        \E i \in query[q].answer :
          SameVersion(i.row, r) \/ (query[q].question.fold = "latest" /\ i.row.from >= r.from)

\* What an answered query keeps of what it was asked.
LEMMA AnsweredAs ==
  ASSUME StoreOk, QueriesOk, NEW q \in Readers, Answer(q), Answered(q)'
  PROVE  /\ query'[q].question = query[q].question /\ query'[q].began = query[q].began
         /\ query'[q].label = query[q].label /\ query'[q].answer = AnswerItems(q, Halves(q))
         /\ ~FallsThrough(q, AnswerItems(q, Halves(q))) /\ QueryShape(q) /\ query[q].pc = "hot"
         /\ UNCHANGED writeVars
<1> DEFINE items  == AnswerItems(q, SplitAt(q, WatermarkFor(q)))
           result == ResultOf(query[q].question.fold, items)
           pc     == IF result = {} THEN "refused" ELSE "done"
           c == IF FallsThrough(q, items)
                  THEN [query[q] EXCEPT !.pc = "label", !.probe = {}, !.items = {}]
                  ELSE [query[q] EXCEPT !.pc = pc, !.items = {}, !.answer = items, !.result = result]
<1>1. query[q].pc = "hot" /\ QueryShape(q) /\ DOMAIN query[q] = QueryFields
  BY DEF Answer, QueriesOk, QueryShape, Asked
<1>2. query'[q] = c /\ UNCHANGED writeVars
  BY DEF Answer, QueriesOk
<1>3. items = AnswerItems(q, Halves(q))
  BY DEF Halves
<1> HIDE DEF items, result
<1>4. query'[q].pc = "done"
  BY DEF Answered
<1>5. ~FallsThrough(q, items)
  BY <1>1, <1>2, <1>4 DEF QueryFields
<1>6. c = [query[q] EXCEPT !.pc = pc, !.items = {}, !.answer = items, !.result = result]
  BY <1>5
<1>7. /\ c.question = query[q].question /\ c.began = query[q].began
      /\ c.label = query[q].label /\ c.answer = items
  BY <1>1, <1>6 DEF QueryFields
<1> HIDE DEF c
<1> QED BY <1>1, <1>2, <1>3, <1>5, <1>7

\* What a question may see is fixed with it.
LEMMA UniverseSame ==
  ASSUME NEW q, query'[q].question = query[q].question, query'[q].began = query[q].began,
         query'[q].label = query[q].label
  PROVE  Universe(q)' = Universe(q)
BY DEF Universe, BelowCeiling

\* A row not overtaken now was not before.
LEMMA OvertakenStays ==
  ASSUME StoredRows \subseteq StoredRows', table' = table, NEW r
  PROVE  Overtaken(r) => Overtaken(r)'
<1> SUFFICES ASSUME NEW s \in StoredRows, Contender(s) = Contender(r),
                    s.version > r.version \/ (s.version = r.version /\ s # r)
             PROVE  Overtaken(r)'
  BY DEF Overtaken, StoredRows
<1>1. Contender(s)' = Contender(r)' /\ s \in StoredRows'
  BY DEF Contender
<1> QED BY <1>1 DEF Overtaken, StoredRows

\* A whole answer stays whole: what it has not overtakes more as the store grows.
LEMMA WholeStays ==
  ASSUME StoreGrows, NEW q \in Readers, WholeOf(q), query'[q] = query[q]
  PROVE  WholeOf(q)'
<1> SUFFICES ASSUME query[q].pc = "done", NEW r \in Universe(q)',
                    AsksFor(query'[q].question, r), ~Overtaken(r)', ~AtCutEnd(query'[q].question, r)
             PROVE  \E i \in query'[q].answer :
                      SameVersion(i.row, r)' \/ (query'[q].question.fold = "latest" /\ i.row.from >= r.from)
  BY DEF WholeOf, Answered, AsksFor, AtCutEnd, Wanted
<1>1. r \in Universe(q)
  BY UniverseSame
<1>2. ~Overtaken(r)
  BY OvertakenStays DEF StoreGrows
<1>3. AsksFor(query[q].question, r) /\ ~AtCutEnd(query[q].question, r)
  OBVIOUS
<1>4. PICK i \in query[q].answer : SameVersion(i.row, r) \/ (query[q].question.fold = "latest" /\ i.row.from >= r.from)
  BY <1>1, <1>2, <1>3 DEF WholeOf, Answered
<1> QED BY <1>4 DEF StoreGrows, SameVersion, Again

\* An answer that is given is whole.
LEMMA AnswerIsWhole ==
  ASSUME StoreOk, QueriesOk, NEW q \in Readers, Answer(q)
  PROVE  WholeOf(q)'
<1> SUFFICES ASSUME Answered(q)', NEW r \in Universe(q)',
                    AsksFor(query'[q].question, r), ~Overtaken(r)', ~AtCutEnd(query'[q].question, r)
             PROVE  \E i \in query'[q].answer :
                      SameVersion(i.row, r)' \/ (query'[q].question.fold = "latest" /\ i.row.from >= r.from)
  BY DEF WholeOf, AsksFor, AtCutEnd, Wanted
<1>1. /\ query'[q].question = query[q].question /\ query'[q].began = query[q].began
      /\ query'[q].label = query[q].label /\ query'[q].answer = AnswerItems(q, Halves(q))
      /\ ~FallsThrough(q, AnswerItems(q, Halves(q))) /\ QueryShape(q) /\ query[q].pc = "hot"
      /\ UNCHANGED writeVars
  BY AnsweredAs
<1>2. r \in Universe(q)
  BY <1>1, UniverseSame
<1>3. table' = table /\ StoredRows' = StoredRows
  BY <1>1 DEF writeVars, table, StoredRows, ColdRows
<1>4. ~Overtaken(r)
  BY <1>3, OvertakenStays
<1>5. AsksFor(query[q].question, r) /\ ~AtCutEnd(query[q].question, r)
  BY <1>1
<1>6. PICK i \in AnswerItems(q, Halves(q)) : SameVersion(i.row, r) \/ (query[q].question.fold = "latest" /\ i.row.from >= r.from)
  BY <1>1, <1>2, <1>4, <1>5, WholeAnswer
<1>7. SameVersion(i.row, r)' <=> SameVersion(i.row, r)
  BY <1>3 DEF SameVersion, Again
<1> QED BY <1>1, <1>6, <1>7

\* Every answer holds what was in force when its question was asked and still is, whichever
\* tier held it while the boundary moved.
THEOREM AnswersAlwaysWhole == Spec => []AnswerWhole
<1> DEFINE Whole == \A q \in Readers : WholeOf(q)
           Inv == QueriesInv /\ Whole
<1>1. QInit => Inv
  <2>1. QInit => Whole
    BY DEF QInit, WholeOf, Answered, Silent
  <2> QED BY <2>1, QueriesStart
<1>2. Inv /\ [Next]_vars => Inv'
  <2> SUFFICES ASSUME Inv, [Next]_vars PROVE Whole'
    BY QueriesStep
  <2>1. WritesInv /\ StoreKept /\ QueriesOk /\ StoreOk
    BY DEF QueriesInv, WritesInv
  <2>2. CASE UNCHANGED vars
    <3>1. StoreGrows /\ query' = query
      <4>1. boundary \in Nat /\ Len(cold) \in Nat
        BY <2>1, ColdLength, BoundaryEven
      <4> QED BY <2>2, <4>1 DEF vars, StoreGrows, table, Visible, ColdRows, StoredRows
    <3> QED BY <3>1, WholeStays
  <2>3. CASE Next
    <3>1. StoreGrows
      BY <2>1, <2>3, StoreSteps
    <3> SUFFICES ASSUME NEW q \in Readers PROVE WholeOf(q)'
      OBVIOUS
    <3>2. CASE query'[q] = query[q]
      BY <3>1, <3>2, WholeStays
    <3>3. CASE query'[q] # query[q]
      <4>1. (\E question \in scene.questions : Ask(q, question)) \/ ReadBoundary(q) \/ ScanCold(q) \/ Answer(q)
        <5>1. PICK p \in Readers :
                (\E question \in scene.questions : Ask(p, question)) \/ ReadBoundary(p) \/ ScanCold(p) \/ Answer(p)
          BY <2>3, <3>3 DEF Next, queryVars
        <5>2. p = q
          BY <2>1, <3>3, <5>1, ReaderSteps
        <5> QED BY <5>1, <5>2
      <4>2. CASE Answer(q)
        BY <2>1, <4>2, AnswerIsWhole
      <4>3. CASE (\E question \in scene.questions : Ask(q, question)) \/ ReadBoundary(q) \/ ScanCold(q)
        <5>1. query'[q].pc \in {"label", "refused", "cold", "hot"}
          <6>1. CASE \E question \in scene.questions : Ask(q, question)
            BY <2>1, <6>1 DEF Ask, QueriesOk
          <6>2. CASE ReadBoundary(q) \/ ScanCold(q)
            <7>1. DOMAIN query[q] = QueryFields
              BY <2>1, <6>2 DEF ReadBoundary, ScanCold, QueriesOk, QueryShape, Asked
            <7> QED BY <2>1, <6>2, <7>1 DEF ReadBoundary, ScanCold, QueriesOk, QueryFields
          <6> QED BY <4>3, <6>1, <6>2
        <5> QED BY <5>1 DEF WholeOf, Answered
      <4> QED BY <4>1, <4>2, <4>3
    <3> QED BY <3>2, <3>3
  <2> QED BY <2>2, <2>3
<1>3. Inv => AnswerWhole
  BY DEF WholeOf, AnswerWhole
<1> QED BY <1>1, <1>2, <1>3, PTL DEF Spec

-----------------------------------------------------------------------------
(* File statistics that show one version.                                  *)

\* The ends of a finite set of numbers.
LEMMA EndsOf ==
  ASSUME NEW S, IsFiniteSet(S), S # {}, S \subseteq Int
  PROVE  LET least == CHOOSE x \in S : \A y \in S : x <= y
             most  == CHOOSE x \in S : \A y \in S : x >= y
         IN least \in S /\ most \in S /\ \A y \in S : least <= y /\ y <= most
<1> DEFINE below == {p \in S \X S : p[1] < p[2]}
           above == {p \in S \X S : p[1] > p[2]}
<1>1. \A x, y \in S : (<<x, y>> \in below <=> x < y) /\ (<<x, y>> \in above <=> x > y)
  OBVIOUS
<1> HIDE DEF below, above
<1>2. /\ \A x \in S : <<x, x>> \notin below
      /\ \A x, y, z \in S : <<x, y>> \in below /\ <<y, z>> \in below => <<x, z>> \in below
  BY <1>1
<1>3. /\ \A x \in S : <<x, x>> \notin above
      /\ \A x, y, z \in S : <<x, y>> \in above /\ <<y, z>> \in above => <<x, z>> \in above
  BY <1>1
<1>4. PICK x \in S : \A y \in S : <<y, x>> \notin below
  BY <1>2, FiniteExtreme
<1>5. PICK z \in S : \A y \in S : <<y, z>> \notin above
  BY <1>3, FiniteExtreme
<1>6. ASSUME NEW y \in S PROVE x <= y
  <2>1. ~(y < x) /\ x \in Int /\ y \in Int
    BY <1>1, <1>4
  <2> QED BY <2>1
<1>7. ASSUME NEW y \in S PROVE z >= y
  <2>1. ~(y > z) /\ z \in Int /\ y \in Int
    BY <1>1, <1>5
  <2> QED BY <2>1
<1> DEFINE least == CHOOSE e \in S : \A y \in S : e <= y
           most  == CHOOSE e \in S : \A y \in S : e >= y
<1>8. least \in S /\ \A y \in S : least <= y
  BY <1>6
<1>9. most \in S /\ \A y \in S : most >= y
  BY <1>7
<1> HIDE DEF least, most
<1>10. \A y \in S : y <= most
  BY <1>9
<1> QED BY <1>8, <1>9, <1>10 DEF least, most

\* The statistics of a file bound its rows.
LEMMA FileStatsAre ==
  ASSUME StoreOk, NEW f \in DOMAIN cold, NEW k \in DOMAIN cold[f]
  PROVE  LET s == FileStats(cold[f])
         IN /\ s.lo \in Int /\ s.hi \in Int /\ s.min \in Int /\ s.max \in Int
            /\ s.lo <= cold[f][k].from /\ cold[f][k].from <= s.hi
            /\ s.min <= cold[f][k].version /\ cold[f][k].version <= s.max
<1> DEFINE rows == cold[f]
           starts == {r.from : r \in ToSet(rows)}
           versions == {r.version : r \in ToSet(rows)}
<1>1. Len(rows) \in Nat /\ DOMAIN rows = 1..Len(rows) /\ \A n \in DOMAIN rows : IsRow(table, rows[n])
  BY DEF StoreOk, ColdFilesOk, Listing
<1>2. IsFiniteSet(DOMAIN rows)
  BY <1>1, FS_Interval
<1>3. ToSet(rows) = {rows[n] : n \in DOMAIN rows}
  BY DEF ToSet
<1>4. IsFiniteSet(ToSet(rows))
  BY <1>2, <1>3, ImageFinite
<1>5. rows[k] \in ToSet(rows) /\ \A r \in ToSet(rows) : r.from \in Int /\ r.version \in Int
  BY <1>1, <1>3, RowFrom
<1> HIDE DEF rows
<1>6. IsFiniteSet(starts) /\ IsFiniteSet(versions)
  <2> DEFINE g == [r \in ToSet(rows) |-> r.from]
             h == [r \in ToSet(rows) |-> r.version]
  <2>1. starts = {g[r] : r \in ToSet(rows)} /\ versions = {h[r] : r \in ToSet(rows)}
    OBVIOUS
  <2> HIDE DEF g, h, starts, versions
  <2> QED BY <1>4, <2>1, ImageFinite
<1>7. starts \subseteq Int /\ versions \subseteq Int /\ rows[k].from \in starts /\ rows[k].version \in versions
  BY <1>5
<1> DEFINE least(s) == CHOOSE x \in s : \A y \in s : x <= y
           most(s)  == CHOOSE x \in s : \A y \in s : x >= y
<1>8. FileStats(rows) = [lo |-> least(starts), hi |-> most(starts), min |-> least(versions), max |-> most(versions)]
  BY DEF FileStats
<1> HIDE DEF starts, versions
<1>9. least(starts) \in starts /\ most(starts) \in starts /\ \A y \in starts : least(starts) <= y /\ y <= most(starts)
  BY <1>6, <1>7, EndsOf
<1>10. least(versions) \in versions /\ most(versions) \in versions /\ \A y \in versions : least(versions) <= y /\ y <= most(versions)
  BY <1>6, <1>7, EndsOf
<1> HIDE DEF least, most
<1>11. /\ least(starts) \in Int /\ most(starts) \in Int /\ least(versions) \in Int /\ most(versions) \in Int
       /\ least(starts) <= rows[k].from /\ rows[k].from <= most(starts)
       /\ least(versions) <= rows[k].version /\ rows[k].version <= most(versions)
  BY <1>7, <1>9, <1>10
<1>12. LET s == FileStats(rows)
       IN /\ s.lo \in Int /\ s.hi \in Int /\ s.min \in Int /\ s.max \in Int
          /\ s.lo <= rows[k].from /\ rows[k].from <= s.hi
          /\ s.min <= rows[k].version /\ rows[k].version <= s.max
  BY <1>8, <1>11
<1> QED BY <1>12 DEF rows

\* Two files that hold one instant belong to one run.
LEMMA OneRun ==
  ASSUME NEW stats, NEW s \in stats, NEW t \in stats, NEW x \in Int,
         \A b \in stats : b.lo \in Int /\ b.hi \in Int,
         s.lo <= x, x <= s.hi, t.lo <= x, x <= t.hi
  PROVE  InOneRun(stats, s, t)
<1> SUFFICES ASSUME NEW b \in RunBreaks(stats),
                    (s.lo < b.lo /\ b.lo <= t.lo) \/ (t.lo < b.lo /\ b.lo <= s.lo)
             PROVE  FALSE
  BY DEF InOneRun
<1>1. b \in stats /\ \A o \in stats : o.lo < b.lo => o.hi < b.lo
  BY DEF RunBreaks
<1> QED BY <1>1

\* Where the statistics prove it, the rows of one instant that the plan asks for have one
\* version.
LEMMA PlainVersions ==
  ASSUME StoreOk, NEW q \in Readers, QueryShape(q), query[q].pc = "hot", ProvenPlain(q, Halves(q)),
         NEW i \in Brought(q), NEW j \in Brought(q), i.row.from = j.row.from,
         Within(Planned(q), i.row.from)
  PROVE  i.row.version = j.row.version /\ i \in ColdItems(Len(cold)) /\ j \in ColdItems(Len(cold))
<1> DEFINE x == i.row.from
           range == TimeRange(Planned(q).start, Earlier(Planned(q).end, query[q].label))
           stats == VersionStats(Halves(q).cold)
<1>1. /\ i \in ColdItems(Len(cold)) /\ j \in ColdItems(Len(cold)) /\ RowsAskedFor(Halves(q).cold, x)
      /\ x \in Nat /\ x < NoEnd
  BY BroughtRow DEF ProvenPlain
<1>2. x < query[q].label /\ Halves(q).cold = {range}
  BY <1>1, HalvesAsked
<1>3. Elidable(stats)
  BY <1>2 DEF ProvenPlain
<1>4. Planned(q).start \in Int /\ Planned(q).end \in Int /\ query[q].label \in Nat
  BY HalvesAre
<1>5. range.start <= x /\ x < range.end
  BY <1>1, <1>2, <1>4 DEF Within, TimeRange, Earlier
<1>6. ASSUME NEW m \in ColdItems(Len(cold)), m.row.from = x
      PROVE  \E s \in stats : s.lo <= x /\ x <= s.hi /\ s.min <= m.row.version /\ m.row.version <= s.max
  <2>1. PICK f \in DOMAIN cold : \E k \in DOMAIN cold[f] : m.row = cold[f][k]
    BY ItemPlace
  <2>4. PICK k \in DOMAIN cold[f] : m.row = cold[f][k]
    BY <2>1
  <2> DEFINE s == FileStats(cold[f])
  <2>5. /\ s.lo \in Int /\ s.hi \in Int
        /\ s.lo <= x /\ x <= s.hi /\ s.min <= m.row.version /\ m.row.version <= s.max
    BY <1>6, <2>4, FileStatsAre
  <2> HIDE DEF s
  <2>6. s.hi >= range.start /\ s.lo < range.end
    BY <1>1, <1>4, <1>5, <2>5 DEF TimeRange, Earlier
  <2>7. s \in stats
    BY <1>2, <2>6 DEF VersionStats, s
  <2> QED BY <2>5, <2>7
<1>7. \A s \in stats : s.lo \in Int /\ s.hi \in Int /\ s.min \in Int /\ s.max \in Int
  <2> SUFFICES ASSUME NEW f \in DOMAIN cold
               PROVE  LET s == FileStats(cold[f]) IN s.lo \in Int /\ s.hi \in Int /\ s.min \in Int /\ s.max \in Int
    BY DEF VersionStats
  <2>1. 1 \in DOMAIN cold[f]
    BY DEF StoreOk, ColdFilesOk, Listing
  <2> QED BY <2>1, FileStatsAre
<1> HIDE DEF stats, x, range
<1>8. PICK s \in stats : s.lo <= x /\ x <= s.hi /\ s.min <= i.row.version /\ i.row.version <= s.max
  BY <1>1, <1>6 DEF x
<1>9. PICK t \in stats : t.lo <= x /\ x <= t.hi /\ t.min <= j.row.version /\ j.row.version <= t.max
  BY <1>1, <1>6 DEF x
<1>10. s.min = s.max /\ t.min = t.max /\ s.min = t.min
  <2>1. InOneRun(stats, s, t)
    BY <1>1, <1>7, <1>8, <1>9, OneRun
  <2> QED BY <1>3, <2>1 DEF Elidable
<1>11. i.row.version \in Int /\ j.row.version \in Int
  BY BroughtRow, RowFrom
<1> QED BY <1>1, <1>7, <1>8, <1>9, <1>10, <1>11

-----------------------------------------------------------------------------
(* Answers are true.                                                       *)

\* What an answered row is.
RowTrue(q, i, answer) ==
  /\ AsksFor(query[q].question, i.row) \/ AtCutStart(query[q].question, i.row)
  /\ query[q].question.relation = "resolved" =>
       /\ \A r \in Universe(q) : Contender(r) = Contender(i.row) => r.version <= i.row.version
       /\ \A j \in answer : i # j /\ Contender(j.row) = Contender(i.row) => ~PlainlyNamed(KeyOf(table, i.row))

TrueOf(q) == Answered(q) => \A i \in query[q].answer : RowTrue(q, i, query[q].answer)

\* Contenders are one reading, of one start and one scope of the session.
LEMMA ContendersAre ==
  ASSUME NEW r, NEW s, Contender(r) = Contender(s)
  PROVE  /\ KeyOf(table, r) = KeyOf(table, s) /\ r.from = s.from
         /\ \A name \in Discriminators(table) : Column(r, name) = Column(s, name)
<1>1. KeyOf(table, r) = KeyOf(table, s)
  BY DEF Contender
<1>2. r.from = s.from /\ DiscriminatorValues(table, r) = DiscriminatorValues(table, s)
  BY <1>1 DEF KeyOf
<1>3. ASSUME NEW name \in Discriminators(table) PROVE Column(r, name) = Column(s, name)
  <2>1. DiscriminatorValues(table, r)[name] = Column(r, name) /\ DiscriminatorValues(table, s)[name] = Column(s, name)
    BY <1>3 DEF DiscriminatorValues
  <2> QED BY <1>2, <2>1
<1> QED BY <1>1, <1>2, <1>3

\* What is answered fits.
LEMMA FittingIs ==
  ASSUME StoreOk, NEW q \in Readers, QueryShape(q), query[q].pc = "hot", NEW i \in AnswerItems(q, Halves(q))
  PROVE  i \in Fitting(q)
<1>1. ItemsOk(Fitting(q))
  BY ChosenIs
<1>2. CASE query[q].question.fold = "latest"
  BY <1>1, <1>2, AnswerIs, NewestIs DEF StoreOk
<1>3. CASE query[q].question.fold # "latest"
  BY <1>3, AnswerIs
<1> QED BY <1>2, <1>3

\* An answer that is given is true, where the store holds a reading once at each version.
LEMMA TrueAnswer ==
  ASSUME StoreOk, StoredOnce, NEW q \in Readers, QueryShape(q), query[q].pc = "hot",
         NEW i \in AnswerItems(q, Halves(q))
  PROVE  RowTrue(q, i, AnswerItems(q, Halves(q)))
<1> DEFINE question == query[q].question
           probe == query[q].probe
<1>1. IsQuestion(question) /\ IsProbe(probe) /\ ScopeAllowed(question.scope)
  BY SceneQuestion DEF QueryShape, Asked, StoreOk, Askable
<1>2. i \in Fitting(q) /\ i \in Chosen(q) /\ i \in Brought(q)
  BY FittingIs, ChosenIs
<1>3. /\ IsRow(table, i.row) /\ Enforced(question, i.row) /\ i.row.from \in Nat /\ i.row.from < NoEnd
      /\ RowsAskedFor(Halves(q).cold, i.row.from) \/ RowsAskedFor(Halves(q).hot, i.row.from)
  BY <1>2, BroughtRow
<1>4. Wanted(question, probe, i.row)
  BY <1>2 DEF Fitting
<1>5. AsksFor(question, i.row) \/ AtCutStart(question, i.row)
  BY <1>1, <1>3, <1>4, WantedIsAsked DEF Enforced
<1>6. Within(Planned(q), i.row.from)
  BY <1>1, <1>3, <1>4, WantedWithin DEF Planned
<1>7. ASSUME question.relation = "resolved", NEW r \in Universe(q), Contender(r) = Contender(i.row)
      PROVE  r.version <= i.row.version
  <2>1. r.from = i.row.from /\ \A name \in Discriminators(table) : Column(r, name) = Column(i.row, name)
    BY <1>7, ContendersAre
  <2>2. PICK k \in ScannedItems(q, Halves(q)) : k.row = r
    BY <1>3, <2>1, ItemsFound DEF FoundIn
  <2>3. question.mode.kind = "AsKnownAt" => r.rec <= question.mode.at
    BY AdmittedByMode
  <2>4. k \in Brought(q)
    BY <1>1, <1>3, <2>1, <2>2, <2>3 DEF Brought, Enforced, ScopeAllowed
  <2>5. r.version \in Int /\ i.row.version \in Int
    BY <1>2, <2>2, <2>4, BroughtRow, RowFrom
  <2>6. CASE Unresolved(q)
    <3>1. ProvenPlain(q, Halves(q))
      BY <1>7, <2>6 DEF Unresolved
    <3> QED BY <1>2, <1>6, <2>1, <2>2, <2>4, <2>5, <3>1, PlainVersions
  <2>7. CASE ~Unresolved(q)
    <3>1. ~Outranks(r, i.row)
      BY <1>2, <1>7, <2>2, <2>4, <2>7, ChosenIs
    <3> QED BY <2>5, <3>1 DEF Outranks
  <2> QED BY <2>6, <2>7
<1>8. ASSUME question.relation = "resolved", NEW j \in AnswerItems(q, Halves(q)), i # j,
             Contender(j.row) = Contender(i.row)
      PROVE  ~PlainlyNamed(KeyOf(table, i.row))
  <2>1. j \in Chosen(q) /\ j \in Brought(q)
    BY FittingIs, ChosenIs
  <2>2. Unresolved(q)
    BY <1>2, <1>8, <2>1, ChosenIs
  <2>3. ProvenPlain(q, Halves(q))
    BY <1>8, <2>2 DEF Unresolved
  <2>4. KeyOf(table, j.row) = KeyOf(table, i.row) /\ j.row.from = i.row.from
    BY <1>8, ContendersAre
  <2>5. i.row.version = j.row.version /\ i \in ColdItems(Len(cold)) /\ j \in ColdItems(Len(cold))
    BY <1>2, <1>6, <2>1, <2>3, <2>4, PlainVersions
  <2>6. i.row.from < boundary /\ j.row.from < boundary
    BY <2>5, ItemRow
  <2> QED BY <1>8, <2>4, <2>5, <2>6 DEF StoredOnce, SameVersion, Again
<1> QED BY <1>5, <1>7, <1>8 DEF RowTrue

\* A reading that is plainly named was so before: boundaries only move away.
LEMMA PlainBefore ==
  ASSUME StoreGrows, StoreKept, boundary \in Nat, NEW key, PlainlyNamed(key)'
  PROVE  PlainlyNamed(key)
<1>1. scene' = scene /\ table' = table /\ \A g : StoredKey(g)' = StoredKey(g)
  BY DEF StoreGrows, StoredKey, AsStored
<1>2. boundary' = scene'.boundary => boundary = scene.boundary
  BY <1>1 DEF StoreGrows, StoreKept
<1> SUFFICES ASSUME NEW k \in DOMAIN scene.writes
             PROVE  LET given == IncomingOf(scene.writes[k].batch)
                        named == {n \in DOMAIN given : StoredKey(given[n]) = key}
                    IN /\ \A n, m \in named : n = m /\ KeyOf(table, given[n]) = key
                       /\ \/ ~scene.writes[k].authored
                          \/ ~MeterMixed(scene.writes[k].batch) /\ (named = {} \/ boundary = scene.boundary)
  BY DEF PlainlyNamed
<1>3. PICK given : given = IncomingOf(scene.writes[k].batch)
  OBVIOUS
<1>4. PICK named : named = {n \in DOMAIN given : StoredKey(given[n]) = key}
  OBVIOUS
<1>5. named = {n \in DOMAIN given : StoredKey(given[n])' = key}
  BY <1>1, <1>4
<1>6. k \in DOMAIN scene'.writes /\ given = IncomingOf(scene'.writes[k].batch)
  BY <1>1, <1>3
<1>7. /\ \A n, m \in named : n = m /\ KeyOf(table', given[n]) = key
      /\ \/ ~scene'.writes[k].authored
         \/ ~MeterMixed(scene'.writes[k].batch) /\ (named = {} \/ boundary' = scene'.boundary)
  BY <1>5, <1>6 DEF PlainlyNamed
<1>8. /\ \A n, m \in named : n = m /\ KeyOf(table, given[n]) = key
      /\ \/ ~scene.writes[k].authored
         \/ ~MeterMixed(scene.writes[k].batch) /\ (named = {} \/ boundary = scene.boundary)
  BY <1>1, <1>2, <1>7
<1> QED BY <1>3, <1>4, <1>8

\* A true row stays true, of an answer that stays.
LEMMA RowTrueSame ==
  ASSUME StoreGrows, StoreKept, boundary \in Nat, NEW q, NEW i, NEW answer, RowTrue(q, i, answer),
         query'[q].question = query[q].question, query'[q].began = query[q].began,
         query'[q].label = query[q].label
  PROVE  RowTrue(q, i, answer)'
<1>1. Universe(q)' = Universe(q)
  BY UniverseSame
<1>2. table' = table /\ \A r : Contender(r)' = Contender(r)
  BY DEF StoreGrows, Contender
<1>3. ~PlainlyNamed(KeyOf(table, i.row)) => ~PlainlyNamed(KeyOf(table, i.row))'
  <2>1. PICK key : key = KeyOf(table, i.row)
    OBVIOUS
  <2>2. PlainlyNamed(KeyOf(table, i.row))' => PlainlyNamed(key)'
    BY <1>2, <2>1
  <2> QED BY <2>1, <2>2, PlainBefore
<1>4. AsksFor(query[q].question, i.row) \/ AtCutStart(query[q].question, i.row) =>
        AsksFor(query'[q].question, i.row) \/ AtCutStart(query'[q].question, i.row)
  OBVIOUS
<1> QED BY <1>1, <1>2, <1>3, <1>4 DEF RowTrue, AsksFor, AtCutStart, Wanted

\* A true answer stays true.
LEMMA TrueStays ==
  ASSUME StoreGrows, StoreKept, boundary \in Nat, NEW q \in Readers, TrueOf(q), query'[q] = query[q]
  PROVE  TrueOf(q)'
<1> SUFFICES ASSUME query[q].pc = "done", NEW answer, answer = query'[q].answer, NEW i \in answer
             PROVE  RowTrue(q, i, answer)'
  BY DEF TrueOf, Answered, RowTrue
<1>1. RowTrue(q, i, answer)
  BY DEF TrueOf, Answered
<1> QED BY <1>1, RowTrueSame

\* An answer that is given is true.
LEMMA AnswerIsTrue ==
  ASSUME StoreOk, StoreKept, QueriesOk, StoredOnce, NEW q \in Readers, Answer(q)
  PROVE  TrueOf(q)'
<1> SUFFICES ASSUME Answered(q)', NEW answer, answer = query'[q].answer, NEW i \in answer
             PROVE  RowTrue(q, i, answer)'
  BY DEF TrueOf, RowTrue
<1>1. /\ query'[q].question = query[q].question /\ query'[q].began = query[q].began
      /\ query'[q].label = query[q].label /\ query'[q].answer = AnswerItems(q, Halves(q))
      /\ QueryShape(q) /\ query[q].pc = "hot" /\ UNCHANGED writeVars
  BY AnsweredAs
<1>3. RowTrue(q, i, answer)
  BY <1>1, TrueAnswer
<1>4. boundary \in Nat /\ Len(cold) \in Nat
  BY ColdLength, BoundaryEven
<1>5. StoreGrows
  BY <1>1, <1>4 DEF writeVars, StoreGrows, table, Visible, ColdRows, StoredRows
<1> QED BY <1>1, <1>3, <1>4, <1>5, RowTrueSame

-----------------------------------------------------------------------------
(* What is authored again, place by place.                                 *)

\* Two given values of one reading, in one spelling.
SameReading(g, h) == g.obis = h.obis /\ g.from = h.from /\ g.melo = h.melo /\ g.extra = h.extra

\* Equal identities make one key.
LEMMA SameReadingKey ==
  ASSUME NEW d, NEW i, NEW e, NEW j, SameReading(Incoming(d, i), Incoming(e, j))
  PROVE  /\ KeyOf(table, Incoming(d, i)) = KeyOf(table, Incoming(e, j))
         /\ StoredKey(Incoming(d, i)) = StoredKey(Incoming(e, j))
<1> DEFINE g == Incoming(d, i)
           h == Incoming(e, j)
<1>1. /\ g.obis = ObisFor(d, i) /\ g.from = i.from /\ g.melo = d.melo /\ g.extra = d.extra
      /\ h.obis = ObisFor(e, j) /\ h.from = j.from /\ h.melo = e.melo /\ h.extra = e.extra
  BY GivenFields
<1>2. ObisFor(d, i) = ObisFor(e, j) /\ i.from = j.from /\ d.melo = e.melo /\ d.extra = e.extra
  BY <1>1 DEF SameReading
<1>3. /\ AsStored(g).from = Micros(i.from) /\ AsStored(g).obis = ObisFor(d, i) /\ AsStored(g).melo = d.melo
      /\ AsStored(g).extra = Resolved(table, d.extra)
      /\ AsStored(h).from = Micros(j.from) /\ AsStored(h).obis = ObisFor(e, j) /\ AsStored(h).melo = e.melo
      /\ AsStored(h).extra = Resolved(table, e.extra)
  BY StoredFields
<1> HIDE DEF g, h
<1>4. KeyOf(table, g) = KeyOf(table, h)
  BY <1>1, <1>2, SameKey DEF Column
<1>5. KeyOf(table, AsStored(g)) = KeyOf(table, AsStored(h))
  BY <1>2, <1>3, SameKey DEF Column
<1>6. StoredKey(g) = StoredKey(h)
  BY <1>1, <1>2, <1>4, <1>5 DEF StoredKey
<1> QED BY <1>4, <1>6 DEF g, h

-----------------------------------------------------------------------------

\* Deliveries of one value each.
Singles(rows) == \A n \in DOMAIN rows : \E i : rows[n].intervals = <<i>>

\* The rows of a group, from the one it starts with.
Follows(rows, n) == [k \in DOMAIN rows |-> k >= n /\ MergeStarts(rows) \cap ((n + 1)..k) = {}]

\* A group holds one value of each of its rows.
LEMMA MergedOne ==
  ASSUME NEW rows, IsBatch(rows), Singles(rows), NEW n
  PROVE  \E o : Selects(MergedFrom(rows, n), o, Len(rows), Follows(rows, n), [k \in DOMAIN rows |-> rows[k].intervals[1]])
<1> DEFINE picked == Follows(rows, n)
           of == [k \in DOMAIN rows |-> rows[k].intervals[1]]
<1>1. Len(rows) \in Nat /\ DOMAIN rows = 1..Len(rows)
  BY BatchShape
<1>2. \A k \in DOMAIN rows : rows[k].intervals = <<of[k]>>
  <2> SUFFICES ASSUME NEW k \in DOMAIN rows PROVE rows[k].intervals = <<rows[k].intervals[1]>>
    OBVIOUS
  <2>1. PICK i : rows[k].intervals = <<i>>
    BY DEF Singles
  <2> QED BY <2>1
<1>3. [k \in DOMAIN rows |-> IF k >= n /\ MergeStarts(rows) \cap ((n + 1)..k) = {} THEN rows[k].intervals ELSE <<>>]
        = [k \in 1..Len(rows) |-> IF picked[k] THEN <<of[k]>> ELSE <<>>]
  <2>1. \A k \in DOMAIN rows : picked[k] <=> k >= n /\ MergeStarts(rows) \cap ((n + 1)..k) = {}
    BY DEF Follows
  <2> HIDE DEF picked, of
  <2> QED BY <1>1, <1>2, <2>1
<1>4. MergedFrom(rows, n) = FlattenSeq([k \in 1..Len(rows) |-> IF picked[k] THEN <<of[k]>> ELSE <<>>])
  BY <1>3 DEF MergedFrom
<1> HIDE DEF picked, of
<1>5. \E o : Selects(MergedFrom(rows, n), o, Len(rows), picked, of)
  BY <1>1, <1>4, FlattenSelects
<1> QED BY <1>5 DEF picked, of

\* Rows that follow one start agree on channel and extra columns.
LEMMA MergeGroup ==
  ASSUME NEW rows, IsBatch(rows), NEW n \in DOMAIN rows, NEW k \in DOMAIN rows,
         k >= n, MergeStarts(rows) \cap ((n + 1)..k) = {}
  PROVE  rows[k].obis = rows[n].obis /\ rows[k].extra = rows[n].extra
<1> DEFINE Agrees(m) == rows[m].obis = rows[n].obis /\ rows[m].extra = rows[n].extra
           T == {m \in n..k : ~Agrees(m)}
<1>1. Len(rows) \in Nat /\ DOMAIN rows = 1..Len(rows) /\ n \in Nat /\ k \in Nat /\ 1 <= n /\ k <= Len(rows)
  BY BatchShape
<1>2. SUFFICES ASSUME ~Agrees(k) PROVE FALSE
  OBVIOUS
<1>3. T \subseteq Nat /\ k \in T
  BY <1>1, <1>2
<1>4. PICK m \in T : \A o \in T : m <= o
  <2>1. T # {}
    BY <1>3
  <2> HIDE DEF T
  <2> QED BY <1>3, <2>1, LeastNatural
<1>5. m \in n..k /\ ~Agrees(m) /\ m # n
  OBVIOUS
<1>6. m - 1 \in n..k /\ m \in (n + 1)..k /\ m \in DOMAIN rows /\ m # 1
  BY <1>1, <1>5
<1>7. Agrees(m - 1)
  <2>1. m - 1 \notin T
    BY <1>1, <1>4, <1>6
  <2> HIDE DEF Agrees
  <2> QED BY <1>6, <2>1
<1>8. m \notin MergeStarts(rows)
  BY <1>6
<1>9. rows[m - 1].obis = rows[m].obis /\ rows[m - 1].extra = rows[m].extra
  BY <1>6, <1>8 DEF MergeStarts, Mergeable
<1> QED BY <1>5, <1>7, <1>9

\* Where the values of merged deliveries come from.
MergedAs(rows, u) ==
  LET new == MergeAuthored(rows)
  IN /\ DOMAIN u = PlacesOf(new)
     /\ \A p \in PlacesOf(new) :
          /\ u[p] \in DOMAIN rows /\ ValueAt(new, p) = rows[u[p]].intervals[1]
          /\ new[p[1]].obis = rows[u[p]].obis /\ new[p[1]].extra = rows[u[p]].extra
     /\ \A n \in DOMAIN new : \E k \in DOMAIN rows :
          new[n].melo = rows[k].melo /\ new[n].obis = rows[k].obis /\ new[n].extra = rows[k].extra
     /\ \A p, q \in PlacesOf(new) : u[p] = u[q] => p = q

\* A merge holds the value of each row once.
LEMMA MergedPlaces ==
  ASSUME NEW rows, IsBatch(rows), Singles(rows)
  PROVE  \E u : MergedAs(rows, u)
<1> DEFINE sorted == Arranged(rows, MergeOrder(rows))
           starts == [n \in DOMAIN sorted |-> n \in MergeStarts(sorted)]
           of == [n \in DOMAIN sorted |-> [sorted[n] EXCEPT !.intervals = MergedFrom(sorted, n)]]
           first == [k \in DOMAIN sorted |-> sorted[k].intervals[1]]
           new == MergeAuthored(rows)
<1>1. \A n \in DOMAIN rows : rows[n].intervals[1].from \in Int
  <2> SUFFICES ASSUME NEW n \in DOMAIN rows PROVE rows[n].intervals[1].from \in Int
    OBVIOUS
  <2>1. PICK i : rows[n].intervals = <<i>>
    BY DEF Singles
  <2> QED BY <2>1, BatchShape DEF IsDelivery, ToSet, Instants
<1>2. Rearranges(sorted, rows)
  BY <1>1, MergeIsStrict, ArrangedRearranges DEF IsBatch
<1> HIDE DEF sorted
<1>3. PICK s : /\ DOMAIN s = DOMAIN sorted
               /\ \A k \in DOMAIN sorted : s[k] \in DOMAIN rows /\ sorted[k] = rows[s[k]]
               /\ \A k, l \in DOMAIN sorted : s[k] = s[l] => k = l
  BY <1>2 DEF Rearranges
<1>4. IsBatch(sorted) /\ Singles(sorted)
  BY <1>2, <1>3 DEF Rearranges, IsBatch, Singles
<1>5. Len(sorted) \in Nat /\ DOMAIN sorted = 1..Len(sorted)
  BY <1>4, BatchShape
<1>6. new = FlattenSeq([k \in 1..Len(sorted) |-> IF starts[k] THEN <<of[k]>> ELSE <<>>])
  <2>1. [k \in DOMAIN sorted |-> IF k \in MergeStarts(sorted)
                                   THEN <<[sorted[k] EXCEPT !.intervals = MergedFrom(sorted, k)]>> ELSE <<>>]
          = [k \in 1..Len(sorted) |-> IF starts[k] THEN <<of[k]>> ELSE <<>>]
    BY <1>5
  <2> QED BY <2>1 DEF MergeAuthored, sorted
<1> HIDE DEF new
<1>7. PICK v : Selects(new, v, Len(sorted), starts, of)
  <2> HIDE DEF of, starts
  <2> QED BY <1>5, <1>6, FlattenSelects
<1>8. ASSUME NEW a \in DOMAIN new
      PROVE  /\ v[a] \in DOMAIN sorted /\ v[a] \in MergeStarts(sorted)
             /\ new[a].intervals = MergedFrom(sorted, v[a]) /\ new[a].obis = sorted[v[a]].obis
             /\ new[a].extra = sorted[v[a]].extra /\ new[a].melo = sorted[v[a]].melo
  <2>1. v[a] \in 1..Len(sorted) /\ starts[v[a]] /\ new[a] = of[v[a]]
    <3> HIDE DEF of, starts
    <3> QED BY <1>7, <1>8 DEF Selects
  <2>2. IsDelivery(sorted[v[a]])
    BY <1>4, <1>5, <2>1, BatchShape
  <2>3. {"obis", "extra", "melo", "intervals"} \subseteq DOMAIN sorted[v[a]]
    BY <2>2 DEF IsDelivery
  <2> QED BY <1>5, <2>1, <2>3
<1>9. \A a, b \in DOMAIN new : v[a] = v[b] => a = b
  <2> HIDE DEF of, starts
  <2> QED BY <1>7 DEF Selects
<1>10. \A n : \E o : Selects(MergedFrom(sorted, n), o, Len(sorted), Follows(sorted, n), first)
  BY <1>4, MergedOne
<1> DEFINE o(n) == CHOOSE f : Selects(MergedFrom(sorted, n), f, Len(sorted), Follows(sorted, n), first)
<1>11. \A n : Selects(MergedFrom(sorted, n), o(n), Len(sorted), Follows(sorted, n), first)
  <2> HIDE DEF first
  <2> QED BY <1>10
<1> HIDE DEF o
<1> DEFINE place(p) == o(v[p[1]])[p[2]]
           u == [p \in PlacesOf(new) |-> s[place(p)]]
<1>12. ASSUME NEW p \in PlacesOf(new)
       PROVE  /\ p = <<p[1], p[2]>> /\ p[1] \in DOMAIN new
              /\ place(p) \in DOMAIN sorted /\ v[p[1]] \in DOMAIN sorted /\ v[p[1]] \in MergeStarts(sorted)
              /\ place(p) >= v[p[1]] /\ MergeStarts(sorted) \cap ((v[p[1]] + 1)..place(p)) = {}
              /\ ValueAt(new, p) = sorted[place(p)].intervals[1]
              /\ new[p[1]].obis = sorted[place(p)].obis /\ new[p[1]].extra = sorted[place(p)].extra
  <2>1. p = <<p[1], p[2]>> /\ p[1] \in DOMAIN new /\ p[2] \in DOMAIN new[p[1]].intervals
    BY PlaceShape
  <2> DEFINE n == v[p[1]]
  <2>2. n \in DOMAIN sorted /\ n \in MergeStarts(sorted) /\ p[2] \in DOMAIN MergedFrom(sorted, n)
        /\ new[p[1]].obis = sorted[n].obis /\ new[p[1]].extra = sorted[n].extra
        /\ new[p[1]].intervals = MergedFrom(sorted, n)
    BY <1>8, <2>1
  <2> HIDE DEF n
  <2>3. /\ o(n)[p[2]] \in 1..Len(sorted) /\ Follows(sorted, n)[o(n)[p[2]]]
        /\ MergedFrom(sorted, n)[p[2]] = first[o(n)[p[2]]]
    <3> HIDE DEF first
    <3> QED BY <1>11, <2>2 DEF Selects
  <2>4. place(p) = o(n)[p[2]]
    BY DEF n
  <2> HIDE DEF place
  <2>5. place(p) \in DOMAIN sorted /\ place(p) >= n /\ MergeStarts(sorted) \cap ((n + 1)..place(p)) = {}
    BY <1>5, <2>3, <2>4 DEF Follows
  <2>6. sorted[place(p)].obis = sorted[n].obis /\ sorted[place(p)].extra = sorted[n].extra
    BY <1>4, <2>2, <2>5, MergeGroup
  <2>7. ValueAt(new, p) = sorted[place(p)].intervals[1]
    BY <2>2, <2>3, <2>4, <2>5 DEF ValueAt
  <2> QED BY <2>1, <2>2, <2>5, <2>6, <2>7 DEF n
<1>13. ASSUME NEW p \in PlacesOf(new), NEW q \in PlacesOf(new), place(p) = place(q)
       PROVE  p = q
  <2> DEFINE k == place(p)
             n == v[p[1]]
             m == v[q[1]]
  <2>1. /\ k \in Nat /\ n \in Nat /\ m \in Nat /\ k >= n /\ k >= m
        /\ n \in MergeStarts(sorted) /\ m \in MergeStarts(sorted)
        /\ MergeStarts(sorted) \cap ((n + 1)..k) = {} /\ MergeStarts(sorted) \cap ((m + 1)..k) = {}
    <3> HIDE DEF place
    <3> QED BY <1>5, <1>12, <1>13
  <2>2. n = m
    <3> HIDE DEF k, n, m
    <3>1. CASE n < m
      <4>1. m \in (n + 1)..k
        BY <2>1, <3>1
      <4> QED BY <2>1, <4>1
    <3>2. CASE m < n
      <4>1. n \in (m + 1)..k
        BY <2>1, <3>2
      <4> QED BY <2>1, <4>1
    <3> QED BY <2>1, <3>1, <3>2
  <2>3. p[1] = q[1]
    <3> HIDE DEF place
    <3> QED BY <1>9, <1>12, <2>2
  <2>4. p[2] \in DOMAIN MergedFrom(sorted, n) /\ q[2] \in DOMAIN MergedFrom(sorted, n)
    BY <1>8, <2>3, PlaceShape
  <2>5. o(n)[p[2]] = o(n)[q[2]]
    BY <1>13, <2>3
  <2>6. p[2] = q[2]
    <3> HIDE DEF n, first
    <3> QED BY <1>11, <2>4, <2>5 DEF Selects
  <2> HIDE DEF place
  <2> QED BY <1>12, <2>3, <2>6
<1> HIDE DEF place
<1>14. DOMAIN u = PlacesOf(new) /\ \A p \in PlacesOf(new) : u[p] = s[place(p)]
  OBVIOUS
<1> HIDE DEF u
<1>15. \A p \in PlacesOf(new) :
         /\ u[p] \in DOMAIN rows /\ ValueAt(new, p) = rows[u[p]].intervals[1]
         /\ new[p[1]].obis = rows[u[p]].obis /\ new[p[1]].extra = rows[u[p]].extra
  BY <1>3, <1>12, <1>14
<1>16. \A n \in DOMAIN new : \E k \in DOMAIN rows :
         new[n].melo = rows[k].melo /\ new[n].obis = rows[k].obis /\ new[n].extra = rows[k].extra
  BY <1>3, <1>8
<1>17. \A p, q \in PlacesOf(new) : u[p] = u[q] => p = q
  BY <1>3, <1>12, <1>13, <1>14
<1>18. MergedAs(rows, u)
  BY <1>14, <1>15, <1>16, <1>17 DEF MergedAs, new
<1> QED BY <1>18

\* What is out of force was reported, each report once.
LEMMA OutOfForceOnce ==
  ASSUME NEW w, Listing(call[w].displaced)
  PROVE  \E o : /\ \A n \in DOMAIN OutOfForce(w) :
                     o[n] \in DOMAIN call[w].displaced /\ OutOfForce(w)[n] = call[w].displaced[o[n]]
                /\ \A m, n \in DOMAIN OutOfForce(w) : o[m] = o[n] => m = n
<1> DEFINE s == call[w].displaced
           picked == [k \in DOMAIN s |-> ~TookEffect(s[k])]
           out == OutOfForce(w)
<1>1. Len(s) \in Nat /\ DOMAIN s = 1..Len(s)
  BY DEF Listing
<1>2. out = FlattenSeq([k \in 1..Len(s) |-> IF picked[k] THEN <<s[k]>> ELSE <<>>])
  <2>1. [k \in DOMAIN s |-> IF TookEffect(s[k]) THEN <<>> ELSE <<s[k]>>]
          = [k \in 1..Len(s) |-> IF picked[k] THEN <<s[k]>> ELSE <<>>]
    BY <1>1
  <2> QED BY <2>1 DEF OutOfForce
<1> HIDE DEF out, picked, s
<1>3. PICK o : Selects(out, o, Len(s), picked, s)
  BY <1>1, <1>2, FlattenSelects
<1>4. /\ \A n \in DOMAIN out : o[n] \in DOMAIN s /\ out[n] = s[o[n]]
      /\ \A m, n \in DOMAIN out : o[m] = o[n] => m = n
  BY <1>1, <1>3 DEF Selects
<1> QED BY <1>4 DEF out, s

-----------------------------------------------------------------------------

\* The places of a batch that name a reading.
Naming(b, key) == {place \in PlacesOf(b) : StoredKey(GivenAt(b, place)) = key}

\* A batch names a reading once at most, and as the columns spell it.
NamedOnce(b, key) == \A p, o \in Naming(b, key) : p = o /\ KeyOf(table, GivenAt(b, p)) = key

\* What is authored again is a value of the batch that has its key.
LEMMA ReauthoredPlace ==
  ASSUME NEW b, IsBatch(b), NEW d, Located(b, d) # {}
  PROVE  LET place == FirstOf(Located(b, d))
             e == Reauthored(b, d)
         IN /\ place \in PlacesOf(b) /\ KeyOf(table, GivenAt(b, place)) = d.key
            /\ e.intervals = <<ValueAt(b, place)>> /\ e.obis = b[place[1]].obis
            /\ e.extra = b[place[1]].extra /\ e.melo = b[place[1]].melo
<1> DEFINE place == FirstOf(Located(b, d))
           given == b[place[1]]
           e == [given EXCEPT !.intervals = <<given.intervals[place[2]]>>, !.label = NextVersion(d.superseded.label)]
<1>1. \A p \in Located(b, d) : p \in PlacesOf(b) /\ KeyOf(table, GivenAt(b, p)) = d.key
  BY DEF Located, PlacesOf, GivenAt, ValueAt
<1>2. place \in Located(b, d)
  <2>1. \A p \in Located(b, d) : p[1] \in Nat /\ p[2] \in Nat
    BY <1>1, PlaceShape, BatchShape
  <2> QED BY <2>1, FirstIs
<1>3. Reauthored(b, d) = e
  BY DEF Reauthored
<1>4. place \in PlacesOf(b) /\ KeyOf(table, GivenAt(b, place)) = d.key
  BY <1>1, <1>2
<1>5. IsDelivery(given)
  BY <1>4, PlaceShape, BatchShape
<1> HIDE DEF place
<1>6. {"obis", "extra", "melo", "intervals", "label"} \subseteq DOMAIN given
  BY <1>5 DEF IsDelivery
<1>7. /\ e.intervals = <<ValueAt(b, place)>> /\ e.obis = given.obis /\ e.extra = given.extra
      /\ e.melo = given.melo
  BY <1>6 DEF ValueAt
<1> QED BY <1>3, <1>4, <1>7 DEF place

\* A batch that is authored again names no reading oftener than it was displaced, and none
\* it did not name before.
LEMMA AuthoredNames ==
  ASSUME NEW b, IsBatch(b), ~MeterMixed(b), NEW shadowed, Listing(shadowed),
         \A n \in DOMAIN shadowed :
           ReportOk(shadowed[n]) /\ shadowed[n].effect # "Inserted" /\ Located(b, shadowed[n]) # {}
  PROVE  LET new == MergeAuthored([n \in DOMAIN shadowed |-> Reauthored(b, shadowed[n])])
         IN /\ ~MeterMixed(new)
            /\ \A key : NamedOnce(b, key)
                          /\ (\A m, n \in DOMAIN shadowed : shadowed[m].key = key /\ shadowed[n].key = key => m = n)
                        => NamedOnce(new, key) /\ (Naming(new, key) # {} => Naming(b, key) # {})
<1> DEFINE rows == [n \in DOMAIN shadowed |-> Reauthored(b, shadowed[n])]
           new == MergeAuthored(rows)
           at(n) == FirstOf(Located(b, shadowed[n]))
<1>1. ASSUME NEW n \in DOMAIN shadowed
      PROVE  /\ at(n) \in PlacesOf(b) /\ KeyOf(table, GivenAt(b, at(n))) = shadowed[n].key
             /\ rows[n].intervals = <<ValueAt(b, at(n))>> /\ rows[n].obis = b[at(n)[1]].obis
             /\ rows[n].extra = b[at(n)[1]].extra /\ rows[n].melo = b[at(n)[1]].melo
             /\ IsDelivery(rows[n])
  BY ReauthoredPlace, ReauthoredDelivery
<1>2. DOMAIN rows = DOMAIN shadowed
  OBVIOUS
<1>3. Listing(rows)
  <2>1. Len(shadowed) \in Nat /\ DOMAIN shadowed = 1..Len(shadowed)
    BY DEF Listing
  <2>2. rows = [k \in 1..Len(shadowed) |-> rows[k]] /\ DOMAIN rows = 1..Len(shadowed)
    BY <2>1
  <2> HIDE DEF rows
  <2> QED BY <2>1, <2>2, BuiltListing
<1> HIDE DEF rows, at
<1>4. IsBatch(rows) /\ Singles(rows)
  BY <1>1, <1>2, <1>3 DEF IsBatch, Singles
<1>5. PICK u : MergedAs(rows, u)
  BY <1>4, MergedPlaces
<1> HIDE DEF new
<1>6. /\ DOMAIN u = PlacesOf(new)
      /\ \A p \in PlacesOf(new) :
           /\ u[p] \in DOMAIN rows /\ ValueAt(new, p) = rows[u[p]].intervals[1]
           /\ new[p[1]].obis = rows[u[p]].obis /\ new[p[1]].extra = rows[u[p]].extra
      /\ \A n \in DOMAIN new : \E k \in DOMAIN rows :
           new[n].melo = rows[k].melo /\ new[n].obis = rows[k].obis /\ new[n].extra = rows[k].extra
      /\ \A p, q \in PlacesOf(new) : u[p] = u[q] => p = q
  BY <1>5 DEF MergedAs, new
<1>7. \A n \in DOMAIN rows : \E m \in DOMAIN b :
        rows[n].obis = b[m].obis /\ rows[n].extra = b[m].extra /\ rows[n].melo = b[m].melo
  BY <1>1, <1>2, PlaceShape
<1>8. \A n \in DOMAIN new : \E m \in DOMAIN b :
        new[n].obis = b[m].obis /\ new[n].extra = b[m].extra /\ new[n].melo = b[m].melo
  BY <1>6, <1>7
<1>9. ~MeterMixed(new)
  BY <1>8 DEF MeterMixed
<1>10. ASSUME NEW p \in PlacesOf(new)
       PROVE  SameReading(GivenAt(new, p), GivenAt(b, at(u[p])))
  <2> DEFINE n == u[p]
             o == at(n)
  <2>1. /\ n \in DOMAIN rows /\ ValueAt(new, p) = rows[n].intervals[1]
        /\ new[p[1]].obis = rows[n].obis /\ new[p[1]].extra = rows[n].extra
    BY <1>6
  <2>2. /\ o \in PlacesOf(b) /\ rows[n].intervals = <<ValueAt(b, o)>>
        /\ rows[n].obis = b[o[1]].obis /\ rows[n].extra = b[o[1]].extra
    BY <1>1, <1>2, <2>1
  <2> HIDE DEF n, o
  <2>3. p[1] \in DOMAIN new /\ o[1] \in DOMAIN b
    BY <2>2, PlaceShape
  <2>4. new[p[1]].obis = b[o[1]].obis /\ new[p[1]].extra = b[o[1]].extra /\ ValueAt(new, p) = ValueAt(b, o)
    BY <2>1, <2>2
  <2>5. PICK m \in DOMAIN b : new[p[1]].obis = b[m].obis /\ new[p[1]].extra = b[m].extra /\ new[p[1]].melo = b[m].melo
    BY <1>8, <2>3
  <2>6. new[p[1]].melo = b[o[1]].melo
    BY <2>3, <2>4, <2>5 DEF MeterMixed
  <2>7. ObisFor(new[p[1]], ValueAt(new, p)) = ObisFor(b[o[1]], ValueAt(b, o))
    BY <2>4 DEF ObisFor
  <2> QED BY <2>4, <2>6, <2>7, GivenFields DEF SameReading, GivenAt, o, n
<1>11. ASSUME NEW p \in PlacesOf(new)
       PROVE  /\ KeyOf(table, GivenAt(new, p)) = KeyOf(table, GivenAt(b, at(u[p])))
              /\ StoredKey(GivenAt(new, p)) = StoredKey(GivenAt(b, at(u[p])))
              /\ at(u[p]) \in PlacesOf(b) /\ KeyOf(table, GivenAt(b, at(u[p]))) = shadowed[u[p]].key
              /\ u[p] \in DOMAIN shadowed
  <2>1. u[p] \in DOMAIN shadowed
    BY <1>2, <1>6
  <2>2. SameReading(GivenAt(new, p), GivenAt(b, at(u[p])))
    BY <1>10
  <2> QED BY <1>1, <2>1, <2>2, SameReadingKey DEF GivenAt
<1>12. ASSUME NEW key, NamedOnce(b, key),
              \A m, n \in DOMAIN shadowed : shadowed[m].key = key /\ shadowed[n].key = key => m = n
       PROVE  NamedOnce(new, key) /\ (Naming(new, key) # {} => Naming(b, key) # {})
  <2>1. ASSUME NEW p \in Naming(new, key)
        PROVE  /\ at(u[p]) \in Naming(b, key) /\ p \in PlacesOf(new) /\ u[p] \in DOMAIN shadowed
               /\ KeyOf(table, GivenAt(new, p)) = key /\ shadowed[u[p]].key = key
    <3>1. p \in PlacesOf(new) /\ StoredKey(GivenAt(new, p)) = key
      BY DEF Naming
    <3>2. at(u[p]) \in Naming(b, key)
      BY <1>11, <3>1 DEF Naming
    <3>3. KeyOf(table, GivenAt(b, at(u[p]))) = key
      BY <1>12, <3>2 DEF NamedOnce
    <3> QED BY <1>11, <3>1, <3>2, <3>3
  <2>2. \A p, o \in Naming(new, key) : p = o
    BY <1>6, <1>12, <2>1
  <2> QED BY <2>1, <2>2 DEF NamedOnce
<1> QED BY <1>9, <1>12 DEF new, rows

-----------------------------------------------------------------------------
(* One reading, and the calls that name it.                                *)

\* A reading the columns can hold.
Spelled(key) == \E r : IsRow(table, r) /\ KeyOf(table, r) = key

\* A reading is in the cold files once at each version.
UniqueAt(key) ==
  \A f, g \in DOMAIN cold : \A m \in DOMAIN cold[f], n \in DOMAIN cold[g] :
    KeyOf(table, cold[f][m]) = key /\ KeyOf(table, cold[g][n]) = key /\ cold[f][m].version = cold[g][n].version
      => f = g /\ m = n

\* Where a report is about a reading.
About(s, key) == {n \in DOMAIN s : s[n].key = key}

\* An authored batch the store knows of names the reading.
AuthoredFor(key) == \E k \in DOMAIN scene.writes : scene.writes[k].authored /\ Naming(scene.writes[k].batch, key) # {}

\* What a call does with one reading: it names it once, and reports it once at most before
\* it writes it again.
KeyCall(c, key) ==
  c.pc \notin Finished =>
    /\ NamedOnce(c.pending, key)
    /\ c.pc \in Routed => scene.boundary <= c.base
    /\ c.authored =>
         /\ ~MeterMixed(c.pending)
         /\ Naming(c.pending, key) # {} => AuthoredFor(key)
         /\ \A m, n \in About(c.displaced, key) : m = n
         /\ About(c.displaced, key) # {} => Naming(c.pending, key) # {} /\ c.pc \in {"cold", "recheck"}
         /\ About(c.displaced, key) # {} /\ c.pc = "cold" =>
              \E p \in Naming(c.pending, key) : GivenAt(c.pending, p).from >= c.base

\* What is said of a reading and a call depends on the scene alone.
LEMMA KeyCallSame ==
  ASSUME scene' = scene, NEW c, NEW key
  PROVE  /\ KeyCall(c, key)' <=> KeyCall(c, key)
         /\ NamedOnce(c.pending, key)' <=> NamedOnce(c.pending, key)
         /\ Spelled(key)' <=> Spelled(key)
<1>1. table' = table /\ \A g : StoredKey(g)' = StoredKey(g)
  BY DEF StoredKey, AsStored, table
<1>2. \A b : Naming(b, key)' = Naming(b, key)
  BY <1>1 DEF Naming, PlacesOf, GivenAt, ValueAt
<1>3. \A b : NamedOnce(b, key)' <=> NamedOnce(b, key)
  BY <1>1, <1>2 DEF NamedOnce, GivenAt, ValueAt
<1>4. AuthoredFor(key)' <=> AuthoredFor(key)
  BY <1>2 DEF AuthoredFor
<1>5. Spelled(key)' <=> Spelled(key)
  BY <1>1 DEF Spelled
<1>6. KeyCall(c, key)' <=> KeyCall(c, key)
  BY <1>2, <1>3, <1>4 DEF KeyCall, About, MeterMixed, GivenAt, ValueAt
<1> QED BY <1>3, <1>5, <1>6

\* It stays true of a call that another one passes.
LEMMA KeyCallStays ==
  ASSUME scene' = scene, NEW v, CallShape(call[v], table, boundary), Undisturbed(v), NEW key, KeyCall(call[v], key)
  PROVE  KeyCall(call[v], key)'
<1>1. KeyCall(call'[v], key)
  <2>1. /\ call'[v].pc = call[v].pc
        /\ call[v].pc \notin Finished =>
             /\ call'[v].authored = call[v].authored /\ call'[v].pending = call[v].pending
             /\ call'[v].base = call[v].base /\ call'[v].displaced = call[v].displaced
    BY UndisturbedFields
  <2> QED BY <2>1 DEF KeyCall
<1>2. PICK d : d = call'[v]
  OBVIOUS
<1>3. KeyCall(d, key)'
  BY <1>1, <1>2, KeyCallSame
<1> QED BY <1>2, <1>3

\* What it means for a reading to be plainly named, by places.
LEMMA PlainIs ==
  ASSUME StoreOk, NEW key, PlainlyNamed(key), NEW k \in DOMAIN scene.writes
  PROVE  /\ NamedOnce(scene.writes[k].batch, key)
         /\ scene.writes[k].authored =>
              ~MeterMixed(scene.writes[k].batch) /\ (Naming(scene.writes[k].batch, key) = {} \/ boundary = scene.boundary)
<1> DEFINE b == scene.writes[k].batch
           given == IncomingOf(b)
           named == {n \in DOMAIN given : StoredKey(given[n]) = key}
<1>1. IsBatch(b)
  <2>1. IsScene(scene)
    BY WritesAssumption DEF StoreOk
  <2>2. DOMAIN scene.writes = 1..Len(scene.writes)
    BY <2>1, ListingOf DEF IsScene
  <2> QED BY <2>2, SceneBatch DEF StoreOk
<1>2. /\ \A n, m \in named : n = m /\ KeyOf(table, given[n]) = key
      /\ \/ ~scene.writes[k].authored
         \/ ~MeterMixed(b) /\ (named = {} \/ boundary = scene.boundary)
  BY DEF PlainlyNamed
<1> HIDE DEF given, b
<1>3. PICK o : Numbers(given, o, b)
  BY <1>1, IncomingPlaces DEF given
<1>4. \A p \in Naming(b, key) : \E n \in named : o[n] = p /\ given[n] = GivenAt(b, p)
  BY <1>3 DEF Numbers, Naming
<1>5. NamedOnce(b, key)
  BY <1>2, <1>4 DEF NamedOnce
<1>6. named = {} => Naming(b, key) = {}
  BY <1>4
<1> QED BY <1>2, <1>5, <1>6 DEF b

\* Where an authored batch names a plainly named reading, the boundary has not moved.
LEMMA AuthoredHolds ==
  ASSUME StoreOk, NEW key, PlainlyNamed(key), AuthoredFor(key)
  PROVE  boundary = scene.boundary
BY PlainIs DEF AuthoredFor

\* An empty report is about nothing.
LEMMA NothingAbout == ASSUME NEW key PROVE About(<<>>, key) = {}
BY DEF About

\* Of a call that ended nothing is said.
LEMMA EndedKey ==
  ASSUME NEW c, c.pc \in Finished, NEW key
  PROVE  KeyCall(c, key)
BY DEF KeyCall

\* A call begins with a batch of its scene.
LEMMA KeyBegin ==
  ASSUME StoreOk, CallsOk, NEW w \in Writers, Begin(w), NEW key, PlainlyNamed(key)
  PROVE  KeyCall(call'[w], key)
<1> DEFINE k == writes + 1
           c == scene.writes[k]
           new == [pc |-> IF Admitted(c) THEN "route" ELSE "refused", authored |-> c.authored,
                   batch |-> c.batch, pending |-> c.batch, base |-> 0, routings |-> 1, rounds |-> 1,
                   prior |-> {}, displaced |-> <<>>, raced |-> {}]
<1>1. call' = [call EXCEPT ![w] = new] /\ writes < Len(scene.writes) /\ scene' = scene /\ boundary' = boundary
  BY DEF Begin
<1>2. writes \in Nat /\ scene \in Scenes
  BY DEF CallsOk, StoreOk
<1>3. Len(scene.writes) \in Nat /\ DOMAIN scene.writes = 1..Len(scene.writes)
  BY <1>2, WritesAssumption DEF IsScene, Listing
<1>4. k \in DOMAIN scene.writes
  BY <1>1, <1>2, <1>3
<1>5. /\ new.pc \in {"route", "refused"} /\ new.pending = c.batch /\ new.authored = c.authored
      /\ new.displaced = <<>>
  OBVIOUS
<1> HIDE DEF new, k
<1>6. call'[w] = new
  BY <1>1, OwnStep
<1>7. /\ NamedOnce(c.batch, key)
      /\ c.authored => ~MeterMixed(c.batch)
      /\ c.authored /\ Naming(c.batch, key) # {} => AuthoredFor(key)
  BY <1>4, PlainIs DEF AuthoredFor
<1> HIDE DEF c
<1>8. KeyCall(new, key)
  BY <1>5, <1>7, NothingAbout DEF KeyCall, Routed
<1> QED BY <1>6, <1>8

\* Routing sets the boundary the call goes by, before anything is reported.
LEMMA KeyRoute ==
  ASSUME StoreOk, CallsOk, StoreKept, NEW w \in Writers, Route(w), NEW key, KeyCall(call[w], key)
  PROVE  KeyCall(call'[w], key)
<1> DEFINE c == call[w]
           new == [c EXCEPT !.pc = FirstPart(w), !.base = boundary]
<1>1. CallShape(c, table, boundary) /\ c.pc = "route" /\ scene' = scene /\ boundary' = boundary
  BY DEF CallsOk, Route
<1>2. CASE Encode(table, HotPart(call[w].pending, boundary)) = {}
  <2>1. call' = [call EXCEPT ![w] = End(w, "refused")]
    BY <1>2 DEF Route
  <2>2. call'[w] = End(w, "refused")
    BY <2>1, <1>1, OwnStep
  <2> QED BY <2>2, EndedKey DEF End, Finished
<1>3. CASE Encode(table, HotPart(call[w].pending, boundary)) # {}
  <2>1. call' = [call EXCEPT ![w] = new]
    BY <1>3 DEF Route, CallsOk
  <2>2. call'[w] = new
    <3> HIDE DEF new
    <3> QED BY <2>1, <1>1, OwnStep
  <2>3. DOMAIN c = CallFields
    BY <1>1 DEF CallShape, Finished
  <2>4. /\ new.pc = FirstPart(w) /\ new.base = boundary /\ new.authored = c.authored
        /\ new.pending = c.pending /\ new.displaced = c.displaced
    BY <2>3 DEF CallFields
  <2> HIDE DEF new
  <2>5. c.authored => About(c.displaced, key) = {}
    BY <1>1 DEF KeyCall, Finished
  <2>6. KeyCall(new, key)
    BY <1>1, <2>4, <2>5 DEF KeyCall, Finished, StoreKept
  <2> QED BY <2>2, <2>6
<1> QED BY <1>2, <1>3

\* Reading the prior rows reports nothing.
LEMMA KeySelect ==
  ASSUME StoreOk, CallsOk, NEW w \in Writers, SelectPrior(w), NEW key, KeyCall(call[w], key)
  PROVE  KeyCall(call'[w], key)
<1> DEFINE c == call[w]
           prior == PriorFor(Attached, HotRows(w))
           new == [c EXCEPT !.pc = "insert", !.prior = prior, !.raced = c.raced \ KeysOf(HotRows(w))]
<1>1. CallShape(c, table, boundary) /\ c.pc = "select" /\ scene' = scene /\ boundary' = boundary
  BY DEF CallsOk, SelectPrior
<1>2. CASE ~StoredInOneScope(prior)
  <2>1. call' = [call EXCEPT ![w] = End(w, "refused")]
    BY <1>2 DEF SelectPrior
  <2>2. call'[w] = End(w, "refused")
    BY <2>1, <1>1, OwnStep
  <2> QED BY <2>2, EndedKey DEF End, Finished
<1>3. CASE StoredInOneScope(prior)
  <2>1. call' = [call EXCEPT ![w] = new]
    <3>1. call' = [call EXCEPT ![w] = IF StoredInOneScope(prior) THEN new ELSE End(w, "refused")]
      BY DEF SelectPrior
    <3> HIDE DEF new
    <3> QED BY <3>1, <1>3
  <2>2. call'[w] = new
    <3> HIDE DEF new
    <3> QED BY <2>1, <1>1, OwnStep
  <2>3. DOMAIN c = CallFields
    BY <1>1 DEF CallShape, Finished
  <2> HIDE DEF prior
  <2>4. /\ new.pc = "insert" /\ new.base = c.base /\ new.authored = c.authored
        /\ new.pending = c.pending /\ new.displaced = c.displaced
    BY <2>3 DEF CallFields
  <2> HIDE DEF new
  <2>5. (c.authored => About(c.displaced, key) = {}) /\ scene.boundary <= c.base
    BY <1>1 DEF KeyCall, Finished, Routed
  <2>6. KeyCall(new, key)
    BY <1>1, <2>4, <2>5 DEF KeyCall, Finished
  <2> QED BY <2>2, <2>6
<1> QED BY <1>2, <1>3

\* A reading that is reported and then routed again would be reported twice: where its
\* authored writes meet a boundary that stands, it is not.
LEMMA KeyReroute ==
  ASSUME StoreOk, CallsOk, NEW w \in Writers, Reroute(w), NEW key, PlainlyNamed(key), KeyCall(call[w], key)
  PROVE  KeyCall(call'[w], key)
<1> DEFINE c == call[w]
           new == [c EXCEPT !.pc = "route", !.routings = c.routings + 1]
<1>1. CallShape(c, table, boundary) /\ c.pc = "recheck" /\ scene' = scene /\ boundary' = boundary
  BY DEF CallsOk, Reroute
<1>2. CASE ~(c.routings < BoundaryAttempts)
  <2>1. call' = [call EXCEPT ![w] = End(w, "refused")]
    BY <1>2 DEF Reroute
  <2>2. call'[w] = End(w, "refused")
    BY <2>1, <1>1, OwnStep
  <2> QED BY <2>2, EndedKey DEF End, Finished
<1>3. CASE c.routings < BoundaryAttempts
  <2>1. call' = [call EXCEPT ![w] = new]
    <3>1. call' = [call EXCEPT ![w] = IF c.routings < BoundaryAttempts THEN new ELSE End(w, "refused")]
      BY DEF Reroute
    <3> HIDE DEF new
    <3> QED BY <3>1, <1>3
  <2>2. call'[w] = new
    <3> HIDE DEF new
    <3> QED BY <2>1, <1>1, OwnStep
  <2>3. DOMAIN c = CallFields /\ IsBatch(c.pending) /\ c.base \in Nat /\ c.base <= boundary
    BY <1>1 DEF CallShape, Finished, Routed
  <2>4. /\ new.pc = "route" /\ new.authored = c.authored
        /\ new.pending = c.pending /\ new.displaced = c.displaced
    BY <2>3 DEF CallFields
  <2> HIDE DEF new
  <2>5. boundary # c.base
    <3>1. PICK n \in DOMAIN c.pending : \E m \in DOMAIN c.pending[n].intervals :
            c.pending[n].intervals[m].from >= c.base /\ c.pending[n].intervals[m].from < boundary
      BY DEF Reroute, BoundaryMovedUnder
    <3>2. PICK m \in DOMAIN c.pending[n].intervals :
            c.pending[n].intervals[m].from >= c.base /\ c.pending[n].intervals[m].from < boundary
      BY <3>1
    <3>3. c.pending[n].intervals[m].from \in Nat
      <4>1. <<n, m>> \in PlacesOf(c.pending)
        BY PlaceIn
      <4>2. ValueAt(c.pending, <<n, m>>).from \in Nat
        BY <2>3, <4>1, GivenFrom
      <4> QED BY <4>2 DEF ValueAt
    <3> QED BY <2>3, <3>2, <3>3 DEF StoreOk
  <2>6. scene.boundary <= c.base
    BY <1>1 DEF KeyCall, Finished, Routed
  <2>7. scene.boundary \in Nat
    BY WritesAssumption DEF StoreOk, IsScene
  <2>8. c.authored => About(c.displaced, key) = {}
    <3>1. SUFFICES ASSUME c.authored, About(c.displaced, key) # {} PROVE FALSE
      OBVIOUS
    <3>2. AuthoredFor(key)
      BY <1>1, <3>1 DEF KeyCall, Finished
    <3> QED BY <2>3, <2>5, <2>6, <2>7, <3>2, AuthoredHolds DEF StoreOk
  <2>9. KeyCall(new, key)
    BY <1>1, <2>4, <2>8 DEF KeyCall, Finished, Routed
  <2> QED BY <2>2, <2>9
<1> QED BY <1>2, <1>3

\* A round of authoring again names what the last one reported, once.
LEMMA KeyAuthor ==
  ASSUME StoreOk, CallsOk, NEW w \in Writers, AuthorAgain(w), NEW key, KeyCall(call[w], key)
  PROVE  KeyCall(call'[w], key)
<1> DEFINE c == call[w]
           shadowed == OutOfForce(w)
           again == [n \in DOMAIN shadowed |-> Reauthored(c.pending, shadowed[n])]
           new == [c EXCEPT !.pc = "route", !.routings = 1, !.rounds = c.rounds + 1, !.displaced = <<>>,
                            !.pending = MergeAuthored(again)]
           mayAgain == c.rounds < AuthoritativeAttempts /\ \A n \in DOMAIN shadowed : Located(c.pending, shadowed[n]) # {}
<1>1. CallShape(c, table, boundary) /\ c.pc = "recheck" /\ c.authored /\ scene' = scene /\ boundary' = boundary
  BY DEF CallsOk, AuthorAgain
<1>2. CASE ~mayAgain
  <2>1. call' = [call EXCEPT ![w] = End(w, "refused")]
    BY <1>2 DEF AuthorAgain
  <2>2. call'[w] = End(w, "refused")
    BY <2>1, <1>1, OwnStep
  <2> QED BY <2>2, EndedKey DEF End, Finished
<1>3. CASE mayAgain
  <2>1. call' = [call EXCEPT ![w] = new]
    <3>1. call' = [call EXCEPT ![w] = IF mayAgain THEN new ELSE End(w, "refused")]
      BY DEF AuthorAgain
    <3> HIDE DEF new, mayAgain
    <3> QED BY <3>1, <1>3
  <2>2. call'[w] = new
    <3> HIDE DEF new
    <3> QED BY <2>1, <1>1, OwnStep
  <2>3. DOMAIN c = CallFields /\ IsBatch(c.pending) /\ Listing(c.displaced)
        /\ \A n \in DOMAIN c.displaced : ReportOk(c.displaced[n])
    BY <1>1 DEF CallShape, Finished
  <2>4. Listing(shadowed) /\ \A n \in DOMAIN shadowed : ReportOk(shadowed[n]) /\ ~TookEffect(shadowed[n])
    <3>1. Listing(shadowed) /\ \A n \in DOMAIN shadowed : \E k \in DOMAIN c.displaced :
            shadowed[n] = c.displaced[k] /\ ~TookEffect(c.displaced[k])
      BY <2>3, OutOfForceIs
    <3> HIDE DEF shadowed, c
    <3> QED BY <2>3, <3>1
  <2>5. \A n \in DOMAIN shadowed : shadowed[n].effect # "Inserted"
    BY <2>4 DEF TookEffect, ChangedCurrentValue
  <2>6. \A n \in DOMAIN shadowed : Located(c.pending, shadowed[n]) # {}
    BY <1>3
  <2>7. PICK o : /\ \A n \in DOMAIN shadowed : o[n] \in DOMAIN c.displaced /\ shadowed[n] = c.displaced[o[n]]
                 /\ \A m, n \in DOMAIN shadowed : o[m] = o[n] => m = n
    BY <2>3, OutOfForceOnce
  <2>8. /\ NamedOnce(c.pending, key) /\ ~MeterMixed(c.pending)
        /\ Naming(c.pending, key) # {} => AuthoredFor(key)
        /\ \A m, n \in About(c.displaced, key) : m = n
    BY <1>1 DEF KeyCall, Finished
  <2>9. /\ new.pc = "route" /\ new.authored = c.authored
        /\ new.pending = MergeAuthored(again) /\ new.displaced = <<>>
    BY <2>3 DEF CallFields
  <2> HIDE DEF new
  <2>10. \A m, n \in DOMAIN shadowed : shadowed[m].key = key /\ shadowed[n].key = key => m = n
    <3> HIDE DEF shadowed
    <3> QED BY <2>7, <2>8 DEF About
  <2>11. /\ ~MeterMixed(MergeAuthored(again)) /\ NamedOnce(MergeAuthored(again), key)
         /\ Naming(MergeAuthored(again), key) # {} => Naming(c.pending, key) # {}
    <3> HIDE DEF shadowed, c
    <3> QED BY <2>3, <2>4, <2>5, <2>6, <2>8, <2>10, AuthoredNames
  <2> HIDE DEF again
  <2>12. KeyCall(new, key)
    BY <2>8, <2>9, <2>11, NothingAbout DEF KeyCall, Routed
  <2> QED BY <2>2, <2>12
<1> QED BY <1>2, <1>3

-----------------------------------------------------------------------------
(* What is reported of a reading.                                          *)

\* A report joined to another speaks of a reading where one of them does.
LEMMA AboutJoined ==
  ASSUME NEW s, NEW t, Listing(s), Listing(t), NEW key,
         \A m, n \in About(s, key) : m = n, \A m, n \in About(t, key) : m = n,
         About(s, key) = {} \/ About(t, key) = {}
  PROVE  /\ \A m, n \in About(s \o t, key) : m = n
         /\ About(s \o t, key) # {} => About(s, key) # {} \/ About(t, key) # {}
<1> DEFINE S == ToSet(s) \cup ToSet(t)
<1>1. s \in Seq(S) /\ t \in Seq(S)
  <2>1. s \in Seq(ToSet(s)) /\ t \in Seq(ToSet(t)) /\ ToSet(s) \subseteq S /\ ToSet(t) \subseteq S
    BY DEF Listing
  <2> HIDE DEF S
  <2> QED BY <2>1
<1> HIDE DEF S
<1>2. DOMAIN (s \o t) = 1..(Len(s) + Len(t)) /\ Len(s) \in Nat /\ Len(t) \in Nat
      /\ DOMAIN s = 1..Len(s) /\ DOMAIN t = 1..Len(t)
  BY <1>1
<1>3. \A n \in 1..(Len(s) + Len(t)) : IF n <= Len(s) THEN (s \o t)[n] = s[n] /\ n \in DOMAIN s
                                     ELSE (s \o t)[n] = t[n - Len(s)] /\ n - Len(s) \in DOMAIN t
  BY <1>1, <1>2
<1>4. \A n \in About(s \o t, key) :
        n \in Nat /\ IF n <= Len(s) THEN n \in About(s, key) ELSE n - Len(s) \in About(t, key)
  BY <1>2, <1>3 DEF About
<1>5. ASSUME NEW m \in About(s \o t, key), NEW n \in About(s \o t, key)
      PROVE  m = n
  <2>1. CASE About(t, key) = {}
    BY <1>4, <2>1
  <2>2. CASE About(s, key) = {}
    <3>1. m - Len(s) \in About(t, key) /\ n - Len(s) \in About(t, key) /\ m \in Nat /\ n \in Nat
      BY <1>4, <2>2
    <3>2. m - Len(s) = n - Len(s)
      BY <3>1
    <3> QED BY <1>2, <3>1, <3>2
  <2> QED BY <2>1, <2>2
<1> QED BY <1>4, <1>5

\* The rows of an insert under a reading its batch names once.
LEMMA HotRowsAbout ==
  ASSUME StoreOk, CallsOk, NEW w \in Writers, call[w].pc \in {"select", "insert"},
         NEW key, NamedOnce(call[w].pending, key)
  PROVE  /\ \A n \in DOMAIN HotRows(w) : KeyOf(table, HotRows(w)[n]) = key =>
              \E p \in Naming(call[w].pending, key) : GivenAt(call[w].pending, p).from >= call[w].base
         /\ \A m, n \in DOMAIN HotRows(w) :
              KeyOf(table, HotRows(w)[m]) = key /\ KeyOf(table, HotRows(w)[n]) = key => m = n
<1> DEFINE b == call[w].pending
           at == call[w].base
           N == HotPart(b, at)
           rows == HotRows(w)
<1>1. IsBatch(b) /\ IsBatch(N) /\ rows \in Encode(table, N) /\ BuildAccepts(table)
  BY HotRowsAre, TableBuilt DEF StoreOk
<1>2. PICK u : Narrows(N, u, b, HotKeep(b, at))
  BY <1>1, PartPlaces
<1> HIDE DEF N, rows, b, at
<1>3. PICK o : Renders(rows, o, table, N)
  BY <1>1, EncodedPlaces
<1>4. \A place \in PlacesOf(N) : EncodableAt(table, N, place)
  BY <1>1, EncodedPlaces
<1>5. ASSUME NEW n \in DOMAIN rows, KeyOf(table, rows[n]) = key
      PROVE  /\ o[n] \in PlacesOf(N) /\ u[o[n]] \in Naming(b, key) /\ GivenAt(b, u[o[n]]).from >= at
  <2>1. o[n] \in PlacesOf(N) /\ rows[n] = RowAt(table, N, o[n])
    BY <1>3 DEF Renders
  <2>2. Keeps(RowAt(table, N, o[n]), GivenAt(N, o[n]))
    BY <1>1, <1>4, <2>1, RowFacts
  <2>3. GivenAt(N, o[n]) = GivenAt(b, u[o[n]])
    BY <1>1, <1>2, <2>1, NarrowedSame
  <2>4. u[o[n]] \in PlacesOf(b) /\ HotKeep(b, at)[u[o[n]][1]][u[o[n]][2]]
    BY <1>2, <2>1 DEF Narrows
  <2>5. ValueAt(b, u[o[n]]).from >= at
    BY <2>4, KeepAt
  <2>6. GivenAt(b, u[o[n]]).from = ValueAt(b, u[o[n]]).from
    BY <1>1, <2>4, GivenFrom
  <2> QED BY <1>5, <2>1, <2>2, <2>3, <2>4, <2>5, <2>6 DEF Keeps, Naming
<1>6. ASSUME NEW m \in DOMAIN rows, NEW n \in DOMAIN rows,
             KeyOf(table, rows[m]) = key, KeyOf(table, rows[n]) = key
      PROVE  m = n
  <2>1. o[m] \in PlacesOf(N) /\ o[n] \in PlacesOf(N) /\ u[o[m]] \in Naming(b, key) /\ u[o[n]] \in Naming(b, key)
    BY <1>5, <1>6
  <2>2. u[o[m]] = u[o[n]]
    BY <2>1 DEF NamedOnce, b
  <2>3. o[m] = o[n]
    BY <1>2, <2>1, <2>2 DEF Narrows
  <2> QED BY <1>3, <2>3 DEF Renders
<1> QED BY <1>5, <1>6 DEF rows, b, at

\* What is reconciled under a reading the batch names once.
LEMMA ColdGivenAbout ==
  ASSUME StoreOk, CallsOk, NEW w \in Writers, call[w].pc = "cold",
         NEW key, NamedOnce(call[w].pending, key), Spelled(key)
  PROVE  /\ \A n \in DOMAIN GivenCold(w) : KeyOf(table, GivenCold(w)[n]) = key =>
              \E p \in Naming(call[w].pending, key) :
                GivenAt(call[w].pending, p) = GivenCold(w)[n] /\ GivenAt(call[w].pending, p).from < call[w].base
         /\ \A m, n \in DOMAIN GivenCold(w) :
              KeyOf(table, GivenCold(w)[m]) = key /\ KeyOf(table, GivenCold(w)[n]) = key => m = n
<1> DEFINE b == call[w].pending
           at == call[w].base
           N == ColdOf(w)
           given == GivenCold(w)
<1>1. IsBatch(b) /\ IsBatch(N) /\ BuildAccepts(table)
  BY ColdShape
<1>2. PICK u : Narrows(N, u, b, ColdKeep(b, at))
  BY <1>1, PartPlaces DEF ColdOf
<1> HIDE DEF N, b, at
<1>3. PICK o : Numbers(given, o, N)
  BY <1>1, IncomingPlaces DEF GivenCold, N
<1> HIDE DEF given
<1>4. PICK r : IsRow(table, r) /\ KeyOf(table, r) = key
  BY DEF Spelled
<1>5. ASSUME NEW n \in DOMAIN given, KeyOf(table, given[n]) = key
      PROVE  /\ o[n] \in PlacesOf(N) /\ u[o[n]] \in Naming(b, key) /\ GivenAt(b, u[o[n]]).from < at
             /\ GivenAt(b, u[o[n]]) = given[n]
  <2>1. o[n] \in PlacesOf(N) /\ given[n] = GivenAt(N, o[n])
    BY <1>3 DEF Numbers
  <2>2. GivenAt(N, o[n]) = GivenAt(b, u[o[n]])
    BY <1>1, <1>2, <2>1, NarrowedSame
  <2>3. u[o[n]] \in PlacesOf(b) /\ ColdKeep(b, at)[u[o[n]][1]][u[o[n]][2]]
    BY <1>2, <2>1 DEF Narrows
  <2>4. ValueAt(b, u[o[n]]).from < at
    BY <2>3, KeepAt
  <2>5. GivenAt(b, u[o[n]]).from = ValueAt(b, u[o[n]]).from
    BY <1>1, <2>3, GivenFrom
  <2>6. StoredKey(GivenAt(b, u[o[n]])) = key
    BY <1>1, <1>4, <1>5, <2>1, <2>2, <2>3, GivenKeyStored
  <2> QED BY <2>1, <2>2, <2>3, <2>4, <2>5, <2>6 DEF Naming
<1>6. ASSUME NEW m \in DOMAIN given, NEW n \in DOMAIN given,
             KeyOf(table, given[m]) = key, KeyOf(table, given[n]) = key
      PROVE  m = n
  <2>1. o[m] \in PlacesOf(N) /\ o[n] \in PlacesOf(N) /\ u[o[m]] \in Naming(b, key) /\ u[o[n]] \in Naming(b, key)
    BY <1>5, <1>6
  <2>2. u[o[m]] = u[o[n]]
    BY <2>1 DEF NamedOnce, b
  <2>3. o[m] = o[n]
    BY <1>2, <2>1, <2>2 DEF Narrows
  <2> QED BY <1>3, <2>3 DEF Numbers
<1> QED BY <1>5, <1>6 DEF given, b, at

\* A report speaks of the keys of what was written.
LEMMA ReportKeys ==
  ASSUME NEW prior, NEW stored, NEW rows
  PROVE  /\ DOMAIN HotReport(prior, rows) = DOMAIN rows
         /\ \A n \in DOMAIN rows : HotReport(prior, rows)[n].key = KeyOf(table, rows[n])
         /\ DOMAIN ColdReport(stored, rows) = DOMAIN rows
         /\ \A n \in DOMAIN rows : ColdReport(stored, rows)[n].key = KeyOf(table, rows[n])
<1>1. \A key, effect, superseded, written : Displacement(key, effect, superseded, written).key = key
  BY DEF Displacement
<1>2. DOMAIN HotReport(prior, rows) = DOMAIN rows /\ DOMAIN ColdReport(stored, rows) = DOMAIN rows
  BY DEF HotReport, ColdReport
<1>3. ASSUME NEW n \in DOMAIN rows PROVE HotReport(prior, rows)[n].key = KeyOf(table, rows[n])
  BY DEF HotReport, Displacement
<1>4. ASSUME NEW n \in DOMAIN rows PROVE ColdReport(stored, rows)[n].key = KeyOf(table, rows[n])
  BY <1>1 DEF ColdReport
<1> QED BY <1>2, <1>3, <1>4

\* An insert reports a reading once.
LEMMA KeyInsert ==
  ASSUME StoreOk, CallsOk, NEW w \in Writers, Insert(w), NEW key, KeyCall(call[w], key)
  PROVE  KeyCall(call'[w], key)
<1> DEFINE c == call[w]
           rows == HotRows(w)
           prior == c.prior
           keys == {KeyOf(table, r) : r \in FreshRows(rows)}
           next == ThenCold(w, c.base)
           report == HotReport(prior, rows)
           displaced == c.displaced \o report
           new == [c EXCEPT !.pc = next, !.prior = {}, !.displaced = displaced]
<1>1. CallShape(c, table, boundary) /\ c.pc = "insert" /\ scene' = scene /\ boundary' = boundary
  BY DEF CallsOk, Insert
<1>2. next \in {"cold", "recheck"}
  BY DEF ThenCold
<1>3. CASE ~Reportable(prior, rows)
  <2>1. call' = [Race(w, keys) EXCEPT ![w] = End(w, "refused")]
    BY <1>3 DEF Insert
  <2>2. call'[w] = End(w, "refused")
    <3> HIDE DEF keys
    <3> QED BY <2>1, <1>1, RacingStep
  <2> QED BY <2>2, EndedKey DEF End, Finished
<1>4. CASE Reportable(prior, rows)
  <2>0. Race(w, keys)[w] = c
    BY RaceOwn
  <2>1. call' = [Race(w, keys) EXCEPT ![w] = new]
    <3>1. call' = [Race(w, keys) EXCEPT ![w] =
             IF Reportable(prior, rows)
               THEN [Race(w, keys)[w] EXCEPT !.pc = next, !.prior = {}, !.displaced = displaced]
               ELSE End(w, "refused")]
      BY DEF Insert
    <3>2. [Race(w, keys)[w] EXCEPT !.pc = next, !.prior = {}, !.displaced = displaced] = new
      BY <2>0
    <3> HIDE DEF new, keys, next, displaced, prior, rows
    <3> QED BY <3>1, <3>2, <1>4
  <2>2. call'[w] = new
    <3> HIDE DEF new, keys
    <3> QED BY <2>1, <1>1, RacingStep
  <2>3. DOMAIN c = CallFields /\ Listing(c.displaced) /\ IsFiniteSet(prior) /\ \A r \in prior : IsRow(table, r)
    BY <1>1 DEF CallShape, Finished
  <2>4. Listing(rows) /\ \A n \in DOMAIN rows : IsRow(table, rows[n])
    BY <1>1, HotRowsAre
  <2>5. Listing(report)
    <3> HIDE DEF rows, prior
    <3> QED BY <2>3, <2>4, HotReportOk
  <2>6. NamedOnce(c.pending, key) /\ scene.boundary <= c.base
    BY <1>1 DEF KeyCall, Finished, Routed
  <2>7. /\ \A n \in DOMAIN rows : KeyOf(table, rows[n]) = key =>
              \E p \in Naming(c.pending, key) : GivenAt(c.pending, p).from >= c.base
        /\ \A m, n \in DOMAIN rows : KeyOf(table, rows[m]) = key /\ KeyOf(table, rows[n]) = key => m = n
    BY <1>1, <2>6, HotRowsAbout
  <2> HIDE DEF rows, prior
  <2>8. /\ \A m, n \in About(report, key) : m = n
        /\ About(report, key) # {} => \E p \in Naming(c.pending, key) : GivenAt(c.pending, p).from >= c.base
    <3>1. DOMAIN report = DOMAIN rows /\ \A n \in DOMAIN rows : report[n].key = KeyOf(table, rows[n])
      BY ReportKeys
    <3> HIDE DEF report
    <3> QED BY <2>7, <3>1 DEF About
  <2> HIDE DEF report, next
  <2>9. c.authored =>
          /\ About(c.displaced, key) = {} /\ ~MeterMixed(c.pending)
          /\ Naming(c.pending, key) # {} => AuthoredFor(key)
    BY <1>1 DEF KeyCall, Finished
  <2>10. About(c.displaced, key) = {} =>
          /\ \A m, n \in About(displaced, key) : m = n
          /\ About(displaced, key) # {} => About(report, key) # {}
    <3>1. ASSUME About(c.displaced, key) = {}
          PROVE  /\ \A m, n \in About(displaced, key) : m = n
                 /\ About(displaced, key) # {} => About(report, key) # {}
      <4>1. \A m, n \in About(c.displaced, key) : m = n
        BY <3>1
      <4> HIDE DEF c
      <4>2. /\ \A m, n \in About(c.displaced \o report, key) : m = n
            /\ About(c.displaced \o report, key) # {} => About(c.displaced, key) # {} \/ About(report, key) # {}
        BY <2>3, <2>5, <2>8, <3>1, <4>1, AboutJoined
      <4> QED BY <3>1, <4>2
    <3> QED BY <3>1
  <2> HIDE DEF displaced
  <2>11. /\ new.pc = next /\ new.base = c.base /\ new.authored = c.authored
         /\ new.pending = c.pending /\ new.displaced = displaced
    BY <2>3 DEF CallFields
  <2> HIDE DEF new
  <2>12. KeyCall(new, key)
    BY <1>1, <1>2, <2>6, <2>8, <2>9, <2>10, <2>11 DEF KeyCall
  <2> QED BY <2>2, <2>12
<1> QED BY <1>3, <1>4

\* A cold append reports it where the insert did not.
LEMMA KeyAppend ==
  ASSUME StoreOk, CallsOk, NEW w \in Writers, AppendCold(w), NEW key, Spelled(key), KeyCall(call[w], key)
  PROVE  KeyCall(call'[w], key)
<1> DEFINE c == call[w]
           given == GivenCold(w)
           report == ColdReport(Stored(given), given)
           displaced == c.displaced \o report
<1>1. CallShape(c, table, boundary) /\ c.pc = "cold" /\ scene' = scene /\ boundary' = boundary
  BY DEF CallsOk, AppendCold
<1>2. PICK rows \in Encode(table, ColdToWrite(w, given)) :
        call' = [Race(w, KeysOf(rows)) EXCEPT ![w] =
              [@ EXCEPT !.pc = "recheck", !.displaced = displaced,
                        !.raced = c.raced \ KeysOf(given)]]
  BY DEF AppendCold, GivenCold, ColdOf
<1> DEFINE keys == KeysOf(rows)
           raced == c.raced \ KeysOf(given)
           new == [c EXCEPT !.pc = "recheck", !.displaced = displaced, !.raced = raced]
<1>3. Listing(given) /\ \A n \in DOMAIN given : given[n].version \in Int
  BY <1>1, ColdShape
<1>4. Listing(report) /\ Listing(c.displaced) /\ DOMAIN c = CallFields
  <2>1. Listing(report)
    <3> HIDE DEF given
    <3> QED BY <1>3, ColdReportOk
  <2>2. Listing(c.displaced) /\ DOMAIN c = CallFields
    BY <1>1 DEF CallShape, Finished
  <2> QED BY <2>1, <2>2
<1>5. NamedOnce(c.pending, key) /\ scene.boundary <= c.base
  BY <1>1 DEF KeyCall, Finished, Routed
<1>6. /\ \A n \in DOMAIN given : KeyOf(table, given[n]) = key =>
            \E p \in Naming(c.pending, key) : GivenAt(c.pending, p).from < c.base
      /\ \A m, n \in DOMAIN given : KeyOf(table, given[m]) = key /\ KeyOf(table, given[n]) = key => m = n
  BY <1>1, <1>5, ColdGivenAbout
<1>7. IsBatch(c.pending) /\ c.base \in Nat
  BY <1>1 DEF CallShape, Finished, Routed
<1> HIDE DEF given
<1>8. /\ \A m, n \in About(report, key) : m = n
      /\ About(report, key) # {} => \E p \in Naming(c.pending, key) : GivenAt(c.pending, p).from < c.base
  <2>1. DOMAIN report = DOMAIN given /\ \A n \in DOMAIN given : report[n].key = KeyOf(table, given[n])
    BY ReportKeys
  <2> HIDE DEF report
  <2> QED BY <1>6, <2>1 DEF About
<1> HIDE DEF report
<1>9. c.authored =>
        /\ ~MeterMixed(c.pending)
        /\ Naming(c.pending, key) # {} => AuthoredFor(key)
        /\ \A m, n \in About(c.displaced, key) : m = n
        /\ About(c.displaced, key) # {} => \E p \in Naming(c.pending, key) : GivenAt(c.pending, p).from >= c.base
  BY <1>1 DEF KeyCall, Finished
<1>10. c.authored => About(c.displaced, key) = {} \/ About(report, key) = {}
  <2>1. SUFFICES ASSUME c.authored, About(c.displaced, key) # {}, About(report, key) # {} PROVE FALSE
    OBVIOUS
  <2>2. PICK p \in Naming(c.pending, key) : GivenAt(c.pending, p).from < c.base
    BY <1>8, <2>1
  <2>3. PICK o \in Naming(c.pending, key) : GivenAt(c.pending, o).from >= c.base
    BY <1>9, <2>1
  <2>4. p = o /\ p \in PlacesOf(c.pending)
    BY <1>5, <2>2, <2>3 DEF NamedOnce, Naming
  <2>5. GivenAt(c.pending, p).from \in Nat
    BY <1>7, <2>4, GivenFrom
  <2> QED BY <1>7, <2>2, <2>3, <2>4, <2>5
<1>11. c.authored =>
        /\ \A m, n \in About(displaced, key) : m = n
        /\ About(displaced, key) # {} => About(c.displaced, key) # {} \/ About(report, key) # {}
  <2>1. SUFFICES ASSUME c.authored
                 PROVE  /\ \A m, n \in About(displaced, key) : m = n
                        /\ About(displaced, key) # {} => About(c.displaced, key) # {} \/ About(report, key) # {}
    OBVIOUS
  <2> HIDE DEF c
  <2> QED BY <1>4, <1>8, <1>9, <1>10, <2>1, AboutJoined
<1> HIDE DEF displaced, keys
<1>12. call' = [Race(w, keys) EXCEPT ![w] = new]
  <2>1. Race(w, keys)[w] = c
    BY RaceOwn
  <2>2. [Race(w, keys)[w] EXCEPT !.pc = "recheck", !.displaced = displaced, !.raced = raced] = new
    BY <2>1
  <2>3. call' = [Race(w, keys) EXCEPT ![w] =
              [Race(w, keys)[w] EXCEPT !.pc = "recheck", !.displaced = displaced, !.raced = raced]]
    BY <1>2 DEF keys
  <2> HIDE DEF new, raced
  <2> QED BY <2>2, <2>3
<1>13. call'[w] = new
  <2> HIDE DEF new
  <2> QED BY <1>1, <1>12, RacingStep
<1> HIDE DEF raced
<1>14. /\ new.pc = "recheck" /\ new.base = c.base /\ new.authored = c.authored
       /\ new.pending = c.pending /\ new.displaced = displaced
  BY <1>4 DEF CallFields
<1> HIDE DEF new
<1>15. c.authored /\ About(displaced, key) # {} => Naming(c.pending, key) # {}
  BY <1>8, <1>9, <1>11
<1>16. KeyCall(new, key)
  BY <1>5, <1>9, <1>11, <1>14, <1>15 DEF KeyCall
<1> QED BY <1>13, <1>16

-----------------------------------------------------------------------------
(* What the cold files hold of it.                                         *)

\* A file holds a reading once at each version.
OnceIn(file, key) ==
  \A m, n \in DOMAIN file :
    KeyOf(table, file[m]) = key /\ KeyOf(table, file[n]) = key /\ file[m].version = file[n].version => m = n

\* A file says nothing of a reading that a cold file says already.
NewIn(file, key) ==
  \A m \in DOMAIN file : \A f \in DOMAIN cold : \A n \in DOMAIN cold[f] :
    ~(KeyOf(table, file[m]) = key /\ KeyOf(table, cold[f][n]) = key /\ file[m].version = cold[f][n].version)

\* A file says what its rows say.
LEMMA SortedOnce ==
  ASSUME NEW rows, NEW file, Rearranges(file, rows), NEW key, OnceIn(rows, key), NewIn(rows, key)
  PROVE  OnceIn(file, key) /\ NewIn(file, key)
<1>1. PICK o : /\ \A k \in DOMAIN file : o[k] \in DOMAIN rows /\ file[k] = rows[o[k]]
               /\ \A k, l \in DOMAIN file : o[k] = o[l] => k = l
  BY DEF Rearranges
<1>2. OnceIn(file, key)
  BY <1>1 DEF OnceIn
<1>3. NewIn(file, key)
  <2> SUFFICES ASSUME NEW m \in DOMAIN file, NEW f \in DOMAIN cold, NEW n \in DOMAIN cold[f],
                      KeyOf(table, file[m]) = key, KeyOf(table, cold[f][n]) = key, file[m].version = cold[f][n].version
               PROVE  FALSE
    BY DEF NewIn
  <2>1. o[m] \in DOMAIN rows /\ file[m] = rows[o[m]]
    BY <1>1
  <2> QED BY <2>1 DEF NewIn
<1> QED BY <1>2, <1>3

\* A file that says nothing twice and nothing again leaves each reading stored once.
LEMMA FileAdded ==
  ASSUME StoreOk, table' = table, NEW file, Listing(file), cold' = Append(cold, file),
         DOMAIN cold' = DOMAIN cold \cup {Len(cold) + 1}, cold'[Len(cold) + 1] = file,
         \A f \in DOMAIN cold : cold'[f] = cold[f],
         NEW key, UniqueAt(key), OnceIn(file, key), NewIn(file, key)
  PROVE  UniqueAt(key)'
<1> SUFFICES ASSUME NEW f \in DOMAIN cold', NEW g \in DOMAIN cold', NEW m \in DOMAIN cold'[f], NEW n \in DOMAIN cold'[g],
                    KeyOf(table, cold'[f][m]) = key, KeyOf(table, cold'[g][n]) = key,
                    cold'[f][m].version = cold'[g][n].version
             PROVE  f = g /\ m = n
  BY DEF UniqueAt
<1> DEFINE last == Len(cold) + 1
<1>1. /\ (f \in DOMAIN cold /\ cold'[f] = cold[f]) \/ (f = last /\ cold'[f] = file)
      /\ (g \in DOMAIN cold /\ cold'[g] = cold[g]) \/ (g = last /\ cold'[g] = file)
  OBVIOUS
<1> HIDE DEF last
<1>2. CASE f = last /\ cold'[f] = file /\ g = last /\ cold'[g] = file
  BY <1>2 DEF OnceIn
<1>3. CASE f \in DOMAIN cold /\ cold'[f] = cold[f] /\ g \in DOMAIN cold /\ cold'[g] = cold[g]
  BY <1>3 DEF UniqueAt
<1>4. CASE f \in DOMAIN cold /\ cold'[f] = cold[f] /\ g = last /\ cold'[g] = file
  <2>1. m \in DOMAIN cold[f] /\ n \in DOMAIN file /\ KeyOf(table, cold[f][m]) = key /\ KeyOf(table, file[n]) = key
        /\ file[n].version = cold[f][m].version
    BY <1>4
  <2> QED BY <1>4, <2>1 DEF NewIn
<1>5. CASE f = last /\ cold'[f] = file /\ g \in DOMAIN cold /\ cold'[g] = cold[g]
  <2>1. n \in DOMAIN cold[g] /\ m \in DOMAIN file /\ KeyOf(table, cold[g][n]) = key /\ KeyOf(table, file[m]) = key
        /\ file[m].version = cold[g][n].version
    BY <1>5
  <2> QED BY <1>5, <2>1 DEF NewIn
<1> QED BY <1>1, <1>2, <1>3, <1>4, <1>5

\* So does a step that adds none.
LEMMA UniqueSame ==
  ASSUME table' = table, cold' = cold, NEW key, UniqueAt(key)
  PROVE  UniqueAt(key)'
BY DEF UniqueAt

\* The cold files of a scene hold each reading once at each version.
LEMMA UniqueStart ==
  ASSUME QInit, NEW key
  PROVE  UniqueAt(key)
<1>1. scene \in Scenes /\ cold = scene.cold /\ table = scene.table
  BY DEF QInit, Init, table
<1>2. \A f, g \in DOMAIN cold : \A m \in DOMAIN cold[f], n \in DOMAIN cold[g] :
        Again(table, cold[f][m], cold[g][n]) => f = g /\ m = n
  <2>1. IsScene(scene)
    BY <1>1, WritesAssumption
  <2>2. \A f, g \in DOMAIN scene.cold : \A m \in DOMAIN scene.cold[f], n \in DOMAIN scene.cold[g] :
          Again(scene.table, scene.cold[f][m], scene.cold[g][n]) => f = g /\ m = n
    BY <2>1 DEF IsScene
  <2> QED BY <1>1, <2>2
<1> QED BY <1>2 DEF UniqueAt, Again

\* An archived window is newer than what is in the files, and the hot tier holds it once.
LEMMA UniqueArchive ==
  ASSUME StoreOk, StoreKept, Archive, NEW key, UniqueAt(key)
  PROVE  UniqueAt(key)'
<1> DEFINE window == {r \in hot : Window(r.from) = boundary}
           listed == InSomeOrder(window)
           file == SortedForStorage(listed)
<1>1. /\ boundary \in Nat /\ boundary % Step = 0 /\ scene' = scene /\ boundary' = boundary + Step
      /\ cold' = IF window = {} THEN cold ELSE Append(cold, file)
      /\ Step \in Nat \ {0}
  <2>1. boundary \in Nat /\ boundary % Step = 0 /\ Step \in Nat \ {0}
    BY WritesAssumption DEF StoreOk
  <2>2. cold' = IF window = {} THEN cold ELSE Append(cold, file)
    BY DEF Archive
  <2> HIDE DEF file, window
  <2> QED BY <2>1, <2>2 DEF Archive
<1>2. /\ boundary' \in Nat /\ boundary <= boundary' /\ table' = table
      /\ \A t \in Nat : Window(t) = boundary <=> boundary <= t /\ t < boundary'
  BY <1>1, Grid DEF table
<1>3. \A r \in window : r \in hot /\ IsRow(table, r) /\ r.from \in Nat /\ r.from < boundary' /\ boundary <= r.from
  BY <1>2, RowFrom DEF StoreOk
<1>4. IsFiniteSet(window)
  BY FS_Subset DEF StoreOk
<1> HIDE DEF window
<1>5. CASE window = {}
  BY <1>1, <1>2, <1>5, UniqueSame
<1>6. CASE window # {}
  <2>1. /\ Listing(listed) /\ ToSet(listed) = window
        /\ \A m, n \in DOMAIN listed : listed[m] = listed[n] => m = n
    BY <1>4, SetListed
  <2> HIDE DEF listed
  <2>2. \A n \in DOMAIN listed : listed[n] \in window
    BY <2>1 DEF ToSet
  <2>3. listed # <<>>
    <3>1. DOMAIN <<>> = {}
      OBVIOUS
    <3> QED BY <1>6, <2>1, <3>1 DEF ToSet
  <2>4. FileOf(listed, boundary')
    BY <1>3, <2>1, <2>2, <2>3 DEF FileOf
  <2>5. FileOf(file, boundary') /\ Rearranges(file, listed)
    BY <2>4, SortedFile
  <2>6. OnceIn(listed, key)
    <3> SUFFICES ASSUME NEW m \in DOMAIN listed, NEW n \in DOMAIN listed,
                        KeyOf(table, listed[m]) = key, KeyOf(table, listed[n]) = key,
                        listed[m].version = listed[n].version
                 PROVE  m = n
      BY DEF OnceIn
    <3>1. listed[m] \in hot /\ listed[n] \in hot /\ SameVersion(listed[m], listed[n])
      BY <1>3, <2>2 DEF SameVersion, Again
    <3>2. listed[m] = listed[n]
      BY <3>1 DEF StoreKept
    <3> QED BY <2>1, <3>2
  <2>7. NewIn(listed, key)
    <3> SUFFICES ASSUME NEW m \in DOMAIN listed, NEW f \in DOMAIN cold, NEW n \in DOMAIN cold[f],
                        KeyOf(table, listed[m]) = key, KeyOf(table, cold[f][n]) = key
                 PROVE  FALSE
      BY DEF NewIn
    <3>1. listed[m].from = cold[f][n].from
      BY SameKey
    <3>2. cold[f][n].from < boundary /\ cold[f][n].from \in Nat
      BY RowFrom DEF StoreOk, ColdFilesOk
    <3>3. boundary <= listed[m].from
      BY <1>3, <2>2
    <3> QED BY <1>1, <3>1, <3>2, <3>3
  <2>8. OnceIn(file, key) /\ NewIn(file, key)
    BY <2>5, <2>6, <2>7, SortedOnce
  <2>9. cold' = Append(cold, file)
    BY <1>1, <1>6
  <2> HIDE DEF file
  <2>10. /\ \A f \in DOMAIN cold : f \in DOMAIN cold' /\ cold'[f] = cold[f]
         /\ Len(cold) + 1 \in DOMAIN cold' /\ cold'[Len(cold) + 1] = file
         /\ DOMAIN cold' = DOMAIN cold \cup {Len(cold) + 1}
    BY <1>2, <2>5, <2>9, ColdAppended
  <2> QED BY <1>2, <2>5, <2>8, <2>9, <2>10, FileAdded DEF FileOf
<1> QED BY <1>5, <1>6

\* What a cold append writes of a reading its batch names once is stored nowhere else.
LEMMA ColdNew ==
  ASSUME StoreOk, CallsOk, NEW w \in Writers, call[w].pc = "cold",
         NEW rows \in Encode(table, ColdToWrite(w, GivenCold(w))),
         NEW key, Spelled(key), NamedOnce(call[w].pending, key)
  PROVE  OnceIn(rows, key) /\ NewIn(rows, key)
<1> DEFINE b == call[w].pending
           part == ColdOf(w)
           given == GivenCold(w)
           stored == Stored(given)
           report == ColdReport(stored, given)
           keys == Kept(report)
           N == Retained(part, keys)
<1>1. /\ IsBatch(b) /\ IsBatch(part) /\ BuildAccepts(table) /\ IsBatch(N) /\ Listing(given) /\ rows \in Encode(table, N)
  BY ColdShape DEF ColdToWrite, ColdOf
<1>2. PICK v : Narrows(part, v, b, ColdKeep(b, call[w].base))
  BY <1>1, PartPlaces DEF ColdOf
<1> HIDE DEF part
<1>3. PICK u : Narrows(N, u, part, KeyKeep(part, keys))
  BY <1>1, PartPlaces
<1>4. /\ \A n \in DOMAIN given : KeyOf(table, given[n]) = key =>
              \E p \in Naming(b, key) : GivenAt(b, p) = given[n]
  BY ColdGivenAbout
<1> HIDE DEF N, keys, given, b
<1>5. PICK o : Renders(rows, o, table, N)
  BY <1>1, EncodedPlaces
<1>6. \A place \in PlacesOf(N) : EncodableAt(table, N, place)
  BY <1>1, EncodedPlaces
<1>7. ASSUME NEW n \in DOMAIN rows, KeyOf(table, rows[n]) = key
      PROVE  /\ o[n] \in PlacesOf(N) /\ u[o[n]] \in PlacesOf(part) /\ v[u[o[n]]] \in Naming(b, key)
             /\ key \in keys /\ rows[n].version = GivenAt(b, v[u[o[n]]]).version
  <2>1. o[n] \in PlacesOf(N) /\ rows[n] = RowAt(table, N, o[n])
    BY <1>5 DEF Renders
  <2>2. Keeps(RowAt(table, N, o[n]), GivenAt(N, o[n]))
    BY <1>1, <1>6, <2>1, RowFacts
  <2>3. u[o[n]] \in PlacesOf(part) /\ KeyKeep(part, keys)[u[o[n]][1]][u[o[n]][2]]
    BY <1>3, <2>1 DEF Narrows
  <2>4. v[u[o[n]]] \in PlacesOf(b)
    BY <1>2, <2>3 DEF Narrows
  <2>5. GivenAt(N, o[n]) = GivenAt(part, u[o[n]])
    BY <1>1, <1>3, <2>1, NarrowedSame
  <2>6. GivenAt(part, u[o[n]]) = GivenAt(b, v[u[o[n]]])
    BY <1>1, <1>2, <2>3, NarrowedSame
  <2>7. StoredKey(GivenAt(b, v[u[o[n]]])) = key /\ rows[n].version = GivenAt(b, v[u[o[n]]]).version
    BY <1>7, <2>1, <2>2, <2>5, <2>6 DEF Keeps
  <2>8. v[u[o[n]]] \in Naming(b, key)
    BY <2>4, <2>7 DEF Naming
  <2>9. KeyOf(table, GivenAt(b, v[u[o[n]]])) = key
    BY <2>8 DEF NamedOnce, b
  <2>10. KeyOf(table, GivenAt(part, u[o[n]])) \in keys
    BY <2>3, KeepAt
  <2> QED BY <2>1, <2>3, <2>6, <2>7, <2>8, <2>9, <2>10
<1>8. OnceIn(rows, key)
  <2> SUFFICES ASSUME NEW m \in DOMAIN rows, NEW n \in DOMAIN rows, KeyOf(table, rows[m]) = key, KeyOf(table, rows[n]) = key
               PROVE  m = n
    BY DEF OnceIn
  <2>1. v[u[o[m]]] = v[u[o[n]]]
    BY <1>7 DEF NamedOnce, b
  <2>2. u[o[m]] = u[o[n]]
    BY <1>2, <1>7, <2>1 DEF Narrows
  <2>3. o[m] = o[n]
    BY <1>3, <1>7, <2>2 DEF Narrows
  <2> QED BY <1>5, <2>3 DEF Renders
<1>9. NewIn(rows, key)
  <2> SUFFICES ASSUME NEW k \in DOMAIN rows, NEW f \in DOMAIN cold, NEW n \in DOMAIN cold[f],
                      KeyOf(table, rows[k]) = key, KeyOf(table, cold[f][n]) = key, rows[k].version = cold[f][n].version
               PROVE  FALSE
    BY DEF NewIn
  <2>1. PICK r : r = cold[f][n]
    OBVIOUS
  <2>2. IsRow(table, r) /\ r.from < boundary /\ r \in ColdRows /\ KeyOf(table, r) = key
    BY <2>1, InColdRows DEF StoreOk, ColdFilesOk
  <2>3. PICK m \in DOMAIN given : KeyOf(table, given[m]) = key /\ report[m].effect # "Duplicate"
    <3>1. PICK m \in DOMAIN report : report[m].effect # "Duplicate" /\ report[m].key = key
      <4> HIDE DEF report
      <4> QED BY <1>7 DEF keys, Kept
    <3>2. DOMAIN report = DOMAIN given /\ report[m].key = KeyOf(table, given[m])
      <4>1. DOMAIN report = DOMAIN given /\ \A x \in DOMAIN given : report[x].key = KeyOf(table, given[x])
        <5> HIDE DEF stored
        <5> QED BY ReportKeys
      <4> HIDE DEF report
      <4> QED BY <3>1, <4>1
    <3> HIDE DEF report
    <3> QED BY <3>1, <3>2
  <2>4. GivenAt(b, v[u[o[k]]]) = given[m]
    <3>1. PICK p \in Naming(b, key) : GivenAt(b, p) = given[m]
      BY <1>4, <2>3
    <3>2. p = v[u[o[k]]]
      BY <1>7, <3>1 DEF NamedOnce, b
    <3> QED BY <3>1, <3>2
  <2>5. r.version = given[m].version
    BY <1>7, <2>1, <2>4
  <2>6. ~ColdReplay(stored, given, m)
    <3> DEFINE held == ColdHeldBefore(stored, given, m)
    <3>1. report[m].effect = EffectOn(held, AssertedValue(given[m]), ColdReplay(stored, given, m))
      BY DEF ColdReport, Displacement
    <3>2. ColdReplay(stored, given, m) => held # {}
      BY DEF ColdReplay, SaidBefore
    <3> HIDE DEF held, report
    <3> QED BY <2>3, <3>1, <3>2 DEF EffectOn
  <2>7. r \in stored
    <3>1. r \in Visible
      BY <2>2 DEF Visible
    <3>2. r.from = given[m].from
      BY <2>2, <2>3, SameKey
    <3>3. r.from \in Nat /\ r.from % 2 = 0
      BY <2>2, RowFrom
    <3>4. Micros(given[m].from) = r.from
      BY <3>2, <3>3, OnGrid
    <3> QED BY <3>1, <3>3, <3>4 DEF Stored
  <2> HIDE DEF stored, report
  <2>8. StoredValue(r) \in ColdHeldBefore(stored, given, m)
    BY <2>2, <2>3, <2>7 DEF ColdHeldBefore, StoredUnder
  <2>9. StoredValue(r).label.version = r.version
    BY DEF StoredValue, Label
  <2> QED BY <2>5, <2>6, <2>8, <2>9 DEF ColdReplay, SaidBefore
<1> QED BY <1>8, <1>9

\* A cold append writes a reading that is not stored.
LEMMA UniqueAppend ==
  ASSUME StoreOk, CallsOk, NEW w \in Writers, AppendCold(w), NEW key, Spelled(key), KeyCall(call[w], key), UniqueAt(key)
  PROVE  UniqueAt(key)'
<1>1. /\ call[w].pc = "cold" /\ scene' = scene /\ boundary' = boundary
      /\ \E rows \in Encode(table, ColdToWrite(w, GivenCold(w))) :
           cold' = IF rows = <<>> THEN cold ELSE Append(cold, SortedForStorage(rows))
  BY DEF AppendCold, GivenCold, ColdOf
<1>2. PICK rows \in Encode(table, ColdToWrite(w, GivenCold(w))) :
           cold' = IF rows = <<>> THEN cold ELSE Append(cold, SortedForStorage(rows))
  BY <1>1
<1>3. NamedOnce(call[w].pending, key)
  BY <1>1 DEF KeyCall, Finished
<1>4. table' = table /\ boundary \in Nat
  BY <1>1 DEF table, StoreOk
<1>5. CASE rows = <<>>
  BY <1>2, <1>4, <1>5, UniqueSame
<1>6. CASE rows # <<>>
  <2> DEFINE file == SortedForStorage(rows)
  <2>1. FileOf(rows, boundary)
    BY <1>1, <1>6, ColdFile
  <2>2. FileOf(file, boundary) /\ Rearranges(file, rows)
    BY <2>1, SortedFile
  <2>3. OnceIn(rows, key) /\ NewIn(rows, key)
    BY <1>1, <1>3, ColdNew
  <2>4. OnceIn(file, key) /\ NewIn(file, key)
    BY <2>2, <2>3, SortedOnce
  <2>5. cold' = Append(cold, file)
    BY <1>2, <1>6
  <2> HIDE DEF file
  <2>6. /\ \A f \in DOMAIN cold : f \in DOMAIN cold' /\ cold'[f] = cold[f]
        /\ Len(cold) + 1 \in DOMAIN cold' /\ cold'[Len(cold) + 1] = file
        /\ DOMAIN cold' = DOMAIN cold \cup {Len(cold) + 1}
    BY <1>1, <1>4, <2>2, <2>5, ColdAppended
  <2> QED BY <1>4, <2>2, <2>4, <2>5, <2>6, FileAdded DEF FileOf
<1> QED BY <1>5, <1>6

-----------------------------------------------------------------------------
(* Readings are stored once.                                               *)

\* Each plainly named reading is stored once, and each call under way will leave it so.
KeyInv ==
  \A key : Spelled(key) /\ PlainlyNamed(key) => UniqueAt(key) /\ \A w \in Writers : KeyCall(call[w], key)

\* Both hold of the scenes.
LEMMA KeyStart == QInit => KeyInv
<1> SUFFICES ASSUME QInit, NEW key PROVE UniqueAt(key) /\ \A w \in Writers : KeyCall(call[w], key)
  BY DEF KeyInv
<1>1. \A w \in Writers : call[w].pc \in Finished
  BY DEF QInit, Init, Idle, Finished
<1> QED BY <1>1, UniqueStart, EndedKey

\* Every step of a call keeps what is said of it.
LEMMA KeyWrite ==
  ASSUME StoreOk, CallsOk, StoreKept, NEW w \in Writers, WriteStep(w),
         NEW key, Spelled(key), PlainlyNamed(key), KeyCall(call[w], key)
  PROVE  KeyCall(call[w], key)'
<1>1. KeyCall(call'[w], key)
  <2>1. CASE Begin(w)
    BY <2>1, KeyBegin
  <2>2. CASE Route(w)
    BY <2>2, KeyRoute
  <2>3. CASE SelectPrior(w)
    BY <2>3, KeySelect
  <2>4. CASE Insert(w)
    BY <2>4, KeyInsert
  <2>5. CASE InsertRefused(w) \/ AppendColdRefused(w)
    BY <2>5, RefusedShape, EndedKey DEF Finished
  <2>6. CASE AppendCold(w)
    BY <2>6, KeyAppend
  <2>7. CASE Reroute(w)
    BY <2>7, KeyReroute
  <2>8. CASE Finish(w)
    BY <2>8, FinishShape, EndedKey DEF Finished
  <2>9. CASE AuthorAgain(w)
    BY <2>9, KeyAuthor
  <2> QED BY <2>1, <2>2, <2>3, <2>4, <2>5, <2>6, <2>7, <2>8, <2>9 DEF WriteStep
<1>2. scene' = scene
  BY WriteKeeps
<1>3. PICK d : d = call'[w]
  OBVIOUS
<1>4. KeyCall(d, key)'
  BY <1>1, <1>2, <1>3, KeyCallSame
<1> QED BY <1>3, <1>4

\* A store at rest is one that grows.
LEMMA StoreRests ==
  ASSUME StoreOk, UNCHANGED writeVars
  PROVE  StoreGrows
<1>1. boundary \in Nat /\ Len(cold) \in Nat
  BY ColdLength DEF StoreOk
<1> QED BY <1>1 DEF writeVars, StoreGrows, table, Visible, ColdRows, StoredRows

\* Every step keeps both.
LEMMA KeyStep ==
  ASSUME WritesInv, StoreKept, KeyInv, [Next]_vars
  PROVE  KeyInv'
<1>0. StoreOk /\ CallsOk /\ boundary \in Nat
  BY DEF WritesInv, StoreOk
<1>1. StoreGrows
  <2>1. CASE UNCHANGED vars
    BY <1>0, <2>1, StoreRests DEF vars, writeVars
  <2>2. CASE Next
    BY <2>2, StoreSteps
  <2> QED BY <2>1, <2>2
<1>2. scene' = scene /\ table' = table
  BY <1>1 DEF StoreGrows
<1> SUFFICES ASSUME NEW key, Spelled(key)', PlainlyNamed(key)'
             PROVE  UniqueAt(key)' /\ \A w \in Writers : KeyCall(call[w], key)'
  BY DEF KeyInv
<1>3. Spelled(key) /\ PlainlyNamed(key)
  BY <1>0, <1>1, <1>2, PlainBefore, KeyCallSame
<1>4. UniqueAt(key) /\ \A w \in Writers : KeyCall(call[w], key)
  BY <1>3 DEF KeyInv
<1>5. ASSUME NEW v \in Writers, Undisturbed(v) PROVE KeyCall(call[v], key)'
  BY <1>0, <1>2, <1>4, <1>5, KeyCallStays DEF CallsOk
<1>6. ASSUME call' = call PROVE \A w \in Writers : KeyCall(call[w], key)'
  BY <1>5, <1>6 DEF Undisturbed
<1>7. ASSUME NEW w \in Writers, WriteStep(w)
      PROVE  UniqueAt(key)' /\ \A v \in Writers : KeyCall(call[v], key)'
  <2>1. Steps(w)
    BY <1>0, <1>7, WriteKeeps
  <2>2. KeyCall(call[w], key)'
    BY <1>0, <1>3, <1>4, <1>7, KeyWrite
  <2>3. \A v \in Writers \ {w} : KeyCall(call[v], key)'
    BY <1>5, <2>1 DEF Steps
  <2>4. UniqueAt(key)'
    <3>1. CASE AppendCold(w)
      BY <1>0, <1>3, <1>4, <3>1, UniqueAppend
    <3>2. CASE ~AppendCold(w)
      <4>1. cold' = cold
        BY <1>7, <3>2 DEF WriteStep, Begin, Route, SelectPrior, Insert, InsertRefused, AppendColdRefused,
                          Reroute, Finish, AuthorAgain
      <4> QED BY <1>2, <1>4, <4>1, UniqueSame
    <3> QED BY <3>1, <3>2
  <2> QED BY <2>2, <2>3, <2>4
<1>8. CASE Archive
  <2>1. call' = call
    BY <1>8 DEF Archive
  <2> QED BY <1>0, <1>4, <1>6, <1>8, <2>1, UniqueArchive
<1>9. CASE Reclaim
  <2>1. call' = call /\ cold' = cold
    BY <1>9 DEF Reclaim, DropDetached
  <2> QED BY <1>2, <1>4, <1>6, <2>1, UniqueSame
<1>10. ASSUME NEW q \in Readers,
             (\E question \in scene.questions : Ask(q, question)) \/ ReadBoundary(q) \/ ScanCold(q) \/ Answer(q)
      PROVE  call' = call /\ cold' = cold
  BY <1>10 DEF Ask, ReadBoundary, ScanCold, Answer, writeVars
<1>11. CASE UNCHANGED vars
  <2>1. call' = call /\ cold' = cold
    BY <1>11 DEF vars
  <2> QED BY <1>2, <1>4, <1>6, <2>1, UniqueSame
<1>12. ASSUME NEW q \in Readers,
             (\E question \in scene.questions : Ask(q, question)) \/ ReadBoundary(q) \/ ScanCold(q) \/ Answer(q)
       PROVE UniqueAt(key)' /\ \A v \in Writers : KeyCall(call[v], key)'
  <2>1. call' = call /\ cold' = cold
    BY <1>10, <1>12
  <2> QED BY <1>2, <1>4, <1>6, <2>1, UniqueSame
<1> QED BY <1>7, <1>8, <1>9, <1>11, <1>12 DEF Next

\* That is what stored once means.
LEMMA KeyIsOnce ==
  ASSUME StoreOk, KeyInv
  PROVE  StoredOnce
<1> SUFFICES ASSUME NEW i \in ColdItems(Len(cold)), NEW j \in ColdItems(Len(cold)),
                    i # j, SameVersion(i.row, j.row), PlainlyNamed(KeyOf(table, i.row))
             PROVE  FALSE
  BY DEF StoredOnce
<1> DEFINE key == KeyOf(table, i.row)
<1>1. Spelled(key)
  BY ItemRow DEF Spelled
<1>2. UniqueAt(key)
  BY <1>1 DEF KeyInv
<1>3. PICK f \in DOMAIN cold : \E k \in DOMAIN cold[f] : i = Item(<<f, k>>, cold[f][k]) /\ i.row = cold[f][k]
  BY ItemPlace
<1>4. PICK m \in DOMAIN cold[f] : i = Item(<<f, m>>, cold[f][m]) /\ i.row = cold[f][m]
  BY <1>3
<1>5. PICK g \in DOMAIN cold : \E k \in DOMAIN cold[g] : j = Item(<<g, k>>, cold[g][k]) /\ j.row = cold[g][k]
  BY ItemPlace
<1>6. PICK n \in DOMAIN cold[g] : j = Item(<<g, n>>, cold[g][n]) /\ j.row = cold[g][n]
  BY <1>5
<1>7. f = g /\ m = n
  BY <1>2, <1>4, <1>6 DEF UniqueAt, SameVersion, Again
<1> QED BY <1>4, <1>6, <1>7

\* A reading is in the cold files once at each version, redelivered, routed again, authored
\* and archived as it may be, where its writes name it plainly.
THEOREM StoredAlwaysOnce == Spec => []StoredOnce
<1> DEFINE Inv == WritesInv /\ StoreKept /\ KeyInv
<1>1. QInit => Inv
  BY WritesStart, StoreKeptStart, KeyStart
<1>2. Inv /\ [Next]_vars => Inv'
  <2> SUFFICES ASSUME Inv, [Next]_vars PROVE Inv'
    OBVIOUS
  <2>1. WritesInv' /\ KeyInv'
    BY WritesStep, KeyStep
  <2>2. StoreKept'
    <3>1. CASE Next
      BY <3>1, StoreSteps
    <3>2. CASE UNCHANGED vars
      BY <3>2 DEF vars, StoreKept, ColdRows, SameVersion, table
    <3> QED BY <3>1, <3>2
  <2> QED BY <2>1, <2>2
<1>3. Inv => StoredOnce
  BY KeyIsOnce DEF WritesInv
<1> QED BY <1>1, <1>2, <1>3, PTL DEF Spec

\* An answer holds only what was asked for, of each reading the highest version that was
\* visible, and of a plainly named reading one row.
THEOREM AnswersAlwaysTrue == Spec => []AnswerTrue
<1> DEFINE True == \A q \in Readers : TrueOf(q)
           Inv == QueriesInv /\ KeyInv /\ True
<1>1. QInit => Inv
  <2>1. QInit => True
    BY DEF QInit, TrueOf, Answered, Silent
  <2> QED BY <2>1, QueriesStart, KeyStart
<1>2. Inv /\ [Next]_vars => Inv'
  <2> SUFFICES ASSUME Inv, [Next]_vars PROVE True' /\ KeyInv'
    BY QueriesStep
  <2>1. WritesInv /\ StoreKept /\ QueriesOk /\ StoreOk /\ boundary \in Nat /\ StoredOnce
    BY BoundaryEven, KeyIsOnce DEF QueriesInv, WritesInv
  <2>2. KeyInv'
    BY <2>1, KeyStep
  <2>3. CASE UNCHANGED vars
    <3>1. StoreGrows /\ query' = query
      BY <2>1, <2>3, StoreRests DEF vars, writeVars
    <3> QED BY <2>1, <2>2, <3>1, TrueStays
  <2>4. CASE Next
    <3>1. StoreGrows
      BY <2>1, <2>4, StoreSteps
    <3> SUFFICES ASSUME NEW q \in Readers PROVE TrueOf(q)'
      BY <2>2
    <3>2. CASE query'[q] = query[q]
      BY <2>1, <3>1, <3>2, TrueStays
    <3>3. CASE query'[q] # query[q]
      <4>1. (\E question \in scene.questions : Ask(q, question)) \/ ReadBoundary(q) \/ ScanCold(q) \/ Answer(q)
        <5>1. PICK p \in Readers :
                (\E question \in scene.questions : Ask(p, question)) \/ ReadBoundary(p) \/ ScanCold(p) \/ Answer(p)
          BY <2>4, <3>3 DEF Next, queryVars
        <5>2. p = q
          BY <2>1, <3>3, <5>1, ReaderSteps
        <5> QED BY <5>1, <5>2
      <4>2. CASE Answer(q)
        BY <2>1, <4>2, AnswerIsTrue
      <4>3. CASE (\E question \in scene.questions : Ask(q, question)) \/ ReadBoundary(q) \/ ScanCold(q)
        <5>1. query'[q].pc \in {"label", "refused", "cold", "hot"}
          <6>1. CASE \E question \in scene.questions : Ask(q, question)
            BY <2>1, <6>1 DEF Ask, QueriesOk
          <6>2. CASE ReadBoundary(q) \/ ScanCold(q)
            <7>1. DOMAIN query[q] = QueryFields
              BY <2>1, <6>2 DEF ReadBoundary, ScanCold, QueriesOk, QueryShape, Asked
            <7> QED BY <2>1, <6>2, <7>1 DEF ReadBoundary, ScanCold, QueriesOk, QueryFields
          <6> QED BY <4>3, <6>1, <6>2
        <5> QED BY <5>1 DEF TrueOf, Answered
      <4> QED BY <4>1, <4>2, <4>3
    <3> QED BY <3>2, <3>3
  <2> QED BY <2>3, <2>4
<1>3. Inv => AnswerTrue
  BY DEF TrueOf, RowTrue, AnswerTrue
<1> QED BY <1>1, <1>2, <1>3, PTL DEF Spec
=============================================================================
