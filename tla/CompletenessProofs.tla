------------------------- MODULE CompletenessProofs -------------------------
(***************************************************************************)
(* What the completeness report promises, for any calendar, grids, rows,   *)
(* ranges and deliveries while it runs: every number of it is the number   *)
(* of intervals it is about.                                               *)
(***************************************************************************)
EXTENDS Completeness, Counting

-----------------------------------------------------------------------------
(* Numbers.                                                                 *)

\* Of two numbers the greater.
LEMMA MaxOfTwo ==
  ASSUME NEW a \in Int, NEW b \in Int
  PROVE  Max({a, b}) = IF a >= b THEN a ELSE b
<1>1. \E x \in {a, b} : \A y \in {a, b} : x >= y
  OBVIOUS
<1>2. Max({a, b}) \in {a, b} /\ \A y \in {a, b} : Max({a, b}) >= y
  BY <1>1 DEF Max
<1> QED
  BY <1>2

LEMMA MinOfTwo ==
  ASSUME NEW a \in Int, NEW b \in Int
  PROVE  Min({a, b}) = IF a <= b THEN a ELSE b
<1>1. \E x \in {a, b} : \A y \in {a, b} : x =< y
  OBVIOUS
<1>2. Min({a, b}) \in {a, b} /\ \A y \in {a, b} : Min({a, b}) =< y
  BY <1>1 DEF Min
<1> QED
  BY <1>2

\* A set of numbers with a lower bound has a least one.
LEMMA LeastOf ==
  ASSUME NEW low \in Int, NEW S, S \subseteq Int, S # {}, \A n \in S : low <= n
  PROVE  Min(S) \in S /\ \A n \in S : Min(S) <= n
<1> DEFINE T == {n - low : n \in S}
<1>1. T \subseteq Nat /\ T # {}
  <2>1. \A n \in S : n - low \in Nat
    OBVIOUS
  <2> QED
    BY <2>1
<1>2. PICK least \in T : \A n \in T : least <= n
  BY <1>1, LeastNatural
<1>3. PICK m \in S : least = m - low
  BY <1>2
<1>4. \A n \in S : m <= n
  <2> SUFFICES ASSUME NEW n \in S PROVE m <= n
    OBVIOUS
  <2>1. least <= n - low
    BY <1>2
  <2> QED
    BY <1>3, <2>1
<1> QED
  BY <1>3, <1>4 DEF Min

\* Going on by one tick: a new interval starts where the rest is nought.
LEMMA PointsGrow ==
  ASSUME NEW t \in Int, NEW start \in Int, NEW step \in Nat \ {0}
  PROVE  /\ GridPointsBefore(t, start, step) \in Int
         /\ GridPointsBefore(t + 1, start, step) =
              GridPointsBefore(t, start, step) + IF (t - start) % step = 0 THEN 1 ELSE 0
<1> DEFINE u == t - start
           v == (t + 1) - start
           p == u \div step
           x == u % step
           q == v \div step
           y == v % step
<1>1. /\ p \in Int /\ x \in 0..(step - 1) /\ u = step * p + x
      /\ q \in Int /\ y \in 0..(step - 1) /\ v = step * q + y
      /\ u \in Int /\ v = u + 1
  <2>1. u \in Int /\ v \in Int /\ v = u + 1
    OBVIOUS
  <2> HIDE DEF u, v
  <2> QED
    BY <2>1, Divided
<1>2. CASE x + 1 < step
  <2>1. step * p + (x + 1) = step * q + y /\ x + 1 \in 0..(step - 1)
    BY <1>1, <1>2
  <2>2. p = q /\ x + 1 = y
    <3> HIDE DEF p, x, q, y
    <3> QED
      BY <1>1, <2>1, SameQuotient
  <2> QED
    BY <1>1, <2>2 DEF GridPointsBefore
<1>3. CASE x + 1 = step
  <2>1. step * (p + 1) + 0 = step * q + y /\ 0 \in 0..(step - 1) /\ p + 1 \in Int
    BY <1>1, <1>3
  <2>2. p + 1 = q /\ y = 0
    <3> HIDE DEF p, x, q, y
    <3> QED
      BY <1>1, <2>1, SameQuotient
  <2> QED
    BY <1>1, <2>2 DEF GridPointsBefore
<1> QED
  BY <1>1, <1>2, <1>3

\* The starts of a grid in a stretch of time are as many as the code's difference says.
GridPoints(lo, hi, start, step) == {t \in lo..(hi - 1) : (t - start) % step = 0}

LEMMA PointsCounted ==
  ASSUME NEW lo \in Int, NEW hi \in Int, lo <= hi, NEW start \in Int, NEW step \in Nat \ {0}
  PROVE  /\ IsFiniteSet(GridPoints(lo, hi, start, step))
         /\ Cardinality(GridPoints(lo, hi, start, step)) =
              GridPointsBefore(hi, start, step) - GridPointsBefore(lo, start, step)
<1> DEFINE P(n) == GridPoints(lo, lo + n, start, step)
           B(t) == GridPointsBefore(t, start, step)
           T == {n \in Nat : ~(IsFiniteSet(P(n)) /\ Cardinality(P(n)) = B(lo + n) - B(lo))}
<1>1. SUFFICES T = {}
  <2>1. hi - lo \in Nat /\ lo + (hi - lo) = hi
    OBVIOUS
  <2>2. hi - lo \notin T
    BY <1>1
  <2> HIDE DEF B
  <2>3. IsFiniteSet(P(hi - lo)) /\ Cardinality(P(hi - lo)) = B(lo + (hi - lo)) - B(lo)
    BY <2>1, <2>2
  <2> QED
    BY <2>1, <2>3 DEF B
<1> SUFFICES ASSUME T # {} PROVE FALSE
  OBVIOUS
<1>2. PICK least \in T : \A n \in T : least <= n
  BY LeastNatural
<1>3. B(lo) \in Int
  BY PointsGrow
<1>4. least # 0
  <2>1. P(0) = {}
    BY DEF GridPoints
  <2>2. lo + 0 = lo
    OBVIOUS
  <2> QED
    BY <1>2, <1>3, <2>1, <2>2, FS_EmptySet
<1> DEFINE m == least - 1
           t == lo + m
<1>5. m \in Nat /\ m + 1 = least /\ t \in Int /\ t + 1 = lo + least
  BY <1>2, <1>4
<1>6. IsFiniteSet(P(m)) /\ Cardinality(P(m)) = B(t) - B(lo)
  <2>1. m \notin T
    <3> HIDE DEF T
    <3> QED
      BY <1>2, <1>5
  <2> QED
    BY <1>5, <2>1
<1>7. P(least) = P(m) \union (IF (t - start) % step = 0 THEN {t} ELSE {})
  BY <1>5 DEF GridPoints
<1>8. t \notin P(m)
  BY <1>5 DEF GridPoints
<1>9. B(t + 1) = B(t) + (IF (t - start) % step = 0 THEN 1 ELSE 0) /\ B(t) \in Int
  BY <1>5, PointsGrow
<1>11. B(lo + least) = B(t + 1)
  <2> HIDE DEF t
  <2> QED
    BY <1>5
<1>10. IsFiniteSet(P(least)) /\ Cardinality(P(least)) = B(lo + least) - B(lo)
  <2> HIDE DEF P, B, m, t
  <2>1. CASE (t - start) % step = 0
    <3>1. P(least) = P(m) \union {t}
      BY <1>7, <2>1
    <3>2. IsFiniteSet(P(least)) /\ Cardinality(P(least)) = Cardinality(P(m)) + 1
      BY <3>1, <1>6, <1>8, FS_AddElement
    <3> QED
      BY <3>2, <1>3, <1>6, <1>9, <1>11, <2>1
  <2>2. CASE (t - start) % step # 0
    <3>1. P(least) = P(m)
      BY <1>7, <2>2
    <3> QED
      BY <3>1, <1>3, <1>6, <1>9, <1>11, <2>2
  <2> QED
    BY <2>1, <2>2
<1> QED
  BY <1>2, <1>10
-----------------------------------------------------------------------------
(* The calendar.                                                            *)

\* An earlier day ends before a later one starts.
LEMMA DaysApart ==
  ASSUME NEW s \in Sparten, NEW d \in Days, NEW e \in Days, d < e
  PROVE  DayEnd[s][d] <= DayStart[s][e]
<1> DEFINE T == {n \in Nat : d + 1 + n \in Days /\ ~(DayEnd[s][d] <= DayStart[s][d + 1 + n])}
<1>1. d \in Int /\ e \in Int
  BY CalendarAssumption
<1>2. SUFFICES T = {}
  <2>1. e - d - 1 \in Nat /\ d + 1 + (e - d - 1) = e
    BY <1>1
  <2>2. e - d - 1 \notin T
    BY <1>2
  <2> QED
    BY <2>1, <2>2
<1> SUFFICES ASSUME T # {} PROVE FALSE
  OBVIOUS
<1>3. PICK least \in T : \A n \in T : least <= n
  BY LeastNatural
<1>4. least # 0
  <2>1. d + 1 + 0 = d + 1
    BY <1>1
  <2> SUFFICES ASSUME least = 0 PROVE FALSE
    OBVIOUS
  <2>2. d + 1 \in Days /\ ~(DayEnd[s][d] <= DayStart[s][d + 1])
    BY <1>3, <2>1
  <2> QED
    BY <2>2, CalendarAssumption
<1> DEFINE m == least - 1
           f == d + 1 + m
<1>5. m \in Nat /\ m + 1 = least /\ f \in Int /\ f + 1 = d + 1 + least /\ d <= f /\ f <= f + 1
  BY <1>1, <1>3, <1>4
<1>6. f + 1 \in Days /\ ~(DayEnd[s][d] <= DayStart[s][f + 1])
  <2>1. d + 1 + least \in Days /\ ~(DayEnd[s][d] <= DayStart[s][d + 1 + least])
    BY <1>3
  <2> HIDE DEF f
  <2> QED
    BY <2>1, <1>5
<1>7. f \in Days
  <2> HIDE DEF f
  <2>1. f \in d..(f + 1)
    BY <1>1, <1>5
  <2> QED
    BY <2>1, <1>6, CalendarAssumption
<1>8. DayEnd[s][d] <= DayStart[s][f]
  <2>1. m \notin T
    <3> HIDE DEF T
    <3> QED
      BY <1>3, <1>5
  <2> QED
    BY <1>5, <1>7, <2>1
<1> HIDE DEF f
<1>9. /\ DayStart[s][f] < DayEnd[s][f] /\ DayStart[s][f + 1] = DayEnd[s][f]
      /\ DayStart[s][f] \in Int /\ DayEnd[s][f] \in Int /\ DayEnd[s][d] \in Int
  BY <1>6, <1>7, CalendarAssumption
<1> QED
  BY <1>6, <1>8, <1>9

\* A dated instant lies in its balancing day and in no other.
LEMMA TheDay ==
  ASSUME NEW s \in Sparten, NEW t, Dated(t, s)
  PROVE  /\ BalancingDay(t, s) \in Days
         /\ DayStart[s][BalancingDay(t, s)] <= t /\ t < DayEnd[s][BalancingDay(t, s)]
         /\ \A d \in Days : DayStart[s][d] <= t /\ t < DayEnd[s][d] => d = BalancingDay(t, s)
<1> DEFINE b == BalancingDay(t, s)
<1>1. b \in Days /\ DayStart[s][b] <= t /\ t < DayEnd[s][b]
  BY DEF Dated, BalancingDay
<1> HIDE DEF b
<1>2. ASSUME NEW d \in Days, DayStart[s][d] <= t, t < DayEnd[s][d]
      PROVE  d = b
  <2>1. d \in Int /\ b \in Int /\ t \in Int
    BY <1>1, CalendarAssumption DEF Dated
  <2>2. /\ DayStart[s][d] \in Int /\ DayEnd[s][d] \in Int
        /\ DayStart[s][b] \in Int /\ DayEnd[s][b] \in Int
    BY <1>1, CalendarAssumption
  <2>3. ~(d < b)
    BY <1>1, <1>2, <2>1, <2>2, DaysApart
  <2>4. ~(b < d)
    BY <1>1, <1>2, <2>1, <2>2, DaysApart
  <2> QED
    BY <2>1, <2>3, <2>4
<1> QED
  BY <1>1, <1>2 DEF b

\* Later instants are on later days.
LEMMA DaysAscend ==
  ASSUME NEW s \in Sparten, NEW t, NEW u, Dated(t, s), Dated(u, s), t <= u
  PROVE  BalancingDay(t, s) <= BalancingDay(u, s)
<1> DEFINE b == BalancingDay(t, s)
           c == BalancingDay(u, s)
<1>1. /\ b \in Days /\ DayStart[s][b] <= t
      /\ c \in Days /\ u < DayEnd[s][c]
  BY TheDay
<1> HIDE DEF b, c
<1>2. /\ b \in Int /\ c \in Int /\ t \in Int /\ u \in Int
      /\ DayStart[s][b] \in Int /\ DayEnd[s][c] \in Int
  BY <1>1, CalendarAssumption DEF Dated
<1>3. ~(c < b)
  BY <1>1, <1>2, DaysApart
<1>4. b <= c
  BY <1>2, <1>3
<1> QED
  BY <1>4 DEF b, c

\* Between two dated instants every instant is dated.
LEMMA DatedBetween ==
  ASSUME NEW s \in Sparten, NEW a, NEW b, Dated(a, s), Dated(b, s), NEW t \in a..b
  PROVE  Dated(t, s)
<1>1. PICK first \in Days : DayStart[s][first] <= a /\ a < DayEnd[s][first]
  BY DEF Dated
<1>2. PICK last \in Days : DayStart[s][last] <= b /\ b < DayEnd[s][last]
  BY DEF Dated
<1> DEFINE S == {d \in Days : first <= d /\ t < DayEnd[s][d]}
<1>3. a \in Int /\ b \in Int /\ t \in Int /\ a <= t /\ t <= b
  BY DEF Dated
<1>4. first \in Int /\ last \in Int /\ DayEnd[s][last] \in Int /\ DayStart[s][last] \in Int
      /\ DayEnd[s][first] \in Int /\ DayStart[s][first] \in Int
  BY CalendarAssumption
<1>5. first <= last
  <2>1. ~(last < first)
    BY <1>1, <1>2, <1>3, <1>4, DaysApart
  <2> QED
    BY <2>1, <1>4
<1>6. last \in S
  BY <1>2, <1>3, <1>4, <1>5
<1>7. S \subseteq Int /\ S # {} /\ \A d \in S : first <= d
  BY <1>6, CalendarAssumption
<1> DEFINE d == Min(S)
<1>8. d \in S /\ \A e \in S : d <= e
  <2> HIDE DEF S
  <2> QED
    BY <1>4, <1>7, LeastOf
<1> HIDE DEF d
<1>9. d \in Int /\ DayStart[s][d] \in Int /\ DayEnd[s][d] \in Int
  BY <1>8, CalendarAssumption
<1>10. DayStart[s][d] <= t
  <2>1. CASE d = first
    BY <2>1, <1>1, <1>3, <1>4
  <2>2. CASE d # first
    <3>1. d - 1 \in first..d /\ d - 1 + 1 = d
      BY <1>4, <1>8, <1>9, <2>2
    <3>2. d - 1 \in Days
      BY <3>1, <1>8, CalendarAssumption
    <3>3. ~(d <= d - 1)
      BY <1>9
    <3>4. d - 1 \notin S
      BY <3>3, <1>8
    <3>5. ~(t < DayEnd[s][d - 1])
      BY <3>1, <3>2, <3>4
    <3>6. DayEnd[s][d - 1] = DayStart[s][d] /\ DayEnd[s][d - 1] \in Int
      <4>1. (d - 1) + 1 = d
        BY <1>9
      <4> DEFINE e == d - 1
      <4>2. e \in Days /\ e + 1 \in Days /\ e + 1 = d
        BY <3>2, <4>1, <1>8
      <4> HIDE DEF e
      <4>3. DayEnd[s][e] = DayStart[s][d] /\ DayEnd[s][e] \in Int
        BY <4>2, CalendarAssumption
      <4> QED
        BY <4>3 DEF e
    <3> QED
      BY <3>5, <3>6, <1>3
  <2> QED
    BY <2>1, <2>2
<1> QED
  BY <1>3, <1>8, <1>10 DEF Dated

\* The days of a range are days of the calendar, and every instant of it is on one.
LEMMA RangeDays ==
  ASSUME NEW s \in Sparten, NEW from, NEW to, Dates(from, to)
  PROVE  /\ from \in Int /\ to \in Int
         /\ DaySpan(from, to, s) \subseteq Days /\ DaySpan(from, to, s) \subseteq Int
         /\ IsFiniteSet(DaySpan(from, to, s))
         /\ \A t \in from..(to - 1) : Dated(t, s) /\ BalancingDay(t, s) \in DaySpan(from, to, s)
<1>1. Dated(from, s) /\ Dated(to - 1, s) /\ from < to
  BY DEF Dates
<1> DEFINE first == BalancingDay(from, s)
           last == BalancingDay(to - 1, s)
<1>2. first \in Days /\ last \in Days /\ first \in Int /\ last \in Int
  BY <1>1, TheDay, CalendarAssumption
<1>3. first..last \subseteq Days /\ IsFiniteSet(first..last)
  <2> HIDE DEF first, last
  <2> QED
    BY <1>2, FS_Interval, CalendarAssumption
<1>4. from \in Int /\ to - 1 \in Int
  BY <1>1 DEF Dated
<1>5. ASSUME NEW t \in from..(to - 1)
      PROVE  Dated(t, s) /\ BalancingDay(t, s) \in first..last
  <2>1. Dated(t, s)
    BY <1>1, DatedBetween
  <2>2. from <= t /\ t <= to - 1
    BY <1>4
  <2>3. first <= BalancingDay(t, s) /\ BalancingDay(t, s) <= last
    BY <1>1, <2>1, <2>2, DaysAscend
  <2>4. BalancingDay(t, s) \in Int
    BY <2>1, TheDay, CalendarAssumption
  <2> HIDE DEF first, last
  <2> QED
    BY <1>2, <2>1, <2>3, <2>4
<1> QED
  BY <1>2, <1>3, <1>4, <1>5 DEF DaySpan, Dates

-----------------------------------------------------------------------------
(* What is expected of a day.                                               *)

\* The interval starts a range holds of a day.
PointsOf(d, g, s, from, to) ==
  {t \in from..(to - 1) : OnGrid(t, g, s) /\ BalancingDay(t, s) = d}

\* A grid that has a number cuts a day into that many steps.
LEMMA GridOfDay ==
  ASSUME NEW s \in Sparten, NEW d \in Days, NEW g, g = "P1D" \/ g \in DOMAIN Ticks
  PROVE  \E step \in Nat \ {0} :
           /\ IntervalsInDay(d, g, s) \in Nat \ {0}
           /\ step * IntervalsInDay(d, g, s) = DayEnd[s][d] - DayStart[s][d]
           /\ (DayEnd[s][d] - DayStart[s][d]) \div IntervalsInDay(d, g, s) = step
           /\ \A t \in Int : DayStart[s][d] <= t /\ t < DayEnd[s][d] =>
                (OnGrid(t, g, s) <=> (t - DayStart[s][d]) % step = 0)
<1> DEFINE start == DayStart[s][d]
           end == DayEnd[s][d]
           len == end - start
           n == IntervalsInDay(d, g, s)
           Cuts(step) ==
             /\ n \in Nat \ {0} /\ step * n = len /\ len \div n = step
             /\ \A t \in Int : start <= t /\ t < end => (OnGrid(t, g, s) <=> (t - start) % step = 0)
<1>0. SUFFICES \E step \in Nat \ {0} : Cuts(step)
  OBVIOUS
<1>1. start \in Int /\ end \in Int /\ start < end /\ len \in Nat \ {0}
  BY CalendarAssumption
<1>2. \A t \in Int : start <= t /\ t < end => BalancingDay(t, s) = d
  <2> SUFFICES ASSUME NEW t \in Int, start <= t, t < end PROVE BalancingDay(t, s) = d
    OBVIOUS
  <2>1. Dated(t, s)
    BY DEF Dated
  <2> QED
    BY <2>1, TheDay
<1>3. CASE g = "P1D"
  <2>1. "P1D" \notin DOMAIN Ticks
    BY CalendarAssumption
  <2>2. n = 1
    BY <1>3, <2>1 DEF IntervalsInDay
  <2>3. ASSUME NEW t \in Int, start <= t, t < end
        PROVE  OnGrid(t, g, s) <=> (t - start) % len = 0
    <3>1. t - start \in 0..(len - 1) /\ 0 \in 0..(len - 1)
      BY <1>1, <2>3
    <3> DEFINE u == t - start
    <3>6. u \in 0..(len - 1) /\ len \in Nat \ {0}
      BY <1>1, <3>1
    <3> HIDE DEF u, len
    <3>2. u \in Int /\ 0 \in Int /\ len * 0 + u = u
      BY <3>6
    <3>7. /\ u \div len \in Int /\ u % len \in 0..(len - 1)
          /\ u = len * (u \div len) + (u % len)
      BY <3>2, <3>6, Divided
    <3>3. u % len = u
      BY <3>2, <3>6, <3>7, SameQuotient
    <3>4. u = 0 <=> t = start
      BY <1>1, <2>3 DEF u
    <3>5. OnGrid(t, g, s) <=> t = start
      BY <1>2, <1>3, <2>1, <2>3 DEF OnGrid
    <3> QED
      BY <3>3, <3>4, <3>5 DEF u
  <2>4. len * 1 = len /\ len \div 1 = len
    BY <1>1
  <2> HIDE DEF n, len
  <2>5. Cuts(len)
    BY <2>2, <2>3, <2>4
  <2> QED
    BY <1>1, <2>5
<1>4. CASE g \in DOMAIN Ticks
  <2> DEFINE step == Ticks[g]
  <2>1. g # "P1D" /\ step \in Nat \ {0} /\ len % step = 0
    BY <1>4, CalendarAssumption
  <2>2. n = len \div step
    BY <1>4, <2>1 DEF IntervalsInDay
  <2> HIDE DEF n, len, step
  <2>3. n \in Int /\ len = step * n
    BY <1>1, <2>1, <2>2, Divided
  <2>4. n > 0
    <3>1. SUFFICES ASSUME n <= 0 PROVE FALSE
      BY <2>3
    <3>2. step * n <= 0
      BY <2>1, <2>3, <3>1
    <3> QED
      BY <1>1, <2>3, <3>2
  <2>5. step * n = n * step
    BY <2>1, <2>3
  <2>6. len \div n = step
    BY <2>1, <2>3, <2>4, <2>5, Multiple
  <2>7. ASSUME NEW t \in Int, start <= t, t < end
        PROVE  OnGrid(t, g, s) <=> (t - start) % step = 0
    BY <1>2, <1>4, <2>1, <2>7 DEF OnGrid, step
  <2>8. Cuts(step)
    BY <2>3, <2>4, <2>6, <2>7
  <2> QED
    BY <2>1, <2>8
<1> QED
  BY <1>3, <1>4

\* expected_in_day is the number of interval starts the range holds of the day.
LEMMA ExpectedCounts ==
  ASSUME NEW s \in Sparten, NEW d \in Days, NEW g \in Resolutions, NEW from, NEW to, Dates(from, to)
  PROVE  /\ IsFiniteSet(PointsOf(d, g, s, from, to))
         /\ ExpectedInDay(d, g, s, from, to) = Cardinality(PointsOf(d, g, s, from, to))
         /\ ExpectedInDay(d, g, s, from, to) \in Nat
<1> DEFINE start == DayStart[s][d]
           end == DayEnd[s][d]
           lo == Max({start, from})
           hi == Min({end, to})
           full == IntervalsInDay(d, g, s)
           P == PointsOf(d, g, s, from, to)
<1>1. /\ start \in Int /\ end \in Int /\ start < end /\ d \in Int
      /\ from \in Int /\ to \in Int /\ from < to
  BY CalendarAssumption, RangeDays DEF Dates
<1>2. /\ lo = (IF start >= from THEN start ELSE from) /\ hi = (IF end <= to THEN end ELSE to)
  BY <1>1, MaxOfTwo, MinOfTwo
<1>3. \A t \in from..(to - 1) : BalancingDay(t, s) = d <=> start <= t /\ t < end
  <2> SUFFICES ASSUME NEW t \in from..(to - 1)
               PROVE  BalancingDay(t, s) = d <=> start <= t /\ t < end
    OBVIOUS
  <2>1. Dated(t, s)
    BY RangeDays
  <2> QED
    BY <2>1, TheDay
<1>4. CASE ~(g = "P1D" \/ g \in DOMAIN Ticks)
  <2>1. full = 0
    BY <1>4 DEF IntervalsInDay
  <2>2. P = {}
    BY <1>4 DEF PointsOf, OnGrid
  <2>3. ExpectedInDay(d, g, s, from, to) = 0
    BY <2>1 DEF ExpectedInDay
  <2> QED
    BY <2>2, <2>3, FS_EmptySet
<1>5. CASE g = "P1D" \/ g \in DOMAIN Ticks
  <2>1. PICK step \in Nat \ {0} :
           /\ full \in Nat \ {0}
           /\ step * full = end - start
           /\ (end - start) \div full = step
           /\ \A t \in Int : start <= t /\ t < end => (OnGrid(t, g, s) <=> (t - start) % step = 0)
    BY <1>5, GridOfDay
  <2> HIDE DEF start, end, full
  <2>2. lo \in Int /\ hi \in Int /\ start <= lo /\ hi <= end
    BY <1>1, <1>2
  <2>3. P = GridPoints(lo, hi, start, step)
    <3>1. \A t \in Int : (from <= t /\ t <= to - 1 /\ start <= t /\ t < end) <=> (lo <= t /\ t <= hi - 1)
      BY <1>1, <1>2
    <3>2. ASSUME NEW t PROVE t \in P <=> t \in GridPoints(lo, hi, start, step)
      <4> HIDE DEF lo, hi
      <4>1. ASSUME t \in P PROVE t \in GridPoints(lo, hi, start, step)
        <5>1. t \in from..(to - 1) /\ OnGrid(t, g, s) /\ BalancingDay(t, s) = d
          BY <4>1 DEF PointsOf
        <5>2. t \in Int /\ from <= t /\ t <= to - 1 /\ start <= t /\ t < end
          BY <1>1, <1>3, <5>1
        <5>3. lo <= t /\ t <= hi - 1 /\ (t - start) % step = 0
          BY <2>1, <3>1, <5>1, <5>2
        <5> QED
          BY <2>2, <5>2, <5>3 DEF GridPoints
      <4>2. t \in GridPoints(lo, hi, start, step) => t \in P
        BY <1>1, <1>3, <2>1, <2>2, <3>1 DEF PointsOf, GridPoints
      <4> QED
        BY <4>1, <4>2
    <3> QED
      BY <3>2
  <2> DEFINE B(t) == GridPointsBefore(t, start, step)
             Whole == GridPoints(start, end, start, step)
             count == B(hi) - B(lo)
  <2>4. IsFiniteSet(Whole) /\ Cardinality(Whole) = full
    <3>1. B(start) = 0
      <4>1. start - start = step * 0 /\ 0 \in Int
        BY <1>1, <2>1
      <4>2. (start - start) \div step = 0 /\ (start - start) % step = 0
        BY <2>1, <4>1, Multiple
      <4> QED
        BY <4>2 DEF GridPointsBefore
    <3>2. B(end) = full
      <4>1. (end - start) \div step = full /\ (end - start) % step = 0
        BY <2>1, Multiple
      <4> QED
        BY <2>1, <4>1 DEF GridPointsBefore
    <3>3. IsFiniteSet(Whole) /\ Cardinality(Whole) = B(end) - B(start)
      <4>1. start <= end
        BY <1>1
      <4> QED
        BY <1>1, <4>1, PointsCounted
    <3> HIDE DEF B, Whole
    <3> QED
      BY <2>1, <3>1, <3>2, <3>3
  <2>5. ExpectedInDay(d, g, s, from, to) =
          IF start >= from /\ end <= to THEN full
          ELSE IF hi <= lo THEN 0 ELSE Max({0, Min({count, full})})
    <3>1. full > 0
      BY <2>1
    <3> HIDE DEF lo, hi
    <3> QED
      BY <2>1, <3>1 DEF ExpectedInDay, start, end, full, lo, hi
  <2> HIDE DEF P, lo, hi, Whole
  <2>6. CASE start >= from /\ end <= to
    <3>1. P = Whole
      BY <2>3, <2>6, <1>1, <1>2 DEF Whole
    <3> QED
      BY <2>1, <2>4, <2>5, <2>6, <3>1 DEF P
  <2>7. CASE ~(start >= from /\ end <= to) /\ hi <= lo
    <3>1. P = {}
      BY <2>2, <2>3, <2>7 DEF GridPoints
    <3> QED
      BY <2>5, <2>7, <3>1, FS_EmptySet DEF P
  <2>8. CASE ~(start >= from /\ end <= to) /\ ~(hi <= lo)
    <3>1. IsFiniteSet(P) /\ Cardinality(P) = count
      <4>1. lo <= hi
        BY <2>2, <2>8
      <4>2. /\ IsFiniteSet(GridPoints(lo, hi, start, step))
            /\ Cardinality(GridPoints(lo, hi, start, step)) =
                 GridPointsBefore(hi, start, step) - GridPointsBefore(lo, start, step)
        <5>1. start \in Int /\ lo \in Int /\ hi \in Int /\ lo <= hi
          BY <1>1, <2>2, <4>1
        <5> HIDE DEF B, count
        <5> QED
          BY <5>1, PointsCounted
      <4> QED
        BY <2>3, <4>2
    <3>2. P \in SUBSET Whole
      BY <1>1, <2>2, <2>3 DEF Whole, GridPoints
    <3>3. count \in Nat /\ count <= full
      BY <2>4, <3>1, <3>2, FS_Subset, FS_CardinalityType
    <3> HIDE DEF count
    <3>4. Min({count, full}) = count
      BY <2>1, <3>3, MinOfTwo
    <3>5. Max({0, count}) = count
      BY <3>3, MaxOfTwo
    <3> QED
      BY <2>5, <2>8, <3>1, <3>3, <3>4, <3>5 DEF P
  <2> QED
    BY <2>6, <2>7, <2>8
<1> QED
  BY <1>4, <1>5

-----------------------------------------------------------------------------
(* Sums over days.                                                          *)

SumOver(w, S) == MapThenSumSet(LAMBDA x : w[x], S)

\* A sum of sizes is the size of what they count.
LEMMA SumOverCounts ==
  ASSUME NEW S, IsFiniteSet(S), NEW A, Apart(A, S), NEW w, \A x \in S : w[x] = Cardinality(A[x])
  PROVE  SumOver(w, S) = Counted(A, S)
<1> DEFINE F(h) == [s \in SUBSET S |-> IF s = {} THEN 0
                                       ELSE w[CHOOSE x \in s : TRUE] + h[s \ {CHOOSE x \in s : TRUE}]]
           sum == CHOOSE h : h = F(h)
           closed == [s \in SUBSET S |-> Counted(A, s)]
<1>1. SumOver(w, S) = sum[S]
  BY DEF SumOver, MapThenSumSet, MapThenFoldSet
<1>2. closed = F(closed)
  <2>1. ASSUME NEW s \in SUBSET S PROVE closed[s] = F(closed)[s]
    <3>1. s # {} => Pick(s) \in s /\ s \ {Pick(s)} \in SUBSET S
      BY DEF Pick
    <3>2. s # {} => w[Pick(s)] = Cardinality(A[Pick(s)])
      BY <3>1
    <3>3. closed[s] = IF s = {} THEN 0 ELSE Cardinality(A[Pick(s)]) + Counted(A, s \ {Pick(s)})
      BY CountedStep
    <3> QED
      BY <3>1, <3>2, <3>3 DEF Pick
  <2> QED
    BY <2>1
<1>3. sum = F(sum)
  <2> HIDE DEF closed
  <2> QED
    BY <1>2
<1>4. Adds(sum, A, S)
  <2> SUFFICES ASSUME NEW s \in SUBSET S
               PROVE  sum[s] = IF s = {} THEN 0 ELSE Cardinality(A[Pick(s)]) + sum[s \ {Pick(s)}]
    BY DEF Adds
  <2>1. sum[s] = F(sum)[s]
    BY <1>3
  <2> HIDE DEF sum
  <2>2. s # {} => Pick(s) \in s
    BY DEF Pick
  <2>3. s # {} => w[Pick(s)] = Cardinality(A[Pick(s)])
    BY <2>2
  <2> QED
    BY <2>1, <2>3 DEF Pick
<1> HIDE DEF sum
<1> QED
  BY <1>1, <1>4, SumCounts

\* What is short, day by day.
Lack(few, many) == IF few >= many THEN 0 ELSE many - few

LEMMA ShortfallCounts ==
  ASSUME NEW S, IsFiniteSet(S), NEW A, Apart(A, S), NEW e, NEW a,
         \A x \in S : e[x] \in Int /\ a[x] \in Int /\ Cardinality(A[x]) = Lack(a[x], e[x])
  PROVE  Shortfall(S, e, a) = Counted(A, S)
<1> DEFINE F(h) == [s \in SUBSET S |->
                      IF s = {} THEN 0
                      ELSE Max({0, e[CHOOSE x \in s : TRUE] - a[CHOOSE x \in s : TRUE]})
                           + h[s \ {CHOOSE x \in s : TRUE}]]
           sum == CHOOSE h : h = F(h)
           closed == [s \in SUBSET S |-> Counted(A, s)]
<1>0. \A x \in S : Max({0, e[x] - a[x]}) = Cardinality(A[x])
  <2> SUFFICES ASSUME NEW x \in S PROVE Max({0, e[x] - a[x]}) = Cardinality(A[x])
    OBVIOUS
  <2>1. Max({0, e[x] - a[x]}) = IF 0 >= e[x] - a[x] THEN 0 ELSE e[x] - a[x]
    BY MaxOfTwo
  <2> QED
    BY <2>1 DEF Lack
<1>1. Shortfall(S, e, a) = sum[S]
  BY DEF Shortfall, MapThenSumSet, MapThenFoldSet
<1>2. closed = F(closed)
  <2>1. ASSUME NEW s \in SUBSET S PROVE closed[s] = F(closed)[s]
    <3>1. s # {} => Pick(s) \in s /\ s \ {Pick(s)} \in SUBSET S
      BY DEF Pick
    <3>2. s # {} => Max({0, e[Pick(s)] - a[Pick(s)]}) = Cardinality(A[Pick(s)])
      BY <1>0, <3>1
    <3>3. closed[s] = IF s = {} THEN 0 ELSE Cardinality(A[Pick(s)]) + Counted(A, s \ {Pick(s)})
      BY CountedStep
    <3> QED
      BY <3>1, <3>2, <3>3 DEF Pick
  <2> QED
    BY <2>1
<1>3. sum = F(sum)
  <2> HIDE DEF closed
  <2> QED
    BY <1>2
<1>4. Adds(sum, A, S)
  <2> SUFFICES ASSUME NEW s \in SUBSET S
               PROVE  sum[s] = IF s = {} THEN 0 ELSE Cardinality(A[Pick(s)]) + sum[s \ {Pick(s)}]
    BY DEF Adds
  <2>1. sum[s] = F(sum)[s]
    BY <1>3
  <2> HIDE DEF sum
  <2>2. s # {} => Pick(s) \in s
    BY DEF Pick
  <2>3. s # {} => Max({0, e[Pick(s)] - a[Pick(s)]}) = Cardinality(A[Pick(s)])
    BY <1>0, <2>2
  <2> QED
    BY <2>1, <2>3 DEF Pick
<1> HIDE DEF sum
<1> QED
  BY <1>1, <1>4, SumCounts

-----------------------------------------------------------------------------
(* What a roll-up counts.                                                   *)

\* The rows a daily row stands for.
Feeds(V, x) ==
  {o \in V : /\ o.channel = x.channel /\ o.sparte = x.sparte /\ o.grid = x.grid
             /\ o.quality = x.quality /\ BalancingDay(o.from, o.sparte) = x.day}

\* The daily row a row is counted in.
DailyRow(V, r) ==
  [channel |-> r.channel, sparte |-> r.sparte, grid |-> r.grid,
   day |-> BalancingDay(r.from, r.sparte), quality |-> r.quality,
   actual |-> Cardinality({o \in V :
       /\ o.channel = r.channel /\ o.sparte = r.sparte /\ o.grid = r.grid
       /\ o.quality = r.quality
       /\ BalancingDay(o.from, o.sparte) = BalancingDay(r.from, r.sparte)})]

LEMMA DailyRowsAre == \A V : DailyRows(V) = {DailyRow(V, r) : r \in V}
  BY DEF DailyRows, DailyRow

LEMMA FeedsOwn ==
  ASSUME NEW V, NEW r \in V
  PROVE  /\ r \in Feeds(V, DailyRow(V, r))
         /\ DailyRow(V, r).actual = Cardinality(Feeds(V, DailyRow(V, r)))
  BY DEF Feeds, DailyRow

\* A row is counted once.
LEMMA FedOnce ==
  ASSUME NEW V, NEW x \in DailyRows(V), NEW o \in Feeds(V, x)
  PROVE  x = DailyRow(V, o)
<1>1. PICK r \in V : x = DailyRow(V, r)
  BY DailyRowsAre
<1>2. /\ o.channel = r.channel /\ o.sparte = r.sparte /\ o.grid = r.grid
      /\ o.quality = r.quality /\ BalancingDay(o.from, o.sparte) = BalancingDay(r.from, r.sparte)
  BY <1>1 DEF Feeds, DailyRow
<1> QED
  BY <1>1, <1>2 DEF DailyRow

\* The rows of a channel on a grid on a day, and on all of them.
RowsOn(V, c, s, g, d) ==
  {o \in V : o.channel = c /\ o.sparte = s /\ o.grid = g /\ BalancingDay(o.from, s) = d}
RowsOf(V, c, s, g) == {o \in V : o.channel = c /\ o.sparte = s /\ o.grid = g}

LEMMA DailyFacts ==
  ASSUME NEW V, Resolved(V)
  PROVE  /\ IsFiniteSet(V) /\ IsFiniteSet(DailyRows(V))
         /\ \A x \in DailyRows(V) :
              /\ x.channel \in Channels /\ x.sparte \in Sparten /\ x.grid \in Resolutions
              /\ x.day \in Days
              /\ IsFiniteSet(Feeds(V, x)) /\ Feeds(V, x) # {}
              /\ x.actual = Cardinality(Feeds(V, x))
              /\ \A o \in Feeds(V, x) : o \in V
<1>1. IsFiniteSet(V)
  BY DEF Resolved
<1> DEFINE f == [r \in V |-> DailyRow(V, r)]
<1>2. f \in Surjection(V, DailyRows(V))
  BY DailyRowsAre DEF Surjection
<1>3. IsFiniteSet(DailyRows(V))
  <2> HIDE DEF f
  <2> QED
    BY <1>1, <1>2, FS_Surjection
<1>4. ASSUME NEW x \in DailyRows(V)
      PROVE  /\ x.channel \in Channels /\ x.sparte \in Sparten /\ x.grid \in Resolutions
             /\ x.day \in Days
             /\ IsFiniteSet(Feeds(V, x)) /\ Feeds(V, x) # {}
             /\ x.actual = Cardinality(Feeds(V, x))
             /\ \A o \in Feeds(V, x) : o \in V
  <2>1. PICK r \in V : x = DailyRow(V, r)
    BY DailyRowsAre
  <2>2. r.channel \in Channels /\ r.sparte \in Sparten /\ r.grid \in Resolutions /\ Dated(r.from, r.sparte)
    BY DEF Resolved
  <2>3. BalancingDay(r.from, r.sparte) \in Days
    BY <2>2, TheDay
  <2>4. Feeds(V, x) \in SUBSET V
    BY DEF Feeds
  <2>5. IsFiniteSet(Feeds(V, x))
    BY <1>1, <2>4, FS_Subset
  <2>6. r \in Feeds(V, x) /\ x.actual = Cardinality(Feeds(V, x))
    BY <2>1, FeedsOwn
  <2>7. x.channel = r.channel /\ x.sparte = r.sparte /\ x.grid = r.grid
        /\ x.day = BalancingDay(r.from, r.sparte)
    BY <2>1 DEF DailyRow
  <2> QED
    BY <2>2, <2>3, <2>4, <2>5, <2>6, <2>7
<1> QED
  BY <1>1, <1>3, <1>4

\* A total of daily rows is the number of rows they stand for.
LEMMA TotalCounts ==
  ASSUME NEW V, Resolved(V), NEW M \in SUBSET DailyRows(V)
  PROVE  /\ Total(M) = Cardinality(UNION {Feeds(V, x) : x \in M})
         /\ IsFiniteSet(UNION {Feeds(V, x) : x \in M})
         /\ Total(M) \in Nat
<1> DEFINE A == [x \in M |-> Feeds(V, x)]
           F(h) == [s \in SUBSET M |-> IF s = {} THEN 0
                                       ELSE (CHOOSE x \in s : TRUE).actual + h[s \ {CHOOSE x \in s : TRUE}]]
           sum == CHOOSE h : h = F(h)
           closed == [s \in SUBSET M |-> Counted(A, s)]
<1>1. Total(M) = sum[M]
  BY DEF Total, MapThenSumSet, MapThenFoldSet
<1>2. IsFiniteSet(M)
  BY DailyFacts, FS_Subset
<1>3. Apart(A, M)
  <2>1. \A x \in M : IsFiniteSet(A[x])
    BY DailyFacts
  <2>2. ASSUME NEW x \in M, NEW y \in M, x # y PROVE A[x] \intersect A[y] = {}
    BY <2>2, FedOnce
  <2> QED
    BY <2>1, <2>2 DEF Apart
<1>4. \A x \in M : x.actual = Cardinality(A[x])
  BY DailyFacts
<1> HIDE DEF A
<1>5. closed = F(closed)
  <2>1. ASSUME NEW s \in SUBSET M PROVE closed[s] = F(closed)[s]
    <3>1. s # {} => Pick(s) \in s /\ s \ {Pick(s)} \in SUBSET M
      BY DEF Pick
    <3>2. s # {} => Pick(s).actual = Cardinality(A[Pick(s)])
      BY <3>1, <1>4
    <3>3. closed[s] = IF s = {} THEN 0 ELSE Cardinality(A[Pick(s)]) + Counted(A, s \ {Pick(s)})
      BY <1>2, <1>3, CountedStep
    <3> QED
      BY <3>1, <3>2, <3>3 DEF Pick
  <2> QED
    BY <2>1
<1>6. sum = F(sum)
  <2> HIDE DEF closed
  <2> QED
    BY <1>5
<1>7. Adds(sum, A, M)
  <2> SUFFICES ASSUME NEW s \in SUBSET M
               PROVE  sum[s] = IF s = {} THEN 0 ELSE Cardinality(A[Pick(s)]) + sum[s \ {Pick(s)}]
    BY DEF Adds
  <2>1. sum[s] = F(sum)[s]
    BY <1>6
  <2> HIDE DEF sum
  <2>2. s # {} => Pick(s) \in s
    BY DEF Pick
  <2>3. s # {} => Pick(s).actual = Cardinality(A[Pick(s)])
    BY <2>2, <1>4
  <2> QED
    BY <2>1, <2>3 DEF Pick
<1> HIDE DEF sum, closed
<1>8. sum[M] = Counted(A, M) /\ IsFiniteSet(UNION {A[x] : x \in M}) /\ Counted(A, M) \in Nat
  BY <1>2, <1>3, <1>7, SumCounts, CountedType
<1>9. {A[x] : x \in M} = {Feeds(V, x) : x \in M}
  BY DEF A
<1> QED
  BY <1>1, <1>8, <1>9 DEF Counted

\* The daily rows of a channel, those on one grid, and the days such a grid answers for.
Own(V, c, s) == {r \in DailyRows(V) : r.channel = c /\ r.sparte = s}
Mine(V, c, s, g) == {r \in Own(V, c, s) : r.grid = g}
Owed(g, s, from, to) == [d \in DaySpan(from, to, s) |-> ExpectedInDay(d, g, s, from, to)]
Had(V, c, s, g, from, to) ==
  [d \in DaySpan(from, to, s) |-> Total({r \in Mine(V, c, s, g) : r.day = d})]
Governing(V, c, s, from, to) == InForce(Own(V, c, s), DaySpan(from, to, s))
Judged(V, c, s, g, from, to) ==
  {d \in DaySpan(from, to, s) : /\ Judges(g, d, Own(V, c, s), Governing(V, c, s, from, to))
                                /\ Owed(g, s, from, to)[d] > 0}
Short(V, c, s, g, from, to) ==
  {d \in Judged(V, c, s, g, from, to) :
     Owed(g, s, from, to)[d] > Had(V, c, s, g, from, to)[d]}
OwedInAll(g, s, from, to, days) == SumOver(Owed(g, s, from, to), days)

\* The row of a report, with its parts named.
RolledRow(V, c, s, g, from, to) ==
  [channel |-> c, sparte |-> s, grid |-> g,
   expected |-> OwedInAll(g, s, from, to, Judged(V, c, s, g, from, to)),
   actual |-> Total(Mine(V, c, s, g)),
   missing |-> Shortfall(Judged(V, c, s, g, from, to), Owed(g, s, from, to), Had(V, c, s, g, from, to)),
   surplus |-> Shortfall(Judged(V, c, s, g, from, to), Had(V, c, s, g, from, to), Owed(g, s, from, to)),
   firstGap |-> IF Short(V, c, s, g, from, to) = {} THEN None ELSE Min(Short(V, c, s, g, from, to)),
   substituted |-> Total({r \in Mine(V, c, s, g) : IsSubstitute(r.quality)}),
   notBillable |-> Total({r \in Mine(V, c, s, g) : ~IsBillable(r.quality)})]

LEMMA RolledIs ==
  ASSUME NEW V, NEW c, NEW s, NEW g, NEW from, NEW to
  PROVE  Rolled(c, s, g, DailyRows(V), from, to) = RolledRow(V, c, s, g, from, to)
  BY DEF Rolled, RolledRow, Own, Mine, Owed, Had, Governing, Judged, Short, OwedInAll, SumOver

LEMMA RolledFields ==
  ASSUME NEW V, NEW c, NEW s, NEW g, NEW from, NEW to, NEW x, x = RolledRow(V, c, s, g, from, to)
  PROVE  /\ x.channel = c /\ x.sparte = s /\ x.grid = g
         /\ x.expected = OwedInAll(g, s, from, to, Judged(V, c, s, g, from, to))
         /\ x.actual = Total(Mine(V, c, s, g))
         /\ x.missing = Shortfall(Judged(V, c, s, g, from, to), Owed(g, s, from, to), Had(V, c, s, g, from, to))
         /\ x.surplus = Shortfall(Judged(V, c, s, g, from, to), Had(V, c, s, g, from, to), Owed(g, s, from, to))
         /\ x.firstGap = IF Short(V, c, s, g, from, to) = {} THEN None ELSE Min(Short(V, c, s, g, from, to))
         /\ x.substituted = Total({r \in Mine(V, c, s, g) : IsSubstitute(r.quality)})
         /\ x.notBillable = Total({r \in Mine(V, c, s, g) : ~IsBillable(r.quality)})
  BY DEF RolledRow

\* The total of a grid, and of one of its days, is the number of the rows.
LEMMA GridTotal ==
  ASSUME NEW V, Resolved(V), NEW c, NEW s, NEW g
  PROVE  /\ IsFiniteSet(RowsOf(V, c, s, g))
         /\ Total(Mine(V, c, s, g)) = Cardinality(RowsOf(V, c, s, g))
         /\ Total(Mine(V, c, s, g)) \in Nat
<1>1. Mine(V, c, s, g) \in SUBSET DailyRows(V)
  BY DEF Mine, Own
<1>2. UNION {Feeds(V, x) : x \in Mine(V, c, s, g)} = RowsOf(V, c, s, g)
  <2>1. ASSUME NEW o \in RowsOf(V, c, s, g)
        PROVE  \E x \in Mine(V, c, s, g) : o \in Feeds(V, x)
    <3>1. o \in V /\ o.channel = c /\ o.sparte = s /\ o.grid = g
      BY DEF RowsOf
    <3>2. DailyRow(V, o) \in Mine(V, c, s, g)
      BY <3>1, DailyRowsAre DEF Mine, Own, DailyRow
    <3> QED
      BY <3>1, <3>2, FeedsOwn
  <2>2. ASSUME NEW x \in Mine(V, c, s, g), NEW o \in Feeds(V, x)
        PROVE  o \in RowsOf(V, c, s, g)
    BY DEF Mine, Own, Feeds, RowsOf
  <2> QED
    BY <2>1, <2>2
<1> QED
  BY <1>1, <1>2, TotalCounts

LEMMA DayTotal ==
  ASSUME NEW V, Resolved(V), NEW c, NEW s, NEW g, NEW d
  PROVE  /\ IsFiniteSet(RowsOn(V, c, s, g, d))
         /\ Total({r \in Mine(V, c, s, g) : r.day = d}) = Cardinality(RowsOn(V, c, s, g, d))
         /\ Total({r \in Mine(V, c, s, g) : r.day = d}) \in Nat
<1> DEFINE M == {r \in Mine(V, c, s, g) : r.day = d}
<1>1. M \in SUBSET DailyRows(V)
  BY DEF Mine, Own
<1>2. UNION {Feeds(V, x) : x \in M} = RowsOn(V, c, s, g, d)
  <2>1. ASSUME NEW o \in RowsOn(V, c, s, g, d)
        PROVE  \E x \in M : o \in Feeds(V, x)
    <3>1. o \in V /\ o.channel = c /\ o.sparte = s /\ o.grid = g /\ BalancingDay(o.from, s) = d
      BY DEF RowsOn
    <3>2. DailyRow(V, o) \in M
      BY <3>1, DailyRowsAre DEF Mine, Own, DailyRow
    <3> QED
      BY <3>1, <3>2, FeedsOwn
  <2>2. ASSUME NEW x \in M, NEW o \in Feeds(V, x)
        PROVE  o \in RowsOn(V, c, s, g, d)
    BY DEF Mine, Own, Feeds, RowsOn
  <2> QED
    BY <2>1, <2>2
<1> HIDE DEF M
<1>3. Total(M) = Cardinality(RowsOn(V, c, s, g, d)) /\ Total(M) \in Nat /\ IsFiniteSet(RowsOn(V, c, s, g, d))
  BY <1>1, <1>2, TotalCounts
<1> QED
  BY <1>3 DEF M

\* A key of the roll-up has rows, and one row of the report.
LEMMA RollUpRows ==
  ASSUME NEW V, Resolved(V), NEW from, NEW to
  PROVE  /\ RollUp(DailyRows(V), from, to) =
              {RolledRow(V, r.channel, r.sparte, r.grid, from, to) : r \in V}
         /\ \A x \in RollUp(DailyRows(V), from, to) :
              /\ \E r \in V : r.channel = x.channel /\ r.sparte = x.sparte /\ r.grid = x.grid
              /\ x = RolledRow(V, x.channel, x.sparte, x.grid, from, to)
              /\ x.actual \in Nat /\ x.actual > 0
<1>1. {<<r.channel, r.sparte, r.grid>> : r \in DailyRows(V)} = {<<r.channel, r.sparte, r.grid>> : r \in V}
  <2>1. \A r \in V : /\ DailyRow(V, r).channel = r.channel /\ DailyRow(V, r).sparte = r.sparte
                     /\ DailyRow(V, r).grid = r.grid
    BY DEF DailyRow
  <2>2. \A x : x \in DailyRows(V) <=> \E r \in V : x = DailyRow(V, r)
    BY DailyRowsAre
  <2> QED
    BY <2>1, <2>2
<1>2. RollUp(DailyRows(V), from, to) =
        {RolledRow(V, r.channel, r.sparte, r.grid, from, to) : r \in V}
  <2>1. RollUp(DailyRows(V), from, to) =
          {Rolled(k[1], k[2], k[3], DailyRows(V), from, to) : k \in {<<r.channel, r.sparte, r.grid>> : r \in V}}
    BY <1>1 DEF RollUp
  <2>2. ASSUME NEW r \in V, NEW k, k = <<r.channel, r.sparte, r.grid>>
        PROVE  Rolled(k[1], k[2], k[3], DailyRows(V), from, to) =
                 RolledRow(V, r.channel, r.sparte, r.grid, from, to)
    <3>1. k[1] = r.channel /\ k[2] = r.sparte /\ k[3] = r.grid
      BY <2>2
    <3> QED
      BY <3>1, RolledIs
  <2> QED
    BY <2>1, <2>2
<1>3. ASSUME NEW x \in RollUp(DailyRows(V), from, to)
      PROVE  /\ \E r \in V : r.channel = x.channel /\ r.sparte = x.sparte /\ r.grid = x.grid
             /\ x = RolledRow(V, x.channel, x.sparte, x.grid, from, to)
             /\ x.actual \in Nat /\ x.actual > 0
  <2>1. PICK r \in V : x = RolledRow(V, r.channel, r.sparte, r.grid, from, to)
    BY <1>2
  <2>2. /\ x.channel = r.channel /\ x.sparte = r.sparte /\ x.grid = r.grid
        /\ x.actual = Total(Mine(V, r.channel, r.sparte, r.grid))
    BY <2>1 DEF RolledRow
  <2>3. /\ IsFiniteSet(RowsOf(V, r.channel, r.sparte, r.grid))
        /\ x.actual = Cardinality(RowsOf(V, r.channel, r.sparte, r.grid)) /\ x.actual \in Nat
    BY <2>2, GridTotal
  <2>4. r \in RowsOf(V, r.channel, r.sparte, r.grid)
    BY DEF RowsOf
  <2>5. x.actual # 0
    BY <2>3, <2>4, FS_EmptySet
  <2>6. \E o \in V : o.channel = x.channel /\ o.sparte = x.sparte /\ o.grid = x.grid
    BY <2>2
  <2>7. x = RolledRow(V, x.channel, x.sparte, x.grid, from, to)
    BY <2>1, <2>2
  <2> QED
    BY <2>3, <2>5, <2>6, <2>7
<1> QED
  BY <1>2, <1>3

-----------------------------------------------------------------------------
(* The grid in force.                                                       *)

GridsOn(D, d) == {r.grid : r \in {x \in D : x.day = d}}
Opening(D) == First(GridsOn(D, Min({r.day : r \in D})))
Kept(D, before, d) ==
  IF GridsOn(D, d) = {} \/ before \in GridsOn(D, d) THEN before ELSE First(GridsOn(D, d))

\* The first of some declared grids is one of them.
LEMMA FirstIn ==
  ASSUME NEW G, G \subseteq Resolutions, G # {}
  PROVE  First(G) \in G
<1> DEFINE S == {i \in DOMAIN Grids : Grids[i] \in G}
<1>1. DOMAIN Grids = 1..5
  BY DEF Grids
<1>2. S # {}
  BY DEF Resolutions
<1>3. S \subseteq Int /\ \A i \in S : 1 <= i
  BY <1>1
<1>4. Min(S) \in S
  <2>1. PICK low \in Int : \A i \in S : low <= i
    BY <1>3
  <2> HIDE DEF S
  <2> QED
    BY <1>2, <1>3, <2>1, LeastOf
<1> QED
  BY <1>4 DEF First

\* The grid in force is kept from day to day as the recursion says.
LEMMA ForceIs ==
  ASSUME NEW D, NEW a \in Int, NEW b \in Int, NEW d \in a..b
  PROVE  InForce(D, a..b)[d] =
           Kept(D, IF d - 1 \in a..b THEN InForce(D, a..b)[d - 1] ELSE Opening(D), d)
<1> DEFINE F(h) == [e \in a..b |-> Kept(D, IF e - 1 \in a..b THEN h[e - 1] ELSE Opening(D), e)]
           force == CHOOSE h : h = F(h)
           Upto(n) == {e \in a..b : e <= a + n}
           Good(n, h) == \A e \in Upto(n) : h[e] = Kept(D, IF e - 1 \in a..b THEN h[e - 1] ELSE Opening(D), e)
           T == {n \in Nat : ~\E h : Good(n, h)}
<1>1. InForce(D, a..b) = force
  BY DEF InForce, Kept, GridsOn, Opening
<1>2. T = {}
  <2> SUFFICES ASSUME T # {} PROVE FALSE
    OBVIOUS
  <2>1. PICK least \in T : \A n \in T : least <= n
    BY LeastNatural
  <2>2. least # 0
    <3> DEFINE h == [e \in a..b |-> Kept(D, Opening(D), e)]
    <3>1. \A e \in Upto(0) : e \in a..b /\ ~(e - 1 \in a..b)
      OBVIOUS
    <3>2. Good(0, h)
      BY <3>1
    <3> HIDE DEF h, Good
    <3> QED
      BY <2>1, <3>2
  <2> DEFINE m == least - 1
  <2>3. m \in Nat /\ m + 1 = least
    BY <2>1, <2>2
  <2>4. PICK h : Good(m, h)
    <3>1. m \notin T
      <4> HIDE DEF T
      <4> QED
        BY <2>1, <2>3
    <3> HIDE DEF Good
    <3> QED
      BY <2>3, <3>1
  <2> DEFINE k == [e \in a..b |-> IF e <= a + m THEN h[e] ELSE Kept(D, h[e - 1], e)]
  <2>5. ASSUME NEW e \in Upto(least)
        PROVE  k[e] = Kept(D, IF e - 1 \in a..b THEN k[e - 1] ELSE Opening(D), e)
    <3> HIDE DEF m
    <3>1. CASE e <= a + m
      <4>1. e \in Upto(m) /\ k[e] = h[e]
        BY <3>1
      <4>2. e - 1 \in a..b => k[e - 1] = h[e - 1]
        BY <2>3, <3>1
      <4> QED
        BY <2>4, <4>1, <4>2
    <3>2. CASE ~(e <= a + m)
      <4>1. e = a + m + 1 /\ e - 1 = a + m
        BY <2>3, <3>2
      <4>2. e - 1 \in a..b /\ e - 1 <= a + m
        BY <2>3, <4>1
      <4>3. k[e] = Kept(D, h[e - 1], e) /\ k[e - 1] = h[e - 1]
        BY <3>2, <4>2
      <4> QED
        BY <4>2, <4>3
    <3> QED
      BY <3>1, <3>2
  <2>6. Good(least, k)
    <3> HIDE DEF k
    <3> QED
      BY <2>5
  <2> HIDE DEF Good, k
  <2> QED
    BY <2>1, <2>6
<1>3. \E h : h = F(h)
  <2>1. b - a \in Nat /\ Upto(b - a) = a..b
    OBVIOUS
  <2>2. PICK h : Good(b - a, h)
    <3> HIDE DEF Good
    <3> QED
      BY <1>2, <2>1
  <2> DEFINE k == [e \in a..b |-> h[e]]
  <2>3. ASSUME NEW e \in a..b PROVE k[e] = F(k)[e]
    <3>1. h[e] = Kept(D, IF e - 1 \in a..b THEN h[e - 1] ELSE Opening(D), e)
      BY <2>1, <2>2
    <3> QED
      BY <3>1
  <2>4. k = F(k)
    BY <2>3
  <2> HIDE DEF k
  <2> QED
    BY <2>4
<1>4. force = F(force)
  <2> HIDE DEF F
  <2> QED
    BY <1>3
<1>5. force[d] = Kept(D, IF d - 1 \in a..b THEN force[d - 1] ELSE Opening(D), d)
  <2>1. force[d] = F(force)[d]
    BY <1>4
  <2> HIDE DEF force
  <2> QED
    BY <2>1
<1> QED
  BY <1>1, <1>5

\* The day whose grid stands for a day: the last one before it that delivered, or the first.
ModelDay(days, d) ==
  IF \E e \in days : e <= d THEN Max({e \in days : e <= d}) ELSE Min(days)

LEMMA ModelDayIs ==
  ASSUME NEW a \in Int, NEW b \in Int, NEW days, days \subseteq a..b, days # {}, NEW d \in Int
  PROVE  /\ ModelDay(days, d) \in days
         /\ \A e \in days : e <= d => e <= ModelDay(days, d) /\ ModelDay(days, d) <= d
         /\ (\A e \in days : ~(e <= d)) => ModelDay(days, d) = Min(days)
<1> DEFINE S == {e \in days : e <= d}
           R == {-e : e \in S}
<1>1. days \subseteq Int /\ Min(days) \in days
  <2>1. days \subseteq Int /\ \A e \in days : a <= e
    OBVIOUS
  <2> QED
    BY <2>1, LeastOf
<1>2. CASE S = {}
  BY <1>1, <1>2 DEF ModelDay
<1>3. CASE S # {}
  <2>1. R \subseteq Int /\ R # {} /\ \A n \in R : -b <= n
    <3>1. \A e \in S : -e \in Int /\ -b <= -e
      OBVIOUS
    <3> QED
      BY <1>3, <3>1
  <2>2. Min(R) \in R /\ \A n \in R : Min(R) <= n
    <3> DEFINE low == -b
    <3>1. low \in Int /\ \A n \in R : low <= n
      BY <2>1
    <3> HIDE DEF R, low
    <3> QED
      BY <2>1, <3>1, LeastOf
  <2>3. PICK top \in S : Min(R) = -top
    BY <2>2
  <2>4. \A e \in S : top >= e
    <3> SUFFICES ASSUME NEW e \in S PROVE top >= e
      OBVIOUS
    <3>1. -e \in R /\ top \in Int /\ e \in Int
      BY <1>1
    <3>2. -top <= -e
      BY <2>2, <2>3, <3>1
    <3> QED
      BY <3>1, <3>2
  <2>5. Max(S) \in S /\ \A e \in S : Max(S) >= e
    <3> HIDE DEF S
    <3> QED
      BY <2>4 DEF Max
  <2>6. ModelDay(days, d) = Max(S)
    BY <1>3 DEF ModelDay
  <2> HIDE DEF R
  <2>7. Max(S) \in days /\ Max(S) <= d /\ Max(S) \in Int
    BY <1>1, <2>5
  <2>8. \A e \in days : e <= d => e <= Max(S)
    BY <1>1, <2>5, <2>7
  <2> QED
    BY <1>3, <2>6, <2>7, <2>8
<1> QED
  BY <1>2, <1>3

\* The grid in force on a day is one of those of its model day.
LEMMA ForceModel ==
  ASSUME NEW D, D # {}, \A r \in D : r.grid \in Resolutions,
         NEW a \in Int, NEW b \in Int, \A r \in D : r.day \in a..b, NEW d \in a..b
  PROVE  InForce(D, a..b)[d] \in GridsOn(D, ModelDay({r.day : r \in D}, d))
<1> DEFINE days == {r.day : r \in D}
           force == InForce(D, a..b)
           T == {n \in Nat : a + n \in a..b /\ force[a + n] \notin GridsOn(D, ModelDay(days, a + n))}
<1>1. days \subseteq a..b /\ days # {}
  OBVIOUS
<1>2. \A e : GridsOn(D, e) \subseteq Resolutions /\ (GridsOn(D, e) # {} <=> e \in days)
  BY DEF GridsOn
<1>3. \A e : GridsOn(D, e) # {} => First(GridsOn(D, e)) \in GridsOn(D, e)
  BY <1>2, FirstIn
<1>4. Min(days) \in days
  <2>1. days \subseteq Int /\ \A e \in days : a <= e
    BY <1>1
  <2> HIDE DEF days
  <2> QED
    BY <1>1, <2>1, LeastOf
<1>5. Opening(D) \in GridsOn(D, Min(days))
  BY <1>2, <1>3, <1>4 DEF Opening
<1>6. \A e \in a..b : force[e] = Kept(D, IF e - 1 \in a..b THEN force[e - 1] ELSE Opening(D), e)
  BY ForceIs
<1> HIDE DEF days, force
<1>7. SUFFICES T = {}
  <2>1. d - a \in Nat /\ a + (d - a) = d
    OBVIOUS
  <2>2. d - a \notin T
    BY <1>7
  <2>3. force[d] \in GridsOn(D, ModelDay(days, d))
    BY <2>1, <2>2
  <2> QED
    BY <2>3 DEF days, force
<1> SUFFICES ASSUME T # {} PROVE FALSE
  OBVIOUS
<1>8. PICK least \in T : \A n \in T : least <= n
  BY LeastNatural
<1> DEFINE e == a + least
<1>9. e \in a..b /\ e \in Int /\ force[e] \notin GridsOn(D, ModelDay(days, e))
  BY <1>8
<1>10. e - 1 \in a..b => force[e - 1] \in GridsOn(D, ModelDay(days, e - 1))
  <2> SUFFICES ASSUME e - 1 \in a..b PROVE force[e - 1] \in GridsOn(D, ModelDay(days, e - 1))
    OBVIOUS
  <2>1. least - 1 \in Nat /\ ~(least <= least - 1) /\ a + (least - 1) = e - 1
    BY <1>8
  <2>2. least - 1 \notin T
    <3> HIDE DEF T
    <3> QED
      BY <1>8, <2>1
  <2> HIDE DEF e
  <2> QED
    BY <2>1, <2>2
<1> HIDE DEF T, e
<1>11. CASE e \in days
  <2>1. ModelDay(days, e) = e
    <3>1. days \subseteq Int
      BY <1>1
    <3>2. /\ ModelDay(days, e) \in days
          /\ \A f \in days : f <= e => f <= ModelDay(days, e) /\ ModelDay(days, e) <= e
      BY <1>1, <1>9, ModelDayIs
    <3>3. e <= ModelDay(days, e) /\ ModelDay(days, e) <= e
      BY <1>9, <1>11, <3>2
    <3>4. ModelDay(days, e) \in Int
      BY <3>1, <3>2
    <3> QED
      BY <1>9, <3>3, <3>4
  <2>2. force[e] \in GridsOn(D, e)
    BY <1>2, <1>3, <1>6, <1>9, <1>11 DEF Kept
  <2> QED
    BY <1>9, <2>1, <2>2
<1>12. CASE e \notin days
  <2>1. force[e] = IF e - 1 \in a..b THEN force[e - 1] ELSE Opening(D)
    BY <1>2, <1>6, <1>9, <1>12 DEF Kept
  <2>2. CASE e - 1 \in a..b
    <3>1. \A f \in days : f <= e <=> f <= e - 1
      BY <1>1, <1>9, <1>12
    <3>2. ModelDay(days, e) = ModelDay(days, e - 1)
      <4>1. {f \in days : f <= e} = {f \in days : f <= e - 1}
        BY <3>1
      <4> QED
        BY <3>1, <4>1 DEF ModelDay
    <3> QED
      BY <1>9, <1>10, <2>1, <2>2, <3>2
  <2>3. CASE e - 1 \notin a..b
    <3>1. \A f \in days : ~(f <= e)
      BY <1>1, <1>9, <1>12, <2>3
    <3>2. ModelDay(days, e) = Min(days)
      BY <1>1, <1>9, <3>1, ModelDayIs
    <3> QED
      BY <1>5, <1>9, <2>1, <2>3, <3>2
  <2> QED
    BY <2>2, <2>3
<1> QED
  BY <1>11, <1>12

-----------------------------------------------------------------------------
(* The invariant.                                                           *)

Keys == [channel : Channels, sparte : Sparten, grid : Resolutions]

SilentRow(k, from, to) ==
  [channel |-> k.channel, sparte |-> k.sparte, grid |-> k.grid,
   expected |-> SumOver(Owed(k.grid, k.sparte, from, to), DaySpan(from, to, k.sparte)), actual |-> 0,
   missing |-> SumOver(Owed(k.grid, k.sparte, from, to), DaySpan(from, to, k.sparte)), surplus |-> 0,
   firstGap |-> IF {d \in DaySpan(from, to, k.sparte) : Owed(k.grid, k.sparte, from, to)[d] > 0} = {}
                THEN None
                ELSE Min({d \in DaySpan(from, to, k.sparte) : Owed(k.grid, k.sparte, from, to)[d] > 0}),
   substituted |-> 0, notBillable |-> 0]

LEMMA SilentIs ==
  ASSUME NEW k, NEW from, NEW to
  PROVE  Silent(k, from, to) = SilentRow(k, from, to)
  BY DEF Silent, SilentRow, Owed, SumOver

LEMMA SilentKey ==
  ASSUME NEW k, NEW from, NEW to
  PROVE  /\ Silent(k, from, to).channel = k.channel /\ Silent(k, from, to).sparte = k.sparte
         /\ Silent(k, from, to).grid = k.grid /\ Silent(k, from, to).actual = 0
  BY SilentIs DEF SilentRow

\* What a report is made of can be read back from it.
ReportOf(V, ks, from, to) ==
  RollUp(DailyRows(V), from, to) \union {Silent(k, from, to) : k \in ks}

SilencedIn(rows) == {[channel |-> x.channel, sparte |-> x.sparte, grid |-> x.grid] :
                       x \in {y \in rows : y.actual = 0}}

LEMMA SilencedBack ==
  ASSUME NEW V, Resolved(V), NEW ks, ks \subseteq Keys, NEW from, NEW to
  PROVE  SilencedIn(ReportOf(V, ks, from, to)) = ks
<1> DEFINE R == ReportOf(V, ks, from, to)
           KeyOf(x) == [channel |-> x.channel, sparte |-> x.sparte, grid |-> x.grid]
<1>1. \A x \in RollUp(DailyRows(V), from, to) : x.actual # 0
  <2>1. \A x \in RollUp(DailyRows(V), from, to) : x.actual \in Nat /\ x.actual > 0
    BY RollUpRows
  <2> QED
    BY <2>1
<1>2. \A k \in ks : KeyOf(Silent(k, from, to)) = k
  <2> SUFFICES ASSUME NEW k \in ks PROVE KeyOf(Silent(k, from, to)) = k
    OBVIOUS
  <2>1. k = KeyOf(k)
    BY DEF Keys
  <2> QED
    BY <2>1, SilentKey
<1>3. {y \in R : y.actual = 0} = {Silent(k, from, to) : k \in ks}
  BY <1>1, SilentKey DEF ReportOf
<1>4. SilencedIn(R) = {KeyOf(x) : x \in {Silent(k, from, to) : k \in ks}}
  BY <1>3 DEF SilencedIn
<1> HIDE DEF KeyOf, R
<1>5. {KeyOf(x) : x \in {Silent(k, from, to) : k \in ks}} = ks
  BY <1>2
<1> QED
  BY <1>4, <1>5 DEF R

\* What the scan of a range leaves of resolved rows is resolved.
LEMMA ResolvedPart ==
  ASSUME NEW V, Resolved(V), NEW W, W \subseteq V
  PROVE  Resolved(W)
<1>1. W \in SUBSET V /\ IsFiniteSet(V)
  BY DEF Resolved
<1>2. IsFiniteSet(W)
  BY <1>1, FS_Subset
<1> QED
  BY <1>2 DEF Resolved

LEMMA InPart == \A rows, from, to : In(rows, from, to) \subseteq rows
  BY DEF In, Narrowed

LEMMA InTwice == \A rows, from, to : In(In(rows, from, to), from, to) = In(rows, from, to)
  BY DEF In, Narrowed

\* The first scan.
LEMMA RangeStep ==
  ASSUME ReportCoherent, ScanRange
  PROVE  ReportCoherent'
<1>1. /\ Resolved(stored) /\ stored' = stored /\ request' = request /\ phase = "range"
      /\ scanned' = In(stored, request.from, request.to)
      /\ report' = RollUp(DailyRows(scanned'), request.from, request.to)
      /\ phase' = IF request.since = None THEN "done" ELSE "roster"
      /\ request \in Request /\ Dates(request.from, request.to)
      /\ request.since = None \/ request.since < request.from
  BY DEF ReportCoherent, ScanRange
<1>2. Resolved(scanned')
  BY <1>1, InPart, ResolvedPart
<1>3. In(scanned, request.from, request.to)' = scanned'
  <2>1. In(scanned, request.from, request.to)' = In(scanned', request.from, request.to)
    BY <1>1 DEF In, Narrowed
  <2> QED
    BY <1>1, <2>1, InTwice
<1>4. report' = ReportOf(scanned', {}, request.from, request.to)
  BY <1>1 DEF ReportOf
<1>5. Silenced' = {}
  <2>1. {} \subseteq Keys
    OBVIOUS
  <2>2. SilencedIn(report') = {}
    BY <1>2, <1>4, <2>1, SilencedBack
  <2> QED
    BY <2>2 DEF Silenced, SilencedIn
<1>6. report' = RollUp(DailyRows(scanned'), request'.from, request'.to)
                  \union {Silent(k, request'.from, request'.to) : k \in Silenced'}
  BY <1>1, <1>5
<1> QED
  BY <1>1, <1>2, <1>3, <1>5, <1>6 DEF ReportCoherent

\* One of each channel, and only of the channels asked for.
LEMMA OneEach ==
  ASSUME NEW K, IsFiniteSet(K), NEW ks \in OnePerChannel(K)
  PROVE  /\ ks \subseteq K
         /\ \A k, l \in ks : k.channel = l.channel => k = l
         /\ \A k \in K : \E l \in ks : l.channel = k.channel
<1>1. ks \in SUBSET K /\ \A k \in K : Cardinality({x \in ks : x.channel = k.channel}) = 1
  BY DEF OnePerChannel
<1>2. ASSUME NEW k \in K PROVE \E x : {y \in ks : y.channel = k.channel} = {x}
  <2> DEFINE S == {y \in ks : y.channel = k.channel}
  <2>1. S \in SUBSET K
    BY <1>1
  <2>2. IsFiniteSet(S)
    BY <2>1, FS_Subset
  <2>3. Cardinality(S) = 1
    BY <1>1
  <2> HIDE DEF S
  <2>4. \E x : S = {x}
    BY <2>2, <2>3, FS_Singleton
  <2> QED
    BY <2>4 DEF S
<1>3. ASSUME NEW k \in ks, NEW l \in ks, k.channel = l.channel PROVE k = l
  <2>1. k \in K
    BY <1>1
  <2>2. PICK x : {y \in ks : y.channel = k.channel} = {x}
    BY <1>2, <2>1
  <2>3. k \in {x} /\ l \in {x}
    BY <1>3, <2>2
  <2> QED
    BY <2>3
<1>4. ASSUME NEW k \in K PROVE \E l \in ks : l.channel = k.channel
  BY <1>2
<1> QED
  BY <1>1, <1>3, <1>4

LEMMA RosterFinite ==
  ASSUME NEW V, Resolved(V)
  PROVE  IsFiniteSet(Roster(V)) /\ Roster(V) \subseteq Keys
<1> DEFINE f == [r \in V |-> [channel |-> r.channel, sparte |-> r.sparte, grid |-> r.grid]]
<1>1. f \in Surjection(V, Roster(V))
  BY DEF Roster, Surjection
<1>2. IsFiniteSet(V)
  BY DEF Resolved
<1> HIDE DEF f
<1>3. IsFiniteSet(Roster(V))
  BY <1>1, <1>2, FS_Surjection
<1>4. Roster(V) \subseteq Keys
  BY DEF Resolved, Roster, Keys
<1> QED
  BY <1>3, <1>4

\* The second scan.
LEMMA RosterStep ==
  ASSUME ReportCoherent, ScanRoster
  PROVE  ReportCoherent'
<1> DEFINE seen == In(stored, request.since, request.from)
           K == Unmentioned(Roster(seen), report)
<1>1. /\ Resolved(stored) /\ Resolved(scanned)
      /\ request \in Request /\ Dates(request.from, request.to)
      /\ request.since = None \/ request.since < request.from
      /\ scanned = In(scanned, request.from, request.to)
      /\ phase = "roster" /\ phase' = "done"
      /\ UNCHANGED <<stored, request, scanned>>
  BY DEF ReportCoherent, ScanRoster
<1>2. report = RollUp(DailyRows(scanned), request.from, request.to)
  BY <1>1 DEF ReportCoherent
<1>3. PICK ks \in OnePerChannel(K) :
         report' = report \union {Silent(k, request.from, request.to) : k \in ks}
  BY DEF ScanRoster
<1>4. Resolved(seen)
  BY <1>1, InPart, ResolvedPart
<1>5. IsFiniteSet(K) /\ K \subseteq Keys
  <2>1. K \in SUBSET Roster(seen)
    BY DEF Unmentioned
  <2> HIDE DEF K, seen
  <2>2. IsFiniteSet(Roster(seen)) /\ Roster(seen) \subseteq Keys
    BY <1>4, RosterFinite
  <2>3. IsFiniteSet(K)
    BY <2>1, <2>2, FS_Subset
  <2> QED
    BY <2>1, <2>2, <2>3
<1>6. /\ ks \subseteq K
      /\ \A k, l \in ks : k.channel = l.channel => k = l
      /\ \A k \in K : \E l \in ks : l.channel = k.channel
  <2> HIDE DEF K
  <2> QED
    BY <1>5, OneEach
<1>7. ks \subseteq Keys
  BY <1>5, <1>6
<1>8. Silenced' = ks
  <2>1. report' = ReportOf(scanned, ks, request.from, request.to)
    BY <1>2, <1>3 DEF ReportOf
  <2>2. SilencedIn(report') = ks
    BY <1>1, <1>7, <2>1, SilencedBack
  <2> QED
    BY <2>2 DEF Silenced, SilencedIn
<1>9. \A r \in scanned : \E x \in report : x.channel = r.channel
  <2> SUFFICES ASSUME NEW r \in scanned PROVE \E x \in report : x.channel = r.channel
    OBVIOUS
  <2>1. RolledRow(scanned, r.channel, r.sparte, r.grid, request.from, request.to) \in report
    BY <1>1, <1>2, RollUpRows
  <2>2. RolledRow(scanned, r.channel, r.sparte, r.grid, request.from, request.to).channel = r.channel
    BY DEF RolledRow
  <2> QED
    BY <2>1, <2>2
<1>10. \A k \in ks : \A r \in scanned : r.channel # k.channel
  BY <1>6, <1>9 DEF Unmentioned
<1>11. \A r \in seen : (\E x \in scanned : x.channel = r.channel) \/ \E k \in ks : k.channel = r.channel
  <2> SUFFICES ASSUME NEW r \in seen, ~\E k \in ks : k.channel = r.channel
               PROVE  \E x \in scanned : x.channel = r.channel
    OBVIOUS
  <2> DEFINE k == [channel |-> r.channel, sparte |-> r.sparte, grid |-> r.grid]
  <2>1. k \in Roster(seen) /\ k.channel = r.channel
    BY DEF Roster
  <2> HIDE DEF k
  <2>2. k \notin K
    BY <1>6, <2>1
  <2>3. PICK x \in report : x.channel = r.channel
    BY <2>1, <2>2 DEF Unmentioned
  <2> QED
    BY <1>1, <1>2, <2>3, RollUpRows
<1>12. report' = RollUp(DailyRows(scanned'), request'.from, request'.to)
                  \union {Silent(k, request'.from, request'.to) : k \in Silenced'}
  BY <1>1, <1>2, <1>3, <1>8
<1>13. In(scanned, request.from, request.to)' = scanned'
  BY <1>1 DEF In, Narrowed
<1>14. In(stored, request.since, request.from)' = seen
  BY <1>1 DEF In, Narrowed
<1> HIDE DEF seen, K
<1> QED
  BY <1>1, <1>7, <1>6, <1>8, <1>10, <1>11, <1>12, <1>13, <1>14 DEF ReportCoherent, Keys

\* A delivery keeps one row per start.
LEMMA DeliverStep ==
  ASSUME ReportCoherent, NEW r \in LateRows, Deliver(r)
  PROVE  ReportCoherent'
<1>1. /\ Resolved(stored) /\ UNCHANGED <<request, phase, report, scanned>>
      /\ phase \in {"range", "roster"}
      /\ stored' = {o \in stored : o.channel # r.channel \/ o.from # r.from} \union {r}
  BY DEF ReportCoherent, Deliver
<1> DEFINE kept == {o \in stored : o.channel # r.channel \/ o.from # r.from}
<1>2. Resolved(stored')
  <2>1. Resolved({r})
    BY CallsAssumption
  <2>2. Resolved(kept)
    BY <1>1, ResolvedPart
  <2>3. IsFiniteSet(stored')
    BY <1>1, <2>1, <2>2, FS_Union DEF Resolved
  <2>4. ASSUME NEW x \in stored', NEW y \in stored', x.channel = y.channel, x.from = y.from
        PROVE  x = y
    BY <1>1, <2>4 DEF Resolved
  <2>5. \A x \in stored' : /\ x.channel \in Channels /\ x.sparte \in Sparten /\ x.grid \in Resolutions
                           /\ Dated(x.from, x.sparte)
    BY <1>1, <2>1 DEF Resolved
  <2> QED
    BY <2>3, <2>4, <2>5 DEF Resolved
<1>3. Silenced' = Silenced
  BY <1>1 DEF Silenced
<1>4. In(scanned, request.from, request.to)' = In(scanned, request.from, request.to)
  BY <1>1 DEF In, Narrowed
<1>5. phase' \in {"range", "roster"} /\ phase' # "done"
  BY <1>1
<1> HIDE DEF kept
<1> QED
  BY <1>1, <1>2, <1>3, <1>4, <1>5 DEF ReportCoherent

\* A request that is accepted spans known days and has its window before it.
LEMMA CallStep ==
  ASSUME ReportCoherent, NEW args \in Calls, NEW only \in Narrowings, Call(args, only)
  PROVE  ReportCoherent'
<1> DEFINE p == Parsed(args)
<1>1. /\ Accepts(p) /\ phase = "idle" /\ phase' = "range" /\ UNCHANGED <<stored, report, scanned>>
      /\ request' = [from |-> p.from.at, to |-> p.to.at, only |-> only,
                     since |-> IF p.since = {} THEN None ELSE (CHOOSE a \in p.since : TRUE).at]
  BY DEF Call
<1>2. Dates(p.from.at, p.to.at) /\ \A a \in p.since : a.at \in Int
  BY <1>1, CallsAssumption
<1>3. \A a \in p.since : a.at < p.from.at
  BY <1>1 DEF Accepts
<1> HIDE DEF p
<1>4. p.since # {} => (CHOOSE a \in p.since : TRUE) \in p.since
  OBVIOUS
<1>5. request' \in Request
  BY <1>1, <1>2, <1>4, CallsAssumption DEF Request, Dates
<1>6. Dates(request'.from, request'.to) /\ (request'.since = None \/ request'.since < request'.from)
  BY <1>1, <1>2, <1>3, <1>4
<1>7. report' = {} /\ scanned' = {} /\ Resolved(stored') /\ Resolved(scanned')
  BY <1>1 DEF ReportCoherent
<1> QED
  BY <1>1, <1>5, <1>6, <1>7 DEF ReportCoherent

LEMMA ReportStarts == Init => ReportCoherent
<1> SUFFICES ASSUME Init PROVE ReportCoherent
  OBVIOUS
<1>1. Resolved({})
  BY FS_EmptySet DEF Resolved
<1>2. Resolved(stored) /\ phase = "idle" /\ report = {} /\ scanned = {}
  BY CallsAssumption DEF Init
<1> QED
  BY <1>1, <1>2 DEF ReportCoherent

LEMMA ReportSteps == ReportCoherent /\ [Next]_vars => ReportCoherent'
<1> SUFFICES ASSUME ReportCoherent, [Next]_vars PROVE ReportCoherent'
  OBVIOUS
<1>1. CASE ScanRange
  BY <1>1, RangeStep
<1>2. CASE ScanRoster
  BY <1>2, RosterStep
<1>3. CASE \E r \in LateRows : Deliver(r)
  BY <1>3, DeliverStep
<1>4. ASSUME NEW args \in Calls, NEW only \in Narrowings, Call(args, only) PROVE ReportCoherent'
  BY <1>4, CallStep
<1>5. ASSUME NEW args \in Calls, Refuse(args) PROVE ReportCoherent'
  BY <1>5 DEF Refuse, ReportCoherent
<1>6. CASE UNCHANGED vars
  BY <1>6 DEF vars, ReportCoherent, Silenced, In, Narrowed
<1> QED
  BY <1>1, <1>2, <1>3, <1>4, <1>5, <1>6 DEF Next

\* The inductive invariant: at every step the report is what the rows that were
\* scanned roll up to, and one row for every other channel of the reference window.
THEOREM ReportCoherentAlways == Spec => []ReportCoherent
  BY ReportStarts, ReportSteps, PTL DEF Spec

\* A channel is silent when it was seen in the window and not in the range, and then once.
LEMMA SilentOnce == ReportCoherent => SilentExactlyOnce
<1> SUFFICES ASSUME ReportCoherent, phase = "done", request.since # None, NEW c \in Channels
             PROVE  LET silent == {x \in report : x.channel = c /\ x.actual = 0}
                    IN  /\ Cardinality(silent) <= 1
                        /\ silent # {} => \A r \in scanned : r.channel # c
                        /\ (/\ \A r \in scanned : r.channel # c
                            /\ \E r \in Narrowed(stored) : /\ r.channel = c /\ r \notin LateRows
                                                           /\ request.since <= r.from
                                                           /\ r.from < request.from)
                           => silent # {}
  BY DEF SilentExactlyOnce
<1> DEFINE silent == {x \in report : x.channel = c /\ x.actual = 0}
<1>1. /\ report = RollUp(DailyRows(scanned), request.from, request.to)
                    \union {Silent(k, request.from, request.to) : k \in Silenced}
      /\ \A k, l \in Silenced : k.channel = l.channel => k = l
      /\ \A k \in Silenced : \A r \in scanned : r.channel # k.channel
      /\ \A r \in In(stored, request.since, request.from) :
           (\E x \in scanned : x.channel = r.channel) \/ \E k \in Silenced : k.channel = r.channel
      /\ Resolved(scanned)
  BY DEF ReportCoherent
<1>2. \A x \in silent : \E k \in Silenced : k.channel = c /\ x = Silent(k, request.from, request.to)
  <2>1. \A x \in RollUp(DailyRows(scanned), request.from, request.to) : x.actual \in Nat /\ x.actual > 0
    BY <1>1, RollUpRows
  <2> QED
    BY <1>1, <2>1, SilentKey
<1>3. \A k \in Silenced : k.channel = c => Silent(k, request.from, request.to) \in silent
  BY <1>1, SilentKey
<1>4. silent = {} \/ \E x : silent = {x}
  BY <1>1, <1>2
<1>5. Cardinality(silent) <= 1
  <2> HIDE DEF silent
  <2>1. Cardinality({}) = 0 /\ \A x : Cardinality({x}) = 1
    BY FS_EmptySet, FS_Singleton
  <2>2. CASE silent = {}
    BY <2>1, <2>2
  <2>3. ASSUME NEW x, silent = {x} PROVE Cardinality(silent) <= 1
    <3>1. Cardinality(silent) = 1
      BY <2>1, <2>3, Zenon
    <3> QED
      BY <3>1
  <2> QED
    BY <1>4, <2>2, <2>3
<1>6. silent # {} => \A r \in scanned : r.channel # c
  BY <1>1, <1>2
<1>7. ASSUME \A r \in scanned : r.channel # c, NEW r \in Narrowed(stored), r.channel = c,
             request.since <= r.from, r.from < request.from
      PROVE  silent # {}
  <2>1. r \in In(stored, request.since, request.from)
    BY <1>7 DEF In
  <2> HIDE DEF silent
  <2> QED
    BY <1>1, <1>3, <1>7, <2>1
<1> HIDE DEF silent
<1>8. (/\ \A r \in scanned : r.channel # c
       /\ \E r \in Narrowed(stored) : /\ r.channel = c /\ r \notin LateRows
                                      /\ request.since <= r.from /\ r.from < request.from)
      => silent # {}
  BY <1>7
<1> QED
  BY <1>5, <1>6, <1>8 DEF silent

\* What one scan does not mention and the other does is reported, as the silent channel it
\* is, exactly once, whatever is delivered between the two (seen_since).
THEOREM SilentExactlyOnceAlways == Spec => []SilentExactlyOnce
  BY ReportCoherentAlways, SilentOnce, PTL

-----------------------------------------------------------------------------
(* What is missing.                                                         *)

PointsIn(g, s, from, to) == {t \in from..(to - 1) : OnGrid(t, g, s)}
PointsByDay(g, s, from, to) == [d \in DaySpan(from, to, s) |-> PointsOf(d, g, s, from, to)]

LEMMA PointsFacts ==
  ASSUME NEW s \in Sparten, NEW g \in Resolutions, NEW from, NEW to, Dates(from, to)
  PROVE  /\ Apart(PointsByDay(g, s, from, to), DaySpan(from, to, s))
         /\ IsFiniteSet(DaySpan(from, to, s))
         /\ UNION {PointsByDay(g, s, from, to)[d] : d \in DaySpan(from, to, s)} = PointsIn(g, s, from, to)
         /\ \A d \in DaySpan(from, to, s) :
              /\ Owed(g, s, from, to)[d] = Cardinality(PointsOf(d, g, s, from, to))
              /\ Owed(g, s, from, to)[d] \in Nat
              /\ IsFiniteSet(PointsOf(d, g, s, from, to))
              /\ Owed(g, s, from, to)[d] = 0 <=> PointsOf(d, g, s, from, to) = {}
<1> DEFINE span == DaySpan(from, to, s)
           A == PointsByDay(g, s, from, to)
<1>1. /\ IsFiniteSet(span) /\ span \subseteq Days
      /\ \A t \in from..(to - 1) : BalancingDay(t, s) \in span
  BY RangeDays
<1>2. ASSUME NEW d \in span
      PROVE  /\ Owed(g, s, from, to)[d] = Cardinality(PointsOf(d, g, s, from, to))
             /\ Owed(g, s, from, to)[d] \in Nat
             /\ IsFiniteSet(PointsOf(d, g, s, from, to))
             /\ Owed(g, s, from, to)[d] = 0 <=> PointsOf(d, g, s, from, to) = {}
  <2>1. Owed(g, s, from, to)[d] = ExpectedInDay(d, g, s, from, to)
    BY DEF Owed
  <2>2. /\ IsFiniteSet(PointsOf(d, g, s, from, to))
        /\ ExpectedInDay(d, g, s, from, to) = Cardinality(PointsOf(d, g, s, from, to))
        /\ ExpectedInDay(d, g, s, from, to) \in Nat
    BY <1>1, ExpectedCounts
  <2> QED
    BY <2>1, <2>2, FS_EmptySet
<1>3. \A d \in span : A[d] = PointsOf(d, g, s, from, to)
  BY DEF PointsByDay
<1>4. Apart(A, span)
  <2>1. \A d, e \in span : d # e => A[d] \intersect A[e] = {}
    BY <1>3 DEF PointsOf
  <2> HIDE DEF A, span
  <2>2. \A d \in span : IsFiniteSet(A[d])
    BY <1>2, <1>3
  <2> QED
    BY <2>1, <2>2 DEF Apart
<1>5. UNION {A[d] : d \in span} = PointsIn(g, s, from, to)
  <2> HIDE DEF A, span
  <2>1. UNION {A[d] : d \in span} = UNION {PointsOf(d, g, s, from, to) : d \in span}
    BY <1>3
  <2> QED
    BY <1>1, <2>1 DEF PointsOf, PointsIn
<1> QED
  BY <1>1, <1>2, <1>4, <1>5

\* The day of the earliest of some instants is the earliest of their days.
LEMMA EarliestDay ==
  ASSUME NEW s \in Sparten, NEW from, NEW to, Dates(from, to), NEW N, N \subseteq from..(to - 1), N # {}
  PROVE  Min({BalancingDay(t, s) : t \in N}) = BalancingDay(Min(N), s)
<1>1. from \in Int /\ to \in Int /\ \A t \in N : Dated(t, s) /\ BalancingDay(t, s) \in Int
  <2>1. /\ from \in Int /\ to \in Int
        /\ DaySpan(from, to, s) \subseteq Int
        /\ \A t \in from..(to - 1) : Dated(t, s) /\ BalancingDay(t, s) \in DaySpan(from, to, s)
    BY RangeDays
  <2> QED
    BY <2>1
<1>2. Min(N) \in N /\ \A t \in N : Min(N) <= t
  <2>1. N \subseteq Int /\ \A t \in N : from <= t
    BY <1>1
  <2> QED
    BY <1>1, <2>1, LeastOf
<1> DEFINE first == BalancingDay(Min(N), s)
           S == {BalancingDay(t, s) : t \in N}
<1>3. first \in S /\ S \subseteq Int /\ first \in Int
  BY <1>1, <1>2
<1>4. \A d \in S : first <= d
  <2> SUFFICES ASSUME NEW t \in N PROVE first <= BalancingDay(t, s)
    OBVIOUS
  <2> QED
    BY <1>1, <1>2, DaysAscend
<1> HIDE DEF first
<1>5. Min(S) \in S /\ \A d \in S : Min(S) <= d
  <2> HIDE DEF S
  <2> QED
    BY <1>3, <1>4, LeastOf
<1>6. Min(S) <= first /\ first <= Min(S) /\ Min(S) \in Int
  <2> HIDE DEF S
  <2> QED
    BY <1>3, <1>4, <1>5
<1>7. Min(S) = first
  BY <1>3, <1>6
<1> QED
  BY <1>7 DEF first

\* A silent channel lacks the whole range.
LEMMA SilentLacks ==
  ASSUME NEW k \in Keys, NEW from, NEW to, Dates(from, to)
  PROVE  LET x == Silent(k, from, to)
             absent == PointsIn(k.grid, k.sparte, from, to)
         IN  /\ x.missing = Cardinality(absent) /\ x.surplus = 0 /\ x.expected = x.missing
             /\ x.firstGap = IF absent = {} THEN None ELSE BalancingDay(Min(absent), k.sparte)
<1> DEFINE g == k.grid
           s == k.sparte
           x == Silent(k, from, to)
           absent == PointsIn(g, s, from, to)
           span == DaySpan(from, to, s)
           owed == Owed(g, s, from, to)
           A == PointsByDay(g, s, from, to)
           days == {d \in span : owed[d] > 0}
<1>1. g \in Resolutions /\ s \in Sparten
  BY DEF Keys
<1>2. /\ x.missing = SumOver(owed, span) /\ x.expected = SumOver(owed, span) /\ x.surplus = 0
      /\ x.firstGap = IF days = {} THEN None ELSE Min(days)
  BY SilentIs DEF SilentRow
<1>3. /\ Apart(A, span) /\ IsFiniteSet(span) /\ UNION {A[d] : d \in span} = absent
      /\ \A d \in span : owed[d] = Cardinality(PointsOf(d, g, s, from, to)) /\ owed[d] \in Nat
      /\ \A d \in span : owed[d] = 0 <=> PointsOf(d, g, s, from, to) = {}
  BY <1>1, PointsFacts
<1>4. \A d \in span : A[d] = PointsOf(d, g, s, from, to)
  BY DEF PointsByDay
<1>5. SumOver(owed, span) = Cardinality(absent)
  <2> HIDE DEF owed, span, A, absent, g, s
  <2>1. \A d \in span : owed[d] = Cardinality(A[d])
    BY <1>3, <1>4
  <2>2. SumOver(owed, span) = Counted(A, span)
    BY <1>3, <2>1, SumOverCounts
  <2> QED
    BY <1>3, <2>2 DEF Counted
<1>6. days = {BalancingDay(t, s) : t \in absent}
  <2>1. \A t \in from..(to - 1) : BalancingDay(t, s) \in span
    BY <1>1, RangeDays
  <2>2. \A d \in span : d \in days <=> PointsOf(d, g, s, from, to) # {}
    BY <1>3
  <2> HIDE DEF span, owed
  <2>3. \A d \in span : PointsOf(d, g, s, from, to) # {} <=> \E t \in absent : BalancingDay(t, s) = d
    BY DEF PointsOf, PointsIn
  <2>4. \A t \in absent : BalancingDay(t, s) \in span
    BY <2>1 DEF PointsIn
  <2>5. days \subseteq span
    OBVIOUS
  <2> HIDE DEF days, absent
  <2> QED
    BY <2>2, <2>3, <2>4, <2>5
<1>7. absent # {} => Min(days) = BalancingDay(Min(absent), s)
  <2>1. absent \subseteq from..(to - 1)
    BY DEF PointsIn
  <2> HIDE DEF absent, days
  <2> QED
    BY <1>1, <1>6, <2>1, EarliestDay
<1> HIDE DEF x, owed, span, days, A
<1> QED
  BY <1>2, <1>5, <1>6, <1>7 DEF x

\* What a scan returns: resolved rows of the range.
Scanned(V, from, to) ==
  Resolved(V) /\ Dates(from, to) /\ \A r \in V : from <= r.from /\ r.from < to

HeldBy(V, c, s) == {r \in V : r.channel = c /\ r.sparte = s}

\* The daily rows of a channel with rows: on the days of the range, on declared grids.
LEMMA OwnFacts ==
  ASSUME NEW V, NEW from, NEW to, Scanned(V, from, to), NEW c, NEW s \in Sparten
  PROVE  /\ \A r \in Own(V, c, s) : r.grid \in Resolutions /\ r.day \in DaySpan(from, to, s)
         /\ \A d : GridsOn(Own(V, c, s), d) =
                     {r.grid : r \in {h \in HeldBy(V, c, s) : BalancingDay(h.from, s) = d}}
         /\ \A d : {r \in Own(V, c, s) : r.day = d} = {} <=> GridsOn(Own(V, c, s), d) = {}
         /\ \A d, g : (\E r \in {x \in Own(V, c, s) : x.day = d} : r.grid = g)
                        <=> g \in GridsOn(Own(V, c, s), d)
         /\ Own(V, c, s) = {} <=> HeldBy(V, c, s) = {}
         /\ {r.day : r \in Own(V, c, s)} = {BalancingDay(h.from, s) : h \in HeldBy(V, c, s)}
<1>1. Resolved(V) /\ Dates(from, to) /\ \A r \in V : r.from \in from..(to - 1)
  <2>1. Resolved(V) /\ Dates(from, to) /\ \A r \in V : from <= r.from /\ r.from < to
    BY DEF Scanned
  <2>2. \A r \in V : r.from \in Int
    BY <2>1 DEF Resolved, Dated
  <2> QED
    BY <2>1, <2>2 DEF Dates
<1>2. \A x : x \in Own(V, c, s) <=> \E h \in HeldBy(V, c, s) : x = DailyRow(V, h)
  <2>1. \A h \in V : DailyRow(V, h).channel = h.channel /\ DailyRow(V, h).sparte = h.sparte
    BY DEF DailyRow
  <2>2. \A x : x \in DailyRows(V) <=> \E h \in V : x = DailyRow(V, h)
    BY DailyRowsAre
  <2> QED
    BY <2>1, <2>2 DEF Own, HeldBy
<1>3. \A h \in HeldBy(V, c, s) : /\ DailyRow(V, h).grid = h.grid
                                 /\ DailyRow(V, h).day = BalancingDay(h.from, s)
  BY DEF HeldBy, DailyRow
<1>4. \A h \in HeldBy(V, c, s) : h.grid \in Resolutions /\ BalancingDay(h.from, s) \in DaySpan(from, to, s)
  <2>1. \A h \in HeldBy(V, c, s) : h.grid \in Resolutions /\ h.from \in from..(to - 1)
    BY <1>1 DEF HeldBy, Resolved
  <2> QED
    BY <1>1, <2>1, RangeDays
<1>5. \A r \in Own(V, c, s) : r.grid \in Resolutions /\ r.day \in DaySpan(from, to, s)
  BY <1>2, <1>3, <1>4
<1>6. ASSUME NEW d
      PROVE  GridsOn(Own(V, c, s), d) =
               {r.grid : r \in {h \in HeldBy(V, c, s) : BalancingDay(h.from, s) = d}}
  BY <1>2, <1>3 DEF GridsOn
<1>7. \A d : {r \in Own(V, c, s) : r.day = d} = {} <=> GridsOn(Own(V, c, s), d) = {}
  BY DEF GridsOn
<1>8. \A d, g : (\E r \in {x \in Own(V, c, s) : x.day = d} : r.grid = g)
                  <=> g \in GridsOn(Own(V, c, s), d)
  BY DEF GridsOn
<1>9. Own(V, c, s) = {} <=> HeldBy(V, c, s) = {}
  BY <1>2
<1>10. {r.day : r \in Own(V, c, s)} = {BalancingDay(h.from, s) : h \in HeldBy(V, c, s)}
  BY <1>2, <1>3
<1> QED
  BY <1>5, <1>6, <1>7, <1>8, <1>9, <1>10

\* The grid in force on a day is one that the channel delivered on, on its model day.
LEMMA ForceFromRows ==
  ASSUME NEW V, NEW from, NEW to, Scanned(V, from, to), NEW c, NEW s \in Sparten,
         HeldBy(V, c, s) # {}, NEW d \in DaySpan(from, to, s)
  PROVE  Governing(V, c, s, from, to)[d] \in
           GridsOn(Own(V, c, s), ModelDay({BalancingDay(h.from, s) : h \in HeldBy(V, c, s)}, d))
<1> DEFINE a == BalancingDay(from, s)
           b == BalancingDay(to - 1, s)
           D == Own(V, c, s)
<1>1. a \in Int /\ b \in Int
  <2>1. Dated(from, s) /\ Dated(to - 1, s)
    BY DEF Scanned, Dates
  <2> QED
    BY <2>1, TheDay, CalendarAssumption
<1>2. DaySpan(from, to, s) = a..b
  BY DEF DaySpan
<1>3. /\ \A r \in D : r.grid \in Resolutions /\ r.day \in DaySpan(from, to, s)
      /\ D = {} <=> HeldBy(V, c, s) = {}
      /\ {r.day : r \in D} = {BalancingDay(h.from, s) : h \in HeldBy(V, c, s)}
  BY OwnFacts
<1>4. D # {} /\ (\A r \in D : r.grid \in Resolutions) /\ (\A r \in D : r.day \in a..b) /\ d \in a..b
  BY <1>2, <1>3
<1> HIDE DEF a, b, D
<1>5. InForce(D, a..b)[d] \in GridsOn(D, ModelDay({r.day : r \in D}, d))
  BY <1>1, <1>4, ForceModel
<1>6. Governing(V, c, s, from, to) = InForce(D, a..b)
  BY <1>2 DEF Governing, D
<1> QED
  BY <1>3, <1>5, <1>6 DEF D

\* Who answers for a day: a grid that delivered on it, or else the one in force.
LEMMA JudgedIs ==
  ASSUME NEW V, NEW from, NEW to, Scanned(V, from, to), NEW c, NEW s \in Sparten, NEW g,
         NEW d \in DaySpan(from, to, s)
  PROVE  d \in Judged(V, c, s, g, from, to) <=>
           /\ Owed(g, s, from, to)[d] > 0
           /\ \/ g \in GridsOn(Own(V, c, s), d)
              \/ GridsOn(Own(V, c, s), d) = {} /\ Governing(V, c, s, from, to)[d] = g
<1>1. /\ {r \in Own(V, c, s) : r.day = d} = {} <=> GridsOn(Own(V, c, s), d) = {}
      /\ (\E r \in {x \in Own(V, c, s) : x.day = d} : r.grid = g) <=> g \in GridsOn(Own(V, c, s), d)
  BY OwnFacts
<1> QED
  BY <1>1 DEF Judged, Judges

\* A row of the roll-up, with what its numbers count.
LEMMA RolledNumbers ==
  ASSUME NEW V, NEW from, NEW to, Scanned(V, from, to), NEW c, NEW s \in Sparten, NEW g \in Resolutions
  PROVE  /\ IsFiniteSet(Judged(V, c, s, g, from, to))
         /\ Judged(V, c, s, g, from, to) \subseteq DaySpan(from, to, s)
         /\ \A d \in DaySpan(from, to, s) :
              /\ Had(V, c, s, g, from, to)[d] = Cardinality(RowsOn(V, c, s, g, d))
              /\ Had(V, c, s, g, from, to)[d] \in Nat
              /\ Owed(g, s, from, to)[d] \in Nat
<1>1. Resolved(V) /\ Dates(from, to)
  BY DEF Scanned
<1>2. IsFiniteSet(DaySpan(from, to, s))
  BY <1>1, RangeDays
<1>3. Judged(V, c, s, g, from, to) \in SUBSET DaySpan(from, to, s)
  BY DEF Judged
<1>4. IsFiniteSet(Judged(V, c, s, g, from, to))
  BY <1>2, <1>3, FS_Subset
<1>5. ASSUME NEW d \in DaySpan(from, to, s)
      PROVE  /\ Had(V, c, s, g, from, to)[d] = Cardinality(RowsOn(V, c, s, g, d))
             /\ Had(V, c, s, g, from, to)[d] \in Nat
             /\ Owed(g, s, from, to)[d] \in Nat
  <2>1. Had(V, c, s, g, from, to)[d] = Total({r \in Mine(V, c, s, g) : r.day = d})
    BY DEF Had
  <2>2. Owed(g, s, from, to)[d] \in Nat
    BY <1>1, PointsFacts
  <2> QED
    BY <1>1, <2>1, <2>2, DayTotal
<1> QED
  BY <1>3, <1>4, <1>5

\* A channel on one grid whose rows stand at its interval starts lacks the starts it has no row at.
LEMMA RolledLacks ==
  ASSUME NEW V, NEW from, NEW to, Scanned(V, from, to), NEW c, NEW s \in Sparten, NEW g \in Resolutions,
         HeldBy(V, c, s) # {}, \A r \in HeldBy(V, c, s) : r.grid = g /\ OnGrid(r.from, g, s)
  PROVE  LET x == RolledRow(V, c, s, g, from, to)
             absent == PointsIn(g, s, from, to) \ {r.from : r \in HeldBy(V, c, s)}
         IN  /\ x.missing = Cardinality(absent) /\ x.surplus = 0
             /\ x.firstGap = IF absent = {} THEN None ELSE BalancingDay(Min(absent), s)
<1> DEFINE x == RolledRow(V, c, s, g, from, to)
           held == {r.from : r \in HeldBy(V, c, s)}
           absent == PointsIn(g, s, from, to) \ held
           span == DaySpan(from, to, s)
           owed == Owed(g, s, from, to)
           had == Had(V, c, s, g, from, to)
           judged == Judged(V, c, s, g, from, to)
           short == Short(V, c, s, g, from, to)
           A == [d \in judged |-> {t \in absent : BalancingDay(t, s) = d}]
<1>1. /\ Resolved(V) /\ Dates(from, to)
      /\ \A r \in V : r.from \in from..(to - 1)
  <2>1. Resolved(V) /\ Dates(from, to) /\ \A r \in V : from <= r.from /\ r.from < to
    BY DEF Scanned
  <2>2. \A r \in V : r.from \in Int
    BY <2>1 DEF Resolved, Dated
  <2> QED
    BY <2>1, <2>2 DEF Dates
<1>2. /\ x.missing = Shortfall(judged, owed, had) /\ x.surplus = Shortfall(judged, had, owed)
      /\ x.firstGap = IF short = {} THEN None ELSE Min(short)
  BY DEF RolledRow
<1>3. /\ IsFiniteSet(judged) /\ judged \subseteq span
      /\ \A d \in span : had[d] = Cardinality(RowsOn(V, c, s, g, d)) /\ had[d] \in Nat /\ owed[d] \in Nat
  BY RolledNumbers
<1>4. /\ \A d \in span : owed[d] = Cardinality(PointsOf(d, g, s, from, to))
      /\ \A d \in span : IsFiniteSet(PointsOf(d, g, s, from, to))
      /\ \A d \in span : owed[d] = 0 <=> PointsOf(d, g, s, from, to) = {}
  BY <1>1, PointsFacts
\* The starts of a day that have a row are as many as the rows of it.
<1>5. ASSUME NEW d \in span
      PROVE  LET here == {r.from : r \in RowsOn(V, c, s, g, d)}
             IN  /\ IsFiniteSet(here) /\ Cardinality(here) = Cardinality(RowsOn(V, c, s, g, d))
                 /\ here \subseteq PointsOf(d, g, s, from, to)
                 /\ here = {t \in held : BalancingDay(t, s) = d}
  <2> DEFINE rows == RowsOn(V, c, s, g, d)
             here == {r.from : r \in rows}
             f == [r \in rows |-> r.from]
  <2>1. f \in Bijection(rows, here)
    <3>1. f \in Surjection(rows, here)
      BY DEF Surjection
    <3>2. \A p, q \in rows : p.from = q.from => p = q
      BY <1>1 DEF RowsOn, Resolved
    <3>3. f \in Injection(rows, here)
      BY <3>2 DEF Injection, IsInjective
    <3> HIDE DEF f, rows, here
    <3> QED
      BY <3>1, <3>3 DEF Bijection
  <2>2. IsFiniteSet(rows)
    BY <1>1, DayTotal
  <2>3. IsFiniteSet(here) /\ Cardinality(here) = Cardinality(rows)
    <3>1. ExistsBijection(rows, here)
      BY <2>1 DEF ExistsBijection
    <3> HIDE DEF rows, here
    <3> QED
      BY <2>2, <3>1, FS_Bijection
  <2>4. \A r \in rows : /\ r \in HeldBy(V, c, s) /\ r.from \in from..(to - 1)
                        /\ OnGrid(r.from, g, s) /\ BalancingDay(r.from, s) = d
    BY <1>1 DEF RowsOn, HeldBy
  <2>5. here \subseteq PointsOf(d, g, s, from, to)
    BY <2>4 DEF PointsOf
  <2>6. \A r \in HeldBy(V, c, s) : BalancingDay(r.from, s) = d => r \in rows
    BY DEF RowsOn, HeldBy
  <2>7. here = {t \in held : BalancingDay(t, s) = d}
    <3> HIDE DEF rows
    <3> QED
      BY <2>4, <2>6
  <2> QED
    BY <2>3, <2>5, <2>7
<1>6. ASSUME NEW d \in span
      PROVE  LET gap == {t \in absent : BalancingDay(t, s) = d}
             IN  /\ IsFiniteSet(gap) /\ owed[d] >= had[d]
                 /\ Cardinality(gap) = owed[d] - had[d]
                 /\ gap = {} <=> owed[d] = had[d]
  <2> DEFINE here == {r.from : r \in RowsOn(V, c, s, g, d)}
             points == PointsOf(d, g, s, from, to)
             gap == {t \in absent : BalancingDay(t, s) = d}
  <2>1. gap = points \ here
    BY <1>5 DEF PointsIn, PointsOf
  <2> HIDE DEF gap
  <2>2. here \in SUBSET points /\ IsFiniteSet(points) /\ Cardinality(here) = had[d]
        /\ Cardinality(points) = owed[d]
    BY <1>3, <1>4, <1>5
  <2> HIDE DEF here, points
  <2>3. points \intersect here = here
    BY <2>2
  <2>4. IsFiniteSet(points \ here) /\ Cardinality(points \ here) = Cardinality(points) - Cardinality(here)
    <3>1. IsFiniteSet(points)
      BY <2>2
    <3>2. /\ IsFiniteSet(points \ here)
          /\ Cardinality(points \ here) = Cardinality(points) - Cardinality(points \intersect here)
      BY <3>1, FS_Difference
    <3> QED
      BY <2>3, <3>2
  <2>5. Cardinality(points \ here) \in Nat /\ (Cardinality(points \ here) = 0 <=> points \ here = {})
    BY <2>4, FS_CardinalityType, FS_EmptySet
  <2>6. had[d] \in Nat /\ owed[d] \in Nat
    BY <1>3
  <2>7. IsFiniteSet(gap) /\ Cardinality(gap) = owed[d] - had[d] /\ owed[d] - had[d] \in Nat
        /\ (gap = {} <=> owed[d] - had[d] = 0)
    BY <2>1, <2>2, <2>4, <2>5
  <2> HIDE DEF owed, had, absent, span
  <2> QED
    BY <2>6, <2>7 DEF gap
\* Every day that owes something is answered for.
<1>7. \A d \in span : owed[d] > 0 => d \in judged
  <2> SUFFICES ASSUME NEW d \in span, owed[d] > 0 PROVE d \in judged
    OBVIOUS
  <2>1. \A e : GridsOn(Own(V, c, s), e) \subseteq {g}
    BY OwnFacts
  <2>2. Governing(V, c, s, from, to)[d] = g
    <3>1. Governing(V, c, s, from, to)[d] \in
            GridsOn(Own(V, c, s), ModelDay({BalancingDay(h.from, s) : h \in HeldBy(V, c, s)}, d))
      BY ForceFromRows
    <3> QED
      BY <2>1, <3>1
  <2>3. g \in GridsOn(Own(V, c, s), d) \/ GridsOn(Own(V, c, s), d) = {}
    BY <2>1
  <2> QED
    BY <2>2, <2>3, JudgedIs
<1>8. \A t \in absent : BalancingDay(t, s) \in judged
  <2> SUFFICES ASSUME NEW t \in absent PROVE BalancingDay(t, s) \in judged
    OBVIOUS
  <2>1. BalancingDay(t, s) \in span /\ t \in PointsOf(BalancingDay(t, s), g, s, from, to)
    BY <1>1, RangeDays DEF PointsIn, PointsOf
  <2>2. owed[BalancingDay(t, s)] # 0 /\ owed[BalancingDay(t, s)] \in Nat
    BY <1>3, <1>4, <2>1
  <2> HIDE DEF owed, span, judged, absent
  <2> QED
    BY <1>7, <2>1, <2>2
<1>9. Apart(A, judged) /\ UNION {A[d] : d \in judged} = absent
  <2>1. \A d \in judged : IsFiniteSet(A[d])
    BY <1>3, <1>6
  <2>2. \A d, e \in judged : d # e => A[d] \intersect A[e] = {}
    OBVIOUS
  <2>3. UNION {A[d] : d \in judged} = absent
    <3> HIDE DEF absent, judged
    <3> QED
      BY <1>8
  <2> QED
    BY <2>1, <2>2, <2>3 DEF Apart
<1>10. \A d \in judged : owed[d] \in Int /\ had[d] \in Int /\ Cardinality(A[d]) = Lack(had[d], owed[d])
  <2> SUFFICES ASSUME NEW d \in judged
               PROVE  owed[d] \in Int /\ had[d] \in Int /\ Cardinality(A[d]) = Lack(had[d], owed[d])
    OBVIOUS
  <2>1. /\ owed[d] \in Nat /\ had[d] \in Nat /\ owed[d] >= had[d]
        /\ Cardinality(A[d]) = owed[d] - had[d]
    BY <1>3, <1>6
  <2> HIDE DEF A, owed, had, judged
  <2> QED
    BY <2>1 DEF Lack
<1>11. x.missing = Cardinality(absent)
  <2> HIDE DEF A, owed, had, judged, absent, x
  <2>1. Shortfall(judged, owed, had) = Counted(A, judged)
    BY <1>3, <1>9, <1>10, ShortfallCounts
  <2> QED
    BY <1>2, <1>9, <2>1 DEF Counted
<1>12. x.surplus = 0
  <2> DEFINE B == [d \in judged |-> {}]
  <2>1. Apart(B, judged) /\ UNION {B[d] : d \in judged} = {}
    BY FS_EmptySet DEF Apart
  <2>2. ASSUME NEW d \in judged
        PROVE  had[d] \in Int /\ owed[d] \in Int /\ Cardinality(B[d]) = Lack(owed[d], had[d])
    <3>1. had[d] \in Nat /\ owed[d] \in Nat /\ owed[d] >= had[d]
      BY <1>3, <1>6
    <3>2. Cardinality(B[d]) = 0
      BY FS_EmptySet
    <3> HIDE DEF B, owed, had, judged
    <3> QED
      BY <3>1, <3>2 DEF Lack
  <2> HIDE DEF B, owed, had, judged, x
  <2>3. Shortfall(judged, had, owed) = Counted(B, judged)
    BY <1>3, <2>1, <2>2, ShortfallCounts
  <2> QED
    BY <1>2, <2>1, <2>3, FS_EmptySet DEF Counted
<1>13. short = {BalancingDay(t, s) : t \in absent}
  <2>1. short = {d \in judged : owed[d] > had[d]}
    BY DEF Short
  <2>2. \A d \in judged : owed[d] > had[d] <=> \E t \in absent : BalancingDay(t, s) = d
    <3> SUFFICES ASSUME NEW d \in judged
                 PROVE  owed[d] > had[d] <=> \E t \in absent : BalancingDay(t, s) = d
      OBVIOUS
    <3> DEFINE gap == {t \in absent : BalancingDay(t, s) = d}
    <3>1. owed[d] \in Nat /\ had[d] \in Nat /\ owed[d] >= had[d] /\ (gap = {} <=> owed[d] = had[d])
      BY <1>3, <1>6
    <3>2. gap # {} <=> \E t \in absent : BalancingDay(t, s) = d
      OBVIOUS
    <3> HIDE DEF gap, owed, had, absent, judged
    <3> QED
      BY <3>1, <3>2
  <2> HIDE DEF owed, had, absent, judged, short
  <2> QED
    BY <1>8, <2>1, <2>2
<1>14. absent # {} => Min(short) = BalancingDay(Min(absent), s)
  <2>1. absent \subseteq from..(to - 1)
    BY DEF PointsIn
  <2> HIDE DEF absent, short
  <2> QED
    BY <1>1, <1>13, <2>1, EarliestDay
<1> HIDE DEF x, owed, had, judged, short, A
<1> QED
  BY <1>2, <1>11, <1>12, <1>13, <1>14 DEF x

\* Where a row of the report comes from: rows of the range, or the reference window.
FromTheRange(x) ==
  /\ x = RolledRow(scanned, x.channel, x.sparte, x.grid, request.from, request.to)
  /\ x.actual \in Nat /\ x.actual > 0
  /\ \E r \in scanned : r.channel = x.channel /\ r.sparte = x.sparte /\ r.grid = x.grid

FromTheWindow(x) ==
  /\ \E k \in Keys : /\ x = Silent(k, request.from, request.to)
                     /\ k.channel = x.channel /\ k.sparte = x.sparte /\ k.grid = x.grid
  /\ x.actual = 0
  /\ HeldBy(scanned, x.channel, x.sparte) = {}

LEMMA ReportRowIs ==
  ASSUME ReportCoherent, NEW x \in report
  PROVE  /\ Scanned(scanned, request.from, request.to)
         /\ x.sparte \in Sparten /\ x.grid \in Resolutions
         /\ FromTheRange(x) \/ FromTheWindow(x)
<1>1. phase \in {"roster", "done"}
  BY DEF ReportCoherent
<1>2. /\ Resolved(scanned) /\ Dates(request.from, request.to)
      /\ scanned = In(scanned, request.from, request.to)
      /\ report = RollUp(DailyRows(scanned), request.from, request.to)
                    \union {Silent(k, request.from, request.to) : k \in Silenced}
      /\ Silenced \subseteq Keys
      /\ \A k \in Silenced : \A r \in scanned : r.channel # k.channel
  BY <1>1 DEF ReportCoherent, Keys
<1>3. Scanned(scanned, request.from, request.to)
  BY <1>2 DEF Scanned, In
<1>4. CASE x \in RollUp(DailyRows(scanned), request.from, request.to)
  <2>1. /\ \E r \in scanned : r.channel = x.channel /\ r.sparte = x.sparte /\ r.grid = x.grid
        /\ x = RolledRow(scanned, x.channel, x.sparte, x.grid, request.from, request.to)
        /\ x.actual \in Nat /\ x.actual > 0
    BY <1>2, <1>4, RollUpRows
  <2>2. x.sparte \in Sparten /\ x.grid \in Resolutions
    BY <1>2, <2>1 DEF Resolved
  <2>3. FromTheRange(x)
    BY <2>1 DEF FromTheRange
  <2> QED
    BY <1>3, <2>2, <2>3
<1>5. ASSUME NEW k \in Silenced, x = Silent(k, request.from, request.to)
      PROVE  x.sparte \in Sparten /\ x.grid \in Resolutions /\ FromTheWindow(x)
  <2>1. x.channel = k.channel /\ x.sparte = k.sparte /\ x.grid = k.grid /\ x.actual = 0
    BY <1>5, SilentKey
  <2>2. k \in Keys /\ HeldBy(scanned, x.channel, x.sparte) = {}
    BY <1>2, <2>1 DEF HeldBy
  <2>3. k.sparte \in Sparten /\ k.grid \in Resolutions
    BY <2>2 DEF Keys
  <2>4. FromTheWindow(x)
    BY <1>5, <2>1, <2>2 DEF FromTheWindow
  <2> QED
    BY <2>1, <2>3, <2>4
<1> QED
  BY <1>2, <1>3, <1>4, <1>5

LEMMA MissingAbsent == ReportCoherent => MissingIsWhatIsAbsent
<1> SUFFICES ASSUME ReportCoherent, NEW x \in report,
                    \A r \in Held(x.channel, x.sparte) : r.grid = x.grid,
                    \A t \in {r.from : r \in Held(x.channel, x.sparte)} : OnGrid(t, x.grid, x.sparte)
             PROVE  LET absent == RangePoints(x.grid, x.sparte)
                                    \ {r.from : r \in Held(x.channel, x.sparte)}
                    IN  /\ x.missing = Cardinality(absent) /\ x.surplus = 0
                        /\ x.firstGap = IF absent = {} THEN None
                                        ELSE BalancingDay(Min(absent), x.sparte)
  BY DEF MissingIsWhatIsAbsent
<1> DEFINE c == x.channel
           s == x.sparte
           g == x.grid
           from == request.from
           to == request.to
<1>1. Scanned(scanned, from, to) /\ s \in Sparten /\ g \in Resolutions
  BY ReportRowIs
<1>2. Held(c, s) = HeldBy(scanned, c, s) /\ RangePoints(g, s) = PointsIn(g, s, from, to)
  BY DEF Held, HeldBy, RangePoints, PointsIn
<1>3. CASE FromTheRange(x)
  <2>1. HeldBy(scanned, c, s) # {} /\ x = RolledRow(scanned, c, s, g, from, to)
    BY <1>3 DEF FromTheRange, HeldBy
  <2>2. \A r \in HeldBy(scanned, c, s) : r.grid = g /\ OnGrid(r.from, g, s)
    BY <1>2
  <2> HIDE DEF c, s, g, from, to
  <2>3. LET y == RolledRow(scanned, c, s, g, from, to)
            absent == PointsIn(g, s, from, to) \ {r.from : r \in HeldBy(scanned, c, s)}
        IN  /\ y.missing = Cardinality(absent) /\ y.surplus = 0
            /\ y.firstGap = IF absent = {} THEN None ELSE BalancingDay(Min(absent), s)
    <3>1. HeldBy(scanned, c, s) # {}
      BY <2>1
    <3> QED
      BY <1>1, <2>2, <3>1, RolledLacks
  <2> QED
    BY <1>2, <2>1, <2>3 DEF c, s, g
<1>4. CASE FromTheWindow(x)
  <2>1. HeldBy(scanned, c, s) = {}
    BY <1>4 DEF FromTheWindow
  <2>2. PICK k \in Keys : /\ x = Silent(k, from, to)
                          /\ k.channel = c /\ k.sparte = s /\ k.grid = g
    BY <1>4 DEF FromTheWindow
  <2>3. Dates(from, to)
    BY <1>1 DEF Scanned
  <2>4. LET absent == PointsIn(k.grid, k.sparte, from, to)
        IN  /\ x.missing = Cardinality(absent) /\ x.surplus = 0
            /\ x.firstGap = IF absent = {} THEN None ELSE BalancingDay(Min(absent), k.sparte)
    BY <2>2, <2>3, SilentLacks
  <2>5. PointsIn(g, s, from, to) \ {r.from : r \in Held(c, s)} = PointsIn(g, s, from, to)
    BY <1>2, <2>1
  <2> HIDE DEF c, s, g, from, to
  <2> QED
    BY <1>2, <2>2, <2>4, <2>5 DEF c, s, g
<1>5. FromTheRange(x) \/ FromTheWindow(x)
  BY ReportRowIs
<1> QED
  BY <1>3, <1>4, <1>5

\* A channel on one grid lacks exactly the interval starts it has no row at, in every range
\* and on days of every length (roll_up, expected_in_day).
THEOREM MissingIsWhatIsAbsentAlways == Spec => []MissingIsWhatIsAbsent
  BY ReportCoherentAlways, MissingAbsent, PTL

-----------------------------------------------------------------------------
(* What is complete.                                                        *)

\* Sets of so many pairs, each tagged with its day: a sum of numbers counts them.
Tagged(x, n) == {<<x, i>> : i \in 1..n}

LEMMA TaggedSize ==
  ASSUME NEW x, NEW n \in Nat
  PROVE  IsFiniteSet(Tagged(x, n)) /\ Cardinality(Tagged(x, n)) = n
<1> DEFINE f == [i \in 1..n |-> <<x, i>>]
<1>1. f \in Surjection(1..n, Tagged(x, n))
  BY DEF Surjection, Tagged
<1>2. f \in Injection(1..n, Tagged(x, n))
  <2>1. \A i, j \in 1..n : f[i] = f[j] => i = j
    OBVIOUS
  <2>2. f \in [1..n -> Tagged(x, n)]
    BY DEF Tagged
  <2> HIDE DEF f
  <2> QED
    BY <2>1, <2>2 DEF Injection, IsInjective
<1>3. f \in Bijection(1..n, Tagged(x, n))
  <2> HIDE DEF f
  <2> QED
    BY <1>1, <1>2 DEF Bijection
<1>4. IsFiniteSet(1..n) /\ Cardinality(1..n) = n
  BY FS_Interval
<1>5. ExistsBijection(1..n, Tagged(x, n))
  <2> HIDE DEF f
  <2> QED
    BY <1>3 DEF ExistsBijection
<1> QED
  BY <1>4, <1>5, FS_Bijection

\* Nothing is short in all only where nothing is short on any day.
LEMMA NoneShort ==
  ASSUME NEW S, IsFiniteSet(S), NEW e, NEW a, \A x \in S : e[x] \in Nat /\ a[x] \in Nat,
         Shortfall(S, e, a) = 0
  PROVE  \A x \in S : a[x] >= e[x]
<1> DEFINE lack(x) == Lack(a[x], e[x])
           A == [x \in S |-> Tagged(x, lack(x))]
<1>1. \A x \in S : lack(x) \in Nat /\ (lack(x) = 0 => a[x] >= e[x])
  BY DEF Lack
<1>2. \A x \in S : IsFiniteSet(A[x]) /\ Cardinality(A[x]) = lack(x)
  BY <1>1, TaggedSize
<1>3. Apart(A, S)
  <2>1. \A x, y \in S : x # y => A[x] \intersect A[y] = {}
    BY DEF Tagged
  <2> HIDE DEF A
  <2> QED
    BY <1>2, <2>1 DEF Apart
<1>4. Shortfall(S, e, a) = Counted(A, S)
  <2>1. \A x \in S : e[x] \in Int /\ a[x] \in Int /\ Cardinality(A[x]) = Lack(a[x], e[x])
    BY <1>2
  <2> HIDE DEF A
  <2> QED
    BY <1>3, <2>1, ShortfallCounts
<1>5. \A x \in S : A[x] = {}
  <2> HIDE DEF A
  <2> QED
    BY <1>3, <1>4, NothingCounted
<1>6. \A x \in S : lack(x) = 0
  <2> HIDE DEF A
  <2> QED
    BY <1>2, <1>5, FS_EmptySet
<1> QED
  BY <1>1, <1>6

\* Some grid that a channel delivered on answers for a day, and has a row of the report.
LEMMA Answered ==
  ASSUME NEW V, NEW from, NEW to, Scanned(V, from, to), NEW c, NEW s \in Sparten,
         HeldBy(V, c, s) # {}, NEW d \in DaySpan(from, to, s)
  PROVE  \E r \in HeldBy(V, c, s) :
           /\ r.grid \in Resolutions
           /\ RolledRow(V, c, s, r.grid, from, to) \in RollUp(DailyRows(V), from, to)
           /\ Owed(r.grid, s, from, to)[d] > 0 => d \in Judged(V, c, s, r.grid, from, to)
<1> DEFINE own == Own(V, c, s)
           force == Governing(V, c, s, from, to)[d]
<1>1. Resolved(V)
  BY DEF Scanned
<1>2. \A r \in HeldBy(V, c, s) :
        r.grid \in Resolutions /\ RolledRow(V, c, s, r.grid, from, to) \in RollUp(DailyRows(V), from, to)
  <2>1. \A r \in HeldBy(V, c, s) : r \in V /\ r.channel = c /\ r.sparte = s
    BY DEF HeldBy
  <2>2. RollUp(DailyRows(V), from, to) = {RolledRow(V, r.channel, r.sparte, r.grid, from, to) : r \in V}
    BY <1>1, RollUpRows
  <2> QED
    BY <1>1, <2>1, <2>2 DEF Resolved
<1>3. \A e, g : g \in GridsOn(own, e) => \E r \in HeldBy(V, c, s) : r.grid = g
  <2>1. \A e : GridsOn(own, e) = {r.grid : r \in {h \in HeldBy(V, c, s) : BalancingDay(h.from, s) = e}}
    BY OwnFacts
  <2> QED
    BY <2>1
<1>4. \A g : Owed(g, s, from, to)[d] > 0 /\ (g \in GridsOn(own, d) \/ (GridsOn(own, d) = {} /\ force = g))
               => d \in Judged(V, c, s, g, from, to)
  BY JudgedIs
<1>5. \E e : force \in GridsOn(own, e)
  <2>1. force \in GridsOn(own, ModelDay({BalancingDay(h.from, s) : h \in HeldBy(V, c, s)}, d))
    BY ForceFromRows
  <2> HIDE DEF own, force
  <2> QED
    BY <2>1
<1> HIDE DEF own, force
<1>6. CASE GridsOn(own, d) = {}
  <2>1. PICK r \in HeldBy(V, c, s) : r.grid = force
    BY <1>3, <1>5
  <2> QED
    BY <1>2, <1>4, <1>6, <2>1
<1>7. CASE GridsOn(own, d) # {}
  <2>1. PICK g \in GridsOn(own, d) : TRUE
    BY <1>7
  <2>2. PICK r \in HeldBy(V, c, s) : r.grid = g
    BY <1>3, <2>1
  <2> QED
    BY <1>2, <1>4, <2>1, <2>2
<1> QED
  BY <1>6, <1>7

LEMMA CompleteDelivered == ReportCoherent => CompleteMeansDelivered
<1> SUFFICES ASSUME ReportCoherent, NEW x \in report,
                    \A y \in report : y.channel = x.channel /\ y.sparte = x.sparte
                                        => IsMeasurable(y) /\ IsComplete(y),
                    NEW d \in DaySpan(request.from, request.to, x.sparte)
             PROVE  \E y \in report :
                      /\ y.channel = x.channel /\ y.sparte = x.sparte
                      /\ LET on == {r \in Held(x.channel, x.sparte) :
                                      r.grid = y.grid /\ BalancingDay(r.from, x.sparte) = d}
                             due == {t \in RangePoints(y.grid, x.sparte) : BalancingDay(t, x.sparte) = d}
                         IN  Cardinality(due) \in {0, Cardinality(on)}
  BY DEF CompleteMeansDelivered
<1> DEFINE c == x.channel
           s == x.sparte
           from == request.from
           to == request.to
           V == scanned
<1>1. Scanned(V, from, to) /\ s \in Sparten
  BY ReportRowIs
<1>2. Dates(from, to)
  BY <1>1 DEF Scanned
<1>3. FromTheRange(x)
  <2> SUFFICES ASSUME FromTheWindow(x) PROVE FALSE
    BY ReportRowIs
  <2>1. PICK k \in Keys : x = Silent(k, from, to)
    BY DEF FromTheWindow
  <2>2. x.expected = x.missing
    BY <1>2, <2>1, SilentLacks
  <2>3. x.expected > 0 /\ x.missing = 0
    BY DEF IsMeasurable, IsComplete
  <2> QED
    BY <2>2, <2>3
<1>4. HeldBy(V, c, s) # {}
  BY <1>3 DEF FromTheRange, HeldBy
<1>5. PICK r \in HeldBy(V, c, s) :
        /\ r.grid \in Resolutions
        /\ RolledRow(V, c, s, r.grid, from, to) \in RollUp(DailyRows(V), from, to)
        /\ Owed(r.grid, s, from, to)[d] > 0 => d \in Judged(V, c, s, r.grid, from, to)
  <2> HIDE DEF V, c, s, from, to
  <2> QED
    BY <1>1, <1>4, Answered DEF s, from, to
<1> DEFINE g == r.grid
           y == RolledRow(V, c, s, g, from, to)
           owed == Owed(g, s, from, to)
           had == Had(V, c, s, g, from, to)
           judged == Judged(V, c, s, g, from, to)
<1>6. y \in report
  <2>1. phase \in {"roster", "done"}
    BY DEF ReportCoherent
  <2>2. RollUp(DailyRows(V), from, to) \subseteq report
    BY <2>1 DEF ReportCoherent
  <2> QED
    BY <1>5, <2>2
<1>7. y.channel = c /\ y.sparte = s /\ y.grid = g
      /\ y.missing = Shortfall(judged, owed, had) /\ y.surplus = Shortfall(judged, had, owed)
  BY DEF RolledRow
<1>8. y.missing = 0 /\ y.surplus = 0
  <2> HIDE DEF y
  <2> QED
    BY <1>6, <1>7 DEF IsComplete
<1>9. /\ IsFiniteSet(judged) /\ judged \subseteq DaySpan(from, to, s)
      /\ \A e \in DaySpan(from, to, s) :
           had[e] = Cardinality(RowsOn(V, c, s, g, e)) /\ had[e] \in Nat /\ owed[e] \in Nat
  BY <1>1, <1>5, RolledNumbers
<1>10. owed[d] = Cardinality(PointsOf(d, g, s, from, to))
  BY <1>1, <1>2, <1>5, PointsFacts
<1>11. owed[d] = 0 \/ owed[d] = had[d]
  <2> SUFFICES ASSUME owed[d] # 0 PROVE owed[d] = had[d]
    OBVIOUS
  <2>1. owed[d] \in Nat /\ had[d] \in Nat
    BY <1>9
  <2>2. d \in judged
    BY <1>5, <2>1
  <2> HIDE DEF y, owed, had, judged
  <2>3. \A e \in judged : owed[e] \in Nat /\ had[e] \in Nat
    BY <1>9
  <2>4. \A e \in judged : had[e] >= owed[e]
    BY <1>7, <1>8, <1>9, <2>3, NoneShort
  <2>5. \A e \in judged : owed[e] >= had[e]
    BY <1>7, <1>8, <1>9, <2>3, NoneShort
  <2> QED
    BY <2>1, <2>2, <2>4, <2>5
<1>12. /\ {h \in Held(c, s) : h.grid = g /\ BalancingDay(h.from, s) = d} = RowsOn(V, c, s, g, d)
       /\ {t \in RangePoints(g, s) : BalancingDay(t, s) = d} = PointsOf(d, g, s, from, to)
  BY DEF Held, RowsOn, RangePoints, PointsOf
<1>13. had[d] = Cardinality(RowsOn(V, c, s, g, d))
  BY <1>9
<1> HIDE DEF owed, had, judged, y
<1>14. Cardinality({t \in RangePoints(g, s) : BalancingDay(t, s) = d})
         \in {0, Cardinality({h \in Held(c, s) : h.grid = g /\ BalancingDay(h.from, s) = d})}
  BY <1>10, <1>11, <1>12, <1>13
<1> QED
  BY <1>6, <1>7, <1>14

\* A channel whose rows of the report are all complete delivered, on every day, what one of
\* its grids expects of that day (is_complete, roll_up).
THEOREM CompleteMeansDeliveredAlways == Spec => []CompleteMeansDelivered
  BY ReportCoherentAlways, CompleteDelivered, PTL

-----------------------------------------------------------------------------
(* What an absent day is charged.                                           *)

DaysOf(V, c, s) == {BalancingDay(h.from, s) : h \in HeldBy(V, c, s)}
GridsOf(V, c, s, d) == {r.grid : r \in {h \in HeldBy(V, c, s) : BalancingDay(h.from, s) = d}}
OneGridADay(V, c, s) == \A d \in DaysOf(V, c, s) : Cardinality(GridsOf(V, c, s, d)) = 1

\* The grid of the model day of a day.
GridFor(V, c, s, d) == CHOOSE g \in GridsOf(V, c, s, ModelDay(DaysOf(V, c, s), d)) : TRUE

LEMMA ResolutionsFinite == IsFiniteSet(Resolutions)
<1> DEFINE f == [i \in 1..5 |-> Grids[i]]
<1>1. DOMAIN Grids = 1..5
  BY DEF Grids
<1>2. f \in Surjection(1..5, Resolutions)
  BY <1>1 DEF Surjection, Resolutions
<1>3. IsFiniteSet(1..5)
  <2>1. PICK n \in Nat : n = 5
    OBVIOUS
  <2>2. IsFiniteSet(1..n)
    BY FS_Interval
  <2> QED
    BY <2>1, <2>2
<1> HIDE DEF f
<1> QED
  BY <1>2, <1>3, FS_Surjection

\* A channel that delivers on one grid a day is judged, each day, by the one of its model day.
LEMMA JudgedByOne ==
  ASSUME NEW V, NEW from, NEW to, Scanned(V, from, to), NEW c, NEW s \in Sparten,
         HeldBy(V, c, s) # {}, OneGridADay(V, c, s), NEW d \in DaySpan(from, to, s)
  PROVE  /\ \E r \in HeldBy(V, c, s) : r.grid = GridFor(V, c, s, d)
         /\ \A g : d \in Judged(V, c, s, g, from, to) <=>
                     Owed(g, s, from, to)[d] > 0 /\ g = GridFor(V, c, s, d)
<1> DEFINE days == DaysOf(V, c, s)
           model == ModelDay(days, d)
           grid == GridFor(V, c, s, d)
           a == BalancingDay(from, s)
           b == BalancingDay(to - 1, s)
<1>1. a \in Int /\ b \in Int /\ DaySpan(from, to, s) = a..b
  <2>1. Dated(from, s) /\ Dated(to - 1, s)
    BY DEF Scanned, Dates
  <2> QED
    BY <2>1, TheDay, CalendarAssumption DEF DaySpan
<1>2. days \subseteq a..b /\ days # {} /\ d \in Int
  <2>1. /\ \A r \in Own(V, c, s) : r.day \in DaySpan(from, to, s)
        /\ {r.day : r \in Own(V, c, s)} = days
    BY OwnFacts DEF DaysOf
  <2>2. days # {}
    BY DEF DaysOf
  <2> HIDE DEF days, a, b
  <2> QED
    BY <1>1, <2>1, <2>2
<1>3. /\ model \in days
      /\ \A e \in days : e <= d => e <= model /\ model <= d
  <2> HIDE DEF days, a, b
  <2> QED
    BY <1>1, <1>2, ModelDayIs
<1>4. \A e : GridsOn(Own(V, c, s), e) = GridsOf(V, c, s, e)
  BY OwnFacts DEF GridsOf
<1>5. \A e \in days : \E g : GridsOf(V, c, s, e) = {g}
  <2> SUFFICES ASSUME NEW e \in days PROVE \E g : GridsOf(V, c, s, e) = {g}
    OBVIOUS
  <2>1. Cardinality(GridsOf(V, c, s, e)) = 1
    BY DEF OneGridADay
  <2>2. IsFiniteSet(GridsOf(V, c, s, e))
    <3>1. IsFiniteSet(Resolutions)
      BY ResolutionsFinite
    <3>2. GridsOf(V, c, s, e) \in SUBSET Resolutions
      BY DEF GridsOf, HeldBy, Scanned, Resolved
    <3> QED
      BY <3>1, <3>2, FS_Subset
  <2> QED
    BY <2>1, <2>2, FS_Singleton
<1>6. GridsOf(V, c, s, model) = {grid}
  <2>1. grid = CHOOSE g \in GridsOf(V, c, s, model) : TRUE
    BY DEF GridFor
  <2> HIDE DEF days, grid, model
  <2> QED
    BY <1>3, <1>5, <2>1
<1>7. Governing(V, c, s, from, to)[d] = grid
  <2>1. Governing(V, c, s, from, to)[d] \in GridsOn(Own(V, c, s), model)
    BY ForceFromRows DEF DaysOf
  <2> HIDE DEF grid, model
  <2> QED
    BY <1>4, <1>6, <2>1
<1>8. d \in days => model = d
  <2> HIDE DEF model
  <2>1. days \subseteq Int
    BY <1>1, <1>2
  <2> HIDE DEF days
  <2> QED
    BY <1>2, <1>3, <2>1
<1>9. GridsOf(V, c, s, d) # {} => d \in days
  BY DEF GridsOf, DaysOf
<1>10. \A g : g \in GridsOf(V, c, s, d) \/ (GridsOf(V, c, s, d) = {} /\ grid = g) <=> g = grid
  <2> HIDE DEF days, grid, model
  <2> QED
    BY <1>6, <1>8, <1>9
<1>11. \E r \in HeldBy(V, c, s) : r.grid = grid
  <2> HIDE DEF grid
  <2> QED
    BY <1>6 DEF GridsOf
<1> HIDE DEF grid
<1>12. ASSUME NEW g
       PROVE  d \in Judged(V, c, s, g, from, to) <=> Owed(g, s, from, to)[d] > 0 /\ g = grid
  <2>1. d \in Judged(V, c, s, g, from, to) <=>
          /\ Owed(g, s, from, to)[d] > 0
          /\ \/ g \in GridsOn(Own(V, c, s), d)
             \/ GridsOn(Own(V, c, s), d) = {} /\ Governing(V, c, s, from, to)[d] = g
    BY JudgedIs
  <2> QED
    BY <1>4, <1>7, <1>10, <2>1
<1> QED
  BY <1>11, <1>12 DEF grid

\* What a row of the roll-up expects: the points of the days its grid answers for.
PointsJudged(V, c, s, g, from, to) ==
  UNION {PointsOf(d, g, s, from, to) : d \in Judged(V, c, s, g, from, to)}

LEMMA ExpectedPoints ==
  ASSUME NEW V, NEW from, NEW to, Scanned(V, from, to), NEW c, NEW s \in Sparten, NEW g \in Resolutions
  PROVE  /\ IsFiniteSet(PointsJudged(V, c, s, g, from, to))
         /\ RolledRow(V, c, s, g, from, to).expected = Cardinality(PointsJudged(V, c, s, g, from, to))
<1> DEFINE judged == Judged(V, c, s, g, from, to)
           owed == Owed(g, s, from, to)
           A == [d \in judged |-> PointsOf(d, g, s, from, to)]
<1>1. RolledRow(V, c, s, g, from, to).expected = SumOver(owed, judged)
  BY DEF RolledRow, OwedInAll
<1>2. IsFiniteSet(judged) /\ judged \subseteq DaySpan(from, to, s)
  BY RolledNumbers
<1>3. \A d \in judged : /\ owed[d] = Cardinality(PointsOf(d, g, s, from, to))
                        /\ IsFiniteSet(PointsOf(d, g, s, from, to))
  <2>1. Dates(from, to)
    BY DEF Scanned
  <2> HIDE DEF owed, judged
  <2> QED
    BY <1>2, <2>1, PointsFacts DEF owed
<1>4. Apart(A, judged)
  <2>1. \A d, e \in judged : d # e => A[d] \intersect A[e] = {}
    BY DEF PointsOf
  <2>2. \A d \in judged : IsFiniteSet(A[d])
    BY <1>3
  <2> HIDE DEF A, judged
  <2> QED
    BY <2>1, <2>2 DEF Apart
<1>5. \A d \in judged : owed[d] = Cardinality(A[d])
  BY <1>3
<1>6. UNION {A[d] : d \in judged} = PointsJudged(V, c, s, g, from, to)
  BY DEF PointsJudged
<1> HIDE DEF A, judged, owed
<1>7. SumOver(owed, judged) = Counted(A, judged) /\ IsFiniteSet(UNION {A[d] : d \in judged})
  BY <1>2, <1>4, <1>5, SumOverCounts, CountedType
<1> QED
  BY <1>1, <1>6, <1>7 DEF Counted

\* The points a channel owes on each day: those of the grid of the day's model.
Charged(V, c, s, from, to) ==
  [d \in DaySpan(from, to, s) |-> PointsOf(d, GridFor(V, c, s, d), s, from, to)]

\* The rows of one channel in a roll-up.
RowsOfReport(V, c, s, from, to) == {RolledRow(V, c, s, r.grid, from, to) : r \in HeldBy(V, c, s)}

LEMMA RowsOfReportFacts ==
  ASSUME NEW V, NEW from, NEW to, Scanned(V, from, to), NEW c, NEW s \in Sparten
  PROVE  /\ IsFiniteSet(RowsOfReport(V, c, s, from, to))
         /\ \A y \in RowsOfReport(V, c, s, from, to) :
              y.grid \in Resolutions /\ y = RolledRow(V, c, s, y.grid, from, to)
<1> DEFINE rows == RowsOfReport(V, c, s, from, to)
           f == [r \in HeldBy(V, c, s) |-> RolledRow(V, c, s, r.grid, from, to)]
<1>1. IsFiniteSet(HeldBy(V, c, s))
  <2>1. IsFiniteSet(V) /\ HeldBy(V, c, s) \in SUBSET V
    BY DEF Scanned, Resolved, HeldBy
  <2> QED
    BY <2>1, FS_Subset
<1>2. f \in Surjection(HeldBy(V, c, s), rows)
  BY DEF Surjection, RowsOfReport
<1>3. IsFiniteSet(rows)
  <2> HIDE DEF f, rows
  <2> QED
    BY <1>1, <1>2, FS_Surjection
<1>4. \A r \in HeldBy(V, c, s) : r.grid \in Resolutions
  BY DEF HeldBy, Scanned, Resolved
<1>5. \A g : RolledRow(V, c, s, g, from, to).grid = g
  BY DEF RolledRow
<1> QED
  BY <1>3, <1>4, <1>5 DEF RowsOfReport

\* What the rows of a channel expect together is what the days are charged.
LEMMA ExpectedTogether ==
  ASSUME NEW V, NEW from, NEW to, Scanned(V, from, to), NEW c, NEW s \in Sparten,
         HeldBy(V, c, s) # {}, OneGridADay(V, c, s)
  PROVE  LET rows == RowsOfReport(V, c, s, from, to)
             B == [y \in rows |-> PointsJudged(V, c, s, y.grid, from, to)]
             span == DaySpan(from, to, s)
             C == Charged(V, c, s, from, to)
         IN  /\ Apart(B, rows) /\ \A y \in rows : y.expected = Cardinality(B[y])
             /\ Apart(C, span) /\ Counted(B, rows) = Counted(C, span)
<1> DEFINE rows == RowsOfReport(V, c, s, from, to)
           B == [y \in rows |-> PointsJudged(V, c, s, y.grid, from, to)]
           span == DaySpan(from, to, s)
           C == Charged(V, c, s, from, to)
           For(d) == GridFor(V, c, s, d)
           Points(d) == PointsOf(d, For(d), s, from, to)
<1>1. \A y \in rows : y.grid \in Resolutions /\ y = RolledRow(V, c, s, y.grid, from, to)
  BY RowsOfReportFacts
<1>2. \A d \in span : /\ \E y \in rows : y.grid = For(d)
                      /\ For(d) \in Resolutions
                      /\ \A g : d \in Judged(V, c, s, g, from, to) <=>
                                  Owed(g, s, from, to)[d] > 0 /\ g = For(d)
  <2> SUFFICES ASSUME NEW d \in span
               PROVE  /\ \E y \in rows : y.grid = For(d)
                      /\ For(d) \in Resolutions
                      /\ \A g : d \in Judged(V, c, s, g, from, to) <=>
                                  Owed(g, s, from, to)[d] > 0 /\ g = For(d)
    OBVIOUS
  <2>1. /\ \E r \in HeldBy(V, c, s) : r.grid = For(d)
        /\ \A g : d \in Judged(V, c, s, g, from, to) <=> Owed(g, s, from, to)[d] > 0 /\ g = For(d)
    BY JudgedByOne
  <2>2. PICK r \in HeldBy(V, c, s) : r.grid = For(d)
    BY <2>1
  <2>3. RolledRow(V, c, s, r.grid, from, to) \in rows
    BY DEF RowsOfReport
  <2>4. RolledRow(V, c, s, r.grid, from, to).grid = r.grid
    BY DEF RolledRow
  <2> HIDE DEF For, rows
  <2>5. \E y \in rows : y.grid = For(d)
    BY <2>2, <2>3, <2>4
  <2> QED
    BY <1>1, <2>1, <2>5
<1>3. \A y \in rows : /\ IsFiniteSet(PointsJudged(V, c, s, y.grid, from, to))
                      /\ y.expected = Cardinality(PointsJudged(V, c, s, y.grid, from, to))
  <2> SUFFICES ASSUME NEW y \in rows
               PROVE  /\ IsFiniteSet(PointsJudged(V, c, s, y.grid, from, to))
                      /\ y.expected = Cardinality(PointsJudged(V, c, s, y.grid, from, to))
    OBVIOUS
  <2>1. y.grid \in Resolutions /\ y = RolledRow(V, c, s, y.grid, from, to)
    BY <1>1
  <2>2. /\ IsFiniteSet(PointsJudged(V, c, s, y.grid, from, to))
        /\ RolledRow(V, c, s, y.grid, from, to).expected = Cardinality(PointsJudged(V, c, s, y.grid, from, to))
    BY <2>1, ExpectedPoints
  <2> QED
    BY <2>1, <2>2
<1>4. \A y \in rows : \A t : t \in PointsJudged(V, c, s, y.grid, from, to) <=>
                               \E d \in span : t \in Points(d) /\ y.grid = For(d)
  <2> SUFFICES ASSUME NEW y \in rows
               PROVE  \A t : t \in PointsJudged(V, c, s, y.grid, from, to) <=>
                               \E d \in span : t \in Points(d) /\ y.grid = For(d)
    OBVIOUS
  <2> DEFINE judged == Judged(V, c, s, y.grid, from, to)
  <2>1. judged \subseteq span
    BY DEF Judged
  <2>2. ASSUME NEW d \in span
        PROVE  (d \in judged => y.grid = For(d))
               /\ (y.grid = For(d) => d \in judged \/ Points(d) = {})
    <3>1. d \in judged <=> Owed(y.grid, s, from, to)[d] > 0 /\ y.grid = For(d)
      BY <1>2
    <3>2. Dates(from, to) /\ y.grid \in Resolutions
      BY <1>1 DEF Scanned
    <3>3. /\ Owed(y.grid, s, from, to)[d] \in Nat
          /\ Owed(y.grid, s, from, to)[d] = 0 <=> PointsOf(d, y.grid, s, from, to) = {}
      BY <3>2, PointsFacts
    <3> HIDE DEF For, judged
    <3> QED
      BY <3>1, <3>3
  <2>3. \A t : t \in PointsJudged(V, c, s, y.grid, from, to) <=>
                 \E d \in judged : t \in PointsOf(d, y.grid, s, from, to)
    BY DEF PointsJudged
  <2> HIDE DEF judged, For
  <2> QED
    BY <2>1, <2>2, <2>3
<1>5. Apart(B, rows)
  <2>1. ASSUME NEW y \in rows, NEW z \in rows, y # z PROVE B[y] \intersect B[z] = {}
    <3> SUFFICES ASSUME NEW t \in B[y], t \in B[z] PROVE FALSE
      OBVIOUS
    <3>1. PICK d \in span : t \in Points(d) /\ y.grid = For(d)
      BY <1>4
    <3>2. PICK e \in span : t \in Points(e) /\ z.grid = For(e)
      BY <1>4
    <3>3. d = e
      BY <3>1, <3>2 DEF PointsOf
    <3> HIDE DEF For, B, rows
    <3>4. y.grid = z.grid
      BY <3>1, <3>2, <3>3
    <3> QED
      BY <1>1, <2>1, <3>4
  <2>2. \A y \in rows : IsFiniteSet(B[y])
    BY <1>3
  <2> HIDE DEF B, rows
  <2> QED
    BY <2>1, <2>2 DEF Apart
<1>6. \A d \in span : C[d] = Points(d) /\ IsFiniteSet(Points(d))
  <2>1. \A d \in span : C[d] = Points(d)
    BY DEF Charged
  <2>2. Dates(from, to)
    BY DEF Scanned
  <2> HIDE DEF For
  <2>3. \A d \in span : IsFiniteSet(Points(d))
    BY <1>2, <2>2, PointsFacts
  <2> QED
    BY <2>1, <2>3
<1>7. Apart(C, span)
  <2>1. \A d, e \in span : d # e => C[d] \intersect C[e] = {}
    BY <1>6 DEF PointsOf
  <2> HIDE DEF C, span, Points
  <2> QED
    BY <1>6, <2>1 DEF Apart
<1>8. UNION {B[y] : y \in rows} = UNION {C[d] : d \in span}
  <2> HIDE DEF For, rows, span, C, Points
  <2> QED
    BY <1>2, <1>4, <1>6
<1>9. \A y \in rows : y.expected = Cardinality(B[y])
  BY <1>3
<1> HIDE DEF B, rows, C, span
<1>10. Counted(B, rows) = Counted(C, span)
  BY <1>8 DEF Counted
<1> QED
  BY <1>5, <1>7, <1>9, <1>10 DEF B, rows, C, span

\* The sum over the rows of a channel, and the one over the days.
LEMMA SumOfExpected ==
  ASSUME NEW S, IsFiniteSet(S), NEW A, Apart(A, S), \A y \in S : y.expected = Cardinality(A[y])
  PROVE  MapThenSumSet(LAMBDA y : y.expected, S) = Counted(A, S)
<1> DEFINE F(h) == [s \in SUBSET S |-> IF s = {} THEN 0
                                       ELSE (CHOOSE x \in s : TRUE).expected + h[s \ {CHOOSE x \in s : TRUE}]]
           w == [y \in S |-> y.expected]
           G(h) == [s \in SUBSET S |-> IF s = {} THEN 0
                                       ELSE w[CHOOSE x \in s : TRUE] + h[s \ {CHOOSE x \in s : TRUE}]]
<1>1. MapThenSumSet(LAMBDA y : y.expected, S) = (CHOOSE h : h = F(h))[S]
  BY DEF MapThenSumSet, MapThenFoldSet
<1>2. SumOver(w, S) = (CHOOSE h : h = G(h))[S]
  BY DEF SumOver, MapThenSumSet, MapThenFoldSet
<1>3. \A h : F(h) = G(h)
  OBVIOUS
<1>4. SumOver(w, S) = Counted(A, S)
  <2>1. \A y \in S : w[y] = Cardinality(A[y])
    OBVIOUS
  <2> HIDE DEF w
  <2> QED
    BY <2>1, SumOverCounts
<1> HIDE DEF F, G
<1>5. (CHOOSE h : h = F(h)) = (CHOOSE h : h = G(h))
  BY <1>3
<1> QED
  BY <1>1, <1>2, <1>4, <1>5

LEMMA DayChargedOnce == ReportCoherent => AbsentDayChargedOnce
<1> SUFFICES ASSUME ReportCoherent, NEW x \in report
             PROVE  LET own     == {y \in report : y.channel = x.channel /\ y.sparte = x.sparte}
                        held    == Held(x.channel, x.sparte)
                        gridsOn(d) == {r.grid : r \in {h \in held : BalancingDay(h.from, x.sparte) = d}}
                        span    == DaySpan(request.from, request.to, x.sparte)
                        days    == {d \in span : gridsOn(d) # {}}
                        model(d) == IF \E e \in days : e <= d THEN Max({e \in days : e <= d}) ELSE Min(days)
                        grid(d) == CHOOSE g \in gridsOn(model(d)) : TRUE
                        due(d)  == Cardinality({t \in RangePoints(grid(d), x.sparte) :
                                                  BalancingDay(t, x.sparte) = d})
                    IN  x.actual > 0 /\ (\A d \in days : Cardinality(gridsOn(d)) = 1)
                        => MapThenSumSet(LAMBDA y : y.expected, own) = MapThenSumSet(due, span)
  BY DEF AbsentDayChargedOnce
<1> DEFINE c == x.channel
           s == x.sparte
           from == request.from
           to == request.to
           V == scanned
           own == {y \in report : y.channel = c /\ y.sparte = s}
           gridsOn(d) == {r.grid : r \in {h \in Held(c, s) : BalancingDay(h.from, s) = d}}
           span == DaySpan(from, to, s)
           days == {d \in span : gridsOn(d) # {}}
           model(d) == IF \E e \in days : e <= d THEN Max({e \in days : e <= d}) ELSE Min(days)
           grid(d) == CHOOSE g \in gridsOn(model(d)) : TRUE
           due(d) == Cardinality({t \in RangePoints(grid(d), s) : BalancingDay(t, s) = d})
           rows == RowsOfReport(V, c, s, from, to)
           B == [y \in rows |-> PointsJudged(V, c, s, y.grid, from, to)]
           C == Charged(V, c, s, from, to)
<1> SUFFICES ASSUME x.actual > 0, \A d \in days : Cardinality(gridsOn(d)) = 1
             PROVE  MapThenSumSet(LAMBDA y : y.expected, own) = MapThenSumSet(due, span)
  OBVIOUS
<1>1. Scanned(V, from, to) /\ s \in Sparten /\ Dates(from, to)
  BY ReportRowIs DEF Scanned
<1>2. FromTheRange(x) /\ HeldBy(V, c, s) # {}
  <2>1. ~FromTheWindow(x)
    BY DEF FromTheWindow
  <2>2. FromTheRange(x)
    BY <2>1, ReportRowIs
  <2> QED
    BY <2>2 DEF FromTheRange, HeldBy
<1>3. Held(c, s) = HeldBy(V, c, s) /\ \A d : gridsOn(d) = GridsOf(V, c, s, d)
  BY DEF Held, HeldBy, GridsOf
<1>4. days = DaysOf(V, c, s)
  <2>1. \A h \in HeldBy(V, c, s) : BalancingDay(h.from, s) \in span
    <3>1. /\ \A r \in Own(V, c, s) : r.day \in span
          /\ {r.day : r \in Own(V, c, s)} = {BalancingDay(h.from, s) : h \in HeldBy(V, c, s)}
      BY <1>1, OwnFacts
    <3> HIDE DEF span, V, c, s
    <3> QED
      BY <3>1
  <2>2. \A d : GridsOf(V, c, s, d) # {} <=> d \in DaysOf(V, c, s)
    BY DEF GridsOf, DaysOf
  <2>3. DaysOf(V, c, s) \subseteq span
    BY <2>1 DEF DaysOf
  <2> HIDE DEF span, gridsOn
  <2> QED
    BY <1>3, <2>2, <2>3
<1>5. \A d : model(d) = ModelDay(DaysOf(V, c, s), d)
  <2> HIDE DEF days
  <2> QED
    BY <1>4 DEF ModelDay
<1>6. \A d : grid(d) = GridFor(V, c, s, d)
  <2> HIDE DEF model, gridsOn
  <2> QED
    BY <1>3, <1>5 DEF GridFor
<1>7. \A d \in span : due(d) = Cardinality(C[d])
  <2> SUFFICES ASSUME NEW d \in span PROVE due(d) = Cardinality(C[d])
    OBVIOUS
  <2>1. C[d] = PointsOf(d, GridFor(V, c, s, d), s, from, to)
    BY DEF Charged
  <2>2. {t \in RangePoints(GridFor(V, c, s, d), s) : BalancingDay(t, s) = d}
          = PointsOf(d, GridFor(V, c, s, d), s, from, to)
    BY DEF RangePoints, PointsOf
  <2> HIDE DEF grid, C
  <2> QED
    BY <1>6, <2>1, <2>2
<1>8. OneGridADay(V, c, s)
  <2> HIDE DEF days, gridsOn
  <2> QED
    BY <1>3, <1>4 DEF OneGridADay
<1>9. own = rows
  <2>1. phase \in {"roster", "done"}
    BY DEF ReportCoherent
  <2>2. /\ RollUp(DailyRows(V), from, to) \subseteq report
        /\ RollUp(DailyRows(V), from, to) = {RolledRow(V, r.channel, r.sparte, r.grid, from, to) : r \in V}
    BY <1>1, <2>1, RollUpRows DEF ReportCoherent, Scanned
  <2>3. ASSUME NEW y \in rows PROVE y \in own
    <3>1. PICK r \in HeldBy(V, c, s) : y = RolledRow(V, c, s, r.grid, from, to)
      BY DEF RowsOfReport
    <3>2. r \in V /\ r.channel = c /\ r.sparte = s
      BY DEF HeldBy
    <3>3. y \in report
      BY <2>2, <3>1, <3>2
    <3>4. y.channel = c /\ y.sparte = s
      BY <3>1 DEF RolledRow
    <3> QED
      BY <3>3, <3>4
  <2>4. ASSUME NEW y \in own PROVE y \in rows
    <3>1. y \in report /\ y.channel = c /\ y.sparte = s
      OBVIOUS
    <3>2. FromTheRange(y)
      <4>1. ~FromTheWindow(y)
        BY <1>2, <3>1 DEF FromTheWindow
      <4> QED
        BY <3>1, <4>1, ReportRowIs
    <3>3. PICK r \in scanned : r.channel = c /\ r.sparte = s /\ r.grid = y.grid
      BY <3>1, <3>2 DEF FromTheRange
    <3>4. r \in HeldBy(V, c, s)
      BY <3>3 DEF HeldBy
    <3>5. y = RolledRow(V, c, s, y.grid, from, to)
      BY <3>1, <3>2 DEF FromTheRange
    <3> QED
      BY <3>3, <3>4, <3>5 DEF RowsOfReport
  <2> HIDE DEF own, rows
  <2> QED
    BY <2>3, <2>4
<1>10. /\ Apart(B, rows) /\ \A y \in rows : y.expected = Cardinality(B[y])
       /\ Apart(C, span) /\ Counted(B, rows) = Counted(C, span)
  <2> HIDE DEF V, c, s, from, to
  <2> QED
    BY <1>1, <1>2, <1>8, ExpectedTogether
<1>11. IsFiniteSet(rows) /\ IsFiniteSet(span)
  BY <1>1, RowsOfReportFacts, RangeDays
<1>12. MapThenSumSet(LAMBDA y : y.expected, rows) = Counted(B, rows)
  <2> HIDE DEF rows, B
  <2> QED
    BY <1>10, <1>11, SumOfExpected
<1>13. MapThenSumSet(due, span) = Counted(C, span)
  <2> HIDE DEF due, span, C
  <2> DEFINE w == [d \in span |-> Cardinality(C[d])]
             F(h) == [z \in SUBSET span |-> IF z = {} THEN 0
                        ELSE due(CHOOSE d \in z : TRUE) + h[z \ {CHOOSE d \in z : TRUE}]]
             G(h) == [z \in SUBSET span |-> IF z = {} THEN 0
                        ELSE w[CHOOSE d \in z : TRUE] + h[z \ {CHOOSE d \in z : TRUE}]]
  <2>1. MapThenSumSet(due, span) = (CHOOSE h : h = F(h))[span]
    BY DEF MapThenSumSet, MapThenFoldSet
  <2>2. SumOver(w, span) = (CHOOSE h : h = G(h))[span]
    BY DEF SumOver, MapThenSumSet, MapThenFoldSet
  <2>3. \A h : F(h) = G(h)
    BY <1>7
  <2>4. SumOver(w, span) = Counted(C, span)
    <3>1. \A d \in span : w[d] = Cardinality(C[d])
      OBVIOUS
    <3> HIDE DEF w
    <3> QED
      BY <1>10, <1>11, <3>1, SumOverCounts
  <2> HIDE DEF F, G
  <2>5. (CHOOSE h : h = F(h)) = (CHOOSE h : h = G(h))
    BY <2>3
  <2> QED
    BY <2>1, <2>2, <2>4, <2>5
<1> HIDE DEF own, rows, due, span, B, C
<1> QED
  BY <1>9, <1>10, <1>12, <1>13

\* A day nobody delivered on is charged to one grid only, the one that was in force: what
\* the rows of a channel expect adds up to what the days owe (roll_up, grids in force).
THEOREM AbsentDayChargedOnceAlways == Spec => []AbsentDayChargedOnce
  BY ReportCoherentAlways, DayChargedOnce, PTL

-----------------------------------------------------------------------------
(* Types.                                                                   *)

RequestTyped == request \in Request /\ (request.since = None \/ request.since < request.from)

LEMMA RequestSteps ==
  /\ Init => RequestTyped
  /\ RequestTyped /\ [Next]_vars => RequestTyped'
<1>1. Init => RequestTyped
  BY DEF Init, NoRequest, Request, RequestTyped
<1>2. ASSUME RequestTyped, [Next]_vars PROVE RequestTyped'
  <2>1. ASSUME NEW args \in Calls, NEW only \in Narrowings, Call(args, only) PROVE RequestTyped'
    <3> DEFINE p == Parsed(args)
    <3>1. /\ Accepts(p)
          /\ request' = [from |-> p.from.at, to |-> p.to.at, only |-> only,
                         since |-> IF p.since = {} THEN None ELSE (CHOOSE a \in p.since : TRUE).at]
      BY <2>1 DEF Call
    <3>2. Dates(p.from.at, p.to.at) /\ \A a \in p.since : a.at \in Int
      BY <3>1, CallsAssumption
    <3>3. \A a \in p.since : a.at < p.from.at
      BY <3>1 DEF Accepts
    <3> HIDE DEF p
    <3>4. p.since # {} => (CHOOSE a \in p.since : TRUE) \in p.since
      OBVIOUS
    <3>5. request' \in Request
      BY <3>1, <3>2, <3>4, CallsAssumption DEF Request, Dates
    <3>6. request'.since = None \/ request'.since < request'.from
      BY <3>1, <3>3, <3>4
    <3> QED
      BY <3>5, <3>6 DEF RequestTyped
  <2>2. CASE UNCHANGED request
    BY <1>2, <2>2 DEF RequestTyped
  <2> QED
    BY <1>2, <2>1, <2>2 DEF Next, vars, Refuse, ScanRange, ScanRoster, Deliver
<1> QED
  BY <1>1, <1>2

\* The earliest of some days of a range.
LEMMA EarliestOf ==
  ASSUME NEW s \in Sparten, NEW from, NEW to, Dates(from, to),
         NEW S, S \subseteq DaySpan(from, to, s), S # {}
  PROVE  Min(S) \in Days
<1> DEFINE a == BalancingDay(from, s)
           b == BalancingDay(to - 1, s)
<1>1. a \in Int /\ b \in Int
  <2>1. Dated(from, s) /\ Dated(to - 1, s)
    BY DEF Dates
  <2> QED
    BY <2>1, TheDay, CalendarAssumption
<1>2. DaySpan(from, to, s) = a..b /\ DaySpan(from, to, s) \subseteq Days
  BY RangeDays DEF DaySpan
<1> HIDE DEF a, b
<1>3. S \subseteq Int /\ \A d \in S : a <= d
  BY <1>1, <1>2
<1>4. Min(S) \in S
  BY <1>1, <1>3, LeastOf
<1> QED
  BY <1>2, <1>4

\* What is short of numbers is a number.
LEMMA ShortfallType ==
  ASSUME NEW S, IsFiniteSet(S), NEW e, NEW a, \A x \in S : e[x] \in Nat /\ a[x] \in Nat
  PROVE  Shortfall(S, e, a) \in Nat
<1> DEFINE lack(x) == Lack(a[x], e[x])
           A == [x \in S |-> Tagged(x, lack(x))]
<1>1. \A x \in S : lack(x) \in Nat
  BY DEF Lack
<1>2. \A x \in S : IsFiniteSet(A[x]) /\ Cardinality(A[x]) = lack(x)
  BY <1>1, TaggedSize
<1>3. Apart(A, S)
  <2>1. \A x, y \in S : x # y => A[x] \intersect A[y] = {}
    BY DEF Tagged
  <2> HIDE DEF A
  <2> QED
    BY <1>2, <2>1 DEF Apart
<1>4. \A x \in S : e[x] \in Int /\ a[x] \in Int /\ Cardinality(A[x]) = Lack(a[x], e[x])
  BY <1>2
<1> HIDE DEF A
<1>5. Shortfall(S, e, a) = Counted(A, S)
  BY <1>3, <1>4, ShortfallCounts
<1>6. Counted(A, S) \in Nat
  <2>1. S \in SUBSET S
    OBVIOUS
  <2> QED
    BY <1>3, <2>1, CountedType
<1> QED
  BY <1>5, <1>6

LEMMA RolledTyped ==
  ASSUME NEW V, NEW from, NEW to, Scanned(V, from, to), NEW c \in Channels, NEW s \in Sparten,
         NEW g \in Resolutions
  PROVE  RolledRow(V, c, s, g, from, to) \in ReportRow
<1> DEFINE x == RolledRow(V, c, s, g, from, to)
           owed == Owed(g, s, from, to)
           had == Had(V, c, s, g, from, to)
           judged == Judged(V, c, s, g, from, to)
           short == Short(V, c, s, g, from, to)
<1>1. Resolved(V) /\ Dates(from, to)
  BY DEF Scanned
<1>2. /\ IsFiniteSet(judged) /\ judged \subseteq DaySpan(from, to, s)
      /\ \A d \in judged : had[d] \in Nat /\ owed[d] \in Nat
  BY RolledNumbers
<1>3. OwedInAll(g, s, from, to, judged) \in Nat
  <2>1. /\ IsFiniteSet(PointsJudged(V, c, s, g, from, to))
        /\ x.expected = Cardinality(PointsJudged(V, c, s, g, from, to))
    BY ExpectedPoints
  <2>2. x.expected = OwedInAll(g, s, from, to, judged)
    BY DEF RolledRow
  <2> HIDE DEF x, judged
  <2> QED
    BY <2>1, <2>2, FS_CardinalityType
<1>4. \A M \in SUBSET DailyRows(V) : Total(M) \in Nat
  BY <1>1, TotalCounts
<1>5. Mine(V, c, s, g) \in SUBSET DailyRows(V)
  BY DEF Mine, Own
<1>6. /\ Total(Mine(V, c, s, g)) \in Nat
      /\ Total({r \in Mine(V, c, s, g) : IsSubstitute(r.quality)}) \in Nat
      /\ Total({r \in Mine(V, c, s, g) : ~IsBillable(r.quality)}) \in Nat
  BY <1>4, <1>5
<1>7. Shortfall(judged, owed, had) \in Nat /\ Shortfall(judged, had, owed) \in Nat
  <2> HIDE DEF judged, owed, had
  <2> QED
    BY <1>2, ShortfallType
<1>8. (IF short = {} THEN None ELSE Min(short)) \in Days \union {None}
  <2>1. short \subseteq DaySpan(from, to, s)
    BY <1>2 DEF Short
  <2> HIDE DEF short
  <2> QED
    BY <1>1, <2>1, EarliestOf
<1> QED
  BY <1>3, <1>6, <1>7, <1>8 DEF RolledRow, ReportRow

LEMMA SilentTyped ==
  ASSUME NEW k \in Keys, NEW from, NEW to, Dates(from, to)
  PROVE  Silent(k, from, to) \in ReportRow
<1> DEFINE g == k.grid
           s == k.sparte
           span == DaySpan(from, to, s)
           owed == Owed(g, s, from, to)
           days == {d \in span : owed[d] > 0}
           x == Silent(k, from, to)
<1>1. g \in Resolutions /\ s \in Sparten /\ k.channel \in Channels
  BY DEF Keys
<1>2. SumOver(owed, span) \in Nat
  <2>1. x.missing = Cardinality(PointsIn(g, s, from, to)) /\ x.missing = SumOver(owed, span)
    BY SilentLacks, SilentIs DEF SilentRow
  <2>2. IsFiniteSet(PointsIn(g, s, from, to))
    <3>1. from \in Int /\ to - 1 \in Int
      BY <1>1, RangeDays
    <3>2. PointsIn(g, s, from, to) \in SUBSET (from..(to - 1))
      BY DEF PointsIn
    <3>3. IsFiniteSet(from..(to - 1))
      BY <3>1, FS_Interval
    <3> QED
      BY <3>2, <3>3, FS_Subset
  <2> HIDE DEF x, owed, span
  <2> QED
    BY <2>1, <2>2, FS_CardinalityType
<1>3. (IF days = {} THEN None ELSE Min(days)) \in Days \union {None}
  <2>1. days \subseteq span
    OBVIOUS
  <2> HIDE DEF days
  <2> QED
    BY <1>1, <2>1, EarliestOf
<1>4. x = SilentRow(k, from, to)
  BY SilentIs
<1> HIDE DEF x
<1> QED
  BY <1>1, <1>2, <1>3, <1>4 DEF SilentRow, ReportRow, x

LEMMA Typed == ReportCoherent /\ RequestTyped => TypeOK
<1> SUFFICES ASSUME ReportCoherent, RequestTyped PROVE TypeOK
  OBVIOUS
<1>1. phase \in {"idle", "range", "roster", "done", "refused"}
  BY DEF ReportCoherent
<1>2. ASSUME NEW x \in report PROVE x \in ReportRow
  <2>1. /\ Scanned(scanned, request.from, request.to)
        /\ x.sparte \in Sparten /\ x.grid \in Resolutions
        /\ FromTheRange(x) \/ FromTheWindow(x)
    BY ReportRowIs
  <2>2. Dates(request.from, request.to) /\ \A r \in scanned : r.channel \in Channels
    BY <2>1 DEF Scanned, Resolved
  <2>3. CASE FromTheRange(x)
    <3>1. /\ x = RolledRow(scanned, x.channel, x.sparte, x.grid, request.from, request.to)
          /\ x.channel \in Channels
      BY <2>2, <2>3 DEF FromTheRange
    <3> QED
      BY <2>1, <3>1, RolledTyped
  <2>4. CASE FromTheWindow(x)
    <3>1. PICK k \in Keys : x = Silent(k, request.from, request.to)
      BY <2>4 DEF FromTheWindow
    <3> QED
      BY <2>2, <3>1, SilentTyped
  <2> QED
    BY <2>1, <2>3, <2>4
<1>3. \A r \in scanned : r.channel \in Channels /\ request.from <= r.from /\ r.from < request.to
  <2>1. CASE scanned = {}
    BY <2>1
  <2>2. CASE scanned # {}
    <3>1. phase \in {"roster", "done"}
      BY <2>2, <1>1 DEF ReportCoherent
    <3>2. scanned = In(scanned, request.from, request.to) /\ Resolved(scanned)
      BY <3>1 DEF ReportCoherent
    <3> QED
      BY <3>2 DEF In, Resolved
  <2> QED
    BY <2>1, <2>2
<1>4. ASSUME NEW x \in report, NEW y \in report,
             x.channel = y.channel, x.sparte = y.sparte, x.grid = y.grid
      PROVE  x = y
  <2>1. (FromTheRange(x) \/ FromTheWindow(x)) /\ (FromTheRange(y) \/ FromTheWindow(y))
    BY ReportRowIs
  <2>2. CASE FromTheRange(x) /\ FromTheRange(y)
    BY <1>4, <2>2 DEF FromTheRange
  <2>3. CASE FromTheWindow(x) /\ FromTheWindow(y)
    <3>1. PICK k \in Keys : /\ x = Silent(k, request.from, request.to)
                            /\ k.channel = x.channel /\ k.sparte = x.sparte /\ k.grid = x.grid
      BY <2>3 DEF FromTheWindow
    <3>2. PICK l \in Keys : /\ y = Silent(l, request.from, request.to)
                            /\ l.channel = y.channel /\ l.sparte = y.sparte /\ l.grid = y.grid
      BY <2>3 DEF FromTheWindow
    <3>3. k = l
      BY <1>4, <3>1, <3>2 DEF Keys
    <3> QED
      BY <3>1, <3>2, <3>3
  <2>4. \A z \in report : ~(FromTheRange(z) /\ HeldBy(scanned, z.channel, z.sparte) = {})
    BY DEF FromTheRange, HeldBy
  <2>5. (FromTheWindow(x) => ~FromTheRange(y)) /\ (FromTheWindow(y) => ~FromTheRange(x))
    BY <1>4, <2>4 DEF FromTheWindow
  <2> QED
    BY <2>1, <2>2, <2>3, <2>5
<1> QED
  BY <1>1, <1>2, <1>3, <1>4 DEF TypeOK, RequestTyped

\* Every report is one: numbers of intervals, a first gap that is a day, and one row for
\* each channel and grid.
THEOREM ReportTyped == Spec => []TypeOK
<1>1. Spec => []RequestTyped
  BY RequestSteps, PTL DEF Spec
<1> QED
  BY <1>1, ReportCoherentAlways, Typed, PTL
=============================================================================
