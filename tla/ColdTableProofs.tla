-------------------------- MODULE ColdTableProofs --------------------------
(***************************************************************************)
(* What the cold table promises, for any rows, windows and number of       *)
(* queries, and for any bounds: its files are there, its boundary is       *)
(* found and is the furthest, its past is reproducible, and a query that   *)
(* trusts the statistics reads no key twice.                               *)
(***************************************************************************)
EXTENDS ColdTable, Counting

-----------------------------------------------------------------------------
(* Numbers.                                                                 *)

\* A finite set of numbers has a highest and a lowest.
LEMMA FiniteHighest ==
  ASSUME NEW S, S \subseteq Nat, S # {}, IsFiniteSet(S)
  PROVE  Highest(S) \in S /\ \A n \in S : n <= Highest(S)
<1> DEFINE Topless(R) == R # {} /\ \A h \in R : \E n \in R : ~(n <= h)
           T == {n \in Nat : \E R \in SUBSET S : Topless(R) /\ n = Cardinality(R)}
<1>1. SUFFICES ASSUME Topless(S) PROVE FALSE
  BY DEF Highest
<1>2. T # {} /\ T \subseteq Nat
  BY <1>1, FS_CardinalityType
<1>3. PICK least \in T : \A n \in T : least <= n
  BY <1>2, LeastNatural
<1>4. PICK R \in SUBSET S : Topless(R) /\ least = Cardinality(R)
  BY <1>3
<1>5. PICK x \in R : TRUE
  BY <1>4
<1>6. IsFiniteSet(R) /\ IsFiniteSet(R \ {x})
  BY FS_Subset
<1>7. Cardinality(R \ {x}) = Cardinality(R) - 1
  BY <1>5, <1>6, FS_RemoveElement
<1>8. Cardinality(R \ {x}) \in Nat /\ Cardinality(R) \in Nat
  BY <1>6, FS_CardinalityType
<1>9. ~Topless(R \ {x})
  <2>1. Topless(R \ {x}) => Cardinality(R \ {x}) \in T
    BY <1>8
  <2>2. ~(least <= Cardinality(R \ {x}))
    BY <1>4, <1>7, <1>8
  <2> HIDE DEF T, Topless
  <2> QED
    BY <2>1, <2>2, <1>3
<1>10. R \ {x} # {}
  BY <1>4, <1>5
<1>11. PICK h \in R \ {x} : \A n \in R \ {x} : n <= h
  BY <1>9, <1>10
<1> QED
  BY <1>4, <1>5, <1>11

LEMMA LowestOf ==
  ASSUME NEW S, S \subseteq Nat, S # {}
  PROVE  Lowest(S) \in S /\ \A n \in S : Lowest(S) <= n
  BY LeastNatural DEF Lowest

-----------------------------------------------------------------------------
(* The walks.                                                               *)

Chain == \A id \in DOMAIN snaps : snaps[id].parent + 1 = id

\* The snapshots a table lists that say something, and what the last of them says.
Saying(table, key) == {id \in table.live : snaps[id][key] # None}

LEMMA SayingHighest ==
  ASSUME NEW table \in Tables, Listed(table), NEW S, S \subseteq table.live, S # {}
  PROVE  Highest(S) \in S /\ \A n \in S : n <= Highest(S)
<1>1. IsFiniteSet(1..table.current) /\ table.live \subseteq 1..table.current
  BY FS_Interval DEF Listed, Tables
<1>2. S \in SUBSET (1..table.current) /\ S \subseteq Nat
  BY <1>1
<1>3. IsFiniteSet(S)
  BY <1>1, <1>2, FS_Subset
<1> QED
  BY <1>2, <1>3, FiniteHighest

\* summary_property finds what the last listed snapshot to say anything says.
LEMMA WalkFinds ==
  ASSUME TypeOK, Chain, NEW table \in Tables, Listed(table), NEW key
  PROVE  SummaryProperty(table, key) =
           IF Saying(table, key) = {} THEN None
           ELSE snaps[Highest(Saying(table, key))][key]
<1> DEFINE
      F(g) == [id \in 0..Len(snaps) |->
                 IF id \notin table.live THEN None
                 ELSE IF snaps[id][key] # None THEN snaps[id][key] ELSE g[snaps[id].parent]]
      upto(id) == {s \in Saying(table, key) : s <= id}
      closed == [id \in 0..Len(snaps) |->
                   IF id \notin table.live \/ upto(id) = {} THEN None
                   ELSE snaps[Highest(upto(id))][key]]
      found == CHOOSE g : g = F(g)
<1>1. SummaryProperty(table, key) = found[table.current]
  BY DEF SummaryProperty
<1>2. /\ Len(snaps) \in Nat /\ table.current \in 0..Len(snaps)
      /\ table.live \subseteq 1..Len(snaps) /\ table.live \subseteq 1..table.current
      /\ DOMAIN snaps = 1..Len(snaps)
      /\ \A id \in DOMAIN snaps : snaps[id].parent \in Nat
  <2>1. Len(snaps) \in Nat /\ DOMAIN snaps = 1..Len(snaps)
    BY DEF TypeOK
  <2>2. table.current \in 0..Len(snaps) /\ table.live \subseteq 1..table.current
    BY <2>1 DEF Tables, Listed
  <2>3. \A id \in DOMAIN snaps : snaps[id].parent \in Nat
    <3> SUFFICES ASSUME NEW id \in DOMAIN snaps PROVE snaps[id].parent \in Nat
      OBVIOUS
    <3>1. snaps[id] \in Snapshots
      BY DEF TypeOK
    <3> QED
      BY <3>1 DEF Snapshots
  <2> QED
    BY <2>1, <2>2, <2>3
<1>3. ASSUME NEW id \in 0..Len(snaps) PROVE closed[id] = F(closed)[id]
  <2>1. CASE id \notin table.live
    BY <2>1
  <2>2. CASE id \in table.live /\ snaps[id][key] # None
    <3>1. id \in upto(id)
      BY <2>2, <1>2 DEF Saying
    <3>4. upto(id) \subseteq table.live /\ upto(id) \subseteq Nat
      BY <1>2 DEF Saying
    <3>2. Highest(upto(id)) \in upto(id) /\ \A n \in upto(id) : n <= Highest(upto(id))
      BY <3>1, <3>4, SayingHighest
    <3>3. Highest(upto(id)) = id
      <4>1. id <= Highest(upto(id)) /\ Highest(upto(id)) <= id
        BY <3>1, <3>2
      <4> QED
        BY <4>1, <3>2, <3>4
    <3> QED
      BY <2>2, <3>1, <3>3
  <2>3. CASE id \in table.live /\ snaps[id][key] = None
    <3>1. snaps[id].parent = id - 1 /\ id - 1 \in 0..Len(snaps)
      BY <2>3, <1>2 DEF Chain
    <3>2. upto(id) = upto(id - 1)
      BY <2>3, <1>2 DEF Saying
    <3>3. id - 1 \notin table.live => upto(id - 1) = {}
      <4> SUFFICES ASSUME NEW s \in upto(id - 1) PROVE id - 1 \in table.live
        OBVIOUS
      <4>1. s \in table.live /\ s <= id - 1 /\ id - 1 <= table.current
        BY <2>3, <1>2 DEF Saying, Listed
      <4> QED
        BY <4>1, <1>2 DEF Listed
    <3> QED
      BY <2>3, <3>1, <3>2, <3>3
  <2> QED
    BY <2>1, <2>2, <2>3
<1>4. closed = F(closed)
  BY <1>3
<1>5. found = F(found)
  BY <1>4
<1>6. ASSUME NEW id \in 0..Len(snaps) PROVE found[id] = closed[id]
  <2>1. ASSUME NEW n \in 0..Len(snaps), \A m \in 0..Len(snaps) : m < n => found[m] = closed[m]
        PROVE  found[n] = closed[n]
    <3>1. found[n] = F(found)[n] /\ closed[n] = F(closed)[n]
      BY <1>4, <1>5
    <3>2. n \in table.live => /\ snaps[n].parent \in 0..Len(snaps) /\ snaps[n].parent < n
      BY <1>2 DEF Chain
    <3> QED
      BY <2>1, <3>1, <3>2
  <2>2. 0..Len(snaps) \subseteq Nat
    BY <1>2
  <2> DEFINE D == 0..Len(snaps)
  <2>3. SameSteps(D, found, closed)
    BY <2>1 DEF SameSteps
  <2>5. D \subseteq Nat
    BY <2>2
  <2> HIDE DEF found, closed, D
  <2>4. SameValues(D, found, closed)
    BY <2>3, <2>5, SameRecursion
  <2> QED
    BY <2>4 DEF D, SameValues
<1>7. found[table.current] = closed[table.current]
  <2> HIDE DEF found, closed
  <2> QED
    BY <1>2, <1>6
<1>8. upto(table.current) = Saying(table, key)
  BY <1>2 DEF Saying, Listed
<1>9. Saying(table, key) # {} => table.current \in table.live
  BY <1>2 DEF Saying, Listed
<1> QED
  BY <1>1, <1>2, <1>7, <1>8, <1>9 DEF Listed

-----------------------------------------------------------------------------
(* Types of what is looked up.                                              *)

LEMMA Lengths ==
  ASSUME TypeOK
  PROVE  /\ Len(snaps) \in Nat /\ DOMAIN snaps = 1..Len(snaps)
         /\ Len(file) \in Nat /\ DOMAIN file = 1..Len(file)
  BY DEF TypeOK

LEMMA SnapshotType ==
  ASSUME TypeOK, NEW id \in DOMAIN snaps
  PROVE  /\ snaps[id] \in Snapshots
         /\ snaps[id].parent \in Nat /\ snaps[id].mark \in Nat \union {None}
         /\ snaps[id].step \in {1, None} /\ snaps[id].files \subseteq Nat
         /\ snaps[id].at \in Nat
<1>1. snaps[id] \in Snapshots
  BY DEF TypeOK
<1> QED
  BY <1>1 DEF Snapshots

LEMMA FileType ==
  ASSUME TypeOK, NEW f \in DOMAIN file
  PROVE  file[f].rows \subseteq Rows /\ file[f].spanned \in BOOLEAN
<1>1. file[f] \in Files
  BY DEF TypeOK
<1> QED
  BY <1>1 DEF Files

LEMMA TableType ==
  ASSUME TypeOK, NEW table \in Tables, Listed(table)
  PROVE  /\ table.version \in Nat /\ table.current \in 0..Len(snaps)
         /\ table.live \subseteq DOMAIN snaps /\ table.live \subseteq 1..table.current
         /\ table.live \subseteq Nat
         /\ \A id \in table.live, next \in 1..table.current : id <= next => next \in table.live
  BY Lengths DEF Tables, Listed

\* The boundary a table states.
LEMMA WatermarkStated ==
  ASSUME TypeOK, Chain, NEW table \in Tables, Listed(table)
  PROVE  /\ WatermarkOf(table) \in Nat
         /\ table.current = 0 => WatermarkOf(table) = 0
         /\ table.current # 0 =>
              /\ Saying(table, "mark") # {}
              /\ WatermarkOf(table) = snaps[Highest(Saying(table, "mark"))].mark
              /\ Highest(Saying(table, "mark")) \in Saying(table, "mark")
              /\ \A id \in Saying(table, "mark") : id <= Highest(Saying(table, "mark"))
<1>1. CASE table.current = 0
  BY <1>1 DEF WatermarkOf
<1>2. CASE table.current # 0
  <2>1. Saying(table, "mark") # {} /\ Saying(table, "mark") \subseteq table.live
    BY <1>2 DEF Listed, Saying
  <2>2. /\ Highest(Saying(table, "mark")) \in Saying(table, "mark")
        /\ \A id \in Saying(table, "mark") : id <= Highest(Saying(table, "mark"))
    BY <2>1, SayingHighest
  <2>3. WatermarkOf(table) = snaps[Highest(Saying(table, "mark"))].mark
    BY <1>2, <2>1, WalkFinds DEF WatermarkOf
  <2>4. snaps[Highest(Saying(table, "mark"))].mark \in Nat
    BY <2>2, TableType, SnapshotType DEF Saying
  <2> QED
    BY <1>2, <2>1, <2>2, <2>3, <2>4
<1> QED
  BY <1>1, <1>2

\* Expiry spares an end of what is listed, with a snapshot that states the boundary.
LEMMA ProtectedKeeps ==
  ASSUME TypeOK, Chain, NEW table \in Tables, Listed(table), table.current # 0
  PROVE  /\ \E id \in table.live : id \in Protected(table) /\ snaps[id].mark # None
         /\ \A id, next \in table.live :
              id \in Protected(table) /\ id <= next => next \in Protected(table)
<1> DEFINE
      F(g) == [id \in 0..Len(snaps) |->
                 IF id \notin table.live THEN {}
                 ELSE IF snaps[id].mark # None THEN {id} ELSE {id} \union g[snaps[id].parent]]
      closed == [id \in 0..Len(snaps) |->
                   {s \in table.live : s <= id /\ id \in table.live /\
                      \A t \in table.live : s < t /\ t <= id => snaps[t].mark = None}]
      path == CHOOSE g : g = F(g)
      newest == {id \in table.live :
                   Cardinality({other \in table.live : other > id})
                     < (IF RetainLast = 0 THEN 1 ELSE RetainLast)}
<1>0. /\ Len(snaps) \in Nat /\ DOMAIN snaps = 1..Len(snaps)
      /\ table.current \in 0..Len(snaps) /\ table.current \in Nat
      /\ table.live \subseteq DOMAIN snaps /\ table.live \subseteq 1..table.current
      /\ \A id \in table.live, next \in 1..table.current : id <= next => next \in table.live
  BY TableType, Lengths
<1>1. Protected(table) = path[table.current] \union newest
  BY DEF Protected
<1>2. ASSUME NEW id \in 0..Len(snaps) PROVE closed[id] = F(closed)[id]
  <2>1. CASE id \notin table.live
    BY <2>1
  <2>2. CASE id \in table.live /\ snaps[id].mark # None
    <3>1. \A s \in closed[id] : ~(s < id)
      BY <2>2, TableType
    <3>2. id \in closed[id]
      BY <2>2, TableType
    <3> QED
      BY <2>2, <3>1, <3>2, TableType
  <2>3. CASE id \in table.live /\ snaps[id].mark = None
    <3>5. id \in DOMAIN snaps /\ id \in 1..Len(snaps)
      BY <2>3, <1>0
    <3>6. snaps[id].parent \in Nat /\ snaps[id].parent + 1 = id
      BY <3>5, SnapshotType DEF Chain
    <3>1. snaps[id].parent = id - 1 /\ id - 1 \in 0..Len(snaps)
      BY <3>5, <3>6, <1>0
    <3>2. id \in closed[id]
      BY <2>3, TableType
    <3>3. ASSUME NEW s \in closed[id], s # id PROVE s \in closed[id - 1]
      <4>1. s <= id - 1 /\ s \in table.live
        BY <2>3, <3>3, TableType
      <4>2. id - 1 \in table.live
        BY <2>3, <4>1, TableType
      <4> QED
        BY <3>1, <3>3, <4>1, <4>2, <2>3, TableType
    <3>4. ASSUME NEW s \in closed[id - 1] PROVE s \in closed[id]
      <4>1. s \in table.live /\ s <= id - 1
        BY <3>1
      <4>2. ASSUME NEW t \in table.live, s < t, t <= id PROVE snaps[t].mark = None
        BY <2>3, <3>1, <3>4, <4>2, TableType
      <4>3. s <= id
        BY <4>1, <2>3, TableType
      <4> QED
        BY <4>1, <4>2, <4>3, <2>3
    <3> HIDE DEF closed
    <3> QED
      BY <2>3, <3>1, <3>2, <3>3, <3>4
  <2> QED
    BY <2>1, <2>2, <2>3
<1>3. closed = F(closed)
  BY <1>2
<1>4. path = F(path)
  BY <1>3
<1>5. path[table.current] = closed[table.current]
  <2>1. ASSUME NEW n \in 0..Len(snaps), \A m \in 0..Len(snaps) : m < n => path[m] = closed[m]
        PROVE  path[n] = closed[n]
    <3>1. path[n] = F(path)[n] /\ closed[n] = F(closed)[n]
      BY <1>3, <1>4
    <3>2. n \in table.live => /\ snaps[n].parent \in 0..Len(snaps) /\ snaps[n].parent < n
      BY Lengths, TableType, SnapshotType DEF Chain
    <3> QED
      BY <2>1, <3>1, <3>2
  <2>2. 0..Len(snaps) \subseteq Nat /\ table.current \in 0..Len(snaps)
    BY Lengths, TableType
  <2> DEFINE D == 0..Len(snaps)
  <2>3. SameSteps(D, path, closed)
    BY <2>1 DEF SameSteps
  <2>5. D \subseteq Nat
    BY <2>2
  <2> HIDE DEF path, closed, D
  <2>4. SameValues(D, path, closed)
    BY <2>3, <2>5, SameRecursion
  <2> QED
    BY <2>2, <2>4 DEF D, SameValues
<1>6. table.current \in table.live
  BY TableType, Lengths DEF Listed
<1>7. path[table.current] =
        {s \in table.live : \A t \in table.live : s < t => snaps[t].mark = None}
  <2>1. \A t \in table.live : t <= table.current
    BY <1>0
  <2>2. closed[table.current] =
          {s \in table.live : \A t \in table.live : s < t => snaps[t].mark = None}
    BY <1>0, <1>6, <2>1
  <2> QED
    BY <1>5, <2>2
<1>8. \E id \in table.live : id \in path[table.current] /\ snaps[id].mark # None
  <2>1. /\ Highest(Saying(table, "mark")) \in Saying(table, "mark")
        /\ \A id \in Saying(table, "mark") : id <= Highest(Saying(table, "mark"))
    BY WatermarkStated
  <2>2. ASSUME NEW t \in table.live, Highest(Saying(table, "mark")) < t
        PROVE  snaps[t].mark = None
    <3> SUFFICES ASSUME snaps[t].mark # None PROVE FALSE
      OBVIOUS
    <3>1. t \in Saying(table, "mark")
      BY DEF Saying
    <3>2. t <= Highest(Saying(table, "mark")) /\ Highest(Saying(table, "mark")) \in Nat /\ t \in Nat
      BY <2>1, <3>1, <1>0 DEF Saying
    <3> QED
      BY <2>2, <3>2
  <2> HIDE DEF path
  <2> QED
    BY <1>7, <2>1, <2>2 DEF Saying
<1>9. ASSUME NEW id \in table.live, NEW next \in table.live, id <= next
      PROVE  /\ id \in path[table.current] => next \in path[table.current]
             /\ id \in newest => next \in newest
  <2>1. id \in path[table.current] => next \in path[table.current]
    <3> HIDE DEF path
    <3> QED
      BY <1>7, <1>9, TableType
  <2>2. ASSUME id \in newest PROVE next \in newest
    <3> DEFINE after(n) == {other \in table.live : other > n}
    <3>1. after(next) \in SUBSET after(id)
      BY <1>9, TableType
    <3>0. table.current \in Int /\ table.live \subseteq 1..table.current
      BY <1>0
    <3>2. IsFiniteSet(1..table.current) /\ after(id) \in SUBSET (1..table.current)
      <4>1. after(id) \subseteq 1..table.current
        BY <3>0
      <4>2. IsFiniteSet(1..table.current)
        BY <3>0, FS_Interval
      <4> QED
        BY <4>1, <4>2
    <3>3. IsFiniteSet(after(id))
      BY <3>2, FS_Subset
    <3>4. Cardinality(after(next)) <= Cardinality(after(id))
      BY <3>1, <3>3, FS_Subset
    <3>5. IsFiniteSet(after(next))
      BY <3>1, <3>3, FS_Subset
    <3>6. Cardinality(after(next)) \in Nat /\ Cardinality(after(id)) \in Nat
      BY <3>3, <3>5, FS_CardinalityType
    <3>7. Cardinality(after(id)) < (IF RetainLast = 0 THEN 1 ELSE RetainLast)
      BY <2>2
    <3> HIDE DEF after
    <3>8. Cardinality(after(next)) < (IF RetainLast = 0 THEN 1 ELSE RetainLast)
      BY <3>4, <3>6, <3>7, ColdAssumption
    <3> USE DEF after
    <3> QED
      BY <3>8
  <2> QED
    BY <2>1, <2>2
<1> HIDE DEF path, newest
<1> QED
  BY <1>1, <1>8, <1>9

\* The boundary a snapshot was committed at is what the last to state one by then says.
LEMMA ThenStated ==
  ASSUME TypeOK, Chain, Len(snaps) # 0 => snaps[1].mark # None, NEW id \in DOMAIN snaps
  PROVE  LET by == {s \in DOMAIN snaps : s <= id /\ snaps[s].mark # None}
         IN  /\ Highest(by) \in by /\ \A s \in by : s <= Highest(by)
             /\ BoundaryThen[id] = snaps[Highest(by)].mark
<1> DEFINE
      F(g) == [n \in DOMAIN snaps |->
                 IF snaps[n].mark # None THEN snaps[n].mark
                 ELSE IF snaps[n].parent = 0 THEN 0 ELSE g[snaps[n].parent]]
      by(n) == {s \in DOMAIN snaps : s <= n /\ snaps[s].mark # None}
      closed == [n \in DOMAIN snaps |-> snaps[Highest(by(n))].mark]
      then == CHOOSE g : g = F(g)
<1>0. /\ Len(snaps) \in Nat /\ DOMAIN snaps = 1..Len(snaps) /\ snaps[1].mark # None
      /\ \A n \in DOMAIN snaps : snaps[n].parent \in Nat /\ snaps[n].parent + 1 = n
  BY Lengths, SnapshotType DEF Chain
<1>1. BoundaryThen = then
  BY DEF BoundaryThen
<1>2. ASSUME NEW n \in DOMAIN snaps
      PROVE  Highest(by(n)) \in by(n) /\ \A s \in by(n) : s <= Highest(by(n))
  <2>1. 1 \in by(n) /\ by(n) \in SUBSET (1..Len(snaps)) /\ by(n) \subseteq Nat
    BY <1>0
  <2>3. IsFiniteSet(1..Len(snaps))
    BY <1>0, FS_Interval
  <2> HIDE DEF by
  <2>2. IsFiniteSet(by(n))
    BY <2>1, <2>3, FS_Subset
  <2> HIDE DEF by
  <2> QED
    BY <2>1, <2>2, FiniteHighest
<1>3. ASSUME NEW n \in DOMAIN snaps PROVE closed[n] = F(closed)[n]
  <2>1. CASE snaps[n].mark # None
    <3>1. n \in by(n)
      BY <2>1, <1>0
    <3>2. n <= Highest(by(n)) /\ Highest(by(n)) \in by(n)
      <4> HIDE DEF by
      <4> QED
        BY <3>1, <1>2
    <3>3. Highest(by(n)) = n
      <4>1. Highest(by(n)) <= n /\ Highest(by(n)) \in Nat /\ n \in Nat
        BY <3>2, <1>0
      <4> QED
        BY <3>2, <4>1
    <3> QED
      BY <2>1, <3>3
  <2>2. CASE snaps[n].mark = None
    <3>1. n # 1 /\ snaps[n].parent = n - 1 /\ n - 1 \in DOMAIN snaps
      BY <2>2, <1>0
    <3>2. by(n) = by(n - 1)
      BY <2>2, <3>1, <1>0
    <3>3. closed[n] = closed[n - 1]
      BY <3>1, <3>2
    <3> HIDE DEF closed
    <3> QED
      BY <2>2, <3>1, <3>3, <1>0
  <2> QED
    BY <2>1, <2>2
<1>4. closed = F(closed)
  BY <1>3
<1>5. then = F(then)
  BY <1>4
<1>6. ASSUME NEW n \in DOMAIN snaps, \A m \in DOMAIN snaps : m < n => then[m] = closed[m]
      PROVE  then[n] = closed[n]
  <2>1. then[n] = F(then)[n] /\ closed[n] = F(closed)[n]
    BY <1>4, <1>5
  <2>2. snaps[n].parent # 0 => snaps[n].parent \in DOMAIN snaps /\ snaps[n].parent < n
    BY <1>0
  <2> QED
    BY <1>6, <2>1, <2>2
<1>7. SameSteps(DOMAIN snaps, then, closed) /\ DOMAIN snaps \subseteq Nat
  <2>1. DOMAIN snaps \subseteq Nat
    BY <1>0
  <2> HIDE DEF then, closed
  <2> QED
    BY <1>6, <2>1 DEF SameSteps
<1> HIDE DEF then
<1>8. SameValues(DOMAIN snaps, then, closed)
  <2> HIDE DEF closed
  <2> QED
    BY <1>7, SameRecursion
<1>9. then[id] = closed[id]
  BY <1>8 DEF SameValues
<1> QED
  BY <1>1, <1>2, <1>9

-----------------------------------------------------------------------------
(* Types are kept.                                                          *)

LEMMA ChainFollows ==
  ASSUME ChainCoherent
  PROVE  Chain
  BY DEF ChainCoherent, Chain

LEMMA RunType ==
  ASSUME TypeOK, NEW p \in Writers
  PROVE  /\ run[p] \in Runs /\ run[p].pc \in Phases /\ run[p].advance \in BOOLEAN
         /\ run[p].rows \subseteq Rows /\ run[p].to \in Nat /\ run[p].file \in Nat
         /\ run[p].base \in Tables /\ run[p].attempt \in Nat
         /\ run[p].kept \subseteq Nat /\ run[p].doomed \subseteq Nat
<1>1. run[p] \in Runs
  BY DEF TypeOK
<1> QED
  BY <1>1 DEF Runs

LEMMA SetType ==
  ASSUME TypeOK, NEW p \in Writers, NEW new \in Runs, Set(p, new)
  PROVE  /\ run' \in [Writers -> Runs] /\ run'[p] = new
         /\ \A q \in Writers : q # p => run'[q] = run[q]
  BY DEF TypeOK, Set

LEMMA IdleType == Idle \in Runs
  BY DEF Idle, Runs, Phases, Tables

LEMMA LeaveType ==
  ASSUME TypeOK, NEW p \in Writers, Leave(p)
  PROVE  /\ run' \in [Writers -> Runs] /\ run'[p] = Idle
         /\ \A q \in Writers : q # p => run'[q] = run[q]
  BY IdleType, SetType DEF Leave

LEMMA FlightType ==
  ASSUME TypeOK, flight # None
  PROVE  /\ flight \in Requests /\ flight.base \in Tables /\ flight.snapshot \in Snapshots
         /\ flight.rows \subseteq Rows /\ flight.passed \in BOOLEAN
<1>1. flight \in Requests
  BY DEF TypeOK
<1> QED
  BY <1>1 DEF Requests

\* What a writer proposes is a snapshot of its base, whether that is still current.
LEMMA ProposedType ==
  ASSUME TypeOK, Chain, NEW p \in Writers, Listed(run[p].base), MarkFor(p) # None
  PROVE  /\ Proposed(p) \in Snapshots /\ MarkFor(p) \in Nat
         /\ ~run[p].advance => MarkFor(p) = WatermarkOf(run[p].base)
         /\ run[p].advance => /\ MarkFor(p) = run[p].to
                              /\ run[p].to > WatermarkOf(run[p].base)
<1>1. run[p].base \in Tables
  BY RunType
<1>2. WatermarkOf(run[p].base) \in Nat
  BY <1>1, WatermarkStated
<1>3. /\ MarkFor(p) \in Nat
      /\ ~run[p].advance => MarkFor(p) = WatermarkOf(run[p].base)
      /\ run[p].advance => MarkFor(p) = run[p].to /\ run[p].to > WatermarkOf(run[p].base)
  BY <1>2, RunType DEF MarkFor
<1>4. FilesOf(run[p].base.current) \subseteq Nat
  <2>1. run[p].base.current \in 0..Len(snaps)
    BY <1>1, TableType
  <2> QED
    BY <2>1, Lengths, SnapshotType DEF FilesOf
<1>5. /\ run[p].base.current \in Nat /\ run[p].file \in Nat /\ clock \in Nat
  BY <1>1, RunType DEF Tables, TypeOK
<1> QED
  BY <1>3, <1>4, <1>5 DEF Proposed, Snapshots

LEMMA CommitType ==
  ASSUME TypeOK, NEW s \in Snapshots, Commit(s)
  PROVE  /\ snaps' \in Seq(Snapshots) /\ meta' \in Tables
         /\ Len(snaps') = Len(snaps) + 1 /\ snaps'[Len(snaps')] = s
         /\ \A id \in DOMAIN snaps : id \in DOMAIN snaps' /\ snaps'[id] = snaps[id]
  BY DEF TypeOK, Commit, Tables

LEMMA FileGrows ==
  ASSUME TypeOK, NEW new \in Files, file' = Append(file, new)
  PROVE  /\ file' \in Seq(Files) /\ Len(file') = Len(file) + 1 /\ Len(file) + 1 \in Nat
         /\ DOMAIN file' = 1..(Len(file) + 1) /\ file'[Len(file) + 1] = new
         /\ \A f \in DOMAIN file : f \in DOMAIN file' /\ file'[f] = file[f]
  BY DEF TypeOK

LEMMA BaseListed ==
  ASSUME ColdCoherent
  PROVE  /\ TypeOK /\ Chain /\ meta \in Tables /\ Listed(meta)
         /\ \A p \in Writers : run[p].base \in Tables /\ Listed(run[p].base)
  BY RunType, ChainFollows DEF ColdCoherent, ChainCoherent, RunCoherent, Loaded, TypeOK

LEMMA NoneIsNoNumber == None \notin Nat /\ 1 # None
  BY ColdAssumption

LEMMA RunTypeStep ==
  ASSUME ColdCoherent, NEW p \in Writers, CommitStep(p)
  PROVE  TypeOK'
<1>0. TypeOK /\ Chain /\ Listed(run[p].base) /\ run[p] \in Runs /\ meta \in Tables
  BY BaseListed, RunType
<1>1. CASE WriteDataFiles(p)
  <2>1. CASE run[p].rows = {}
    <3>1. [run[p] EXCEPT !.pc = "commit", !.base = meta] \in Runs
      BY <1>0 DEF Runs, Phases
    <3>2. run' \in [Writers -> Runs]
      BY <1>0, <1>1, <2>1, <3>1, SetType DEF WriteDataFiles
    <3> QED
      BY <1>0, <1>1, <2>1, <3>2 DEF WriteDataFiles, TypeOK
  <2>2. CASE run[p].rows # {}
    <3>5. Len(file) + 1 \in Nat
      BY <1>0, Lengths
    <3>1. [run[p] EXCEPT !.pc = "commit", !.base = meta, !.file = Len(file) + 1] \in Runs
      BY <1>0, <3>5 DEF Runs, Phases
    <3>2. run' \in [Writers -> Runs]
      BY <1>0, <1>1, <2>2, <3>1, SetType DEF WriteDataFiles
    <3>3. [rows |-> run[p].rows, spanned |-> TRUE] \in Files
      BY <1>0, RunType DEF Files
    <3>4. file' \in Seq(Files) /\ stored' \subseteq Nat
      <4>1. file' = Append(file, [rows |-> run[p].rows, spanned |-> TRUE])
            /\ stored' = stored \union {Len(file) + 1} /\ stored \subseteq Nat
        BY <1>0, <1>1, <2>2 DEF WriteDataFiles, TypeOK
      <4> QED
        BY <1>0, <3>3, <3>5, <4>1, FileGrows
    <3> QED
      BY <1>0, <1>1, <2>2, <3>2, <3>4 DEF WriteDataFiles, TypeOK
  <2> QED
    BY <2>1, <2>2
<1>2. CASE CommitLands(p)
  <2>1. Proposed(p) \in Snapshots
    BY <1>0, <1>2, ProposedType DEF CommitLands
  <2>2. snaps' \in Seq(Snapshots) /\ meta' \in Tables
    BY <1>0, <1>2, <2>1, CommitType DEF CommitLands
  <2>3. [run[p] EXCEPT !.pc = "choose"] \in Runs
    BY <1>0 DEF Runs, Phases
  <2>4. run' \in [Writers -> Runs]
    BY <1>0, <1>2, <2>3, SetType, LeaveType DEF CommitLands
  <2> QED
    BY <1>0, <1>2, <2>2, <2>4 DEF CommitLands, TypeOK
<1>3. CASE CommitDeclined(p)
  BY <1>0, <1>3, LeaveType DEF CommitDeclined, TypeOK
<1> DEFINE discarding == [run[p] EXCEPT !.pc = "discard"]
<1>4. discarding \in Runs
  BY <1>0 DEF Runs, Phases
<1>5. Discard(p) => run' \in [Writers -> Runs]
  BY <1>0, <1>4, SetType, LeaveType DEF Discard
<1>6. CASE CommitConflict(p)
  <2>3. run[p].attempt + 1 \in Nat
    BY <1>0, RunType
  <2>1. [run[p] EXCEPT !.base = meta, !.attempt = @ + 1] \in Runs
    BY <1>0, <2>3 DEF Runs, Phases
  <2>2. run' \in [Writers -> Runs]
    BY <1>0, <1>5, <1>6, <2>1, SetType DEF CommitConflict
  <2> QED
    BY <1>0, <1>6, <2>2 DEF CommitConflict, TypeOK
<1>7. CASE CommitFails(p)
  <2>1. Proposed(p) \in Snapshots
    BY <1>0, <1>7, ProposedType DEF CommitFails
  <2>2. [base |-> run[p].base, snapshot |-> Proposed(p), rows |-> run[p].rows,
         passed |-> FALSE] \in Requests
    BY <1>0, <2>1, RunType DEF Requests
  <2>3. flight' \in Requests \union {None} /\ faults' \in Nat
    BY <1>0, <1>7, <2>2 DEF CommitFails, TypeOK
  <2>4. run' \in [Writers -> Runs]
    BY <1>0, <1>5, <1>7, LeaveType DEF CommitFails
  <2> QED
    BY <1>0, <1>7, <2>3, <2>4 DEF CommitFails, TypeOK
<1>8. CASE ReferencedPaths(p)
  <2>1. FilesOf(meta.current) \subseteq Nat
    BY <1>0, BaseListed, TableType, Lengths, SnapshotType DEF FilesOf
  <2>2. [run[p] EXCEPT !.pc = "delete", !.kept = FilesOf(meta.current)] \in Runs
    BY <1>0, <2>1 DEF Runs, Phases
  <2>3. run' \in [Writers -> Runs]
    BY <1>0, <1>8, <2>2, SetType DEF ReferencedPaths
  <2> QED
    BY <1>0, <1>8, <2>3 DEF ReferencedPaths, TypeOK
<1>9. CASE DeleteFiles(p)
  BY <1>0, <1>9, LeaveType DEF DeleteFiles, TypeOK
<1>10. CASE Stop(p)
  <2>1. faults' \in Nat
    BY <1>0, <1>10 DEF Stop, TypeOK
  <2> QED
    BY <1>0, <1>10, <2>1, LeaveType DEF Stop, TypeOK
<1> QED
  BY <1>1, <1>2, <1>3, <1>6, <1>7, <1>8, <1>9, <1>10 DEF CommitStep

LEMMA TypeStep ==
  ASSUME ColdCoherent, [Next]_vars
  PROVE  TypeOK'
<1>0. TypeOK /\ Chain /\ Listed(meta) /\ meta \in Tables
  BY BaseListed
<1>1. CASE \E p \in Writers : CommitStep(p)
  BY <1>1, RunTypeStep
<1>2. CASE AppendAndCommit
  <2>1. WatermarkOf(meta) \in Nat /\ WatermarkOf(meta) + 1 \in Nat
    BY <1>0, WatermarkStated
  <2>2. Hot[WatermarkOf(meta)] \subseteq Rows
    BY <1>2, ColdAssumption DEF AppendAndCommit
  <2>3. [Idle EXCEPT !.pc = "write", !.advance = TRUE, !.rows = Hot[WatermarkOf(meta)],
                     !.to = WatermarkOf(meta) + 1] \in Runs
    BY <2>1, <2>2, IdleType DEF Runs, Phases
  <2>4. run' \in [Writers -> Runs]
    BY <1>0, <1>2, <2>3, SetType DEF AppendAndCommit, Writers
  <2> QED
    BY <1>0, <1>2, <2>4 DEF AppendAndCommit, TypeOK
<1>3. CASE AppendOnly
  <2>1. PICK new \in SUBSET Missing :
          Set("corrector", [Idle EXCEPT !.pc = "write", !.rows = new])
    BY <1>3 DEF AppendOnly
  <2>2. [Idle EXCEPT !.pc = "write", !.rows = new] \in Runs
    BY IdleType DEF Runs, Phases, Missing
  <2>3. run' \in [Writers -> Runs]
    BY <1>0, <2>1, <2>2, SetType DEF Writers
  <2>4. flight' \in Requests \union {None}
    <3>1. CASE flight = None
      BY <1>3, <3>1 DEF AppendOnly
    <3>2. CASE flight # None
      <4> DEFINE passed == flight.passed \/ flight.rows \cap run'["corrector"].rows # {}
      <4>1. flight' = [flight EXCEPT !.passed = passed]
        BY <1>3, <3>2 DEF AppendOnly
      <4>2. passed \in BOOLEAN /\ flight \in Requests
        BY <1>0, <3>2, FlightType
      <4> HIDE DEF passed
      <4> QED
        BY <4>1, <4>2 DEF Requests
    <3> QED
      BY <3>1, <3>2
  <2> QED
    BY <1>0, <1>3, <2>3, <2>4 DEF AppendOnly, TypeOK
<1>4. CASE ReassertWatermark
  <2>1. \A pc \in Phases : [Idle EXCEPT !.pc = pc] \in Runs
    BY IdleType DEF Runs
  <2>2. run' \in [Writers -> Runs]
    <3>1. PICK pc \in Phases : Set("expirer", [Idle EXCEPT !.pc = pc])
      BY <1>4 DEF ReassertWatermark, Phases
    <3> QED
      BY <1>0, <2>1, <3>1, SetType DEF Writers
  <2> QED
    BY <1>0, <1>4, <2>2 DEF ReassertWatermark, TypeOK
<1>5. CASE ChooseDoomed
  <2> DEFINE doomed == TooOld(meta) \ Protected(meta)
  <2>1. doomed \subseteq Nat
    BY <1>0, TableType DEF TooOld
  <2> HIDE DEF doomed
  <2>2. [run["expirer"] EXCEPT !.pc = "expire", !.base = meta, !.doomed = doomed] \in Runs
    BY <1>0, <2>1, RunType DEF Runs, Phases, Writers
  <2>3. run' \in [Writers -> Runs]
    BY <1>0, <1>5, <2>2, SetType, LeaveType DEF ChooseDoomed, Writers, doomed
  <2> QED
    BY <1>0, <1>5, <2>3 DEF ChooseDoomed, TypeOK
<1>6. CASE ExpireSnapshots
  <2>1. meta' \in Tables
    <3>1. meta.version + 1 \in Nat /\ meta.live \ run["expirer"].doomed \subseteq Nat
      BY <1>0 DEF Tables
    <3>2. [meta EXCEPT !.version = @ + 1, !.live = @ \ run["expirer"].doomed] \in Tables
      BY <1>0, <3>1 DEF Tables
    <3> QED
      BY <1>0, <1>6, <3>2 DEF ExpireSnapshots
  <2>2. run' \in [Writers -> Runs]
    BY <1>0, <1>6, LeaveType DEF ExpireSnapshots, Writers
  <2> QED
    BY <1>0, <1>6, <2>1, <2>2 DEF ExpireSnapshots, TypeOK
<1>7. CASE \E q \in Queries : QueryStep(q)
  <2>1. PICK q \in Queries : QueryStep(q)
    BY <1>7
  <2>2. query[q] \in Plans
    BY <1>0 DEF TypeOK
  <2>3. Unplanned \in Plans
    BY DEF Unplanned, Plans
  <2>4. CASE ScanCold(q)
    <3>1. PICK range \in Ranges :
            query' = [query EXCEPT ![q] = [pc |-> "judge", range |-> range,
                                           snap |-> meta.current, elided |-> FALSE]]
      BY <2>4 DEF ScanCold
    <3>2. [pc |-> "judge", range |-> range, snap |-> meta.current, elided |-> FALSE] \in Plans
      BY <1>0 DEF Plans, Tables
    <3>3. query' \in [Queries -> Plans]
      BY <1>0, <3>1, <3>2 DEF TypeOK
    <3> QED
      BY <1>0, <2>4, <3>3 DEF ScanCold, TypeOK
  <2>5. CASE ResolutionFromStats(q)
    <3>1. [query[q] EXCEPT !.pc = "done", !.elided = TRUE] \in Plans
      BY <2>2 DEF Plans
    <3>2. query' \in [Queries -> Plans]
      BY <1>0, <2>3, <2>5, <3>1 DEF ResolutionFromStats, TypeOK
    <3> QED
      BY <1>0, <2>5, <3>2 DEF ResolutionFromStats, TypeOK
  <2>6. CASE EndQuery(q)
    <3>1. query' \in [Queries -> Plans]
      BY <1>0, <2>3, <2>6 DEF EndQuery, TypeOK
    <3> QED
      BY <1>0, <2>6, <3>1 DEF EndQuery, TypeOK
  <2> QED
    BY <2>1, <2>4, <2>5, <2>6 DEF QueryStep
<1>8. CASE RequestApplied
  <2>1. flight \in Requests /\ flight.snapshot \in Snapshots /\ clock \in Nat
    BY <1>0, <1>8, FlightType DEF RequestApplied, TypeOK
  <2>2. [flight.snapshot EXCEPT !.at = clock] \in Snapshots
    BY <2>1 DEF Snapshots
  <2>3. snaps' \in Seq(Snapshots) /\ meta' \in Tables
    BY <1>0, <1>8, <2>2, CommitType DEF RequestApplied
  <2>4. late' \in BOOLEAN
    BY <1>8 DEF RequestApplied
  <2> QED
    BY <1>0, <1>8, <2>3, <2>4 DEF RequestApplied, TypeOK
<1>9. CASE ForeignCompaction
  <2>1. PICK some \in SUBSET FilesOf(meta.current), spanned \in BOOLEAN :
          /\ file' = Append(file, [rows |-> UNION {file[f].rows : f \in some},
                                   spanned |-> spanned])
          /\ stored' = stored \union {Len(file) + 1}
          /\ Commit([parent |-> meta.current, mark |-> None, step |-> None, at |-> clock,
                     files |-> (FilesOf(meta.current) \ some) \union {Len(file) + 1}])
    BY <1>9 DEF ForeignCompaction
  <2>2. FilesOf(meta.current) \subseteq DOMAIN file /\ DOMAIN file \subseteq Nat
    <3>1. meta.current \in DOMAIN snaps
      BY <1>0, <1>9, TableType, Lengths DEF ForeignCompaction
    <3> QED
      BY <1>0, <1>9, <3>1, Lengths DEF ForeignCompaction, FilesOf, ColdCoherent, FilesCoherent
  <2>3. [parent |-> meta.current, mark |-> None, step |-> None, at |-> clock,
         files |-> (FilesOf(meta.current) \ some) \union {Len(file) + 1}] \in Snapshots
    BY <1>0, <2>2, Lengths DEF Snapshots, TypeOK, Tables
  <2>4. snaps' \in Seq(Snapshots) /\ meta' \in Tables
    BY <1>0, <2>1, <2>3, CommitType
  <2>5. [rows |-> UNION {file[f].rows : f \in some}, spanned |-> spanned] \in Files
    BY <1>0, <2>2, FileType DEF Files
  <2>6. file' \in Seq(Files) /\ stored' \subseteq Nat
    <3>1. stored \subseteq Nat
      BY <1>0 DEF TypeOK
    <3> QED
      BY <1>0, <2>1, <2>5, <3>1, FileGrows
  <2> QED
    BY <1>0, <1>9, <2>4, <2>6 DEF ForeignCompaction, TypeOK
<1>10. CASE Tick
  BY <1>0, <1>10 DEF Tick, TypeOK
<1>11. CASE UNCHANGED vars
  BY <1>0, <1>11 DEF vars, TypeOK
<1> QED
  BY <1>1, <1>2, <1>3, <1>4, <1>5, <1>6, <1>7, <1>8, <1>9, <1>10, <1>11 DEF Next

-----------------------------------------------------------------------------
(* What every step does to the data: it only adds.                          *)

FilesStay  == \A f \in DOMAIN file : f \in DOMAIN file' /\ file'[f] = file[f]
ChainStays == \A id \in DOMAIN snaps : id \in DOMAIN snaps' /\ snaps'[id] = snaps[id]

Grows ==
  /\ FilesStay /\ ChainStays
  /\ \A table \in Tables : Listed(table) => Listed(table)'
  /\ \A table \in Tables : Loaded(table) => Loaded(table)'
  /\ \A id \in DOMAIN snaps : RowsOf(id)' = RowsOf(id)
  /\ WatermarkOf(meta) \in Nat /\ WatermarkOf(meta)' \in Nat
  /\ WatermarkOf(meta) <= WatermarkOf(meta)'
  /\ meta.current # 0 => meta'.current # 0
  /\ clock <= clock' /\ (late => late')

\* The table as it was found.
SameTable ==
  /\ meta' = meta /\ ChainStays
  /\ WatermarkOf(meta)' = WatermarkOf(meta)
  /\ FilesOf(meta.current)' = FilesOf(meta.current)
  /\ RowsOf(meta.current)' = RowsOf(meta.current)

LEMMA RowsStay ==
  ASSUME TypeOK, FilesCoherent, FilesStay, ChainStays
  PROVE  /\ \A id \in DOMAIN snaps : RowsOf(id)' = RowsOf(id) /\ FilesOf(id)' = FilesOf(id)
         /\ RowsOf(0)' = RowsOf(0) /\ FilesOf(0)' = FilesOf(0)
<1>1. RowsOf(0)' = RowsOf(0) /\ FilesOf(0)' = FilesOf(0)
  BY DEF RowsOf, FilesOf
<1>2. ASSUME NEW id \in DOMAIN snaps
      PROVE  RowsOf(id)' = RowsOf(id) /\ FilesOf(id)' = FilesOf(id)
  <2>1. FilesOf(id)' = FilesOf(id)
    BY DEF FilesOf, ChainStays
  <2>2. FilesOf(id) \subseteq DOMAIN file
    BY Lengths DEF FilesOf, FilesCoherent
  <2>3. \A f \in FilesOf(id) : file'[f] = file[f]
    BY <2>2 DEF FilesStay
  <2>4. RowsOf(id)' = UNION {file'[f].rows : f \in FilesOf(id)'}
    BY DEF RowsOf
  <2> HIDE DEF FilesOf
  <2> QED
    BY <2>1, <2>3, <2>4 DEF RowsOf
<1> QED
  BY <1>1, <1>2

LEMMA ListedStays ==
  ASSUME TypeOK, TypeOK', ChainStays, NEW table \in Tables, Listed(table)
  PROVE  Listed(table)'
<1>1. Len(snaps) <= Len(snaps') /\ Len(snaps) \in Nat /\ Len(snaps') \in Nat
  <2>1. Len(snaps) \in Nat /\ DOMAIN snaps = 1..Len(snaps)
    BY Lengths
  <2>2. Len(snaps') \in Nat /\ DOMAIN snaps' = 1..Len(snaps')
    BY DEF TypeOK
  <2>3. 1..Len(snaps) \subseteq 1..Len(snaps')
    BY <2>1, <2>2 DEF ChainStays
  <2>4. Len(snaps) # 0 => Len(snaps) \in 1..Len(snaps')
    BY <2>1, <2>3
  <2> QED
    BY <2>1, <2>2, <2>4
<1>2. /\ table.current \in 0..Len(snaps) /\ table.live \subseteq DOMAIN snaps
      /\ table.live \subseteq 1..table.current
  BY TableType
<1>3. table.current <= Len(snaps')
  BY <1>1, <1>2
<1>4. table.current # 0 => \E id \in table.live : snaps'[id].mark # None
  BY <1>2 DEF Listed, ChainStays
<1> QED
  BY <1>2, <1>3, <1>4 DEF Listed

LEMMA LoadedStays ==
  ASSUME TypeOK, TypeOK', ChainStays, meta' = meta \/ meta'.version > meta.version,
         NEW table \in Tables, Loaded(table)
  PROVE  Loaded(table)'
<1>1. Listed(table)'
  BY ListedStays DEF Loaded
<1>2. meta.version \in Nat /\ meta'.version \in Nat /\ table.version \in Nat
  BY DEF TypeOK, Tables
<1> QED
  BY <1>1, <1>2 DEF Loaded, CurrentBase

LEMMA SameBoundary ==
  ASSUME meta' = meta, snaps' = snaps
  PROVE  WatermarkOf(meta)' = WatermarkOf(meta)
  BY DEF WatermarkOf, SummaryProperty

\* A step that commits nothing.
LEMMA NoCommit ==
  ASSUME ColdCoherent, TypeOK', UNCHANGED <<snaps, meta>>, FilesStay,
         clock <= clock', late => late'
  PROVE  Grows /\ SameTable /\ ChainCoherent'
<1>0. TypeOK /\ ChainCoherent /\ FilesCoherent /\ Listed(meta) /\ meta \in Tables
  BY BaseListed DEF ColdCoherent
<1>1. ChainStays
  BY DEF ChainStays
<1>2. \A id \in DOMAIN snaps : RowsOf(id)' = RowsOf(id) /\ FilesOf(id)' = FilesOf(id)
  BY <1>0, <1>1, RowsStay
<1>3. WatermarkOf(meta)' = WatermarkOf(meta) /\ WatermarkOf(meta) \in Nat
  BY <1>0, SameBoundary, WatermarkStated, ChainFollows
<1>4. FilesOf(meta.current)' = FilesOf(meta.current) /\ RowsOf(meta.current)' = RowsOf(meta.current)
  <2>1. \A id : FilesOf(id)' = FilesOf(id)
    BY DEF FilesOf
  <2>2. meta.current \in DOMAIN snaps \union {0}
    BY <1>0, TableType, Lengths
  <2>3. FilesOf(meta.current)' = FilesOf(meta.current)
    BY DEF FilesOf
  <2>4. \A f \in FilesOf(meta.current) : file'[f] = file[f]
    BY <1>0, <2>2 DEF FilesOf, FilesCoherent, FilesStay
  <2>5. RowsOf(meta.current)' = UNION {file'[f].rows : f \in FilesOf(meta.current)'}
    BY DEF RowsOf
  <2> HIDE DEF FilesOf
  <2> QED
    BY <2>3, <2>4, <2>5 DEF RowsOf
<1>5. SameTable
  BY <1>1, <1>3, <1>4 DEF SameTable
<1>6. Grows
  <2>1. \A table \in Tables : Listed(table) => Listed(table)'
    BY <1>0, <1>1, ListedStays
  <2>2. \A table \in Tables : Loaded(table) => Loaded(table)'
    BY <1>0, <1>1, LoadedStays
  <2> QED
    BY <1>1, <1>2, <1>3, <2>1, <2>2 DEF Grows
<1>7. ChainCoherent'
  <2>1. Listed(meta)'
    BY <1>0 DEF Listed
  <2>2. ASSUME NEW id \in DOMAIN snaps
        PROVE  snaps[id].at \in Nat /\ clock \in Nat /\ clock' \in Nat /\ RetainFor \in Nat
    BY <1>0, SnapshotType, ColdAssumption DEF TypeOK
  <2> QED
    BY <1>0, <1>2, <1>3, <2>1, <2>2 DEF ChainCoherent
<1> QED
  BY <1>5, <1>6, <1>7

\* The boundary, now and after a step.
MarkStated ==
  /\ WatermarkOf(meta) \in Nat
  /\ meta.current # 0 =>
       /\ Saying(meta, "mark") # {}
       /\ WatermarkOf(meta) = snaps[Highest(Saying(meta, "mark"))].mark
       /\ Highest(Saying(meta, "mark")) \in Saying(meta, "mark")
       /\ \A id \in Saying(meta, "mark") : id <= Highest(Saying(meta, "mark"))

LEMMA MetaStated ==
  ASSUME TypeOK, Chain, Listed(meta)
  PROVE  MarkStated
<1>1. meta \in Tables
  BY DEF TypeOK
<1> QED
  BY <1>1, WatermarkStated DEF MarkStated

LEMMA MetaStatedThen ==
  ASSUME TypeOK', Chain', Listed(meta)'
  PROVE  MarkStated'
  BY MetaStated, PTL

\* A commit: the chain grows by one, and what the new snapshot says and holds is what
\* the table says and holds from then on.
LEMMA CommitGrows ==
  ASSUME ColdCoherent, TypeOK', FilesStay, NEW s \in Snapshots, Commit(s),
         s.parent = meta.current, s.at = clock, clock' = clock, late => late',
         meta.current = 0 => s.mark # None,
         s.mark # None => WatermarkOf(meta) <= s.mark,
         RowsOf(meta.current) \subseteq UNION {file'[f].rows : f \in s.files}
  PROVE  /\ Grows /\ ChainCoherent' /\ meta.version < meta'.version
         /\ \A id \in DOMAIN snaps' : id \in DOMAIN snaps \/ snaps'[id] = s
         /\ WatermarkOf(meta)' = IF s.mark = None THEN WatermarkOf(meta) ELSE s.mark
         /\ FilesOf(meta.current)' = s.files
         /\ RowsOf(meta.current)' = UNION {file'[f].rows : f \in s.files}
<1>0. /\ TypeOK /\ ChainCoherent /\ FilesCoherent /\ Listed(meta) /\ meta \in Tables
      /\ Chain /\ meta.current = Len(snaps) /\ meta.version \in Nat
      /\ WatermarkOf(meta) \in Nat
  BY BaseListed, WatermarkStated DEF ColdCoherent, ChainCoherent, Tables
<1>20. PICK n \in Nat : n = Len(snaps) + 1
  BY <1>0, Lengths
<1>1. /\ Len(snaps) \in Nat /\ DOMAIN snaps = 1..Len(snaps) /\ n = Len(snaps) + 1
      /\ DOMAIN snaps' = 1..n /\ Len(snaps') = n /\ snaps'[n] = s
      /\ meta' = [version |-> meta.version + 1, current |-> n, live |-> meta.live \union {n}]
  BY <1>0, <1>20, Lengths DEF Commit, TypeOK
<1>2. ChainStays
  BY <1>0, CommitType DEF ChainStays
<1>3. meta'.version > meta.version
  BY <1>0, <1>1
<1>4. \A id \in DOMAIN snaps : RowsOf(id)' = RowsOf(id) /\ FilesOf(id)' = FilesOf(id)
  BY <1>0, <1>2, RowsStay
<1>5. FilesOf(meta.current)' = s.files /\ FilesOf(n)' = s.files
  <2>1. n # 0 /\ meta'.current = n /\ snaps'[n].files = s.files
    BY <1>1
  <2> QED
    BY <2>1 DEF FilesOf
<1>6. /\ RowsOf(meta.current)' = UNION {file'[f].rows : f \in s.files}
      /\ RowsOf(n)' = UNION {file'[f].rows : f \in s.files}
  BY <1>5 DEF RowsOf
<1>7. meta.live \subseteq 1..Len(snaps)
  BY <1>0 DEF Listed
<1>8. Listed(meta)'
  <2>1. meta'.current <= Len(snaps') /\ meta'.live \subseteq 1..n
    BY <1>1, <1>7
  <2>2. ASSUME NEW id \in meta'.live PROVE id..n \subseteq meta'.live
    <3>1. CASE id = n
      BY <1>1, <3>1
    <3>2. CASE id \in meta.live
      <4>1. id..Len(snaps) \subseteq meta.live
        BY <1>0, <3>2 DEF Listed
      <4> QED
        BY <1>1, <1>7, <3>2, <4>1
    <3> QED
      BY <1>1, <2>2, <3>1, <3>2
  <2>3. \E id \in meta'.live : snaps'[id].mark # None
    <3>1. CASE meta.current = 0
      BY <1>1, <3>1
    <3>2. CASE meta.current # 0
      <4>1. PICK id \in meta.live : snaps[id].mark # None
        BY <1>0, <3>2 DEF Listed
      <4> QED
        BY <1>1, <1>2, <1>7, <4>1 DEF ChainStays
    <3> QED
      BY <3>1, <3>2
  <2> QED
    BY <1>1, <2>1, <2>2, <2>3 DEF Listed
<1>9. Chain'
  <2>1. ASSUME NEW id \in DOMAIN snaps' PROVE snaps'[id].parent + 1 = id
    <3>1. CASE id = n
      BY <1>0, <1>1, <3>1
    <3>2. CASE id # n
      <4>1. id \in DOMAIN snaps
        BY <1>1, <3>2
      <4> QED
        BY <1>0, <1>2, <4>1 DEF Chain, ChainStays
    <3> QED
      BY <3>1, <3>2
  <2> QED
    BY <2>1 DEF Chain
<1>10. WatermarkOf(meta)' = IF s.mark = None THEN WatermarkOf(meta) ELSE s.mark
  <2> DEFINE said == Saying(meta, "mark")
  <2>1. /\ said' # {} /\ Highest(said') \in said' /\ \A id \in said' : id <= Highest(said')
        /\ WatermarkOf(meta)' = snaps'[Highest(said')].mark
    <3>1. meta' \in Tables /\ meta'.current # 0
      BY <1>1, TypeOK' DEF TypeOK
    <3>2. MarkStated'
      BY <1>8, <1>9, MetaStatedThen
    <3> QED
      BY <3>1, <3>2 DEF MarkStated
  <2>2. said' = IF s.mark = None THEN said ELSE said \union {n}
    BY <1>1, <1>2, <1>7 DEF Saying, ChainStays
  <2>3. CASE s.mark = None
    <3>1. said' = said /\ meta.current # 0
      BY <2>2, <2>3
    <3>2. WatermarkOf(meta) = snaps[Highest(said)].mark /\ Highest(said) \in said
      BY <1>0, <3>1, WatermarkStated
    <3>3. snaps'[Highest(said)] = snaps[Highest(said)]
      BY <1>1, <1>2, <1>7, <3>2 DEF ChainStays, Saying
    <3> QED
      BY <2>1, <2>3, <3>1, <3>2, <3>3
  <2>4. CASE s.mark # None
    <3>1. n \in said' /\ n <= Highest(said') /\ Highest(said') \in said'
      BY <2>1, <2>2, <2>4
    <3>2. Highest(said') \in 1..n
      BY <1>1, <1>7, <3>1 DEF Saying
    <3>3. Highest(said') = n
      BY <1>1, <3>1, <3>2
    <3> QED
      BY <1>1, <2>1, <2>4, <3>3
  <2> QED
    BY <2>3, <2>4
<1>11. /\ s.mark # None => s.mark \in Nat /\ WatermarkOf(meta)' = s.mark
       /\ WatermarkOf(meta) <= WatermarkOf(meta)' /\ WatermarkOf(meta)' \in Nat
  BY <1>0, <1>10 DEF Snapshots
<1>12. Grows
  <2>1. \A table \in Tables : Listed(table) => Listed(table)'
    BY <1>0, <1>2, ListedStays
  <2>2. \A table \in Tables : Loaded(table) => Loaded(table)'
    BY <1>0, <1>2, <1>3, LoadedStays
  <2>3. clock \in Nat /\ WatermarkOf(meta)' \in Nat /\ WatermarkOf(meta) <= WatermarkOf(meta)'
    BY <1>0, <1>10, <1>11 DEF TypeOK
  <2> QED
    BY <1>0, <1>1, <1>2, <1>4, <2>3, <2>1, <2>2, <2>3 DEF Grows
<1>13. \A id \in DOMAIN snaps' : (id \in DOMAIN snaps /\ snaps'[id] = snaps[id]) \/ id = n
  BY <1>1, <1>2 DEF ChainStays
<1>14. ChainCoherent'
  <2>1. meta'.current = Len(snaps') /\ snaps'[1].mark # None
    <3>1. CASE meta.current = 0
      BY <1>0, <1>1, <3>1
    <3>2. CASE meta.current # 0
      <4>1. 1 \in DOMAIN snaps /\ snaps[1].mark # None
        BY <1>0, <1>1, <3>2 DEF ChainCoherent
      <4> QED
        BY <1>1, <1>2, <4>1 DEF ChainStays
    <3> QED
      BY <3>1, <3>2
  <2>2. ASSUME NEW id \in DOMAIN snaps'
        PROVE  /\ snaps'[id].at <= clock'
               /\ id \notin meta'.live => snaps'[id].at + RetainFor < clock'
               /\ snaps'[id].mark # None => snaps'[id].mark <= WatermarkOf(meta)'
    <3>1. CASE id = n
      BY <1>0, <1>1, <1>11, <3>1 DEF TypeOK
    <3>2. CASE id \in DOMAIN snaps /\ snaps'[id] = snaps[id]
      <4>1. /\ snaps[id].at <= clock
            /\ id \notin meta.live => snaps[id].at + RetainFor < clock
            /\ snaps[id].mark # None => snaps[id].mark <= WatermarkOf(meta)
        BY <1>0, <3>2 DEF ChainCoherent
      <4>2. snaps[id].mark \in Nat \union {None}
        BY <1>0, <3>2, SnapshotType
      <4> QED
        BY <1>0, <1>1, <1>11, <3>2, <4>1, <4>2
    <3> QED
      BY <1>13, <3>1, <3>2
  <2>3. ASSUME NEW id \in DOMAIN snaps', NEW next \in DOMAIN snaps', id <= next
        PROVE  /\ snaps'[id].at <= snaps'[next].at
               /\ RowsOf(id)' \subseteq RowsOf(next)'
               /\ snaps'[id].mark # None /\ snaps'[next].mark # None =>
                    snaps'[id].mark <= snaps'[next].mark
    <3>1. CASE id \in DOMAIN snaps /\ next \in DOMAIN snaps
      BY <1>0, <1>2, <1>4, <2>3, <3>1 DEF ChainCoherent, ChainStays
    <3>2. CASE id = n /\ next = n
      BY <1>0, <1>1, <1>11, <3>2 DEF TypeOK
    <3>3. CASE id \in DOMAIN snaps /\ next = n
      <4>1. snaps[id].at <= clock /\ snaps'[id] = snaps[id] /\ RowsOf(id)' = RowsOf(id)
        BY <1>0, <1>2, <1>4, <3>3 DEF ChainCoherent, ChainStays
      <4>2. meta.current \in DOMAIN snaps /\ id <= meta.current
        BY <1>0, <1>1, <3>3
      <4>3. RowsOf(id) \subseteq RowsOf(meta.current)
        BY <1>0, <3>3, <4>2 DEF ChainCoherent
      <4>4. RowsOf(id)' \subseteq RowsOf(n)'
        BY <1>6, <4>1, <4>3
      <4>5. snaps[id].mark # None => /\ snaps[id].mark <= WatermarkOf(meta)
                                     /\ snaps[id].mark \in Nat
        BY <1>0, <3>3, SnapshotType DEF ChainCoherent
      <4> QED
        <5>1. snaps'[next].at = clock /\ snaps'[next].mark = s.mark
          BY <1>1, <3>3
        <5>2. snaps'[id].mark # None /\ s.mark # None => snaps'[id].mark <= s.mark
          BY <1>0, <1>11, <4>1, <4>5
        <5> QED
          BY <3>3, <4>1, <4>4, <5>1, <5>2
    <3>4. id = n => next = n
      BY <1>1, <2>3
    <3> QED
      BY <1>13, <3>1, <3>2, <3>3, <3>4
  <2> QED
    BY <1>8, <1>9, <2>1, <2>2, <2>3 DEF ChainCoherent, Chain
<1> QED
  BY <1>1, <1>3, <1>5, <1>6, <1>10, <1>12, <1>13, <1>14

\* Expiry: what is left lists the boundary that was listed.
LEMMA ExpiryGrows ==
  ASSUME ColdCoherent, TypeOK', ExpireSnapshots
  PROVE  /\ Grows /\ ChainCoherent' /\ (SameTable \/ meta.version < meta'.version)
         /\ WatermarkOf(meta)' = WatermarkOf(meta)
         /\ FilesOf(meta.current)' = FilesOf(meta.current)
         /\ RowsOf(meta.current)' = RowsOf(meta.current)
<1> DEFINE r == run["expirer"]
           said == Saying(meta, "mark")
<1>0. /\ TypeOK /\ ChainCoherent /\ FilesCoherent /\ Listed(meta) /\ meta \in Tables
      /\ Chain /\ meta.current = Len(snaps) /\ meta.version \in Nat
      /\ WatermarkOf(meta) \in Nat /\ FilesStay /\ ChainStays /\ snaps' = snaps
      /\ file' = file /\ clock' = clock /\ late' = late /\ clock \in Nat
  BY BaseListed, WatermarkStated
  DEF ColdCoherent, ChainCoherent, Tables, ExpireSnapshots, FilesStay, ChainStays, TypeOK
<1>1. CASE ~CurrentBase(r.base)
  <2>1. meta' = meta
    BY <1>1 DEF ExpireSnapshots
  <2> QED
    BY <1>0, <2>1, NoCommit DEF SameTable
<1>2. CASE CurrentBase(r.base)
  <2>1. /\ r.base = meta
        /\ \A id \in r.doomed : snaps[id].at + RetainFor < clock
        /\ Listed([meta EXCEPT !.live = @ \ r.doomed])
    <3>1. r.base = meta
      BY <1>2 DEF ColdCoherent, RunCoherent, Loaded, Writers
    <3>2. r.pc = "expire"
      BY DEF ExpireSnapshots
    <3> QED
      BY <3>1, <3>2 DEF ColdCoherent, ExpirerCoherent
  <2>2. /\ meta'.version = meta.version + 1 /\ meta'.current = meta.current
        /\ meta'.live = meta.live \ r.doomed
    BY <1>0, <1>2 DEF ExpireSnapshots, Tables
  <2>3. Listed(meta)'
    <3>1. [meta EXCEPT !.live = @ \ r.doomed].live = meta'.live
          /\ [meta EXCEPT !.live = @ \ r.doomed].current = meta'.current
      BY <1>0, <2>2 DEF Tables
    <3> HIDE DEF r
    <3> QED
      BY <1>0, <2>1, <3>1 DEF Listed
  <2>4. FilesOf(meta.current)' = FilesOf(meta.current)
    BY <1>0, <2>2 DEF FilesOf
  <2>5. RowsOf(meta.current)' = RowsOf(meta.current)
    BY <1>0, <2>4 DEF RowsOf
  <2>6. \A id \in DOMAIN snaps : RowsOf(id)' = RowsOf(id)
    BY <1>0, RowsStay
  <2>7. WatermarkOf(meta)' = WatermarkOf(meta)
    <3>1. CASE meta.current = 0
      BY <2>2, <3>1 DEF WatermarkOf
    <3>2. CASE meta.current # 0
      <4>1. /\ WatermarkOf(meta) = snaps[Highest(said)].mark
            /\ Highest(said) \in said /\ \A id \in said : id <= Highest(said)
        BY <1>0, <3>2, WatermarkStated
      <4>2. Chain'
        BY <1>0 DEF Chain
      <4>3. /\ WatermarkOf(meta)' = snaps[Highest(said')].mark
            /\ Highest(said') \in said' /\ \A id \in said' : id <= Highest(said')
        BY <1>0, <2>2, <2>3, <3>2, <4>2, MetaStatedThen DEF MarkStated
      <4>4. said' = said \ r.doomed /\ said \subseteq 1..meta.current
        BY <1>0, <2>2 DEF Saying, Listed
      <4>5. Highest(said) \in said'
        <5>1. Highest(said') <= Highest(said) /\ Highest(said') \in meta'.live
          BY <4>1, <4>3, <4>4, <2>2 DEF Saying
        <5>2. Highest(said')..meta.current \subseteq meta'.live
          BY <2>2, <2>3, <5>1 DEF Listed
        <5>3. Highest(said) \in meta'.live
          BY <1>0, <4>1, <4>3, <4>4, <5>1, <5>2
        <5> QED
          BY <1>0, <4>1, <5>3 DEF Saying
      <4>6. Highest(said) <= Highest(said') /\ Highest(said') <= Highest(said)
        BY <4>1, <4>3, <4>4, <4>5
      <4>7. Highest(said) \in Nat /\ Highest(said') \in Nat
        BY <4>1, <4>3, <4>4
      <4> HIDE DEF said
      <4>8. Highest(said) = Highest(said')
        BY <4>6, <4>7
      <4> QED
        BY <4>1, <4>3, <4>8
    <3> QED
      BY <3>1, <3>2
  <2>8. Grows
    <3>1. \A table \in Tables : Listed(table) => Listed(table)'
      BY <1>0, ListedStays
    <3>2. \A table \in Tables : Loaded(table) => Loaded(table)'
      BY <1>0, <2>2, LoadedStays
    <3> QED
      BY <1>0, <2>2, <2>6, <2>7, <3>1, <3>2 DEF Grows
  <2>9. ChainCoherent'
    <3>1. ASSUME NEW id \in DOMAIN snaps, id \notin meta'.live
          PROVE  snaps[id].at + RetainFor < clock
      BY <1>0, <2>1, <2>2, <3>1 DEF ChainCoherent
    <3> QED
      BY <1>0, <2>2, <2>3, <2>6, <2>7, <3>1 DEF ChainCoherent
  <2> QED
    BY <1>0, <2>2, <2>4, <2>5, <2>7, <2>8, <2>9
<1> QED
  BY <1>1, <1>2

-----------------------------------------------------------------------------
(* What a step leaves alone stays as it should be.                          *)

LEMMA FilesKept ==
  ASSUME ColdCoherent, TypeOK', Grows, stored' \subseteq DOMAIN file',
         \A f \in DOMAIN file' : f \in DOMAIN file \/ file'[f].rows # {},
         \A id \in DOMAIN snaps : snaps[id].files \subseteq stored',
         \A id \in DOMAIN snaps' : id \in DOMAIN snaps \/
           /\ snaps'[id].files \subseteq stored'
           /\ \A f, g \in snaps'[id].files :
                f # g /\ file'[f].rows \cap file'[g].rows # {} => late',
         \A r \in RowsOf(meta.current)' : r.from < WatermarkOf(meta)'
  PROVE  FilesCoherent'
<1>1. ASSUME NEW id \in DOMAIN snaps'
      PROVE  /\ snaps'[id].files \subseteq stored'
             /\ \A f, g \in snaps'[id].files :
                  f # g /\ file'[f].rows \cap file'[g].rows # {} => late'
  <2>1. CASE id \in DOMAIN snaps
    <3>1. snaps'[id] = snaps[id] /\ snaps[id].files \subseteq DOMAIN file
      BY <2>1 DEF Grows, ChainStays, ColdCoherent, FilesCoherent
    <3>2. \A f \in snaps[id].files : file'[f] = file[f]
      BY <3>1 DEF Grows, FilesStay
    <3>3. \A f, g \in snaps[id].files : f # g /\ file[f].rows \cap file[g].rows # {} => late
      BY <2>1 DEF ColdCoherent, FilesCoherent
    <3> QED
      BY <2>1, <3>1, <3>2, <3>3 DEF Grows
  <2> QED
    BY <2>1
<1>2. ASSUME NEW f \in DOMAIN file' PROVE file'[f].rows # {}
  BY <1>2 DEF Grows, FilesStay, ColdCoherent, FilesCoherent
<1> QED
  BY <1>1, <1>2 DEF FilesCoherent

LEMMA FlightStays ==
  ASSUME ColdCoherent, TypeOK', Grows, flight' = flight,
         flight # None => flight.snapshot.files \subseteq stored',
         \/ meta.version < meta'.version
         \/ SameTable /\ run'["corrector"].rows \subseteq run["corrector"].rows
  PROVE  FlightCoherent'
<1> SUFFICES ASSUME flight # None PROVE FlightCoherent'
  BY DEF FlightCoherent
<1>0. /\ TypeOK /\ FlightCoherent /\ flight.base \in Tables /\ meta \in Tables
      /\ flight.base.version <= meta.version
  BY FlightType, BaseListed DEF ColdCoherent, FlightCoherent, Loaded
<1>1. Loaded(flight.base)'
  <2>1. PICK base \in Tables : base = flight.base
    BY <1>0
  <2>2. Loaded(base)'
    BY <1>0, <2>1 DEF FlightCoherent, Grows
  <2> QED
    BY <2>1, <2>2 DEF Loaded, Listed, CurrentBase
<1>2. /\ flight.snapshot.parent = flight.base.current
      /\ flight.snapshot.files \subseteq stored'
  BY <1>0 DEF FlightCoherent
<1>3. CASE meta.version < meta'.version
  <2>1. ~CurrentBase(flight.base)'
    BY <1>0, <1>3 DEF CurrentBase, Tables, TypeOK
  <2> QED
    BY <1>1, <1>2, <2>1 DEF FlightCoherent
<1>4. CASE SameTable /\ run'["corrector"].rows \subseteq run["corrector"].rows
  <2> SUFFICES ASSUME CurrentBase(flight.base)'
               PROVE  FlightCoherent'
    BY <1>1, <1>2 DEF FlightCoherent
  <2>1. CurrentBase(flight.base)
    BY <1>4 DEF CurrentBase, SameTable
  <2>2. PICK f \in 0..Len(file) :
          /\ flight.snapshot.files = FilesOf(meta.current) \union ({f} \ {0})
          /\ flight.rows = Held(f)
    BY <1>0, <2>1 DEF FlightCoherent
  <2>3. f \in 0..Len(file') /\ Held(f)' = Held(f)
    <3>1. CASE f = 0
      BY <3>1 DEF Held, TypeOK
    <3>2. CASE f # 0
      <4>1. f \in DOMAIN file /\ f \in Nat
        BY <1>0, <2>2, <3>2, Lengths
      <4>2. f \in DOMAIN file' /\ file'[f] = file[f]
        BY <4>1 DEF Grows, FilesStay
      <4>3. f <= Len(file') /\ Len(file') \in Nat
        BY <4>2 DEF TypeOK
      <4> QED
        BY <4>1, <4>2, <4>3 DEF Held
    <3> QED
      BY <3>1, <3>2
  <2>4. \E g \in 0..Len(file') :
          /\ flight.snapshot.files = FilesOf(meta.current)' \union ({g} \ {0})
          /\ flight.rows = Held(g)'
    BY <1>4, <2>2, <2>3 DEF SameTable
  <2>5. \/ /\ WatermarkOf(meta) \in Windows /\ flight.rows = Hot[WatermarkOf(meta)]
           /\ flight.snapshot.mark = WatermarkOf(meta) + 1
        \/ /\ meta.current # 0 /\ flight.snapshot.mark = WatermarkOf(meta)
           /\ Settled(flight.rows)
           /\ ~flight.passed => /\ New(flight.rows)
                                /\ flight.rows \cap run["corrector"].rows = {}
    BY <1>0, <2>1 DEF FlightCoherent
  <2>6. Settled(flight.rows) => Settled(flight.rows)'
    BY <1>4 DEF Settled, SameTable
  <2>7. New(flight.rows) => New(flight.rows)'
    BY <1>4 DEF New, SameTable, Grows
  <2>8. \/ /\ WatermarkOf(meta)' \in Windows /\ flight.rows = Hot[WatermarkOf(meta)']
           /\ flight.snapshot.mark = WatermarkOf(meta)' + 1
        \/ /\ meta'.current # 0 /\ flight.snapshot.mark = WatermarkOf(meta)'
           /\ Settled(flight.rows)'
           /\ ~flight.passed => /\ New(flight.rows)'
                                /\ flight.rows \cap run'["corrector"].rows = {}
    BY <1>4, <2>5, <2>6, <2>7 DEF SameTable
  <2> QED
    BY <1>1, <1>2, <2>4, <2>8 DEF FlightCoherent, Windows
<1> QED
  BY <1>3, <1>4

LEMMA RunStays ==
  ASSUME ColdCoherent, TypeOK', Grows, NEW p \in Writers, run'[p] = run[p],
         run[p].file # 0 =>
           /\ \A id \in DOMAIN snaps' : id \in DOMAIN snaps \/ run[p].file \notin snaps'[id].files
           /\ \A q \in Writers : q # p => run'[q].file # run[p].file
           /\ flight' # None => run[p].file \notin flight'.snapshot.files
           /\ run[p].file \in stored => run[p].file \in stored'
  PROVE  RunCoherent(p)'
<1>0. TypeOK /\ RunCoherent(p)
  BY DEF ColdCoherent
<1>1. Loaded(run[p].base)'
  <2>1. PICK base \in Tables : base = run[p].base
    BY <1>0, RunType
  <2>2. Loaded(base)'
    BY <1>0, <2>1 DEF RunCoherent, Grows
  <2> QED
    BY <2>1, <2>2 DEF Loaded, Listed, CurrentBase
<1>2. CASE run[p].file = 0
  <2>1. Held(run[p].file)' = Held(run[p].file)
    BY <1>2 DEF Held
  <2> QED
    BY <1>0, <1>1, <1>2, <2>1 DEF RunCoherent
<1>3. CASE run[p].file # 0
  <2>1. /\ run[p].file \in DOMAIN file' /\ file'[run[p].file] = file[run[p].file]
        /\ file[run[p].file].rows = run[p].rows
    BY <1>0, <1>3 DEF RunCoherent, Grows, FilesStay
  <2>2. Held(run[p].file)' = Held(run[p].file)
    BY <1>3, <2>1 DEF Held
  <2>3. \A id \in DOMAIN snaps' : run[p].file \notin snaps'[id].files
    BY <1>0, <1>3 DEF RunCoherent, Grows, ChainStays
  <2> QED
    BY <1>0, <1>1, <1>3, <2>1, <2>2, <2>3 DEF RunCoherent
<1> QED
  BY <1>2, <1>3

LEMMA ArchiverStays ==
  ASSUME ColdCoherent, TypeOK', Grows, run'["archiver"] = run["archiver"]
  PROVE  ArchiverCoherent'
<1>1. CASE run["archiver"].pc = "idle"
  BY <1>1 DEF ArchiverCoherent
<1>2. CASE run["archiver"].pc # "idle"
  <2>1. PICK w \in Windows :
          /\ run["archiver"].advance /\ run["archiver"].to = w + 1
          /\ run["archiver"].rows = Hot[w] /\ w <= WatermarkOf(meta)
          /\ run["archiver"].pc \in {"write", "commit", "discard", "delete"}
    BY <1>2 DEF ColdCoherent, ArchiverCoherent
  <2>2. w \in Nat
    BY ColdAssumption
  <2>3. w <= WatermarkOf(meta)'
    BY <2>1, <2>2 DEF Grows
  <2> QED
    BY <2>1, <2>3 DEF ArchiverCoherent, Windows
<1> QED
  BY <1>1, <1>2

LEMMA SettledStays ==
  ASSUME Grows, NEW some \in SUBSET Rows, Settled(some)
  PROVE  Settled(some)'
<1> SUFFICES ASSUME NEW r \in some PROVE r.from < WatermarkOf(meta)'
  BY DEF Settled
<1>1. r.from \in Nat /\ r.from < WatermarkOf(meta)
  BY ColdAssumption DEF Settled
<1> QED
  BY <1>1 DEF Grows

LEMMA CorrectorStays ==
  ASSUME ColdCoherent, TypeOK', Grows, run'["corrector"] = run["corrector"],
         late' \/ run["corrector"].rows \cap RowsOf(meta.current)' = {}
               \/ RowsOf(meta.current)' = RowsOf(meta.current)
  PROVE  CorrectorCoherent'
<1> SUFFICES ASSUME run["corrector"].pc # "idle" PROVE CorrectorCoherent'
  BY DEF CorrectorCoherent
<1>1. /\ ~run["corrector"].advance /\ meta.current # 0
      /\ Settled(run["corrector"].rows) /\ New(run["corrector"].rows)
      /\ run["corrector"].pc \in {"write", "commit", "discard", "delete"}
  BY DEF ColdCoherent, CorrectorCoherent
<1>2. PICK some \in SUBSET Rows : some = run["corrector"].rows
  BY RunType DEF ColdCoherent, Writers
<1>3. Settled(some)'
  BY <1>1, <1>2, SettledStays
<1>4. New(some)'
  BY <1>1, <1>2 DEF New, Grows
<1>5. Settled(run["corrector"].rows)' /\ New(run["corrector"].rows)'
  BY <1>2, <1>3, <1>4 DEF Settled, New
<1> QED
  BY <1>1, <1>5 DEF CorrectorCoherent, Grows

LEMMA ExpirerStays ==
  ASSUME ColdCoherent, TypeOK', Grows, run'["expirer"] = run["expirer"]
  PROVE  ExpirerCoherent'
<1> SUFFICES ASSUME run["expirer"].pc # "idle" PROVE ExpirerCoherent'
  BY DEF ExpirerCoherent
<1>0. /\ TypeOK /\ run["expirer"].base \in Tables /\ Listed(run["expirer"].base)
      /\ clock \in Nat /\ clock' \in Nat
  BY BaseListed DEF Writers, TypeOK
<1>1. /\ ~run["expirer"].advance /\ run["expirer"].rows = {} /\ meta'.current # 0
  BY DEF ColdCoherent, ExpirerCoherent, Grows
<1>2. ASSUME run["expirer"].pc = "expire"
      PROVE  /\ run["expirer"].doomed \subseteq run["expirer"].base.live
             /\ \A id \in run["expirer"].doomed : snaps'[id].at + RetainFor < clock'
             /\ Listed([run["expirer"].base EXCEPT !.live = @ \ run["expirer"].doomed])'
  <2>1. /\ \A id \in run["expirer"].doomed : snaps[id].at + RetainFor < clock
        /\ Listed([run["expirer"].base EXCEPT !.live = @ \ run["expirer"].doomed])
    BY <1>2 DEF ColdCoherent, ExpirerCoherent
  <2>2. [run["expirer"].base EXCEPT !.live = @ \ run["expirer"].doomed] \in Tables
    BY <1>0 DEF Tables
  <2>3. PICK left \in Tables :
          left = [run["expirer"].base EXCEPT !.live = @ \ run["expirer"].doomed]
    BY <2>2
  <2>4. Listed(left)'
    BY <2>1, <2>3 DEF Grows
  <2>5. Listed([run["expirer"].base EXCEPT !.live = @ \ run["expirer"].doomed])'
    BY <2>3, <2>4 DEF Listed
  <2>6. run["expirer"].doomed \subseteq run["expirer"].base.live
    BY <1>2 DEF ColdCoherent, ExpirerCoherent
  <2>7. ASSUME NEW id \in run["expirer"].doomed
        PROVE  snaps'[id].at + RetainFor < clock'
    <3>1. id \in DOMAIN snaps
      BY <1>0, <2>6, TableType
    <3>2. snaps'[id] = snaps[id] /\ snaps[id].at \in Nat /\ clock <= clock' /\ RetainFor \in Nat
      BY <1>0, <3>1, SnapshotType, ColdAssumption DEF Grows, ChainStays
    <3> QED
      BY <1>0, <2>1, <3>2
  <2> QED
    BY <2>5, <2>6, <2>7
<1> QED
  BY <1>1, <1>2 DEF ExpirerCoherent

LEMMA QueryStays ==
  ASSUME ColdCoherent, TypeOK', Grows, NEW q \in Queries, query'[q] = query[q]
  PROVE  QueryCoherent(q)'
<1>0. QueryCoherent(q)
  BY DEF ColdCoherent
<1>1. CASE query[q].pc = "idle"
  BY <1>1 DEF QueryCoherent
<1>2. CASE query[q].pc # "idle"
  <2>1. PICK id \in DOMAIN snaps : id = query[q].snap
    BY <1>0, <1>2 DEF QueryCoherent
  <2>2. RowsOf(id)' = RowsOf(id) /\ id \in DOMAIN snaps'
    BY DEF Grows, ChainStays
  <2>3. RowsOf(query[q].snap)' = RowsOf(id)'
    BY <2>1 DEF RowsOf, FilesOf
  <2> QED
    BY <1>0, <1>2, <2>1, <2>2, <2>3 DEF QueryCoherent
<1> QED
  BY <1>1, <1>2

LEMMA IdleStays ==
  ASSUME ColdCoherent, TypeOK', Grows, NEW p \in Writers
  PROVE  /\ Loaded(Idle.base)'
         /\ run'[p] = Idle => RunCoherent(p)'
<1>1. Idle.base \in Tables /\ Loaded(Idle.base)
  BY IdleType DEF Runs, ColdCoherent
<1>2. PICK base \in Tables : base = Idle.base
  BY <1>1
<1>3. Loaded(base)'
  BY <1>1, <1>2 DEF Grows
<1>4. Loaded(Idle.base)'
  BY <1>2, <1>3 DEF Loaded, Listed, CurrentBase, Idle
<1>5. ASSUME run'[p] = Idle PROVE RunCoherent(p)'
  <2>1. Loaded(run[p].base)'
    BY <1>4, <1>5 DEF Loaded, Listed, CurrentBase, Idle
  <2>2. run'[p].file = 0 /\ run'[p].pc = "idle"
    BY <1>5 DEF Idle
  <2> QED
    BY <1>5, <2>1, <2>2 DEF RunCoherent
<1> QED
  BY <1>4, <1>5

\* Leaving is always sound.
LEMMA LeftCoherent ==
  ASSUME ColdCoherent, TypeOK', Grows, NEW p \in Writers, run'[p] = Idle
  PROVE  /\ RunCoherent(p)'
         /\ p = "archiver" => ArchiverCoherent'
         /\ p = "corrector" => CorrectorCoherent'
         /\ p = "expirer" => ExpirerCoherent'
<1>1. run'[p].pc = "idle"
  BY DEF Idle
<1> QED
  BY <1>1, IdleStays DEF ArchiverCoherent, CorrectorCoherent, ExpirerCoherent

-----------------------------------------------------------------------------
(* The steps.                                                               *)

LEMMA Still ==
  ASSUME ColdCoherent, TypeOK', UNCHANGED <<snaps, meta, file, stored>>,
         clock <= clock', late => late'
  PROVE  Grows /\ SameTable /\ ChainCoherent' /\ FilesCoherent'
<1>1. FilesStay /\ FilesCoherent /\ stored \subseteq DOMAIN file
  BY DEF FilesStay, ColdCoherent, FilesCoherent
<1>2. Grows /\ SameTable /\ ChainCoherent'
  BY <1>1, NoCommit
<1>3. \A r \in RowsOf(meta.current)' : r.from < WatermarkOf(meta)'
  BY <1>1, <1>2 DEF SameTable, FilesCoherent
<1>4. FilesCoherent'
  BY <1>1, <1>2, <1>3, FilesKept DEF FilesCoherent
<1> QED
  BY <1>2, <1>4

\* A step of one writer that touches nothing but what it is doing.
LEMMA OneRun ==
  ASSUME ColdCoherent, TypeOK', UNCHANGED <<snaps, meta, file, stored, flight, query, clock, late>>,
         NEW p \in Writers, NEW new, Set(p, new), new.file \in {0, run[p].file},
         RunCoherent(p)',
         p = "archiver" => ArchiverCoherent',
         p = "corrector" => CorrectorCoherent' /\ new.rows \subseteq run[p].rows,
         p = "expirer" => ExpirerCoherent'
  PROVE  ColdCoherent'
<1>0. TypeOK /\ clock \in Nat
  BY DEF ColdCoherent, TypeOK
<1>1. Grows /\ SameTable /\ ChainCoherent' /\ FilesCoherent'
  BY <1>0, Still
<1>2. run'[p] = new /\ \A q \in Writers : q # p => run'[q] = run[q]
  BY <1>0 DEF Set, TypeOK
<1>3. ASSUME NEW q \in Writers, q # p PROVE RunCoherent(q)'
  <2>1. run[q].file # 0 =>
          /\ \A r \in Writers : r # q => run'[r].file # run[q].file
          /\ flight # None => run[q].file \notin flight.snapshot.files
    BY <1>2, <1>3 DEF ColdCoherent, RunCoherent
  <2> QED
    BY <1>1, <1>2, <1>3, <2>1, RunStays
<1>4. ArchiverCoherent' /\ CorrectorCoherent' /\ ExpirerCoherent'
  <2>1. p # "archiver" => ArchiverCoherent'
    BY <1>1, <1>2, ArchiverStays DEF Writers
  <2>2. p # "corrector" => CorrectorCoherent'
    BY <1>1, <1>2, CorrectorStays DEF Writers, SameTable
  <2>3. p # "expirer" => ExpirerCoherent'
    BY <1>1, <1>2, ExpirerStays DEF Writers
  <2> QED
    BY <2>1, <2>2, <2>3
<1>5. FlightCoherent'
  <2>1. flight # None => flight.snapshot.files \subseteq stored'
    BY DEF ColdCoherent, FlightCoherent
  <2>2. run'["corrector"].rows \subseteq run["corrector"].rows
    BY <1>2 DEF Writers
  <2> QED
    BY <1>1, <2>1, <2>2, FlightStays
<1>6. \A q \in Queries : QueryCoherent(q)'
  BY <1>1, QueryStays
<1> QED
  BY <1>1, <1>3, <1>4, <1>5, <1>6, IdleStays DEF ColdCoherent

LEMMA LeaveStep ==
  ASSUME ColdCoherent, TypeOK', UNCHANGED <<snaps, meta, file, stored, flight, query, clock, late>>,
         NEW p \in Writers, Leave(p)
  PROVE  ColdCoherent'
<1>0. TypeOK /\ clock \in Nat
  BY DEF ColdCoherent, TypeOK
<1>1. Grows
  BY <1>0, Still
<1>2. run'[p] = Idle /\ Set(p, Idle) /\ Idle.file = 0 /\ Idle.rows = {}
  BY <1>0, LeaveType DEF Leave, Idle
<1> QED
  BY <1>1, <1>2, LeftCoherent, OneRun

\* A step that goes on with the same rows and the same file, perhaps on a fresh base.
LEMMA GoOnStep ==
  ASSUME ColdCoherent, TypeOK', UNCHANGED <<snaps, meta, file, stored, flight, query, clock, late>>,
         NEW p \in Writers, NEW new \in Runs, Set(p, new),
         new.file = run[p].file, new.rows = run[p].rows, new.to = run[p].to,
         new.advance = run[p].advance, new.base \in {meta, run[p].base},
         new.pc \in {"commit", "discard", "delete"}, run[p].pc # "idle",
         new.pc = "commit" =>
           new.rows = Held(new.file) /\ (new.file # 0 => new.file \in stored)
  PROVE  ColdCoherent'
<1>0. TypeOK /\ clock \in Nat /\ RunCoherent(p) /\ meta \in Tables /\ ChainCoherent
  BY DEF ColdCoherent, TypeOK
<1>1. Grows /\ SameTable
  BY <1>0, Still
<1>2. run'[p] = new /\ \A q \in Writers : q # p => run'[q] = run[q]
  BY <1>0 DEF Set, TypeOK
<1>3. RunCoherent(p)'
  <2>1. Loaded(run[p].base)'
    <3>1. Loaded(meta)
      BY <1>0 DEF Loaded, ChainCoherent, Tables
    <3>2. PICK base \in Tables : base = new.base /\ Loaded(base)
      BY <1>0, <3>1, RunType DEF RunCoherent
    <3>3. Loaded(base)'
      BY <1>1, <3>2 DEF Grows
    <3> QED
      BY <1>2, <3>2, <3>3 DEF Loaded, Listed, CurrentBase
  <2>2. Held(new.file)' = Held(new.file)
    BY DEF Held
  <2> QED
    BY <1>0, <1>2, <2>1 DEF RunCoherent, Held
<1>4. p = "archiver" => ArchiverCoherent'
  <2> SUFFICES ASSUME p = "archiver" PROVE ArchiverCoherent'
    OBVIOUS
  <2>1. PICK w \in Windows :
          /\ run["archiver"].advance /\ run["archiver"].to = w + 1
          /\ run["archiver"].rows = Hot[w] /\ w <= WatermarkOf(meta)
    BY DEF ColdCoherent, ArchiverCoherent
  <2>2. w <= WatermarkOf(meta)'
    BY <1>1, <2>1 DEF SameTable
  <2> QED
    BY <1>2, <2>1, <2>2 DEF ArchiverCoherent, Windows
<1>5. p = "corrector" => CorrectorCoherent'
  <2> SUFFICES ASSUME p = "corrector" PROVE CorrectorCoherent'
    OBVIOUS
  <2>1. /\ ~run["corrector"].advance /\ meta.current # 0
        /\ Settled(run["corrector"].rows) /\ New(run["corrector"].rows)
    BY DEF ColdCoherent, CorrectorCoherent
  <2>2. Settled(run["corrector"].rows)' /\ New(run["corrector"].rows)'
    BY <1>1, <1>2, <2>1 DEF Settled, New, SameTable
  <2> QED
    BY <1>2, <2>1, <2>2 DEF CorrectorCoherent
<1>6. p = "expirer" => ExpirerCoherent'
  <2> SUFFICES ASSUME p = "expirer" PROVE ExpirerCoherent'
    OBVIOUS
  <2>1. /\ ~run["expirer"].advance /\ run["expirer"].rows = {} /\ meta.current # 0
    BY DEF ColdCoherent, ExpirerCoherent
  <2> QED
    BY <1>2, <2>1 DEF ExpirerCoherent
<1> QED
  BY <1>2, <1>3, <1>4, <1>5, <1>6, OneRun

LEMMA DiscardStep ==
  ASSUME ColdCoherent, TypeOK', UNCHANGED <<snaps, meta, file, stored, flight, query, clock, late>>,
         NEW p \in Writers, run[p].pc = "commit", Discard(p)
  PROVE  ColdCoherent'
<1>1. CASE run[p].file = 0
  BY <1>1, LeaveStep DEF Discard
<1>2. CASE run[p].file # 0
  <2> DEFINE new == [run[p] EXCEPT !.pc = "discard"]
  <2>1. run[p] \in Runs
    BY RunType DEF ColdCoherent
  <2>2. /\ new \in Runs /\ new.file = run[p].file /\ new.rows = run[p].rows /\ new.to = run[p].to
        /\ new.advance = run[p].advance /\ new.base = run[p].base /\ new.pc = "discard"
    BY <2>1 DEF Runs, Phases
  <2>3. Set(p, new)
    BY <1>2 DEF Discard
  <2> HIDE DEF new
  <2> QED
    BY <2>2, <2>3, GoOnStep
<1> QED
  BY <1>1, <1>2

LEMMA ConflictStep ==
  ASSUME ColdCoherent, TypeOK', NEW p \in Writers, CommitConflict(p)
  PROVE  ColdCoherent'
<1>1. CASE run[p].attempt + 1 < Attempts
  <2> DEFINE new == [run[p] EXCEPT !.base = meta, !.attempt = @ + 1]
  <2>1. run[p] \in Runs /\ run[p].attempt + 1 \in Nat /\ meta \in Tables /\ RunCoherent(p)
    BY RunType DEF ColdCoherent, TypeOK
  <2>2. /\ new \in Runs /\ new.file = run[p].file /\ new.rows = run[p].rows /\ new.to = run[p].to
        /\ new.advance = run[p].advance /\ new.base = meta /\ new.pc = run[p].pc
    BY <2>1 DEF Runs, Phases
  <2>3. Set(p, new) /\ run[p].pc = "commit"
        /\ UNCHANGED <<snaps, meta, file, stored, flight, query, clock, late>>
    BY <1>1 DEF CommitConflict
  <2>4. new.rows = Held(new.file) /\ (new.file # 0 => new.file \in stored)
    BY <2>1, <2>2, <2>3 DEF RunCoherent
  <2> HIDE DEF new
  <2> QED
    BY <2>2, <2>3, <2>4, GoOnStep
<1>2. CASE ~(run[p].attempt + 1 < Attempts)
  BY <1>2, DiscardStep DEF CommitConflict
<1> QED
  BY <1>1, <1>2

LEMMA ReferencedStep ==
  ASSUME ColdCoherent, TypeOK', NEW p \in Writers, ReferencedPaths(p)
  PROVE  ColdCoherent'
<1> DEFINE new == [run[p] EXCEPT !.pc = "delete", !.kept = FilesOf(meta.current)]
<1>1. run[p] \in Runs /\ Set(p, new) /\ run[p].pc = "discard"
      /\ UNCHANGED <<snaps, meta, file, stored, flight, query, clock, late>>
  BY RunType DEF ColdCoherent, ReferencedPaths
<1>2. new \in Runs
  <2>1. run'[p] = new /\ run' \in [Writers -> Runs]
    BY <1>1 DEF Set, TypeOK, ColdCoherent
  <2> QED
    BY <2>1
<1>3. /\ new.file = run[p].file /\ new.rows = run[p].rows /\ new.to = run[p].to
      /\ new.advance = run[p].advance /\ new.base = run[p].base /\ new.pc = "delete"
  BY <1>1 DEF Runs
<1> HIDE DEF new
<1> QED
  BY <1>1, <1>2, <1>3, GoOnStep

\* The files of a failed commit go: no snapshot names them, and no request does.
LEMMA DeleteStep ==
  ASSUME ColdCoherent, TypeOK', NEW p \in Writers, DeleteFiles(p)
  PROVE  ColdCoherent'
<1>0. /\ TypeOK /\ clock \in Nat /\ RunCoherent(p) /\ FilesCoherent /\ FlightCoherent
      /\ UNCHANGED <<snaps, meta, file, flight, query, clock, late>>
      /\ stored' = stored \ ({run[p].file} \ run[p].kept)
  BY DEF ColdCoherent, TypeOK, DeleteFiles
<1>1. FilesStay
  BY <1>0 DEF FilesStay
<1>2. Grows /\ SameTable /\ ChainCoherent'
  BY <1>0, <1>1, NoCommit
<1>3. run'[p] = Idle /\ \A q \in Writers : q # p => run'[q] = run[q]
  BY <1>0, LeaveType DEF DeleteFiles
<1>4. ASSUME NEW f \in stored, f \notin stored' PROVE f = run[p].file /\ f # 0
  <2>1. f = run[p].file /\ f \in DOMAIN file
    BY <1>0, <1>4 DEF FilesCoherent
  <2> QED
    BY <1>0, <2>1, Lengths
<1>5. FilesCoherent'
  <2>1. \A id \in DOMAIN snaps : snaps[id].files \subseteq stored'
    BY <1>0, <1>4 DEF FilesCoherent, RunCoherent
  <2>2. \A r \in RowsOf(meta.current)' : r.from < WatermarkOf(meta)'
    BY <1>0, <1>2 DEF SameTable, FilesCoherent
  <2>3. stored' \subseteq DOMAIN file'
    BY <1>0 DEF FilesCoherent
  <2> QED
    BY <1>0, <1>2, <2>1, <2>2, <2>3, FilesKept
<1>6. ASSUME NEW q \in Writers, q # p PROVE RunCoherent(q)'
  <2>1. run[q].file # 0 =>
          /\ \A r \in Writers : r # q => run'[r].file # run[q].file
          /\ flight # None => run[q].file \notin flight.snapshot.files
          /\ run[q].file # run[p].file
    BY <1>3, <1>6 DEF ColdCoherent, RunCoherent, Idle
  <2> QED
    BY <1>0, <1>2, <1>3, <1>4, <1>6, <2>1, RunStays
<1>7. FlightCoherent'
  <2>1. flight # None => flight.snapshot.files \subseteq stored'
    BY <1>0, <1>4 DEF FlightCoherent, RunCoherent
  <2>2. run'["corrector"].rows \subseteq run["corrector"].rows
    BY <1>3 DEF Writers, Idle
  <2> QED
    BY <1>0, <1>2, <2>1, <2>2, FlightStays
<1>8. ArchiverCoherent' /\ CorrectorCoherent' /\ ExpirerCoherent'
  BY <1>2, <1>3, LeftCoherent, ArchiverStays, CorrectorStays, ExpirerStays
  DEF Writers, SameTable
<1>9. \A q \in Queries : QueryCoherent(q)'
  BY <1>0, <1>2, QueryStays
<1> QED
  BY <1>2, <1>3, <1>5, <1>6, <1>7, <1>8, <1>9, IdleStays DEF ColdCoherent

\* The files are written: a new one, that nothing names yet.
LEMMA WriteStep ==
  ASSUME ColdCoherent, TypeOK', NEW p \in Writers, WriteDataFiles(p)
  PROVE  ColdCoherent'
<1>0. /\ TypeOK /\ clock \in Nat /\ RunCoherent(p) /\ FilesCoherent /\ FlightCoherent
      /\ ChainCoherent /\ run[p] \in Runs /\ meta \in Tables /\ run[p].pc = "write"
      /\ run[p].file = 0
      /\ UNCHANGED <<snaps, meta, flight, query, clock, late>>
  BY RunType DEF ColdCoherent, TypeOK, WriteDataFiles, RunCoherent
<1>1. CASE run[p].rows = {}
  <2> DEFINE new == [run[p] EXCEPT !.pc = "commit", !.base = meta]
  <2>1. /\ new \in Runs /\ new.file = run[p].file /\ new.rows = run[p].rows /\ new.to = run[p].to
        /\ new.advance = run[p].advance /\ new.base = meta /\ new.pc = "commit"
    BY <1>0 DEF Runs, Phases
  <2>2. Set(p, new) /\ UNCHANGED <<file, stored>>
    BY <1>1 DEF WriteDataFiles
  <2>3. new.rows = Held(new.file) /\ new.file = 0
    BY <1>0, <1>1, <2>1 DEF Held
  <2> HIDE DEF new
  <2> QED
    BY <1>0, <2>1, <2>2, <2>3, GoOnStep
<1>2. CASE run[p].rows # {}
  <2>1. PICK f \in Nat : f = Len(file) + 1
    BY <1>0, Lengths
  <2>2. /\ file' = Append(file, [rows |-> run[p].rows, spanned |-> TRUE])
        /\ stored' = stored \union {f}
        /\ Set(p, [run[p] EXCEPT !.pc = "commit", !.base = meta, !.file = f])
    BY <1>2, <2>1 DEF WriteDataFiles
  <2>3. [rows |-> run[p].rows, spanned |-> TRUE] \in Files
    BY <1>0, RunType DEF Files
  <2>4. /\ FilesStay /\ f \in DOMAIN file' /\ f \notin DOMAIN file /\ f # 0
        /\ file'[f].rows = run[p].rows
    BY <1>0, <2>1, <2>2, <2>3, FileGrows, Lengths DEF FilesStay
  <2>5. Grows /\ SameTable /\ ChainCoherent'
    BY <1>0, <2>4, NoCommit
  <2>6. FilesCoherent'
    <3>1. stored' \subseteq DOMAIN file'
      BY <1>0, <2>2, <2>4 DEF FilesCoherent, FilesStay
    <3>4. \A g \in DOMAIN file' : g \in DOMAIN file \/ file'[g].rows # {}
      BY <1>0, <1>2, <2>1, <2>2, <2>3, <2>4, FileGrows, Lengths
    <3>2. \A id \in DOMAIN snaps : snaps[id].files \subseteq stored'
      BY <1>0, <2>2 DEF FilesCoherent
    <3>3. \A r \in RowsOf(meta.current)' : r.from < WatermarkOf(meta)'
      BY <1>0, <2>5 DEF SameTable, FilesCoherent
    <3> QED
      BY <1>0, <2>5, <3>1, <3>2, <3>3, <3>4, FilesKept
  <2>7. /\ run'[p] = [run[p] EXCEPT !.pc = "commit", !.base = meta, !.file = f]
        /\ \A q \in Writers : q # p => run'[q] = run[q]
    BY <1>0, <2>2 DEF Set, TypeOK
  <2>8. /\ run'[p].file = f /\ run'[p].rows = run[p].rows /\ run'[p].to = run[p].to
        /\ run'[p].advance = run[p].advance /\ run'[p].base = meta /\ run'[p].pc = "commit"
    BY <1>0, <2>7 DEF Runs
  <2>9. ASSUME NEW q \in Writers, q # p PROVE RunCoherent(q)'
    <3>1. run[q].file # 0 =>
            /\ \A r \in Writers : r # q => run'[r].file # run[q].file
            /\ flight # None => run[q].file \notin flight.snapshot.files
            /\ run[q].file # f
      <4> SUFFICES ASSUME run[q].file # 0
                   PROVE  /\ \A r \in Writers : r # q => run'[r].file # run[q].file
                          /\ flight # None => run[q].file \notin flight.snapshot.files
                          /\ run[q].file # f
        OBVIOUS
      <4>1. /\ run[q].file \in DOMAIN file
            /\ \A r \in Writers : r # q => run[r].file # run[q].file
            /\ flight # None => run[q].file \notin flight.snapshot.files
        BY DEF ColdCoherent, RunCoherent
      <4>2. run[q].file # f
        BY <2>4, <4>1
      <4>3. \A r \in Writers : run'[r].file \in {f, run[r].file}
        BY <2>7, <2>8
      <4>4. run'[p].file = f
        BY <2>8
      <4> QED
        BY <2>7, <4>1, <4>2, <4>4
    <3> QED
      BY <1>0, <2>2, <2>5, <2>7, <2>9, <3>1, RunStays
  <2>10. RunCoherent(p)'
    <3>1. Loaded(run[p].base)'
      <4>1. Loaded(meta)
        BY <1>0 DEF Loaded, ChainCoherent, Tables
      <4>2. PICK base \in Tables : base = meta /\ Loaded(base)
        BY <1>0, <4>1
      <4>3. Loaded(base)'
        BY <2>5, <4>2 DEF Grows
      <4> QED
        BY <2>8, <4>2, <4>3 DEF Loaded, Listed, CurrentBase
    <3>2. \A id \in DOMAIN snaps : f \notin snaps[id].files
      BY <1>0, <2>4 DEF FilesCoherent
    <3>3. flight # None => f \notin flight.snapshot.files
      BY <1>0, <2>4 DEF FilesCoherent, FlightCoherent
    <3>4. \A q \in Writers : q # p => run'[q].file # f
      BY <2>4, <2>7 DEF ColdCoherent, RunCoherent
    <3>5. f \in stored'
      BY <2>2
    <3>6. (Held(run[p].file) = file[run[p].file].rows)'
      BY <2>4, <2>8 DEF Held
    <3> QED
      BY <1>0, <1>2, <2>4, <2>8, <3>1, <3>2, <3>3, <3>4, <3>5, <3>6 DEF RunCoherent
  <2>11. FlightCoherent'
    <3>1. flight # None => flight.snapshot.files \subseteq stored'
      BY <1>0, <2>2 DEF FlightCoherent
    <3>2. run'["corrector"].rows \subseteq run["corrector"].rows
      BY <2>7, <2>8 DEF Writers
    <3> QED
      BY <1>0, <2>5, <3>1, <3>2, FlightStays
  <2>12. ArchiverCoherent'
    <3>1. CASE p # "archiver"
      BY <2>5, <2>7, <3>1, ArchiverStays DEF Writers
    <3>2. CASE p = "archiver"
      <4>1. PICK w \in Windows :
              /\ run["archiver"].advance /\ run["archiver"].to = w + 1
              /\ run["archiver"].rows = Hot[w] /\ w <= WatermarkOf(meta)
        BY <1>0, <3>2 DEF ColdCoherent, ArchiverCoherent
      <4>2. w <= WatermarkOf(meta)'
        BY <2>5, <4>1 DEF SameTable
      <4> QED
        BY <2>8, <3>2, <4>1, <4>2 DEF ArchiverCoherent, Windows
    <3> QED
      BY <3>1, <3>2
  <2>13. CorrectorCoherent'
    <3>1. CASE p # "corrector"
      BY <2>5, <2>7, <3>1, CorrectorStays DEF Writers, SameTable
    <3>2. CASE p = "corrector"
      <4>1. /\ ~run["corrector"].advance /\ meta.current # 0
            /\ Settled(run["corrector"].rows) /\ New(run["corrector"].rows)
        BY <1>0, <3>2 DEF ColdCoherent, CorrectorCoherent
      <4>2. Settled(run["corrector"].rows)' /\ New(run["corrector"].rows)'
        BY <1>0, <2>5, <2>8, <3>2, <4>1 DEF Settled, New, SameTable
      <4> QED
        BY <1>0, <2>8, <3>2, <4>1, <4>2 DEF CorrectorCoherent
    <3> QED
      BY <3>1, <3>2
  <2>14. ExpirerCoherent'
    <3>1. p # "expirer"
      BY <1>0, <1>2 DEF ColdCoherent, ExpirerCoherent
    <3> QED
      BY <2>5, <2>7, <3>1, ExpirerStays DEF Writers
  <2>15. \A q \in Queries : QueryCoherent(q)'
    BY <1>0, <2>5, QueryStays
  <2> QED
    BY <2>5, <2>6, <2>9, <2>10, <2>11, <2>12, <2>13, <2>14, <2>15, IdleStays DEF ColdCoherent
<1> QED
  BY <1>1, <1>2

\* What a writer whose base is still current commits: archival the next window, anyone
\* else rows below the boundary, which stays.
LEMMA Proposal ==
  ASSUME ColdCoherent, NEW p \in Writers, run[p].pc = "commit", MarkFor(p) # None,
         CurrentBase(run[p].base)
  PROVE  /\ run[p].file \in 0..Len(file) /\ run[p].rows = Held(run[p].file)
         /\ run[p].file # 0 => run[p].file \in stored
         /\ Proposed(p).files = FilesOf(meta.current) \union ({run[p].file} \ {0})
         /\ Proposed(p).parent = meta.current /\ Proposed(p).at = clock
         /\ p = "archiver" => /\ WatermarkOf(meta) \in Windows
                              /\ run[p].rows = Hot[WatermarkOf(meta)]
                              /\ Proposed(p).mark = WatermarkOf(meta) + 1
         /\ p # "archiver" => /\ meta.current # 0 /\ Proposed(p).mark = WatermarkOf(meta)
                              /\ Settled(run[p].rows) /\ New(run[p].rows)
         /\ p = "expirer" => run[p].rows = {} /\ run[p].file = 0
<1>0. /\ TypeOK /\ Chain /\ Listed(run[p].base) /\ RunCoherent(p)
      /\ WatermarkOf(meta) \in Nat
  BY BaseListed, WatermarkStated DEF ColdCoherent
<1>1. run[p].base = meta
  BY <1>0 DEF RunCoherent, Loaded
<1>2. /\ ~run[p].advance => Proposed(p).mark = WatermarkOf(meta)
      /\ run[p].advance => /\ Proposed(p).mark = run[p].to
                           /\ run[p].to > WatermarkOf(meta)
  BY <1>0, <1>1, ProposedType DEF Proposed
<1>3. /\ Proposed(p).files = FilesOf(meta.current) \union ({run[p].file} \ {0})
      /\ Proposed(p).parent = meta.current /\ Proposed(p).at = clock
  BY <1>1 DEF Proposed
<1>4. /\ run[p].file \in 0..Len(file) /\ run[p].rows = Held(run[p].file)
      /\ run[p].file # 0 => run[p].file \in stored
  BY <1>0, Lengths DEF RunCoherent
<1>5. ASSUME p = "archiver"
      PROVE  /\ WatermarkOf(meta) \in Windows
             /\ run[p].rows = Hot[WatermarkOf(meta)]
             /\ Proposed(p).mark = WatermarkOf(meta) + 1
  <2>1. PICK w \in Windows : /\ run[p].advance /\ run[p].to = w + 1 /\ run[p].rows = Hot[w]
                             /\ w <= WatermarkOf(meta)
    BY <1>5 DEF ColdCoherent, ArchiverCoherent
  <2>2. w \in Nat
    BY ColdAssumption
  <2>3. w = WatermarkOf(meta)
    BY <1>0, <1>2, <2>1, <2>2
  <2> QED
    BY <1>2, <2>1, <2>3
<1>6. ASSUME p # "archiver"
      PROVE  /\ meta.current # 0 /\ Proposed(p).mark = WatermarkOf(meta)
             /\ Settled(run[p].rows) /\ New(run[p].rows)
             /\ p = "expirer" => run[p].rows = {} /\ run[p].file = 0
  <2>1. CASE p = "corrector"
    BY <1>2, <2>1 DEF ColdCoherent, CorrectorCoherent
  <2>2. CASE p = "expirer"
    <3>1. ~run[p].advance /\ run[p].rows = {} /\ meta.current # 0
      BY <2>2 DEF ColdCoherent, ExpirerCoherent
    <3> QED
      BY <1>0, <1>2, <3>1 DEF Settled, New, RunCoherent
  <2> QED
    BY <1>6, <2>1, <2>2 DEF Writers
<1> QED
  BY <1>3, <1>4, <1>5, <1>6

\* A commit that failed: its files go only if the answer was no, and otherwise its
\* request may come later.
LEMMA FailStep ==
  ASSUME ColdCoherent, TypeOK', NEW p \in Writers, CommitFails(p)
  PROVE  ColdCoherent'
<1>0. /\ TypeOK /\ Chain /\ RunCoherent(p) /\ FlightCoherent /\ FilesCoherent
      /\ clock \in Nat /\ run[p].pc = "commit" /\ MarkFor(p) # None
      /\ UNCHANGED <<snaps, meta, file, stored, query, clock, late>>
      /\ run[p].base \in Tables /\ Listed(run[p].base)
  BY BaseListed DEF ColdCoherent, TypeOK, CommitFails
<1>1. PICK answer \in {"refused", "unknown"} :
        /\ answer = "unknown" => flight = None
        /\ IF Refused(answer) THEN Discard(p) ELSE Leave(p)
        /\ flight' = IF answer = "unknown"
                     THEN [base |-> run[p].base, snapshot |-> Proposed(p),
                           rows |-> run[p].rows, passed |-> FALSE]
                     ELSE flight
  BY DEF CommitFails
<1>2. CASE answer = "refused"
  BY <1>0, <1>1, <1>2, DiscardStep DEF Refused
<1>3. CASE answer = "unknown"
  <2>1. /\ Leave(p) /\ flight = None
        /\ flight'.base = run[p].base /\ flight'.snapshot = Proposed(p)
        /\ flight'.rows = run[p].rows /\ flight'.passed = FALSE
    BY <1>1, <1>3 DEF Refused
  <2>2. Grows /\ SameTable /\ ChainCoherent' /\ FilesCoherent'
    BY <1>0, Still
  <2>3. run'[p] = Idle /\ \A q \in Writers : q # p => run'[q] = run[q]
    BY <1>0, <2>1, LeaveType
  <2>4. Proposed(p).files = FilesOf(run[p].base.current) \union ({run[p].file} \ {0})
        /\ Proposed(p).parent = run[p].base.current
    BY DEF Proposed
  <2>5. \E id \in DOMAIN snaps \union {0} :
          FilesOf(run[p].base.current) = IF id = 0 THEN {} ELSE snaps[id].files
    BY <1>0, TableType, Lengths DEF FilesOf
  <2>6. ASSUME NEW q \in Writers, q # p PROVE RunCoherent(q)'
    <3>1. run[q].file # 0 =>
            /\ \A r \in Writers : r # q => run'[r].file # run[q].file
            /\ run[q].file \notin Proposed(p).files
      <4> SUFFICES ASSUME run[q].file # 0
                   PROVE  /\ \A r \in Writers : r # q => run'[r].file # run[q].file
                          /\ run[q].file \notin Proposed(p).files
        OBVIOUS
      <4>1. /\ \A id \in DOMAIN snaps : run[q].file \notin snaps[id].files
            /\ \A r \in Writers : r # q => run[r].file # run[q].file
        BY DEF ColdCoherent, RunCoherent
      <4> QED
        BY <2>3, <2>4, <2>5, <2>6, <4>1 DEF Idle
    <3> QED
      BY <1>0, <2>1, <2>2, <2>3, <2>6, <3>1, RunStays
  <2>7. ArchiverCoherent' /\ CorrectorCoherent' /\ ExpirerCoherent'
    BY <2>2, <2>3, LeftCoherent, ArchiverStays, CorrectorStays, ExpirerStays
    DEF Writers, SameTable
  <2>8. \A q \in Queries : QueryCoherent(q)'
    BY <1>0, <2>2, QueryStays
  <2>9. FlightCoherent'
    <3>1. Loaded(flight.base)'
      <4>1. PICK base \in Tables : base = run[p].base /\ Loaded(base)
        BY <1>0 DEF RunCoherent
      <4>2. Loaded(base)'
        BY <2>2, <4>1 DEF Grows
      <4> QED
        BY <2>1, <4>1, <4>2 DEF Loaded, Listed, CurrentBase
    <3>2. flight'.snapshot.files \subseteq stored'
      <4>1. run[p].file # 0 => run[p].file \in stored
        BY <1>0 DEF RunCoherent
      <4> QED
        BY <1>0, <2>1, <2>4, <2>5, <4>1 DEF FilesCoherent
    <3>3. ASSUME CurrentBase(flight.base)'
          PROVE  /\ \E f \in 0..Len(file') :
                      /\ flight'.snapshot.files = FilesOf(meta.current)' \union ({f} \ {0})
                      /\ flight'.rows = Held(f)'
                 /\ \/ /\ WatermarkOf(meta)' \in Windows /\ flight'.rows = Hot[WatermarkOf(meta)']
                       /\ flight'.snapshot.mark = WatermarkOf(meta)' + 1
                    \/ /\ meta'.current # 0 /\ flight'.snapshot.mark = WatermarkOf(meta)'
                       /\ Settled(flight.rows)'
                       /\ New(flight.rows)' /\ flight'.rows \cap run'["corrector"].rows = {}
      <4>1. CurrentBase(run[p].base)
        BY <1>0, <2>1, <3>3 DEF CurrentBase
      <4>2. PICK f \in 0..Len(file) : /\ f = run[p].file /\ run[p].rows = Held(f)
                                      /\ Proposed(p).files = FilesOf(meta.current) \union ({f} \ {0})
        BY <1>0, <4>1, Proposal
      <4>3. Held(f)' = Held(f)
        BY <1>0 DEF Held
      <4>4. Settled(run[p].rows) => Settled(flight.rows)'
        BY <2>1, <2>2 DEF Settled, SameTable
      <4>5. New(run[p].rows) => New(flight.rows)'
        BY <1>0, <2>1, <2>2 DEF New, SameTable
      <4>6. CASE p = "archiver"
        BY <1>0, <2>1, <2>2, <4>1, <4>2, <4>3, <4>6, Proposal DEF SameTable
      <4>7. CASE p # "archiver"
        <5>1. run[p].rows \cap run'["corrector"].rows = {}
          <6>1. CASE p = "corrector"
            BY <2>3, <6>1 DEF Idle
          <6>2. CASE p = "expirer"
            BY <1>0, <4>1, <6>2, Proposal
          <6> QED
            BY <4>7, <6>1, <6>2 DEF Writers
        <5> QED
          BY <1>0, <2>1, <2>2, <4>1, <4>2, <4>3, <4>4, <4>5, <4>7, <5>1, Proposal DEF SameTable
      <4> QED
        BY <4>6, <4>7
    <3> QED
      BY <2>1, <2>4, <3>1, <3>2, <3>3 DEF FlightCoherent, Windows
  <2> QED
    BY <2>2, <2>3, <2>6, <2>7, <2>8, <2>9, IdleStays, LeftCoherent DEF ColdCoherent
<1> QED
  BY <1>2, <1>3

\* What a landing commit makes of the data, whoever made it and whenever it lands.
LEMMA LandGrows ==
  ASSUME ColdCoherent, TypeOK', NEW s \in Snapshots, Commit(s),
         UNCHANGED <<file, stored, clock>>, late => late',
         s.parent = meta.current, s.at = clock,
         NEW f \in 0..Len(file), f # 0 => f \in stored,
         s.files = FilesOf(meta.current) \union ({f} \ {0}),
         \/ /\ WatermarkOf(meta) \in Windows /\ Held(f) = Hot[WatermarkOf(meta)]
            /\ s.mark = WatermarkOf(meta) + 1
         \/ /\ meta.current # 0 /\ s.mark = WatermarkOf(meta) /\ Settled(Held(f))
            /\ late' \/ Held(f) \cap RowsOf(meta.current) = {}
  PROVE  /\ Grows /\ ChainCoherent' /\ FilesCoherent' /\ meta.version < meta'.version
         /\ \A id \in DOMAIN snaps' : id \in DOMAIN snaps \/ snaps'[id] = s
         /\ WatermarkOf(meta)' = s.mark
         /\ RowsOf(meta.current)' = RowsOf(meta.current) \union Held(f)
<1>0. /\ TypeOK /\ FilesCoherent /\ WatermarkOf(meta) \in Nat /\ Len(file) \in Nat
      /\ DOMAIN file = 1..Len(file) /\ meta.current \in DOMAIN snaps \union {0}
      /\ FilesStay
  BY BaseListed, WatermarkStated, TableType, Lengths DEF ColdCoherent, FilesStay
<1>1. UNION {file[g].rows : g \in s.files} = RowsOf(meta.current) \union Held(f)
  BY DEF RowsOf, Held
<1>2. s.mark # None /\ s.mark \in Nat /\ WatermarkOf(meta) <= s.mark
  BY <1>0, NoneIsNoNumber
<1>3. /\ Grows /\ ChainCoherent' /\ meta.version < meta'.version
      /\ \A id \in DOMAIN snaps' : id \in DOMAIN snaps \/ snaps'[id] = s
      /\ WatermarkOf(meta)' = s.mark
      /\ RowsOf(meta.current)' = UNION {file'[g].rows : g \in s.files}
  BY <1>0, <1>1, <1>2, CommitGrows
<1>4. RowsOf(meta.current)' = RowsOf(meta.current) \union Held(f)
  BY <1>1, <1>3
<1>5. late' \/ Held(f) \cap RowsOf(meta.current) = {}
  <2>1. ASSUME WatermarkOf(meta) \in Windows, Held(f) = Hot[WatermarkOf(meta)],
               NEW r \in Held(f), r \in RowsOf(meta.current)
        PROVE  FALSE
    <3>1. r.from = WatermarkOf(meta)
      BY <2>1, ColdAssumption
    <3>2. r.from < WatermarkOf(meta)
      BY <1>0, <2>1 DEF FilesCoherent
    <3> QED
      BY <1>0, <3>1, <3>2
  <2> QED
    BY <2>1
<1>6. FilesOf(meta.current) \subseteq stored
  BY <1>0 DEF FilesOf, FilesCoherent
<1>7. s.files \subseteq stored
  BY <1>0, <1>6
<1>8. ASSUME NEW g \in s.files, NEW h \in s.files, g # h, file[g].rows \cap file[h].rows # {}
      PROVE  late'
  <2>1. CASE g \in FilesOf(meta.current) /\ h \in FilesOf(meta.current)
    BY <1>0, <1>8, <2>1 DEF FilesOf, FilesCoherent
  <2>2. CASE g = f /\ h \in FilesOf(meta.current) /\ f # 0
    BY <1>5, <1>8, <2>2 DEF RowsOf, Held
  <2>3. CASE h = f /\ g \in FilesOf(meta.current) /\ f # 0
    BY <1>5, <1>8, <2>3 DEF RowsOf, Held
  <2> QED
    BY <1>8, <2>1, <2>2, <2>3
<1>9. ASSUME NEW r \in RowsOf(meta.current) \union Held(f) PROVE r.from < s.mark
  <2>1. CASE r \in RowsOf(meta.current)
    <3>1. r.from < WatermarkOf(meta)
      BY <1>0, <2>1 DEF FilesCoherent
    <3>2. r \in Rows
      <4>1. PICK g \in FilesOf(meta.current) : r \in file[g].rows
        BY <2>1 DEF RowsOf
      <4>2. g \in DOMAIN file
        BY <1>0, <1>6, <4>1 DEF FilesCoherent
      <4> QED
        BY <1>0, <4>1, <4>2, FileType
    <3>3. r.from \in Nat
      BY <3>2, ColdAssumption
    <3> QED
      BY <1>0, <1>2, <3>1, <3>3
  <2>2. CASE WatermarkOf(meta) \in Windows /\ r \in Hot[WatermarkOf(meta)]
             /\ s.mark = WatermarkOf(meta) + 1
    <3>1. r.from = WatermarkOf(meta)
      BY <2>2, ColdAssumption
    <3> QED
      BY <1>0, <2>2, <3>1
  <2>3. CASE s.mark = WatermarkOf(meta) /\ Settled(Held(f)) /\ r \in Held(f)
    BY <2>3 DEF Settled
  <2> QED
    BY <1>9, <2>1, <2>2, <2>3
<1>10. FilesCoherent'
  <2>1. stored' \subseteq DOMAIN file'
    BY <1>0 DEF FilesCoherent
  <2>2. \A id \in DOMAIN snaps : snaps[id].files \subseteq stored'
    BY <1>0 DEF FilesCoherent
  <2>3. \A id \in DOMAIN snaps' : id \in DOMAIN snaps \/
           /\ snaps'[id].files \subseteq stored'
           /\ \A g, h \in snaps'[id].files :
                g # h /\ file'[g].rows \cap file'[h].rows # {} => late'
    BY <1>3, <1>7, <1>8
  <2>4. \A r \in RowsOf(meta.current)' : r.from < WatermarkOf(meta)'
    BY <1>3, <1>4, <1>9
  <2> QED
    BY <1>3, <2>1, <2>2, <2>3, <2>4, FilesKept
<1> QED
  BY <1>3, <1>4, <1>10

\* What a commit that lands adds: a snapshot of its base with its file in it.
LEMMA Landing ==
  ASSUME ColdCoherent, TypeOK', NEW p \in Writers, CommitLands(p)
  PROVE  \E f \in 0..Len(file), s \in Snapshots :
           /\ f = run[p].file /\ run[p].rows = Held(f) /\ Held(f) \subseteq Rows
           /\ f # 0 => f \in stored
           /\ s.files = FilesOf(meta.current) \union ({f} \ {0})
           /\ p = "archiver" => /\ WatermarkOf(meta) \in Windows
                                /\ Held(f) = Hot[WatermarkOf(meta)]
                                /\ s.mark = WatermarkOf(meta) + 1
           /\ p # "archiver" => s.mark = WatermarkOf(meta) /\ Settled(Held(f))
           /\ p = "expirer" => f = 0 /\ run[p].rows = {}
           /\ Grows /\ ChainCoherent' /\ FilesCoherent' /\ meta.version < meta'.version
           /\ \A id \in DOMAIN snaps' : id \in DOMAIN snaps \/ snaps'[id] = s
           /\ WatermarkOf(meta)' = s.mark
           /\ RowsOf(meta.current)' = RowsOf(meta.current) \union Held(f)
<1>0. /\ TypeOK /\ Chain /\ RunCoherent(p) /\ FlightCoherent /\ FilesCoherent
      /\ run[p].pc = "commit" /\ MarkFor(p) # None /\ CurrentBase(run[p].base)
      /\ UNCHANGED <<file, stored, flight, query, clock, faults, late>>
      /\ Commit(Proposed(p)) /\ Listed(run[p].base) /\ run[p] \in Runs
  BY BaseListed, RunType DEF ColdCoherent, CommitLands
<1>1. PICK f \in 0..Len(file) :
        /\ f = run[p].file /\ run[p].rows = Held(f)
        /\ f # 0 => f \in stored
        /\ Proposed(p).files = FilesOf(meta.current) \union ({f} \ {0})
  BY <1>0, Proposal
<1>2. PICK s \in Snapshots : s = Proposed(p)
  BY <1>0, ProposedType
<1>3. /\ Commit(s) /\ s.parent = meta.current /\ s.at = clock
      /\ s.files = FilesOf(meta.current) \union ({f} \ {0})
      /\ p = "archiver" => /\ WatermarkOf(meta) \in Windows
                           /\ Held(f) = Hot[WatermarkOf(meta)]
                           /\ s.mark = WatermarkOf(meta) + 1
      /\ p # "archiver" => /\ meta.current # 0 /\ s.mark = WatermarkOf(meta)
                           /\ Settled(Held(f)) /\ New(Held(f))
      /\ p = "expirer" => f = 0 /\ run[p].rows = {}
  <2>1. Proposed(p).parent = meta.current /\ Proposed(p).at = clock
    BY <1>0, Proposal
  <2>2. p = "archiver" => /\ WatermarkOf(meta) \in Windows
                          /\ run[p].rows = Hot[WatermarkOf(meta)]
                          /\ Proposed(p).mark = WatermarkOf(meta) + 1
    BY <1>0, Proposal
  <2>3. p # "archiver" => /\ meta.current # 0 /\ Proposed(p).mark = WatermarkOf(meta)
                          /\ Settled(run[p].rows) /\ New(run[p].rows)
    BY <1>0, Proposal
  <2>4. p = "expirer" => run[p].rows = {} /\ run[p].file = 0
    BY <1>0, Proposal
  <2>5. Settled(run[p].rows) /\ New(run[p].rows) => Settled(Held(f)) /\ New(Held(f))
    BY <1>1 DEF Settled, New
  <2>6. Commit(s)
    BY <1>0, <1>2 DEF Commit
  <2> QED
    BY <1>1, <1>2, <2>1, <2>2, <2>3, <2>4, <2>5, <2>6
<1>4. /\ Grows /\ ChainCoherent' /\ FilesCoherent' /\ meta.version < meta'.version
      /\ \A id \in DOMAIN snaps' : id \in DOMAIN snaps \/ snaps'[id] = s
      /\ WatermarkOf(meta)' = s.mark
      /\ RowsOf(meta.current)' = RowsOf(meta.current) \union Held(f)
  <2>1. \/ /\ WatermarkOf(meta) \in Windows /\ Held(f) = Hot[WatermarkOf(meta)]
           /\ s.mark = WatermarkOf(meta) + 1
        \/ /\ meta.current # 0 /\ s.mark = WatermarkOf(meta) /\ Settled(Held(f))
           /\ late' \/ Held(f) \cap RowsOf(meta.current) = {}
    BY <1>0, <1>3 DEF New
  <2>2. UNCHANGED <<file, stored, clock>> /\ (late => late')
    BY <1>0
  <2> QED
    BY <1>1, <1>3, <2>1, <2>2, LandGrows
<1> QED
  BY <1>0, <1>1, <1>3, <1>4, RunType

LEMMA LandStep ==
  ASSUME ColdCoherent, TypeOK', NEW p \in Writers, CommitLands(p)
  PROVE  ColdCoherent'
<1>0. /\ TypeOK /\ RunCoherent(p) /\ FlightCoherent /\ run[p].pc = "commit"
      /\ UNCHANGED <<file, stored, flight, query, clock, faults, late>>
      /\ run[p] \in Runs
  BY RunType DEF ColdCoherent, CommitLands
<1>1. PICK f \in 0..Len(file), s \in Snapshots :
        /\ f = run[p].file /\ run[p].rows = Held(f)
        /\ s.files = FilesOf(meta.current) \union ({f} \ {0})
        /\ p = "archiver" => /\ WatermarkOf(meta) \in Windows
                             /\ Held(f) = Hot[WatermarkOf(meta)]
        /\ p = "expirer" => f = 0 /\ run[p].rows = {}
        /\ Grows /\ ChainCoherent' /\ FilesCoherent' /\ meta.version < meta'.version
        /\ \A id \in DOMAIN snaps' : id \in DOMAIN snaps \/ snaps'[id] = s
        /\ RowsOf(meta.current)' = RowsOf(meta.current) \union Held(f)
  BY Landing
<1>2. /\ p # "expirer" => run'[p] = Idle
      /\ p = "expirer" => run'[p] = [run[p] EXCEPT !.pc = "choose"]
      /\ \A q \in Writers : q # p => run'[q] = run[q]
  <2>1. CASE p = "expirer"
    BY <1>0, <2>1 DEF CommitLands, Set, TypeOK
  <2>2. CASE p # "expirer"
    BY <1>0, <2>2, LeaveType DEF CommitLands
  <2> QED
    BY <2>1, <2>2
<1>3. run'[p].file = 0
  <2>1. CASE p = "expirer"
    BY <1>0, <1>1, <1>2, <2>1 DEF Runs
  <2>2. CASE p # "expirer"
    BY <1>2, <2>2 DEF Idle
  <2> QED
    BY <2>1, <2>2
<1>4. ASSUME NEW q \in Writers, q # p PROVE RunCoherent(q)'
  <2> SUFFICES ASSUME run[q].file # 0
               PROVE  /\ \A r \in Writers : r # q => run'[r].file # run[q].file
                      /\ run[q].file \notin s.files
                      /\ flight # None => run[q].file \notin flight.snapshot.files
    BY <1>0, <1>1, <1>2, <1>4, RunStays
  <2>1. /\ \A id \in DOMAIN snaps : run[q].file \notin snaps[id].files
        /\ \A r \in Writers : r # q => run[r].file # run[q].file
        /\ flight # None => run[q].file \notin flight.snapshot.files
    BY DEF ColdCoherent, RunCoherent
  <2>2. run[q].file \notin FilesOf(meta.current)
    <3>1. meta.current \in DOMAIN snaps \union {0}
      BY BaseListed, TableType, Lengths
    <3> QED
      BY <2>1, <3>1 DEF FilesOf
  <2> QED
    <3>1. run[q].file # f
      BY <1>1, <1>4, <2>1
    <3>2. run[q].file \notin s.files
      BY <1>1, <2>2, <3>1
    <3>3. \A r \in Writers : r # q => run'[r].file # run[q].file
      <4> TAKE r \in Writers
      <4>1. CASE r = p
        BY <1>3, <4>1
      <4>2. CASE r # p
        BY <1>2, <2>1, <4>2
      <4> QED
        BY <4>1, <4>2
    <3> QED
      BY <2>1, <3>2, <3>3
<1>5. RunCoherent(p)'
  <2>1. CASE p # "expirer"
    BY <1>1, <1>2, <2>1, LeftCoherent
  <2>2. CASE p = "expirer"
    <3>1. run'[p].base = run[p].base /\ run'[p].pc = "choose" /\ run'[p].file = 0
      BY <1>0, <1>2, <1>3, <2>2 DEF Runs
    <3>2. Loaded(run[p].base)'
      <4>1. PICK base \in Tables : base = run[p].base /\ Loaded(base)
        BY <1>0 DEF RunCoherent, Runs
      <4>2. Loaded(base)'
        BY <1>1, <4>1 DEF Grows
      <4> QED
        BY <3>1, <4>1, <4>2 DEF Loaded, Listed, CurrentBase
    <3> QED
      BY <3>1, <3>2 DEF RunCoherent
  <2> QED
    BY <2>1, <2>2
<1>6. ArchiverCoherent'
  BY <1>1, <1>2, LeftCoherent, ArchiverStays DEF Writers
<1>7. CorrectorCoherent'
  <2>1. CASE p = "corrector"
    BY <1>1, <1>2, <2>1, LeftCoherent
  <2>2. CASE p = "expirer"
    <3>1. RowsOf(meta.current)' = RowsOf(meta.current)
      BY <1>1, <2>2 DEF Held
    <3> QED
      BY <1>1, <1>2, <2>2, <3>1, CorrectorStays DEF Writers
  <2>3. CASE p = "archiver"
    <3>1. run["corrector"].rows \cap Held(f) = {}
      <4> SUFFICES ASSUME NEW r \in run["corrector"].rows, r \in Held(f) PROVE FALSE
        OBVIOUS
      <4>1. run["corrector"].pc # "idle"
        BY <1>0 DEF ColdCoherent, RunCoherent, Idle, Writers
      <4>2. r.from < WatermarkOf(meta)
        BY <4>1 DEF ColdCoherent, CorrectorCoherent, Settled
      <4>3. r.from = WatermarkOf(meta)
        BY <1>1, <2>3, ColdAssumption
      <4>4. WatermarkOf(meta) \in Nat
        BY <1>1, <2>3, ColdAssumption
      <4> QED
        BY <4>2, <4>3, <4>4
    <3>2. late \/ run["corrector"].rows \cap RowsOf(meta.current) = {}
      <4>1. CASE run["corrector"].pc = "idle"
        BY <4>1 DEF ColdCoherent, RunCoherent, Idle, Writers
      <4>2. CASE run["corrector"].pc # "idle"
        BY <4>2 DEF ColdCoherent, CorrectorCoherent, New
      <4> QED
        BY <4>1, <4>2
    <3>3. late' \/ run["corrector"].rows \cap RowsOf(meta.current)' = {}
      BY <1>0, <1>1, <3>1, <3>2
    <3> QED
      BY <1>1, <1>2, <2>3, <3>3, CorrectorStays DEF Writers
  <2> QED
    BY <2>1, <2>2, <2>3 DEF Writers
<1>8. ExpirerCoherent'
  <2>1. CASE p # "expirer"
    BY <1>1, <1>2, <2>1, ExpirerStays DEF Writers
  <2>2. CASE p = "expirer"
    <3>1. /\ run'["expirer"].pc = "choose" /\ run'["expirer"].advance = run["expirer"].advance
          /\ run'["expirer"].rows = run["expirer"].rows
      BY <1>0, <1>2, <2>2 DEF Runs
    <3>2. ~run["expirer"].advance /\ run["expirer"].rows = {} /\ meta'.current # 0
      BY <1>0, <1>1, <2>2 DEF ColdCoherent, ExpirerCoherent, Grows
    <3> QED
      BY <3>1, <3>2 DEF ExpirerCoherent
  <2> QED
    BY <2>1, <2>2
<1>9. FlightCoherent'
  <2>1. flight # None => flight.snapshot.files \subseteq stored'
    BY <1>0 DEF FlightCoherent
  <2> QED
    BY <1>0, <1>1, <2>1, FlightStays
<1>10. \A q \in Queries : QueryCoherent(q)'
  BY <1>0, <1>1, QueryStays
<1> QED
  BY <1>1, <1>4, <1>5, <1>6, <1>7, <1>8, <1>9, <1>10, IdleStays DEF ColdCoherent

\* What a request adds when it is applied: what its writer would have committed.
LEMMA Applying ==
  ASSUME ColdCoherent, TypeOK', RequestApplied
  PROVE  \E f \in 0..Len(file), s \in Snapshots :
           /\ s.files = flight.snapshot.files
           /\ flight.rows = Held(f) /\ Held(f) \subseteq Rows
           /\ \/ /\ WatermarkOf(meta) \in Windows /\ flight.rows = Hot[WatermarkOf(meta)]
                 /\ s.mark = WatermarkOf(meta) + 1
              \/ /\ s.mark = WatermarkOf(meta) /\ Settled(flight.rows)
                 /\ ~flight.passed => flight.rows \cap run["corrector"].rows = {}
           /\ Grows /\ ChainCoherent' /\ FilesCoherent' /\ meta.version < meta'.version
           /\ \A id \in DOMAIN snaps' : id \in DOMAIN snaps \/ snaps'[id] = s
           /\ WatermarkOf(meta)' = s.mark
           /\ RowsOf(meta.current)' = RowsOf(meta.current) \union Held(f)
<1> DEFINE s == [flight.snapshot EXCEPT !.at = clock]
<1>0. /\ TypeOK /\ Chain /\ FlightCoherent /\ FilesCoherent
      /\ flight # None /\ CurrentBase(flight.base) /\ Commit(s)
      /\ UNCHANGED <<file, stored, run, query, clock, faults>>
      /\ flight' = None /\ late' = (late \/ flight.passed)
  BY BaseListed DEF ColdCoherent, RequestApplied
<1>1. flight.base = meta /\ flight.snapshot.parent = meta.current
  BY <1>0 DEF FlightCoherent, Loaded
<1>2. /\ s \in Snapshots /\ s.parent = meta.current /\ s.at = clock
      /\ s.files = flight.snapshot.files /\ s.mark = flight.snapshot.mark
  <2>1. clock \in Nat /\ flight.snapshot \in Snapshots
    BY <1>0, FlightType DEF TypeOK
  <2> QED
    BY <1>1, <2>1 DEF Snapshots
<1> HIDE DEF s
<1>3. PICK f \in 0..Len(file) :
        /\ s.files = FilesOf(meta.current) \union ({f} \ {0})
        /\ flight.rows = Held(f)
  BY <1>0, <1>2 DEF FlightCoherent
<1>4. f # 0 => f \in stored
  BY <1>0, <1>2, <1>3 DEF FlightCoherent
<1>5. \/ /\ WatermarkOf(meta) \in Windows /\ flight.rows = Hot[WatermarkOf(meta)]
         /\ s.mark = WatermarkOf(meta) + 1
      \/ /\ meta.current # 0 /\ s.mark = WatermarkOf(meta) /\ Settled(flight.rows)
         /\ ~flight.passed => New(flight.rows) /\ flight.rows \cap run["corrector"].rows = {}
  BY <1>0, <1>2 DEF FlightCoherent
<1>6. /\ Grows /\ ChainCoherent' /\ FilesCoherent' /\ meta.version < meta'.version
      /\ \A id \in DOMAIN snaps' : id \in DOMAIN snaps \/ snaps'[id] = s
      /\ WatermarkOf(meta)' = s.mark
      /\ RowsOf(meta.current)' = RowsOf(meta.current) \union Held(f)
  <2>1. \/ /\ WatermarkOf(meta) \in Windows /\ Held(f) = Hot[WatermarkOf(meta)]
           /\ s.mark = WatermarkOf(meta) + 1
        \/ /\ meta.current # 0 /\ s.mark = WatermarkOf(meta) /\ Settled(Held(f))
           /\ late' \/ Held(f) \cap RowsOf(meta.current) = {}
    BY <1>0, <1>3, <1>5 DEF New, Settled
  <2>2. UNCHANGED <<file, stored, clock>> /\ (late => late')
    BY <1>0
  <2> QED
    BY <1>0, <1>2, <1>3, <1>4, <2>1, <2>2, LandGrows
<1>7. flight.rows \subseteq Rows
  BY <1>0, FlightType
<1> QED
  BY <1>2, <1>3, <1>5, <1>6, <1>7

LEMMA AppliedStep ==
  ASSUME ColdCoherent, TypeOK', RequestApplied
  PROVE  ColdCoherent'
<1>0. /\ UNCHANGED <<file, stored, run, query, clock, faults>>
      /\ flight # None /\ flight' = None /\ late' = (late \/ flight.passed)
  BY DEF RequestApplied
<1>1. PICK f \in 0..Len(file), s \in Snapshots :
           /\ s.files = flight.snapshot.files /\ flight.rows = Held(f)
           /\ \/ /\ WatermarkOf(meta) \in Windows /\ flight.rows = Hot[WatermarkOf(meta)]
                 /\ s.mark = WatermarkOf(meta) + 1
              \/ /\ s.mark = WatermarkOf(meta) /\ Settled(flight.rows)
                 /\ ~flight.passed => flight.rows \cap run["corrector"].rows = {}
           /\ Grows /\ ChainCoherent' /\ FilesCoherent' /\ meta.version < meta'.version
           /\ \A id \in DOMAIN snaps' : id \in DOMAIN snaps \/ snaps'[id] = s
           /\ RowsOf(meta.current)' = RowsOf(meta.current) \union Held(f)
  BY Applying
<1>2. ASSUME NEW p \in Writers PROVE RunCoherent(p)'
  <2> SUFFICES ASSUME run[p].file # 0
               PROVE  /\ \A q \in Writers : q # p => run[q].file # run[p].file
                      /\ run[p].file \notin s.files
    BY <1>0, <1>1, <1>2, RunStays
  <2> QED
    BY <1>0, <1>1 DEF ColdCoherent, RunCoherent
<1>3. late' \/ run["corrector"].rows \cap RowsOf(meta.current)' = {}
  <2>1. late \/ run["corrector"].rows \cap RowsOf(meta.current) = {}
    <3>1. CASE run["corrector"].pc = "idle"
      BY <3>1 DEF ColdCoherent, RunCoherent, Idle, Writers
    <3>2. CASE run["corrector"].pc # "idle"
      BY <3>2 DEF ColdCoherent, CorrectorCoherent, New
    <3> QED
      BY <3>1, <3>2
  <2>2. late' \/ run["corrector"].rows \cap Held(f) = {}
    <3>1. CASE WatermarkOf(meta) \in Windows /\ flight.rows = Hot[WatermarkOf(meta)]
      <4> SUFFICES ASSUME NEW r \in run["corrector"].rows, r \in Held(f) PROVE FALSE
        OBVIOUS
      <4>1. run["corrector"].pc # "idle"
        BY DEF ColdCoherent, RunCoherent, Idle, Writers
      <4>2. r.from < WatermarkOf(meta)
        BY <4>1 DEF ColdCoherent, CorrectorCoherent, Settled
      <4>3. r.from = WatermarkOf(meta)
        BY <1>1, <3>1, ColdAssumption
      <4>4. WatermarkOf(meta) \in Nat
        BY <3>1, ColdAssumption
      <4> QED
        BY <4>2, <4>3, <4>4
    <3>2. CASE ~flight.passed => flight.rows \cap run["corrector"].rows = {}
      BY <1>0, <1>1, <3>2
    <3> QED
      BY <1>1, <3>1, <3>2
  <2> QED
    BY <1>0, <1>1, <2>1, <2>2
<1>4. ArchiverCoherent' /\ CorrectorCoherent' /\ ExpirerCoherent'
  BY <1>0, <1>1, <1>3, ArchiverStays, CorrectorStays, ExpirerStays
<1>5. FlightCoherent'
  BY <1>0 DEF FlightCoherent
<1>6. \A q \in Queries : QueryCoherent(q)'
  BY <1>0, <1>1, QueryStays
<1> QED
  BY <1>1, <1>2, <1>4, <1>5, <1>6, IdleStays DEF ColdCoherent, Writers

\* What a compaction changes: a file that holds what those it replaces held.
LEMMA Compacting ==
  ASSUME ColdCoherent, TypeOK', ForeignCompaction
  PROVE  \E some \in SUBSET FilesOf(meta.current), s \in Snapshots :
           LET new    == Len(file) + 1
               merged == UNION {file[f].rows : f \in some}
           IN  /\ stored' = stored \union {new} /\ merged # {}
               /\ DOMAIN file' = 1..new /\ file'[new].rows = merged
               /\ \A f \in DOMAIN file : f \in DOMAIN file' /\ file'[f] = file[f]
               /\ s.files = (FilesOf(meta.current) \ some) \union {new}
               /\ Grows /\ ChainCoherent' /\ meta.version < meta'.version
               /\ \A id \in DOMAIN snaps' : id \in DOMAIN snaps \/ snaps'[id] = s
               /\ WatermarkOf(meta)' = WatermarkOf(meta)
               /\ RowsOf(meta.current)' = RowsOf(meta.current)
<1>0. /\ TypeOK /\ Chain /\ FilesCoherent /\ meta.current # 0 /\ Listed(meta)
      /\ meta \in Tables /\ Len(file) \in Nat /\ DOMAIN file = 1..Len(file)
      /\ UNCHANGED <<run, flight, query, clock, faults, late>>
  BY BaseListed, Lengths DEF ColdCoherent, ForeignCompaction
<1>1. PICK some \in SUBSET FilesOf(meta.current), spanned \in BOOLEAN :
        /\ Cardinality(some) > 1
        /\ file' = Append(file, [rows |-> UNION {file[f].rows : f \in some}, spanned |-> spanned])
        /\ stored' = stored \union {Len(file) + 1}
        /\ Commit([parent |-> meta.current, mark |-> None, step |-> None, at |-> clock,
                   files |-> (FilesOf(meta.current) \ some) \union {Len(file) + 1}])
  BY DEF ForeignCompaction
<1>2. meta.current \in DOMAIN snaps /\ FilesOf(meta.current) \subseteq stored
  BY <1>0, TableType, Lengths DEF FilesOf, FilesCoherent
<1>3. FilesOf(meta.current) \subseteq DOMAIN file /\ Len(file) + 1 \notin stored
  BY <1>0, <1>2 DEF FilesCoherent
<1> DEFINE new == Len(file) + 1
<1> DEFINE s == [parent |-> meta.current, mark |-> None, step |-> None, at |-> clock,
                 files |-> (FilesOf(meta.current) \ some) \union {new}]
<1> DEFINE merged == UNION {file[f].rows : f \in some}
<1>4. s \in Snapshots
  BY <1>0, <1>3 DEF Snapshots, TypeOK, Tables
<1>5. merged \subseteq Rows
  BY <1>0, <1>3, FileType
<1>6. /\ DOMAIN file' = 1..new /\ file'[new].rows = merged
      /\ \A f \in DOMAIN file : f \in DOMAIN file' /\ file'[f] = file[f]
  <2>1. [rows |-> merged, spanned |-> spanned] \in Files
    BY <1>5 DEF Files
  <2> QED
    BY <1>0, <1>1, <2>1, FileGrows
<1>7. /\ Commit(s) /\ s.parent = meta.current /\ s.at = clock /\ s.mark = None
      /\ s.files = (FilesOf(meta.current) \ some) \union {new}
  BY <1>1
<1>8. FilesStay
  BY <1>6 DEF FilesStay
<1> HIDE DEF s, new
<1>9. UNION {file'[f].rows : f \in s.files} = RowsOf(meta.current)
  <2>1. ASSUME NEW r \in RowsOf(meta.current) PROVE \E f \in s.files : r \in file'[f].rows
    <3>1. PICK f \in FilesOf(meta.current) : r \in file[f].rows
      BY DEF RowsOf
    <3>2. CASE f \in some
      BY <1>6, <1>7, <3>1, <3>2
    <3>3. CASE f \notin some
      BY <1>3, <1>6, <1>7, <3>1, <3>3
    <3> QED
      BY <3>2, <3>3
  <2>2. ASSUME NEW f \in s.files, NEW r \in file'[f].rows PROVE r \in RowsOf(meta.current)
    <3>1. CASE f = new
      BY <1>6, <2>2, <3>1 DEF RowsOf
    <3>2. CASE f # new
      BY <1>3, <1>6, <1>7, <2>2, <3>2 DEF RowsOf
    <3> QED
      BY <3>1, <3>2
  <2> QED
    BY <2>1, <2>2
<1>10. /\ Grows /\ ChainCoherent' /\ meta.version < meta'.version
       /\ \A id \in DOMAIN snaps' : id \in DOMAIN snaps \/ snaps'[id] = s
       /\ WatermarkOf(meta)' = WatermarkOf(meta)
       /\ RowsOf(meta.current)' = RowsOf(meta.current)
  BY <1>0, <1>4, <1>7, <1>8, <1>9, CommitGrows
<1>11. merged # {}
  <2>1. some # {}
    <3>1. Cardinality({}) = 0
      BY FS_EmptySet
    <3>2. Cardinality(some) > 1
      BY <1>1
    <3> QED
      BY <3>1, <3>2
  <2> QED
    BY <1>0, <1>3, <2>1 DEF FilesCoherent
<1> QED
  BY <1>1, <1>4, <1>6, <1>7, <1>10, <1>11 DEF new

LEMMA ForeignStep ==
  ASSUME ColdCoherent, TypeOK', ForeignCompaction
  PROVE  ColdCoherent'
<1>0. /\ TypeOK /\ Chain /\ FilesCoherent /\ meta.current # 0 /\ Listed(meta)
      /\ meta \in Tables /\ Len(file) \in Nat /\ DOMAIN file = 1..Len(file)
      /\ UNCHANGED <<run, flight, query, clock, faults, late>>
  BY BaseListed, Lengths DEF ColdCoherent, ForeignCompaction
<1> DEFINE new == Len(file) + 1
<1>1. PICK some \in SUBSET FilesOf(meta.current), s \in Snapshots :
        LET merged == UNION {file[f].rows : f \in some}
        IN  /\ stored' = stored \union {new} /\ merged # {}
            /\ DOMAIN file' = 1..new /\ file'[new].rows = merged
            /\ \A f \in DOMAIN file : f \in DOMAIN file' /\ file'[f] = file[f]
            /\ s.files = (FilesOf(meta.current) \ some) \union {new}
            /\ Grows /\ ChainCoherent' /\ meta.version < meta'.version
            /\ \A id \in DOMAIN snaps' : id \in DOMAIN snaps \/ snaps'[id] = s
            /\ WatermarkOf(meta)' = WatermarkOf(meta)
            /\ RowsOf(meta.current)' = RowsOf(meta.current)
  BY Compacting
<1> DEFINE merged == UNION {file[f].rows : f \in some}
<1>2. meta.current \in DOMAIN snaps /\ FilesOf(meta.current) \subseteq stored
  BY <1>0, TableType, Lengths DEF FilesOf, FilesCoherent
<1>3. FilesOf(meta.current) \subseteq DOMAIN file /\ Len(file) + 1 \notin stored
  BY <1>0, <1>2 DEF FilesCoherent
<1> HIDE DEF new
<1>4. ASSUME NEW f \in s.files, NEW g \in s.files, f # g,
              file'[f].rows \cap file'[g].rows # {}
       PROVE  late'
  <2>1. ASSUME NEW a \in FilesOf(meta.current), NEW b \in FilesOf(meta.current), a # b,
               file[a].rows \cap file[b].rows # {}
        PROVE  late
    BY <1>0, <1>2, <2>1 DEF FilesOf, FilesCoherent
  <2>2. ASSUME NEW a \in FilesOf(meta.current) \ some, file[a].rows \cap merged # {}
        PROVE  late
    <3>1. PICK b \in some : file[a].rows \cap file[b].rows # {}
      BY <2>2
    <3> QED
      BY <2>1, <2>2, <3>1
  <2>3. CASE f # new /\ g # new
    BY <1>0, <1>1, <1>3, <1>4, <2>1, <2>3
  <2>4. CASE f = new /\ g # new
    BY <1>0, <1>1, <1>3, <1>4, <2>2, <2>4
  <2>5. CASE f # new /\ g = new
    BY <1>0, <1>1, <1>3, <1>4, <2>2, <2>5
  <2> QED
    BY <1>1, <1>4, <2>3, <2>4, <2>5
<1>5. FilesCoherent'
  <2>1. stored' \subseteq DOMAIN file'
    BY <1>0, <1>1 DEF FilesCoherent, new
  <2>6. \A f \in DOMAIN file' : f \in DOMAIN file \/ file'[f].rows # {}
    BY <1>0, <1>1 DEF new
  <2>2. \A id \in DOMAIN snaps : snaps[id].files \subseteq stored'
    BY <1>0, <1>1 DEF FilesCoherent
  <2>3. s.files \subseteq stored'
    BY <1>1, <1>2 DEF new
  <2>4. \A r \in RowsOf(meta.current)' : r.from < WatermarkOf(meta)'
    BY <1>0, <1>1 DEF FilesCoherent
  <2>5. \A id \in DOMAIN snaps' : id \in DOMAIN snaps \/
           /\ snaps'[id].files \subseteq stored'
           /\ \A f, g \in snaps'[id].files :
                f # g /\ file'[f].rows \cap file'[g].rows # {} => late'
    BY <1>1, <1>4, <2>3
  <2> QED
    BY <1>1, <2>1, <2>2, <2>4, <2>5, <2>6, FilesKept
<1>6. ASSUME NEW p \in Writers PROVE RunCoherent(p)'
  <2> SUFFICES ASSUME run[p].file # 0
               PROVE  /\ \A q \in Writers : q # p => run[q].file # run[p].file
                      /\ run[p].file \notin s.files
                      /\ flight # None => run[p].file \notin flight.snapshot.files
    BY <1>0, <1>1, <1>6, RunStays
  <2>1. /\ \A id \in DOMAIN snaps : run[p].file \notin snaps[id].files
        /\ run[p].file \in DOMAIN file
        /\ \A q \in Writers : q # p => run[q].file # run[p].file
        /\ flight # None => run[p].file \notin flight.snapshot.files
    BY DEF ColdCoherent, RunCoherent
  <2>2. run[p].file \notin FilesOf(meta.current)
    BY <1>0, <1>2, <2>1 DEF FilesOf
  <2>3. run[p].file # new
    BY <1>0, <2>1 DEF new
  <2> QED
    BY <1>1, <2>1, <2>2, <2>3
<1>7. ArchiverCoherent' /\ CorrectorCoherent' /\ ExpirerCoherent'
  BY <1>0, <1>1, ArchiverStays, CorrectorStays, ExpirerStays
<1>8. FlightCoherent'
  <2>1. flight # None => flight.snapshot.files \subseteq stored'
    BY <1>1 DEF ColdCoherent, FlightCoherent
  <2> QED
    BY <1>0, <1>1, <2>1, FlightStays
<1>9. \A q \in Queries : QueryCoherent(q)'
  BY <1>0, <1>1, QueryStays
<1> QED
  BY <1>1, <1>5, <1>6, <1>7, <1>8, <1>9, IdleStays DEF ColdCoherent, Writers

LEMMA ExpireStep ==
  ASSUME ColdCoherent, TypeOK', ExpireSnapshots
  PROVE  ColdCoherent'
<1>0. /\ TypeOK /\ Chain /\ "expirer" \in Writers /\ Leave("expirer")
      /\ UNCHANGED <<snaps, file, stored, flight, query, clock, faults, late>>
  BY BaseListed DEF ColdCoherent, ExpireSnapshots, Writers
<1>1. /\ Grows /\ ChainCoherent' /\ (SameTable \/ meta.version < meta'.version)
      /\ WatermarkOf(meta)' = WatermarkOf(meta)
      /\ RowsOf(meta.current)' = RowsOf(meta.current)
  BY ExpiryGrows
<1>2. run'["expirer"] = Idle /\ \A q \in Writers : q # "expirer" => run'[q] = run[q]
  BY <1>0, LeaveType
<1>3. FilesCoherent'
  <2>1. /\ FilesCoherent /\ snaps' = snaps /\ file' = file /\ stored' = stored
        /\ late' = late
    BY <1>0 DEF ColdCoherent
  <2>2. \A r \in RowsOf(meta.current)' : r.from < WatermarkOf(meta)'
    BY <1>1, <2>1 DEF FilesCoherent
  <2> QED
    BY <1>1, <2>1, <2>2, FilesKept DEF FilesCoherent
<1>4. ASSUME NEW p \in Writers PROVE RunCoherent(p)'
  <2>1. CASE p = "expirer"
    BY <1>1, <1>2, <2>1, LeftCoherent
  <2>2. CASE p # "expirer"
    <3>1. run'[p] = run[p]
      BY <1>2, <2>2
    <3>2. \A q \in Writers : run'[q].file = run[q].file \/ run'[q].file = 0
      BY <1>2 DEF Idle
    <3>3. run[p].file # 0 =>
            /\ \A q \in Writers : q # p => run[q].file # run[p].file
            /\ flight # None => run[p].file \notin flight.snapshot.files
      BY DEF ColdCoherent, RunCoherent
    <3> QED
      BY <1>0, <1>1, <3>1, <3>2, <3>3, RunStays
  <2> QED
    BY <2>1, <2>2
<1>5. ArchiverCoherent' /\ CorrectorCoherent' /\ ExpirerCoherent'
  BY <1>0, <1>1, <1>2, LeftCoherent, ArchiverStays, CorrectorStays DEF Writers
<1>6. FlightCoherent'
  <2>1. run'["corrector"] = run["corrector"]
    BY <1>2 DEF Writers
  <2>2. flight # None => flight.snapshot.files \subseteq stored'
    BY <1>0 DEF ColdCoherent, FlightCoherent
  <2> QED
    BY <1>0, <1>1, <2>1, <2>2, FlightStays
<1>7. \A q \in Queries : QueryCoherent(q)'
  BY <1>0, <1>1, QueryStays
<1> QED
  BY <1>0, <1>1, <1>3, <1>4, <1>5, <1>6, <1>7, IdleStays DEF ColdCoherent

LEMMA AppendAndCommitStep ==
  ASSUME ColdCoherent, TypeOK', AppendAndCommit
  PROVE  ColdCoherent'
<1> DEFINE new == [Idle EXCEPT !.pc = "write", !.advance = TRUE,
                               !.rows = Hot[WatermarkOf(meta)], !.to = WatermarkOf(meta) + 1]
<1>0. /\ WatermarkOf(meta) \in Windows /\ Set("archiver", new) /\ "archiver" \in Writers
      /\ UNCHANGED <<snaps, meta, file, stored, flight, query, clock, faults, late>>
      /\ TypeOK /\ WatermarkOf(meta) \in Nat /\ clock \in Nat
  BY ColdAssumption DEF AppendAndCommit, Writers, ColdCoherent, TypeOK
<1>1. /\ new.pc = "write" /\ new.advance /\ new.rows = Hot[WatermarkOf(meta)]
      /\ new.to = WatermarkOf(meta) + 1 /\ new.file = 0 /\ new.base = Idle.base
  BY DEF Idle
<1> HIDE DEF new
<1>2. run'["archiver"] = new
  BY <1>0 DEF Set, TypeOK
<1>3. Grows /\ SameTable
  BY <1>0, Still
<1>4. RunCoherent("archiver")'
  <2>1. Loaded(Idle.base)'
    BY <1>0, <1>3, IdleStays
  <2> QED
    BY <1>1, <1>2, <2>1 DEF RunCoherent, Loaded, Listed, CurrentBase
<1>5. ArchiverCoherent'
  <2>1. WatermarkOf(meta)' = WatermarkOf(meta)
    BY <1>3 DEF SameTable
  <2> QED
    BY <1>0, <1>1, <1>2, <2>1 DEF ArchiverCoherent
<1> QED
  BY <1>0, <1>1, <1>4, <1>5, OneRun

LEMMA AppendOnlyStep ==
  ASSUME ColdCoherent, TypeOK', AppendOnly
  PROVE  ColdCoherent'
<1>0. /\ meta.current # 0 /\ "corrector" \in Writers /\ TypeOK /\ clock \in Nat
      /\ UNCHANGED <<snaps, meta, file, stored, query, clock, faults, late>>
      /\ flight' = IF flight = None THEN None
                   ELSE [flight EXCEPT !.passed =
                           @ \/ flight.rows \cap run'["corrector"].rows # {}]
  BY DEF AppendOnly, Writers, ColdCoherent, TypeOK
<1>1. PICK some \in SUBSET Missing :
        Set("corrector", [Idle EXCEPT !.pc = "write", !.rows = some])
  BY DEF AppendOnly
<1> DEFINE new == [Idle EXCEPT !.pc = "write", !.rows = some]
<1>2. /\ new.pc = "write" /\ ~new.advance /\ new.rows = some /\ new.file = 0
      /\ new.base = Idle.base
  BY DEF Idle
<1>3. /\ run'["corrector"] = new
      /\ \A q \in Writers : q # "corrector" => run'[q] = run[q]
  BY <1>0, <1>1 DEF Set, TypeOK
<1> HIDE DEF new
<1>4. Grows /\ SameTable /\ ChainCoherent' /\ FilesCoherent'
  BY <1>0, Still
<1>5. /\ meta' = meta /\ WatermarkOf(meta)' = WatermarkOf(meta)
      /\ FilesOf(meta.current)' = FilesOf(meta.current)
      /\ RowsOf(meta.current)' = RowsOf(meta.current)
  BY <1>4 DEF SameTable
<1>6. some \cap RowsOf(meta.current) = {} /\ \A r \in some : r.from < WatermarkOf(meta)
  BY DEF Missing
<1>7. flight # None =>
        /\ flight'.base = flight.base /\ flight'.snapshot = flight.snapshot
        /\ flight'.rows = flight.rows
        /\ flight'.passed = (flight.passed \/ flight.rows \cap some # {})
  <2> SUFFICES ASSUME flight # None
               PROVE  /\ flight'.base = flight.base /\ flight'.snapshot = flight.snapshot
                      /\ flight'.rows = flight.rows
                      /\ flight'.passed = (flight.passed \/ flight.rows \cap some # {})
    OBVIOUS
  <2>1. run'["corrector"].rows = some
    BY <1>2, <1>3
  <2>2. flight \in Requests /\ AppendOnly /\ flight' \in Requests \union {None}
    BY <1>0, FlightType DEF TypeOK
  <2> DEFINE passed == flight.passed \/ flight.rows \cap some # {}
  <2>3. flight' = [flight EXCEPT !.passed = passed]
    BY <1>0, <2>1
  <2> HIDE DEF passed
  <2>4. /\ flight'.base = flight.base /\ flight'.snapshot = flight.snapshot
        /\ flight'.rows = flight.rows /\ flight'.passed = passed
    BY <2>2, <2>3 DEF Requests
  <2> QED
    BY <2>4 DEF passed
<1>8. FlightCoherent'
  <2> SUFFICES ASSUME flight # None PROVE FlightCoherent'
    BY <1>0 DEF FlightCoherent
  <2>1. Loaded(flight.base)'
    <3>1. PICK base \in Tables : base = flight.base /\ Loaded(base)
      BY <1>0, FlightType DEF ColdCoherent, FlightCoherent
    <3>2. Loaded(base)'
      BY <1>4, <3>1 DEF Grows
    <3> QED
      BY <1>7, <3>1, <3>2 DEF Loaded, Listed, CurrentBase
  <2>2. /\ flight'.snapshot.parent = flight'.base.current
        /\ flight'.snapshot.files \subseteq stored'
    BY <1>0, <1>7 DEF ColdCoherent, FlightCoherent
  <2>3. CurrentBase(flight.base)' => CurrentBase(flight.base)
    BY <1>5, <1>7 DEF CurrentBase
  <2>4. ASSUME CurrentBase(flight.base)
        PROVE  \E f \in 0..Len(file') :
                 /\ flight'.snapshot.files = FilesOf(meta.current)' \union ({f} \ {0})
                 /\ flight'.rows = Held(f)'
    <3>1. PICK f \in 0..Len(file) :
            /\ flight.snapshot.files = FilesOf(meta.current) \union ({f} \ {0})
            /\ flight.rows = Held(f)
      BY <2>4 DEF ColdCoherent, FlightCoherent
    <3>2. Held(f)' = Held(f) /\ file' = file
      BY <1>0 DEF Held
    <3> QED
      BY <1>5, <1>7, <3>1, <3>2
  <2>5. ASSUME CurrentBase(flight.base)
        PROVE  \/ /\ WatermarkOf(meta)' \in Windows /\ flight'.rows = Hot[WatermarkOf(meta)']
                  /\ flight'.snapshot.mark = WatermarkOf(meta)' + 1
               \/ /\ meta'.current # 0 /\ flight'.snapshot.mark = WatermarkOf(meta)'
                  /\ \A r \in flight'.rows : r.from < WatermarkOf(meta)'
                  /\ ~flight'.passed =>
                       /\ late' \/ flight'.rows \cap RowsOf(meta.current)' = {}
                       /\ flight'.rows \cap run'["corrector"].rows = {}
    <3>1. \/ /\ WatermarkOf(meta) \in Windows /\ flight.rows = Hot[WatermarkOf(meta)]
             /\ flight.snapshot.mark = WatermarkOf(meta) + 1
          \/ /\ meta.current # 0 /\ flight.snapshot.mark = WatermarkOf(meta)
             /\ \A r \in flight.rows : r.from < WatermarkOf(meta)
             /\ ~flight.passed => late \/ flight.rows \cap RowsOf(meta.current) = {}
      BY <2>5 DEF ColdCoherent, FlightCoherent, Settled, New
    <3>2. run'["corrector"].rows = some
      BY <1>2, <1>3
    <3> QED
      BY <1>0, <1>5, <1>7, <3>1, <3>2
  <2> QED
    BY <2>1, <2>2, <2>3, <2>4, <2>5 DEF FlightCoherent, Settled, New, Held
<1>9. ASSUME NEW p \in Writers PROVE RunCoherent(p)'
  <2>1. CASE p = "corrector"
    <3>1. Loaded(Idle.base)'
      BY <1>0, <1>4, IdleStays
    <3> QED
      BY <1>2, <1>3, <2>1, <3>1 DEF RunCoherent, Loaded, Listed, CurrentBase
  <2>2. CASE p # "corrector"
    <3>1. run'[p] = run[p] /\ (run'["corrector"]).file = 0
      BY <1>2, <1>3, <2>2
    <3>2. \A q \in Writers : run'[q].file = run[q].file \/ run'[q].file = 0
      BY <1>3, <3>1
    <3>3. run[p].file # 0 =>
            /\ \A q \in Writers : q # p => run[q].file # run[p].file
            /\ flight # None => run[p].file \notin flight.snapshot.files
      BY DEF ColdCoherent, RunCoherent
    <3>4. run[p].file # 0 /\ flight' # None => run[p].file \notin flight'.snapshot.files
      BY <1>0, <1>7, <3>3
    <3> QED
      BY <1>0, <1>4, <3>1, <3>2, <3>3, <3>4, RunStays
  <2> QED
    BY <2>1, <2>2
<1>10. CorrectorCoherent'
  BY <1>0, <1>2, <1>3, <1>5, <1>6 DEF CorrectorCoherent, Settled, New
<1>11. ArchiverCoherent' /\ ExpirerCoherent'
  BY <1>3, <1>4, ArchiverStays, ExpirerStays DEF Writers
<1>12. \A q \in Queries : QueryCoherent(q)'
  BY <1>0, <1>4, QueryStays
<1> QED
  BY <1>0, <1>4, <1>8, <1>9, <1>10, <1>11, <1>12, IdleStays DEF ColdCoherent

LEMMA ReassertStep ==
  ASSUME ColdCoherent, TypeOK', ReassertWatermark
  PROVE  ColdCoherent'
<1>1. PICK phase \in {"choose", "write"} :
        Set("expirer", [Idle EXCEPT !.pc = phase])
  BY DEF ReassertWatermark
<1> DEFINE new == [Idle EXCEPT !.pc = phase]
<1>0. /\ meta.current # 0 /\ Set("expirer", new) /\ "expirer" \in Writers /\ TypeOK /\ clock \in Nat
      /\ UNCHANGED <<snaps, meta, file, stored, flight, query, clock, faults, late>>
  BY <1>1 DEF ReassertWatermark, Writers, ColdCoherent, TypeOK
<1>2. /\ new.pc = phase /\ ~new.advance /\ new.rows = {} /\ new.file = 0
      /\ new.base = Idle.base
  BY DEF Idle
<1> HIDE DEF new
<1>3. run'["expirer"] = new
  BY <1>0 DEF Set, TypeOK
<1>4. Loaded(Idle.base)'
  BY <1>0, Still, IdleStays
<1>5. RunCoherent("expirer")'
  BY <1>2, <1>3, <1>4 DEF RunCoherent, Loaded, Listed, CurrentBase
<1>6. ExpirerCoherent'
  BY <1>0, <1>2, <1>3 DEF ExpirerCoherent
<1> QED
  BY <1>0, <1>2, <1>5, <1>6, OneRun

LEMMA ChooseStep ==
  ASSUME ColdCoherent, TypeOK', ChooseDoomed
  PROVE  ColdCoherent'
<1> DEFINE doomed == TooOld(meta) \ Protected(meta)
<1>0. /\ run["expirer"].pc = "choose" /\ "expirer" \in Writers
      /\ UNCHANGED <<snaps, meta, file, stored, flight, query, clock, faults, late>>
      /\ TypeOK /\ Chain /\ ChainCoherent /\ Listed(meta) /\ meta \in Tables
      /\ meta.current # 0 /\ ~run["expirer"].advance /\ run["expirer"].rows = {}
  BY BaseListed DEF ChooseDoomed, ColdCoherent, ExpirerCoherent, Writers
<1>1. CASE doomed = {}
  BY <1>0, <1>1, LeaveStep DEF ChooseDoomed
<1>2. CASE doomed # {}
  <2> DEFINE new == [run["expirer"] EXCEPT !.pc = "expire", !.base = meta, !.doomed = doomed]
  <2> DEFINE left == [meta EXCEPT !.live = @ \ doomed]
  <2>1. Set("expirer", new)
    BY <1>2 DEF ChooseDoomed
  <2>2. /\ new.pc = "expire" /\ new.base = meta /\ new.doomed = doomed
        /\ new.file = run["expirer"].file /\ new.rows = {} /\ ~new.advance
    BY <1>0, RunType DEF Runs
  <2>3. run'["expirer"] = new
    BY <1>0, <2>1 DEF Set, TypeOK
  <2>4. new.file = 0
    BY <1>0, <2>2 DEF ColdCoherent, RunCoherent
  <2>5. left.current = meta.current /\ left.live = meta.live \ doomed /\ left.version = meta.version
    BY <1>0 DEF Tables
  <2>6. \A id \in doomed : id \in meta.live /\ snaps[id].at + RetainFor < clock
    BY DEF TooOld
  <2>7. ASSUME NEW id \in meta.live, id \notin doomed, NEW next \in id..meta.current
        PROVE  next \in meta.live /\ next \notin doomed
    <3>1. next \in meta.live
      BY <1>0, <2>7 DEF Listed
    <3>2. /\ id \in DOMAIN snaps /\ next \in DOMAIN snaps /\ id \in Nat /\ next \in Nat
          /\ id <= next
      BY <1>0, <2>7, <3>1, TableType
    <3>3. snaps[id].at <= snaps[next].at
      BY <1>0, <3>2 DEF ChainCoherent
    <3>4. snaps[id].at \in Nat /\ snaps[next].at \in Nat /\ RetainFor \in Nat /\ clock \in Nat
      BY <1>0, <3>2, SnapshotType, ColdAssumption DEF TypeOK
    <3>5. ASSUME next \in doomed PROVE FALSE
      <4>1. snaps[next].at + RetainFor < clock
        BY <2>6, <3>5
      <4>2. snaps[id].at + RetainFor < clock
        BY <3>3, <3>4, <4>1
      <4>3. id \in Protected(meta)
        BY <2>7, <4>2 DEF TooOld
      <4>4. next \in Protected(meta)
        BY <1>0, <2>7, <3>1, <3>2, <4>3, ProtectedKeeps
      <4> QED
        BY <3>5, <4>4
    <3> QED
      BY <3>1, <3>5
  <2>8. \E id \in meta.live : id \notin doomed /\ snaps[id].mark # None
    BY <1>0, ProtectedKeeps
  <2> HIDE DEF doomed, new
  <2>9. Listed(left)
    BY <1>0, <2>5, <2>7, <2>8 DEF Listed
  <2>10. RunCoherent("expirer")'
    <3>1. Loaded(meta)'
      BY <1>0 DEF Loaded, CurrentBase, Listed, Tables
    <3> QED
      BY <1>0, <2>2, <2>3, <2>4, <3>1 DEF RunCoherent, Loaded, CurrentBase, Listed
  <2>11. ExpirerCoherent'
    <3>1. /\ run'["expirer"].doomed = doomed /\ run'["expirer"].base = meta
          /\ run'["expirer"].rows = {} /\ ~run'["expirer"].advance
      BY <2>2, <2>3
    <3>2. [run'["expirer"].base EXCEPT !.live = @ \ run'["expirer"].doomed] = left
      BY <3>1
    <3>3. Listed([run["expirer"].base EXCEPT !.live = @ \ run["expirer"].doomed])'
      BY <1>0, <2>9, <3>2 DEF Listed
    <3> QED
      BY <1>0, <2>6, <3>1, <3>3 DEF ExpirerCoherent
  <2> QED
    BY <1>0, <2>1, <2>2, <2>10, <2>11, OneRun
<1> QED
  BY <1>1, <1>2

\* A step that touches neither the table nor a writer.
LEMMA NothingMoves ==
  ASSUME ColdCoherent, TypeOK', UNCHANGED <<snaps, meta, file, stored, run, flight, late>>,
         clock <= clock', \A q \in Queries : query'[q] # query[q] => QueryCoherent(q)'
  PROVE  ColdCoherent'
<1>1. Grows /\ SameTable /\ ChainCoherent' /\ FilesCoherent'
  BY Still
<1>2. ASSUME NEW p \in Writers PROVE RunCoherent(p)'
  <2>1. run[p].file # 0 =>
          /\ \A q \in Writers : q # p => run[q].file # run[p].file
          /\ flight # None => run[p].file \notin flight.snapshot.files
    BY DEF ColdCoherent, RunCoherent
  <2> QED
    BY <1>1, <2>1, RunStays
<1>3. ArchiverCoherent' /\ CorrectorCoherent' /\ ExpirerCoherent'
  <2>1. RowsOf(meta.current)' = RowsOf(meta.current)
    BY <1>1 DEF SameTable
  <2> QED
    BY <1>1, <2>1, ArchiverStays, CorrectorStays, ExpirerStays
<1>4. FlightCoherent'
  <2>1. flight # None => flight.snapshot.files \subseteq stored'
    BY DEF ColdCoherent, FlightCoherent
  <2> QED
    BY <1>1, <2>1, FlightStays
<1>5. \A q \in Queries : QueryCoherent(q)'
  BY <1>1, QueryStays
<1> QED
  BY <1>1, <1>2, <1>3, <1>4, <1>5, IdleStays DEF ColdCoherent, Writers

LEMMA TickStep ==
  ASSUME ColdCoherent, TypeOK', Tick
  PROVE  ColdCoherent'
<1>1. clock <= clock'
  BY DEF Tick, ColdCoherent, TypeOK
<1> QED
  BY <1>1, NothingMoves DEF Tick

-----------------------------------------------------------------------------
(* Elision: what the statistics of files prove of the rows of a snapshot.   *)

\* The statistics of a file bound every row in it.
LEMMA StatsBound ==
  ASSUME TypeOK, NEW f \in DOMAIN file, file[f].rows # {}
  PROVE  LET s == FileStats(f)
         IN  /\ s.min \in Nat /\ s.max \in Nat /\ s.lo \in Nat /\ s.hi \in Nat
             /\ \A r \in file[f].rows : /\ s.min <= r.version /\ r.version <= s.max
                                        /\ s.lo <= r.from /\ r.from <= s.hi
<1> DEFINE versions == {x.version : x \in file[f].rows}
           froms    == {x.from : x \in file[f].rows}
<1>1. file[f].rows \subseteq Rows /\ IsFiniteSet(Rows)
  BY FileType, ColdAssumption
<1>2. IsFiniteSet(file[f].rows)
  BY <1>1, FS_Subset
<1>3. versions \subseteq Nat /\ versions # {} /\ \A r \in file[f].rows : r.version \in versions
  BY <1>1, ColdAssumption
<1>4. froms \subseteq Nat /\ froms # {} /\ \A r \in file[f].rows : r.from \in froms
  BY <1>1, ColdAssumption
<1>5. IsFiniteSet(versions)
  <2> DEFINE image == [x \in file[f].rows |-> x.version]
  <2>1. image \in Surjection(file[f].rows, versions)
    BY DEF Surjection
  <2> QED
    BY <1>2, <2>1, FS_Surjection
<1>6. IsFiniteSet(froms)
  <2> DEFINE image == [x \in file[f].rows |-> x.from]
  <2>1. image \in Surjection(file[f].rows, froms)
    BY DEF Surjection
  <2> QED
    BY <1>2, <2>1, FS_Surjection
<1>7. /\ FileStats(f).min = Lowest(versions) /\ FileStats(f).max = Highest(versions)
      /\ FileStats(f).lo = Lowest(froms) /\ FileStats(f).hi = Highest(froms)
  BY DEF FileStats
<1> HIDE DEF versions, froms
<1>8. /\ Lowest(versions) \in versions /\ \A n \in versions : Lowest(versions) <= n
      /\ Highest(versions) \in versions /\ \A n \in versions : n <= Highest(versions)
  BY <1>3, <1>5, LowestOf, FiniteHighest
<1>9. /\ Lowest(froms) \in froms /\ \A n \in froms : Lowest(froms) <= n
      /\ Highest(froms) \in froms /\ \A n \in froms : n <= Highest(froms)
  BY <1>4, <1>6, LowestOf, FiniteHighest
<1> QED
  BY <1>3, <1>4, <1>7, <1>8, <1>9

\* Files the planner compares hold one version of what they both span.
LEMMA OneVersion ==
  ASSUME NEW stats, Elidable(stats), NEW s \in stats, NEW t \in stats, NEW n \in Nat,
         \A u \in stats : u.lo \in Nat /\ u.hi \in Nat,
         s.lo <= n, n <= s.hi, t.lo <= n, n <= t.hi
  PROVE  s.min = t.min
<1>1. CASE ~ \A u \in stats : u.spanned
  BY <1>1 DEF Elidable
<1>2. CASE SweepHolds(stats)
  <2>1. ASSUME NEW a \in stats, NEW b \in stats, a.lo <= b.lo, n <= a.hi, b.lo <= n
        PROVE  a.min = b.min
    <3> SUFFICES ASSUME a.min # b.min PROVE FALSE
      OBVIOUS
    <3>1. PICK start \in RunStarts(stats) : a.lo < start /\ start <= b.lo
      BY <1>2, <2>1 DEF SweepHolds
    <3>2. PICK u \in stats : start = u.lo /\ \A v \in stats : v.lo < u.lo => v.hi < u.lo
      BY DEF RunStarts
    <3>3. a.hi < start
      BY <3>1, <3>2
    <3>4. start \in Nat /\ a.hi \in Nat /\ b.lo \in Nat
      BY <3>2
    <3> QED
      BY <2>1, <3>1, <3>3, <3>4
  <2>2. s.lo <= t.lo \/ t.lo <= s.lo
    OBVIOUS
  <2> QED
    BY <2>1, <2>2
<1> QED
  BY <1>1, <1>2 DEF Elidable

\* The judgement is right of the snapshot it is made of.
LEMMA ElidableMeansOnce ==
  ASSUME TypeOK, NEW id, FilesOf(id) \subseteq DOMAIN file,
         \A f \in DOMAIN file : file[f].rows # {},
         NEW range \in Nat \X Nat, Elidable(VersionStats(id, range)),
         NEW r \in RowsOf(id), NEW s \in RowsOf(id),
         range[1] <= r.from, r.from < range[2], r.malo = s.malo, r.from = s.from
  PROVE  r = s
<1> DEFINE stats == VersionStats(id, range)
<1>1. PICK f \in FilesOf(id) : r \in file[f].rows
  BY DEF RowsOf
<1>2. PICK g \in FilesOf(id) : s \in file[g].rows
  BY DEF RowsOf
<1>3. r \in Rows /\ s \in Rows
  BY <1>1, <1>2, FileType
<1>4. r.from \in Nat /\ s.from \in Nat /\ r.version \in Nat /\ s.version \in Nat
  BY <1>3, ColdAssumption
<1>5. ASSUME NEW h \in FilesOf(id), NEW x \in file[h].rows, x.from = r.from
      PROVE  /\ FileStats(h) \in stats /\ FileStats(h).min = x.version
             /\ FileStats(h).lo <= r.from /\ r.from <= FileStats(h).hi
  <2>1. /\ FileStats(h).min \in Nat /\ FileStats(h).max \in Nat
        /\ FileStats(h).lo \in Nat /\ FileStats(h).hi \in Nat
        /\ FileStats(h).min <= x.version /\ x.version <= FileStats(h).max
        /\ FileStats(h).lo <= r.from /\ r.from <= FileStats(h).hi
    BY <1>5, StatsBound
  <2>2. FileStats(h) \in stats
    <3>1. ~(FileStats(h).hi < range[1] \/ FileStats(h).lo >= range[2])
      <4> range[1] \in Nat /\ range[2] \in Nat
        OBVIOUS
      <4> QED
        BY <1>4, <2>1
    <3> QED
      BY <3>1 DEF VersionStats
  <2>3. FileStats(h).min = FileStats(h).max
    BY <2>2 DEF Elidable
  <2>4. x.version \in Nat
    BY <1>5, FileType, ColdAssumption
  <2> QED
    BY <2>1, <2>2, <2>3, <2>4
<1>6. ASSUME NEW u \in stats PROVE u.lo \in Nat /\ u.hi \in Nat
  <2>1. PICK h \in FilesOf(id) : u = FileStats(h)
    BY DEF VersionStats
  <2> QED
    BY <2>1, StatsBound
<1>7. r.version = s.version
  <2>1. /\ FileStats(f) \in stats /\ FileStats(f).min = r.version
        /\ FileStats(f).lo <= r.from /\ r.from <= FileStats(f).hi
    BY <1>1, <1>5
  <2>2. /\ FileStats(g) \in stats /\ FileStats(g).min = s.version
        /\ FileStats(g).lo <= r.from /\ r.from <= FileStats(g).hi
    BY <1>2, <1>5
  <2>3. FileStats(f).min = FileStats(g).min
    BY <1>4, <1>6, <2>1, <2>2, OneVersion
  <2> QED
    BY <2>1, <2>2, <2>3
<1> QED
  BY <1>3, <1>7, ColdAssumption

LEMMA SnapshotFiles ==
  ASSUME ColdCoherent, NEW id \in DOMAIN snaps
  PROVE  /\ FilesOf(id) = snaps[id].files /\ FilesOf(id) \subseteq DOMAIN file
         /\ \A f \in DOMAIN file : file[f].rows # {}
BY Lengths DEF ColdCoherent, FilesCoherent, FilesOf

LEMMA QueryType ==
  ASSUME TypeOK, NEW q \in Queries
  PROVE  query[q] \in Plans
BY DEF TypeOK

LEMMA ScanStep ==
  ASSUME ColdCoherent, TypeOK', NEW q \in Queries, ScanCold(q)
  PROVE  ColdCoherent'
<1>0. /\ TypeOK /\ clock \in Nat /\ meta.current \in DOMAIN snaps
      /\ UNCHANGED <<snaps, meta, file, stored, run, flight, clock, faults, late>>
  BY BaseListed, TableType, Lengths DEF ScanCold, ColdCoherent, TypeOK
<1>1. PICK range \in Ranges :
        query' = [query EXCEPT ![q] = [pc |-> "judge", range |-> range,
                                       snap |-> meta.current, elided |-> FALSE]]
  BY DEF ScanCold
<1>2. ASSUME NEW other \in Queries, query'[other] # query[other] PROVE QueryCoherent(other)'
  <2>1. other = q
    BY <1>0, <1>1, <1>2 DEF TypeOK
  <2>2. query'[q] = [pc |-> "judge", range |-> range, snap |-> meta.current, elided |-> FALSE]
    BY <1>0, <1>1 DEF TypeOK
  <2> QED
    BY <1>0, <2>1, <2>2 DEF QueryCoherent
<1> QED
  BY <1>0, <1>2, NothingMoves

LEMMA EndStep ==
  ASSUME ColdCoherent, TypeOK', NEW q \in Queries, EndQuery(q)
  PROVE  ColdCoherent'
<1>0. /\ TypeOK /\ clock \in Nat
      /\ UNCHANGED <<snaps, meta, file, stored, run, flight, clock, faults, late>>
      /\ query' = [query EXCEPT ![q] = Unplanned]
  BY DEF EndQuery, ColdCoherent, TypeOK
<1>1. ASSUME NEW other \in Queries, query'[other] # query[other] PROVE QueryCoherent(other)'
  <2>1. query'[other].pc = "idle"
    BY <1>0, <1>1 DEF TypeOK, Unplanned
  <2> QED
    BY <2>1 DEF QueryCoherent
<1> QED
  BY <1>0, <1>1, NothingMoves

LEMMA ResolutionStep ==
  ASSUME ColdCoherent, TypeOK', NEW q \in Queries, ResolutionFromStats(q)
  PROVE  ColdCoherent'
<1>0. /\ TypeOK /\ clock \in Nat /\ query[q].pc = "judge" /\ query[q] \in Plans
      /\ UNCHANGED <<snaps, meta, file, stored, run, flight, clock, faults, late>>
      /\ query[q].range \in Ranges /\ query[q].snap \in DOMAIN snaps
      /\ ChainCoherent
  BY QueryType DEF ResolutionFromStats, ColdCoherent, TypeOK, QueryCoherent
<1>1. PICK elided \in BOOLEAN :
        /\ query' = [query EXCEPT ![q] =
                       IF elided THEN [@ EXCEPT !.pc = "done", !.elided = TRUE] ELSE Unplanned]
        /\ elided => Elidable(VersionStats(meta.current, query[q].range))
  <2>1. PICK read \in BOOLEAN :
          LET elided == read /\ Elidable(VersionStats(meta.current, query[q].range))
          IN  query' = [query EXCEPT ![q] =
                          IF elided THEN [@ EXCEPT !.pc = "done", !.elided = TRUE] ELSE Unplanned]
    BY DEF ResolutionFromStats
  <2>2. CASE read /\ Elidable(VersionStats(meta.current, query[q].range))
    BY <2>1, <2>2
  <2>3. CASE ~(read /\ Elidable(VersionStats(meta.current, query[q].range)))
    BY <2>1, <2>3
  <2> QED
    BY <2>2, <2>3
<1>2. meta.current \in DOMAIN snaps /\ query[q].snap <= meta.current
  BY <1>0, Lengths DEF ChainCoherent
<1>3. query[q].range \in Nat \X Nat
  BY <1>0, ColdAssumption
<1>4. RowsOf(query[q].snap) \subseteq RowsOf(meta.current)
  BY <1>0, <1>2 DEF ChainCoherent
<1>5. ASSUME elided, NEW r \in RowsOf(query[q].snap), NEW s \in RowsOf(query[q].snap),
             query[q].range[1] <= r.from, r.from < query[q].range[2],
             r.malo = s.malo, r.from = s.from
      PROVE  r = s
  <2>1. r \in RowsOf(meta.current) /\ s \in RowsOf(meta.current)
    BY <1>4
  <2> QED
    BY <1>0, <1>1, <1>2, <1>3, <1>5, <2>1, SnapshotFiles, ElidableMeansOnce
<1>6. ASSUME NEW other \in Queries, query'[other] # query[other] PROVE QueryCoherent(other)'
  <2>1. other = q
    BY <1>0, <1>1, <1>6 DEF TypeOK
  <2>2. CASE ~elided
    BY <1>0, <1>1, <2>1, <2>2 DEF TypeOK, QueryCoherent, Unplanned
  <2>3. CASE elided
    <3>1. query'[q] = [query[q] EXCEPT !.pc = "done", !.elided = TRUE]
      BY <1>0, <1>1, <2>3 DEF TypeOK
    <3>2. query'[q].range = query[q].range /\ query'[q].snap = query[q].snap
      BY <1>0, <3>1 DEF Plans
    <3>3. RowsOf(query[q].snap)' = RowsOf(query[q].snap)
      <4>1. PICK id \in DOMAIN snaps : id = query[q].snap
        BY <1>0
      <4>2. RowsOf(id)' = RowsOf(id)
        BY <1>0, Still DEF Grows
      <4> QED
        BY <3>2, <4>1, <4>2 DEF RowsOf, FilesOf
    <3> QED
      BY <1>0, <1>5, <2>1, <2>3, <3>2, <3>3 DEF QueryCoherent
  <2> QED
    BY <2>2, <2>3
<1> QED
  BY <1>0, <1>6, NothingMoves

-----------------------------------------------------------------------------
(* The invariant.                                                           *)

LEMMA CommitSteps ==
  ASSUME ColdCoherent, TypeOK', NEW p \in Writers, CommitStep(p)
  PROVE  ColdCoherent'
<1>1. CASE CommitDeclined(p)
  BY <1>1, LeaveStep DEF CommitDeclined
<1>2. CASE Stop(p)
  BY <1>2, LeaveStep DEF Stop
<1> QED
  BY <1>1, <1>2, WriteStep, LandStep, ConflictStep, FailStep, ReferencedStep, DeleteStep
  DEF CommitStep

LEMMA QuerySteps ==
  ASSUME ColdCoherent, TypeOK', NEW q \in Queries, QueryStep(q)
  PROVE  ColdCoherent'
BY ScanStep, ResolutionStep, EndStep DEF QueryStep

LEMMA Step ==
  ASSUME ColdCoherent, [Next]_vars
  PROVE  ColdCoherent'
<1>0. TypeOK'
  BY TypeStep
<1>1. CASE UNCHANGED vars
  <2>1. clock \in Nat
    BY DEF ColdCoherent, TypeOK
  <2> QED
    BY <1>0, <1>1, <2>1, NothingMoves DEF vars
<1>2. CASE Next
  BY <1>0, <1>2, CommitSteps, QuerySteps, AppendAndCommitStep, AppendOnlyStep, ReassertStep,
     ChooseStep, ExpireStep, AppliedStep, ForeignStep, TickStep DEF Next
<1> QED
  BY <1>1, <1>2

LEMMA Start ==
  ASSUME Init
  PROVE  ColdCoherent
<1>0. /\ snaps = <<>> /\ file = <<>> /\ stored = {} /\ meta = Idle.base
      /\ run = [p \in Writers |-> Idle] /\ flight = None
      /\ query = [q \in Queries |-> Unplanned] /\ clock = 0 /\ faults = 0 /\ late = FALSE
      /\ Len(snaps) = 0 /\ DOMAIN snaps = {} /\ DOMAIN file = {}
  BY DEF Init
<1>1. meta.version = 0 /\ meta.current = 0 /\ meta.live = {}
  BY <1>0 DEF Idle
<1>2. TypeOK
  <2>1. Unplanned \in Plans
    BY DEF Unplanned, Plans
  <2>2. <<>> \in Seq(Snapshots) /\ <<>> \in Seq(Files)
    OBVIOUS
  <2>3. Idle.base \in Tables
    BY IdleType DEF Runs
  <2> QED
    BY <1>0, <2>1, <2>2, <2>3, IdleType DEF TypeOK
<1>3. Listed(meta) /\ Loaded(Idle.base)
  BY <1>0, <1>1 DEF Listed, Loaded, CurrentBase
<1>4. ChainCoherent
  BY <1>0, <1>1, <1>3 DEF ChainCoherent
<1>5. FilesCoherent
  BY <1>0, <1>1 DEF FilesCoherent, RowsOf, FilesOf
<1>6. \A p \in Writers : run[p] = Idle /\ Idle.pc = "idle" /\ Idle.file = 0
  BY <1>0 DEF Idle
<1>7. \A p \in Writers : RunCoherent(p)
  BY <1>3, <1>6 DEF RunCoherent, Loaded, Listed, CurrentBase
<1>8. ArchiverCoherent /\ CorrectorCoherent /\ ExpirerCoherent
  BY <1>6 DEF ArchiverCoherent, CorrectorCoherent, ExpirerCoherent, Writers
<1>9. FlightCoherent /\ \A q \in Queries : QueryCoherent(q)
  BY <1>0 DEF FlightCoherent, QueryCoherent, Unplanned
<1> QED
  BY <1>2, <1>3, <1>4, <1>5, <1>7, <1>8, <1>9 DEF ColdCoherent

\* Whatever the writers, other tools, late requests and failures do, and in whatever
\* order: the chain, the files, what each writer has in its hands, the request nobody
\* waits for and the plans of the queries stay in step (the code of append_with_summary,
\* discard, expire_snapshots and plan taken together).
THEOREM ColdCoherentAlways == Spec => []ColdCoherent
<1>1. Init => ColdCoherent
  BY Start
<1>2. ColdCoherent /\ [Next]_vars => ColdCoherent'
  BY Step
<1> QED
  BY <1>1, <1>2, PTL DEF Spec

-----------------------------------------------------------------------------
(* The promises.                                                            *)

\* Every file of a live snapshot is in object storage: a failed commit deletes its
\* files only where no snapshot can come to name them (iceberg.rs, discard).
THEOREM NothingDanglingAlways == Spec => []NothingDangling
<1>1. ColdCoherent => NothingDangling
  BY BaseListed, TableType DEF ColdCoherent, FilesCoherent, NothingDangling
<1> QED
  BY <1>1, ColdCoherentAlways, PTL

\* The boundary can be read back and is the furthest that was ever committed, and the
\* archival step is found as long as a snapshot that states it is left
\* (expire_snapshots, reassert_watermark, summary_property).
THEOREM BoundaryReadableAlways == Spec => []BoundaryReadable
<1>1. ASSUME ColdCoherent PROVE BoundaryReadable
  <2>0. TypeOK /\ Chain /\ meta \in Tables /\ Listed(meta) /\ ChainCoherent
    BY <1>1, BaseListed DEF ColdCoherent
  <2>1. WatermarkOf(meta) # None
    BY <2>0, WatermarkStated, NoneIsNoNumber
  <2>2. \A id \in DOMAIN snaps : snaps[id].mark # None => snaps[id].mark <= WatermarkOf(meta)
    BY <2>0 DEF ChainCoherent
  <2>3. ASSUME NEW id \in meta.live, snaps[id].step # None PROVE ArchivalStepOf(meta) # None
    <3>1. id \in Saying(meta, "step")
      BY <2>3 DEF Saying
    <3>2. Highest(Saying(meta, "step")) \in Saying(meta, "step")
      BY <2>0, <3>1, SayingHighest DEF Saying
    <3>3. snaps[Highest(Saying(meta, "step"))].step # None
      BY <3>2 DEF Saying
    <3>4. SummaryProperty(meta, "step") = snaps[Highest(Saying(meta, "step"))]["step"]
      BY <2>0, <3>1, WalkFinds
    <3> QED
      BY <3>3, <3>4 DEF ArchivalStepOf
  <2> QED
    BY <2>1, <2>2, <2>3 DEF BoundaryReadable
<1> QED
  BY <1>1, ColdCoherentAlways, PTL

\* No row is in two files of a snapshot, unless a request that had been given up was
\* applied after a retry had looked for its rows (append_with_summary, reconcile_cold).
THEOREM TwiceOnlyIfLateAlways == Spec => []TwiceOnlyIfLate
<1>1. ColdCoherent => TwiceOnlyIfLate
  BY BaseListed, TableType DEF ColdCoherent, FilesCoherent, TwiceOnlyIfLate
<1> QED
  BY <1>1, ColdCoherentAlways, PTL

\* Where a query reads the files as they are, no key comes twice, though the statistics
\* were read from a later snapshot than the scan's (resolved.rs, version.rs).
THEOREM ElisionSoundAlways == Spec => []ElisionSound
<1>1. ASSUME ColdCoherent PROVE ElisionSound
  <2> SUFFICES ASSUME NEW q \in Queries, query[q].pc = "done"
               PROVE  /\ \A r, s \in RowsOf(query[q].snap) :
                           /\ query[q].range[1] <= r.from /\ r.from < query[q].range[2]
                           /\ r.malo = s.malo /\ r.from = s.from
                           => r = s
                      /\ \A r \in RowsOf(query[q].snap) : late \/
                           Cardinality({f \in FilesOf(query[q].snap) : r \in file[f].rows}) = 1
    BY DEF ElisionSound
  <2>1. query[q].snap \in DOMAIN snaps
    BY <1>1 DEF ColdCoherent, QueryCoherent
  <2>2. ASSUME NEW r \in RowsOf(query[q].snap), ~late
        PROVE  Cardinality({f \in FilesOf(query[q].snap) : r \in file[f].rows}) = 1
    <3>1. PICK f \in FilesOf(query[q].snap) : r \in file[f].rows
      BY DEF RowsOf
    <3>2. ASSUME NEW g \in FilesOf(query[q].snap), r \in file[g].rows PROVE g = f
      BY <1>1, <2>1, <2>2, <3>1, <3>2, SnapshotFiles DEF ColdCoherent, FilesCoherent
    <3>3. {g \in FilesOf(query[q].snap) : r \in file[g].rows} = {f}
      BY <3>1, <3>2
    <3> QED
      BY <3>3, FS_Singleton
  <2> QED
    BY <1>1, <2>2 DEF ColdCoherent, QueryCoherent
<1> QED
  BY <1>1, ColdCoherentAlways, PTL

\* What is answered for a past instant is the table as it stood then, nothing committed
\* within the retention is gone, and a boundary that can be read back from a snapshot is
\* the one it was committed at (resolve_snapshot, expire_snapshots, as_of).
THEOREM ReproducibleAlways == Spec => []Reproducible
<1>1. ASSUME ColdCoherent PROVE Reproducible
  <2>0. /\ TypeOK /\ Chain /\ meta \in Tables /\ Listed(meta) /\ ChainCoherent
        /\ meta.live \subseteq DOMAIN snaps /\ DOMAIN snaps = 1..Len(snaps) /\ Len(snaps) \in Nat
        /\ meta.current = Len(snaps)
    BY <1>1, BaseListed, TableType, Lengths DEF ColdCoherent, ChainCoherent
  <2>1. ASSUME NEW id \in meta.live, NEW next \in DOMAIN snaps, id <= next
        PROVE  next \in meta.live
    BY <2>0, <2>1, TableType
  <2>2. ASSUME NEW instant \in 0..clock
        PROVE  SnapshotAt(meta, instant) \in
                 {0} \union {id \in DOMAIN snaps : /\ snaps[id].at <= instant
                                                 /\ \A other \in DOMAIN snaps :
                                                      snaps[other].at <= instant => other <= id}
    <3> DEFINE at == {id \in meta.live : snaps[id].at <= instant}
    <3>1. CASE at = {}
      BY <3>1 DEF SnapshotAt
    <3>2. CASE at # {}
      <4>1. Highest(at) \in at /\ \A n \in at : n <= Highest(at)
        BY <2>0, <3>2, SayingHighest
      <4>2. SnapshotAt(meta, instant) = Highest(at)
        BY <3>2 DEF SnapshotAt
      <4>3. PICK top \in at : top = Highest(at)
        BY <4>1
      <4>4. ASSUME NEW other \in DOMAIN snaps, snaps[other].at <= instant PROVE other <= top
        <5>1. other \in Nat /\ top \in Nat
          BY <2>0
        <5>2. CASE top <= other
          BY <2>1, <4>1, <4>3, <4>4, <5>2
        <5> QED
          BY <5>1, <5>2
      <4> QED
        BY <2>0, <4>2, <4>3, <4>4
    <3> QED
      BY <3>1, <3>2
  <2>3. ASSUME NEW id \in DOMAIN snaps, snaps[id].at + RetainFor >= clock PROVE id \in meta.live
    <3>1. snaps[id].at \in Nat /\ RetainFor \in Nat /\ clock \in Nat
      BY <2>0, SnapshotType, ColdAssumption DEF TypeOK
    <3> QED
      BY <2>0, <2>3, <3>1 DEF ChainCoherent
  <2>4. ASSUME NEW id \in meta.live PROVE PinnedWatermark(meta, id) \in {0, BoundaryThen[id]}
    <3> DEFINE stating == {s \in meta.live : s <= id /\ snaps[s].mark # None}
               by      == {s \in DOMAIN snaps : s <= id /\ snaps[s].mark # None}
    <3>1. CASE stating = {}
      BY <3>1 DEF PinnedWatermark
    <3>2. CASE stating # {}
      <4>1. Highest(stating) \in stating /\ \A n \in stating : n <= Highest(stating)
        BY <2>0, <3>2, SayingHighest
      <4>2. /\ Highest(by) \in by /\ \A n \in by : n <= Highest(by)
            /\ BoundaryThen[id] = snaps[Highest(by)].mark
        BY <2>0, ThenStated DEF ChainCoherent
      <4>3. stating \subseteq by /\ by \subseteq Nat
        BY <2>0
      <4>4. Highest(stating) <= Highest(by)
        BY <4>1, <4>2, <4>3
      <4>5. Highest(by) \in stating
        BY <2>1, <4>1, <4>2, <4>4
      <4>6. Highest(by) = Highest(stating)
        <5>1. Highest(by) \in Nat /\ Highest(stating) \in Nat /\ Highest(by) <= Highest(stating)
          BY <4>1, <4>3, <4>5
        <5> QED
          BY <4>4, <5>1
      <4>7. PinnedWatermark(meta, id) = snaps[Highest(stating)].mark
        BY <3>2 DEF PinnedWatermark
      <4> QED
        BY <4>2, <4>6, <4>7
    <3> QED
      BY <3>1, <3>2
  <2> QED
    BY <2>2, <2>3, <2>4 DEF Reproducible
<1> QED
  BY <1>1, ColdCoherentAlways, PTL

-----------------------------------------------------------------------------
(* The chain implements the ledger.                                         *)

\* A step that commits nothing moves nothing.
LEMMA StaysPut ==
  ASSUME ColdCoherent, TypeOK', UNCHANGED <<snaps, meta, clock, late>>, FilesStay
  PROVE  WatermarkOf(meta)' = WatermarkOf(meta) /\ RowsOf(meta.current)' = RowsOf(meta.current)
<1>1. clock <= clock'
  BY DEF ColdCoherent, TypeOK
<1> QED
  BY <1>1, NoCommit DEF SameTable

\* Every step is a window settled, a correction of what is settled, or neither.
LEMMA LedgerStep ==
  ASSUME ColdCoherent, [Next]_vars
  PROVE  [Ledger!Settle \/ Ledger!Correct]_<<WatermarkOf(meta), RowsOf(meta.current)>>
<1> USE DEF Ledger!Settle, Ledger!Correct
<1>0. TypeOK' /\ ColdCoherent'
  BY TypeStep, Step
<1>1. ASSUME NEW p \in Writers, CommitLands(p)
      PROVE  Ledger!Settle \/ Ledger!Correct
  <2>1. PICK f \in 0..Len(file), s \in Snapshots :
          /\ Held(f) \subseteq Rows
          /\ p = "archiver" => /\ WatermarkOf(meta) \in Windows
                               /\ Held(f) = Hot[WatermarkOf(meta)]
                               /\ s.mark = WatermarkOf(meta) + 1
          /\ p # "archiver" => s.mark = WatermarkOf(meta) /\ Settled(Held(f))
          /\ WatermarkOf(meta)' = s.mark
          /\ RowsOf(meta.current)' = RowsOf(meta.current) \union Held(f)
    BY <1>0, <1>1, Landing
  <2> QED
    BY <2>1 DEF Settled, Windows
<1>2. CASE RequestApplied
  <2>1. PICK f \in 0..Len(file), s \in Snapshots :
          /\ flight.rows = Held(f) /\ Held(f) \subseteq Rows
          /\ \/ /\ WatermarkOf(meta) \in Windows /\ flight.rows = Hot[WatermarkOf(meta)]
                /\ s.mark = WatermarkOf(meta) + 1
             \/ s.mark = WatermarkOf(meta) /\ Settled(flight.rows)
          /\ WatermarkOf(meta)' = s.mark
          /\ RowsOf(meta.current)' = RowsOf(meta.current) \union Held(f)
    BY <1>0, <1>2, Applying
  <2> QED
    BY <2>1 DEF Settled, Windows
<1>3. CASE ForeignCompaction
  BY <1>0, <1>3, Compacting
<1>4. CASE ExpireSnapshots
  BY <1>0, <1>4, ExpiryGrows
<1>5. ASSUME NEW p \in Writers, WriteDataFiles(p)
      PROVE  UNCHANGED <<WatermarkOf(meta), RowsOf(meta.current)>>
  <2>1. FilesStay
    <3>1. CASE run[p].rows = {}
      BY <1>5, <3>1 DEF WriteDataFiles, FilesStay
    <3>2. CASE run[p].rows # {}
      <4>1. file' = Append(file, [rows |-> run[p].rows, spanned |-> TRUE])
        BY <1>5, <3>2 DEF WriteDataFiles
      <4>2. [rows |-> run[p].rows, spanned |-> TRUE] \in Files
        BY RunType DEF Files, ColdCoherent
      <4> QED
        BY <4>1, <4>2, FileGrows DEF FilesStay, ColdCoherent
    <3> QED
      BY <3>1, <3>2
  <2> QED
    BY <1>0, <1>5, <2>1, StaysPut DEF WriteDataFiles
<1>6. ASSUME UNCHANGED <<snaps, meta, file, late>>, clock \in Nat, clock <= clock'
      PROVE  UNCHANGED <<WatermarkOf(meta), RowsOf(meta.current)>>
  <2>1. FilesStay
    BY <1>6 DEF FilesStay
  <2> QED
    BY <1>0, <1>6, <2>1, NoCommit DEF SameTable
<1>7. clock \in Nat
  BY DEF ColdCoherent, TypeOK
<1>8. ASSUME NEW p \in Writers, CommitStep(p)
      PROVE  CommitLands(p) \/ WriteDataFiles(p)
               \/ UNCHANGED <<snaps, meta, file, late, clock>>
  BY <1>8 DEF CommitStep, CommitDeclined, CommitConflict, CommitFails, ReferencedPaths,
              DeleteFiles, Stop
<1>9. ASSUME NEW q \in Queries, QueryStep(q) PROVE UNCHANGED <<snaps, meta, file, late, clock>>
  BY <1>9 DEF QueryStep, ScanCold, ResolutionFromStats, EndQuery
<1>10. AppendAndCommit \/ AppendOnly \/ ReassertWatermark \/ ChooseDoomed \/ UNCHANGED vars
         => UNCHANGED <<snaps, meta, file, late, clock>>
  BY DEF AppendAndCommit, AppendOnly, ReassertWatermark, ChooseDoomed, vars
<1>11. CASE Tick
  BY <1>6, <1>7, <1>11 DEF Tick
<1>12. ASSUME UNCHANGED <<snaps, meta, file, late, clock>>
       PROVE  UNCHANGED <<WatermarkOf(meta), RowsOf(meta.current)>>
  BY <1>6, <1>7, <1>12
<1> QED
  BY <1>1, <1>2, <1>3, <1>4, <1>5, <1>8, <1>9, <1>10, <1>11, <1>12 DEF Next

\* The chain with its conflicts, expiry, compactions and late requests is one boundary
\* and one set of rows that move together: an archival commit publishes a whole window
\* with the boundary that covers it, and nothing else moves the boundary.
THEOREM ColdLedgerImplemented == Spec => ImplementsColdLedger
<1>1. Init => Ledger!Init
  <2> SUFFICES ASSUME Init PROVE Ledger!Init
    OBVIOUS
  <2>1. meta.current = 0
    BY DEF Init, Idle
  <2> QED
    BY <2>1 DEF Ledger!Init, WatermarkOf, RowsOf, FilesOf
<1>2. ColdCoherent /\ [Next]_vars =>
        [Ledger!Settle \/ Ledger!Correct]_<<WatermarkOf(meta), RowsOf(meta.current)>>
  BY LedgerStep
<1> QED
  BY <1>1, <1>2, ColdCoherentAlways, PTL DEF Spec, ImplementsColdLedger, Ledger!Spec
=============================================================================
