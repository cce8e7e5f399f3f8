------------------------ MODULE DeclarationProofs ------------------------
(***************************************************************************)
(* The life of a declared table for any processes, files, columns and      *)
(* bounds: what is refused after `check`, what a row means in the table it *)
(* is stored in, and that a purged row is gone.                            *)
(***************************************************************************)
EXTENDS Declaration, TLAPS

-----------------------------------------------------------------------------
(* What the variables hold.                                                  *)

IsRow(r) == {"id", "values", "key", "hasEnd", "verified"} \subseteq DOMAIN r

IsRelation(x) == /\ {"attached", "rows"} \subseteq DOMAIN x
                 /\ \A r \in x.rows : IsRow(r)

Serving == {"verified", "ready", "archiving"}
Purging == {"unlisted", "deleted", "parentless"}

IsProcess(x) ==
  /\ "pc" \in DOMAIN x /\ x.pc \in {"down", "built"} \cup Serving \cup Purging
  /\ x.pc \in {"down", "built"} \cup Serving => "file" \in DOMAIN x
  /\ x.pc \in {"built"} \cup Serving => {"schema", "coldEra"} \subseteq DOMAIN x
  /\ x.pc \in Serving => "hotEra" \in DOMAIN x
  /\ x.pc \in Purging => {"doomed", "files"} \subseteq DOMAIN x

HotShape == hot # Null => /\ {"era", "ddl"} \subseteq DOMAIN hot
                          /\ {"key", "hasEnd", "columns"} \subseteq DOMAIN hot.ddl

PartsShape == /\ DOMAIN parts = Windows
              /\ \A w \in Windows : parts[w] # Null => IsRelation(parts[w])

ColdShape == cold # Null => /\ {"rows", "fields"} \subseteq DOMAIN cold
                            /\ \A r \in cold.rows : IsRow(r)

ProcShape == /\ DOMAIN proc = Processes
             /\ \A p \in Processes : IsProcess(proc[p])

ToldShape == told \in Seq({told[i] : i \in DOMAIN told})

Shape == HotShape /\ PartsShape /\ ColdShape /\ ProcShape /\ ToldShape /\ eras \in Nat

-----------------------------------------------------------------------------
(* What a step does to the rows, the ghosts and the tables.                  *)

\* The row `r` is `s` moved or brought to other columns.
Kept(r, s) == /\ IsRow(r) /\ r.id = s.id /\ r.key = s.key
              /\ r.hasEnd = s.hasEnd /\ r.verified = s.verified

\* The row `r` is what a process writes in this step.
Written(r) ==
  /\ IsRow(r) /\ r.id = Len(told) + 1 /\ Len(told') = Len(told) + 1 /\ hot' = hot /\ eras' = eras
  /\ \E p \in Processes : /\ proc[p].pc = "ready" /\ r.verified = proc[p].hotEra
                          /\ r.key = MergeKey(Config(p)) /\ r.hasEnd = HasIntervalEnd(Config(p))

\* A partition's row was in that partition, which is not attached again.
HotStep ==
  /\ DOMAIN parts' = Windows
  /\ \A w \in Windows : parts'[w] # Null =>
       /\ IsRelation(parts'[w])
       /\ \A r \in parts'[w].rows :
            \/ Written(r)
            \/ /\ parts[w] # Null /\ (parts'[w].attached => parts[w].attached)
               /\ \E s \in parts[w].rows : Kept(r, s)

\* A row of the cold table was there, or in a partition while the cold table was there.
ColdStep ==
  /\ ColdShape'
  /\ \A r \in ColdRows' :
       \/ Written(r)
       \/ \E s \in ColdRows \cup (IF cold = Null THEN {} ELSE RowsIn(parts)) : Kept(r, s)
  /\ cold' # Null /\ cold = Null => Ids(RowsIn(parts)) \subseteq abandoned'

ToldStep == /\ ToldShape' /\ Len(told) <= Len(told') /\ Len(told') \in Nat
            /\ abandoned \subseteq abandoned'

\* The hot table is kept, dropped, made anew, or given a column.
TableStep ==
  /\ HotShape' /\ eras' \in Nat /\ eras <= eras'
  /\ hot' # Null =>
       \/ hot # Null /\ hot'.era = hot.era /\ hot'.ddl.key = hot.ddl.key /\ hot'.ddl.hasEnd = hot.ddl.hasEnd
       \/ hot'.era = eras + 1 /\ eras' = eras + 1

DataStep == HotStep /\ ColdStep /\ ToldStep /\ TableStep

-----------------------------------------------------------------------------
(* What a row means.                                                         *)

\* A process that verified the hot table there is now runs a declaration it agrees with;
\* eras are of tables created so far.
MeaningInv ==
  /\ hot # Null => hot.era \in 0..eras
  /\ \A r \in RowsIn(parts) \cup ColdRows : r.verified \in 0..eras
  /\ \A p \in Processes : proc[p].pc \in Serving =>
       /\ proc[p].hotEra \in 0..eras
       /\ hot # Null /\ hot.era = proc[p].hotEra => VerifyDeclaration(hot.ddl, Config(p))
  /\ OneMeaning

-----------------------------------------------------------------------------
(* What is gone.                                                             *)

\* The cold table holds none of `ids`, and will be given none.
NotCold(ids) == /\ ids \cap Ids(ColdRows) \subseteq abandoned
                /\ cold # Null => ids \cap Ids(RowsIn(parts)) \subseteq abandoned

NotAttached(ids) == \A w \in Windows : parts[w] # Null /\ parts[w].attached =>
  ids \cap Ids(parts[w].rows) \subseteq abandoned

Numbered == 1..Len(told)

\* A purge's rows leave the cold table first, then the partitions attached, then the others.
GoneInv ==
  /\ Stored \subseteq Numbered
  /\ files \subseteq abandoned \cup BeingDeleted
  /\ purged \subseteq Numbered
  /\ purged \cap (Ids(RowsIn(parts)) \cup Ids(ColdRows)) \subseteq abandoned
  /\ \A p \in Processes : proc[p].pc \in Purging =>
       /\ proc[p].doomed \subseteq Numbered
       /\ NotCold(proc[p].doomed)
       /\ proc[p].pc = "parentless" => NotAttached(proc[p].doomed)

-----------------------------------------------------------------------------
(* Rows, partitions and processes that a step leaves as they are.            *)

\* A row kept is the row itself, or a row of the same identity in other columns.
LEMMA KeptItself ==
  ASSUME NEW r, IsRow(r)
  PROVE  Kept(r, r)
  BY DEF Kept

LEMMA KeptRecolumned ==
  ASSUME NEW r, IsRow(r), NEW v
  PROVE  Kept([r EXCEPT !.values = v], r)
  BY DEF Kept, IsRow

LEMMA RowInserted ==
  ASSUME NEW r, IsRow(r), NEW table
  PROVE  Kept(Inserted(table, r), r)
  BY KeptRecolumned DEF Inserted

LEMMA RowAligned ==
  ASSUME NEW r, IsRow(r), NEW schema
  PROVE  Kept(Align(r, schema), r)
<1> DEFINE v == [n \in Names(schema) \ CoreNames |-> r.values[n]]
<1>1. Align(r, schema) = [r EXCEPT !.values = v]
  BY DEF Align
<1> QED
  BY <1>1, KeptRecolumned

\* What is kept of a row that was kept.
LEMMA KeptTwice ==
  ASSUME NEW r, NEW s, NEW t, Kept(r, s), Kept(s, t)
  PROVE  Kept(r, t)
  BY DEF Kept

\* The partitions are left as they are.
LEMMA SamePartitions ==
  ASSUME PartsShape, parts' = parts
  PROVE  HotStep
<1> SUFFICES ASSUME NEW w \in Windows, parts[w] # Null
             PROVE  /\ IsRelation(parts[w])
                    /\ \A r \in parts[w].rows : \E s \in parts[w].rows : Kept(r, s)
  BY DEF HotStep, PartsShape
<1> QED
  BY KeptItself DEF PartsShape, IsRelation

\* Partitions are dropped, detached, or made empty.
LEMMA FewerPartitions ==
  ASSUME PartsShape, DOMAIN parts' = Windows,
         \A w \in Windows : parts'[w] # Null =>
           \/ parts[w] # Null /\ parts'[w] = parts[w]
           \/ parts[w] # Null /\ parts'[w] = [parts[w] EXCEPT !.attached = FALSE]
           \/ {"attached", "rows"} \subseteq DOMAIN parts'[w] /\ parts'[w].rows = {}
  PROVE  HotStep
<1> SUFFICES ASSUME NEW w \in Windows, parts'[w] # Null
             PROVE  /\ IsRelation(parts'[w])
                    /\ \A r \in parts'[w].rows :
                         /\ parts[w] # Null /\ (parts'[w].attached => parts[w].attached)
                         /\ \E s \in parts[w].rows : Kept(r, s)
  BY DEF HotStep
<1>1. CASE parts[w] # Null /\ parts'[w] = parts[w]
  BY <1>1, KeptItself DEF PartsShape, IsRelation
<1>2. CASE parts[w] # Null /\ parts'[w] = [parts[w] EXCEPT !.attached = FALSE]
  <2>1. IsRelation(parts[w])
    BY <1>2 DEF PartsShape
  <2>2. /\ parts'[w].rows = parts[w].rows /\ parts'[w].attached = FALSE
        /\ DOMAIN parts'[w] = DOMAIN parts[w]
    BY <1>2, <2>1 DEF IsRelation
  <2> QED
    BY <1>2, <2>1, <2>2, KeptItself DEF IsRelation
<1>3. CASE {"attached", "rows"} \subseteq DOMAIN parts'[w] /\ parts'[w].rows = {}
  BY <1>3 DEF IsRelation
<1> QED
  BY <1>1, <1>2, <1>3

\* The cold table's rows are left as they are, or there is no row any more.
LEMMA SameColdRows ==
  ASSUME ColdShape,
         cold' # Null => {"rows", "fields"} \subseteq DOMAIN cold',
         cold' # Null => (cold # Null /\ cold'.rows = cold.rows)
                         \/ (cold = Null /\ cold'.rows = {} /\ Ids(RowsIn(parts)) \subseteq abandoned')
  PROVE  ColdStep
<1>1. \A r \in ColdRows' : r \in ColdRows
  BY DEF ColdRows
<1>2. \A r \in ColdRows : IsRow(r)
  BY DEF ColdRows, ColdShape
<1>3. ColdShape'
  BY <1>1, <1>2 DEF ColdShape, ColdRows
<1>4. \A r \in ColdRows' : \E s \in ColdRows : Kept(r, s)
  BY <1>1, <1>2, KeptItself
<1> QED
  BY <1>3, <1>4 DEF ColdStep

\* Nothing is written.
LEMMA NothingTold ==
  ASSUME ToldShape, told' = told, abandoned \subseteq abandoned'
  PROVE  ToldStep
<1>1. Len(told) \in Nat
  BY DEF ToldShape
<1> QED
  BY <1>1 DEF ToldStep, ToldShape

LEMMA SameTable ==
  ASSUME HotShape, eras \in Nat, hot' = hot \/ hot' = Null, eras' = eras \/ eras' = eras + 1
  PROVE  TableStep
  BY DEF TableStep, HotShape

-----------------------------------------------------------------------------
(* Every operation's step is one of these.                                   *)

LEMMA SameColdTable ==
  ASSUME ColdShape, cold' = cold
  PROVE  ColdStep
<1>1. cold # Null => {"rows", "fields"} \subseteq DOMAIN cold
  BY DEF ColdShape
<1> QED
  BY <1>1, SameColdRows

\* Creating the cold table, or restating the properties of the one there is.
LEMMA CreateColdTableStep ==
  ASSUME Shape, NEW c, CreateColdTable(c)
  PROVE  ColdStep /\ abandoned \subseteq abandoned' /\ (eras' = eras \/ eras' = eras + 1)
<1>1. CASE cold # Null
  <2>1. /\ cold' = [cold EXCEPT !.properties = ReconcileProperties(@, MaintenancePolicy(c))]
        /\ eras' = eras /\ abandoned' = abandoned
    BY <1>1 DEF CreateColdTable
  <2>2. ColdShape
    BY DEF Shape
  <2>3. {"rows", "fields"} \subseteq DOMAIN cold' /\ cold'.rows = cold.rows
    BY <1>1, <2>1, <2>2 DEF ColdShape
  <2> QED
    BY <1>1, <2>1, <2>2, <2>3, SameColdRows
<1>2. CASE cold = Null
  <2>1. /\ cold' = [era |-> eras', spec |-> PartitionSpec(NameList(c.identity)),
                    fields |-> StorageSchema(Extra(c)), rows |-> {}, boundary |-> 0,
                    properties |-> PolicyProperties(MaintenancePolicy(c))]
        /\ eras' = eras + 1 /\ abandoned' = abandoned \cup Ids(RowsIn(parts))
    BY <1>2 DEF CreateColdTable
  <2>2. ColdShape
    BY DEF Shape
  <2>3. {"rows", "fields"} \subseteq DOMAIN cold' /\ cold'.rows = {}
    BY <2>1
  <2>4. Ids(RowsIn(parts)) \subseteq abandoned' /\ abandoned \subseteq abandoned'
    BY <2>1
  <2> QED
    BY <1>2, <2>1, <2>2, <2>3, <2>4, SameColdRows
<1> QED
  BY <1>1, <1>2

LEMMA ConnectStep ==
  ASSUME Shape, NEW p, NEW f, Connect(p, f)
  PROVE  DataStep
<1>1. hot' = hot /\ parts' = parts /\ cold' = cold /\ told' = told /\ abandoned' = abandoned /\ eras' = eras
  BY DEF Connect, store, ghosts
<1> QED
  BY <1>1, SamePartitions, SameColdTable, NothingTold, SameTable DEF Shape, DataStep

LEMMA OpenStep ==
  ASSUME Shape, NEW p, NEW f, Open(p, f)
  PROVE  DataStep
<1>1. hot' = hot /\ parts' = parts /\ told' = told
  BY DEF Open
<1>2. ColdStep /\ abandoned \subseteq abandoned' /\ (eras' = eras \/ eras' = eras + 1)
  <2>1. CASE cold' = cold /\ eras' = eras /\ abandoned' = abandoned
    BY <2>1, SameColdTable DEF Shape
  <2>2. CASE CreateColdTable(Declared[f])
    BY <2>2, CreateColdTableStep
  <2> QED
    BY <2>1, <2>2 DEF Open
<1> QED
  BY <1>1, <1>2, SamePartitions, NothingTold, SameTable DEF Shape, DataStep

LEMMA CreateHotStep ==
  ASSUME Shape, NEW p, CreateHot(p)
  PROVE  DataStep
<1>1. parts' = parts /\ cold' = cold /\ told' = told /\ abandoned' = abandoned
  BY DEF CreateHot, ghosts
<1>2. TableStep
  <2>1. CASE hot' = hot /\ eras' = eras
    BY <2>1, SameTable DEF Shape
  <2>2. CASE eras' = eras + 1 /\ hot' = [era |-> eras', ddl |-> HotDdl(Config(p))]
    BY <2>2 DEF TableStep, HotShape, HotDdl, Shape
  <2> QED
    BY <2>1, <2>2 DEF CreateHot
<1> QED
  BY <1>1, <1>2, SamePartitions, SameColdTable, NothingTold DEF Shape, DataStep

LEMMA CreateColdStep ==
  ASSUME Shape, NEW p, CreateCold(p)
  PROVE  DataStep
<1>1. hot' = hot /\ parts' = parts /\ told' = told
  BY DEF CreateCold
<1>2. ColdStep /\ abandoned \subseteq abandoned' /\ (eras' = eras \/ eras' = eras + 1)
  <2>1. CASE cold' = cold /\ eras' = eras /\ abandoned' = abandoned
    BY <2>1, SameColdTable DEF Shape
  <2>2. CASE CreateColdTable(Config(p))
    BY <2>2, CreateColdTableStep
  <2> QED
    BY <2>1, <2>2 DEF CreateCold
<1> QED
  BY <1>1, <1>2, SamePartitions, NothingTold, SameTable DEF Shape, DataStep

LEMMA ToldAppended ==
  ASSUME ToldShape, NEW v, told' = Append(told, v)
  PROVE  ToldShape' /\ Len(told') = Len(told) + 1 /\ Len(told) \in Nat
<1> DEFINE S == {told[i] : i \in DOMAIN told}
           T == {told'[i] : i \in DOMAIN told'}
<1>1. told \in Seq(S)
  BY DEF ToldShape
<1>2. told \in Seq(S \cup {v}) /\ v \in S \cup {v}
  BY <1>1
<1>3. told' \in Seq(S \cup {v}) /\ Len(told') = Len(told) + 1 /\ Len(told) \in Nat
  BY <1>2
<1>4. told' \in Seq(T)
  BY <1>3
<1> QED
  BY <1>3, <1>4 DEF ToldShape

\* A row as the encoder leaves it.
LEMMA EncodedIsWritten ==
  ASSUME Shape, NEW p \in Processes, proc[p].pc = "ready", NEW w, NEW s, NEW v,
         told' = Append(told, v), hot' = hot, eras' = eras,
         NEW row \in Encoded(p, Len(told) + 1, w, s), NEW r, Kept(r, row)
  PROVE  Written(r)
<1>1. /\ row.id = Len(told) + 1 /\ row.key = MergeKey(Config(p))
      /\ row.hasEnd = HasIntervalEnd(Config(p)) /\ row.verified = proc[p].hotEra
  BY DEF Encoded
<1>2. Len(told') = Len(told) + 1
  BY ToldAppended DEF Shape
<1> QED
  BY <1>1, <1>2 DEF Written, Kept

LEMMA EncodedIsRow ==
  ASSUME NEW p, NEW id, NEW w, NEW s, NEW row \in Encoded(p, id, w, s)
  PROVE  IsRow(row) /\ row.window = w
  BY DEF Encoded, IsRow

LEMMA WriteStep ==
  ASSUME Shape, NEW p \in Processes, NEW w \in Windows, NEW s, Write(p, w, s)
  PROVE  DataStep
<1>1. /\ hot' = hot /\ abandoned' = abandoned /\ eras' = eras
      /\ proc[p].pc = "ready" /\ cold # Null
  BY DEF Write
<1>2. PICK row \in Encoded(p, Len(told) + 1, w, s) :
        /\ \/ /\ parts' = [parts EXCEPT ![w].rows = @ \cup {Inserted(hot.ddl, row)}]
              /\ HotAdmits(p, row) /\ cold' = cold
           \/ /\ cold' = [cold EXCEPT !.rows = @ \cup {Align(row, cold.fields)}]
              /\ parts' = parts
        /\ told' = Append(told, row.values)
  BY DEF Write
<1>3. ToldStep
  <2>1. ToldShape' /\ Len(told') = Len(told) + 1 /\ Len(told) \in Nat
    BY <1>2, ToldAppended DEF Shape
  <2> QED
    BY <1>1, <2>1 DEF ToldStep
<1>4. TableStep
  BY <1>1, SameTable DEF Shape
<1>5. IsRow(row) /\ row.window = w
  BY EncodedIsRow
<1>6. HotStep /\ ColdStep
  <2>1. CASE /\ parts' = [parts EXCEPT ![w].rows = @ \cup {Inserted(hot.ddl, row)}]
             /\ HotAdmits(p, row) /\ cold' = cold
    <3>1. ColdStep
      BY <2>1, SameColdTable DEF Shape
    <3>2. Kept(Inserted(hot.ddl, row), row)
      BY <1>5, RowInserted
    <3> DEFINE new == Inserted(hot.ddl, row)
    <3>3. Written(new)
      BY <1>1, <1>2, <3>2, EncodedIsWritten
    <3>4. parts[w] # Null /\ IsRelation(parts[w]) /\ DOMAIN parts = Windows
      BY <1>5, <2>1 DEF HotAdmits, Shape, PartsShape
    <3> HIDE DEF new
    <3>5. /\ DOMAIN parts' = Windows /\ {"attached", "rows"} \subseteq DOMAIN parts'[w]
          /\ parts'[w].rows = parts[w].rows \cup {new}
          /\ parts'[w].attached = parts[w].attached
          /\ \A v \in Windows : v # w => parts'[v] = parts[v]
      BY <2>1, <3>4 DEF IsRelation, new
    <3>6. IsRow(new)
      BY <3>3 DEF Written
    <3>7. \A v \in Windows : v # w /\ parts'[v] # Null =>
            IsRelation(parts'[v]) /\ \A r \in parts'[v].rows : \E x \in parts[v].rows : Kept(r, x)
      <4> SUFFICES ASSUME NEW v \in Windows, v # w, parts[v] # Null
                   PROVE  /\ IsRelation(parts[v])
                          /\ \A r \in parts[v].rows : \E x \in parts[v].rows : Kept(r, x)
        BY <3>5
      <4> QED
        BY KeptItself DEF Shape, PartsShape, IsRelation
    <3>8. IsRelation(parts'[w])
      BY <3>4, <3>5, <3>6 DEF IsRelation
    <3>9. \A r \in parts'[w].rows : Written(r) \/ \E x \in parts[w].rows : Kept(r, x)
      BY <3>3, <3>4, <3>5, KeptItself DEF IsRelation
    <3> QED
      BY <3>1, <3>4, <3>5, <3>7, <3>8, <3>9 DEF HotStep
  <2>2. CASE cold' = [cold EXCEPT !.rows = @ \cup {Align(row, cold.fields)}] /\ parts' = parts
    <3>1. HotStep
      BY <2>2, SamePartitions DEF Shape
    <3> DEFINE new == Align(row, cold.fields)
    <3>2. Kept(new, row)
      BY <1>5, RowAligned
    <3>3. Written(new)
      BY <1>1, <1>2, <3>2, EncodedIsWritten
    <3> HIDE DEF new
    <3>4. {"rows", "fields"} \subseteq DOMAIN cold' /\ cold'.rows = cold.rows \cup {new}
      BY <1>1, <2>2 DEF Shape, ColdShape, new
    <3>5. \A r \in cold.rows : IsRow(r)
      BY <1>1 DEF Shape, ColdShape
    <3>6. IsRow(new)
      BY <3>3 DEF Written
    <3>7. ColdShape'
      BY <3>4, <3>5, <3>6 DEF ColdShape
    <3>8. \A r \in ColdRows' : r \in cold.rows \/ r = new
      BY <3>4 DEF ColdRows
    <3>9. \A r \in ColdRows' : Written(r) \/ \E x \in ColdRows : Kept(r, x)
      BY <1>1, <3>3, <3>5, <3>8, KeptItself DEF ColdRows
    <3> QED
      BY <1>1, <3>1, <3>7, <3>9 DEF ColdStep
  <2> QED
    BY <1>2, <2>1, <2>2
<1> QED
  BY <1>3, <1>4, <1>6 DEF DataStep

\* The partitions once some are reclaimed and others made.
LEMMA SuppliedPartitions ==
  ASSUME NEW dropped, NEW now, NEW w \in Windows
  PROVE  /\ DOMAIN Supplied(dropped, now) = Windows
         /\ Supplied(dropped, now)[w] # Null =>
              \/ Supplied(dropped, now)[w] = parts[w]
              \/ /\ {"attached", "rows"} \subseteq DOMAIN Supplied(dropped, now)[w]
                 /\ Supplied(dropped, now)[w].rows = {}
  BY DEF Supplied, NewPartition

\* The detach of the window due.
LEMMA DetachStep ==
  ASSUME PartsShape, NEW dropped, NEW now, NEW b,
         parts' = [Supplied(dropped, now) EXCEPT ![b].attached = FALSE],
         Supplied(dropped, now)[b] # Null
  PROVE  HotStep
<1> DEFINE relations == Supplied(dropped, now)
<1>1. DOMAIN relations = Windows
  BY DEF Supplied
<1>2. \A w \in Windows : relations[w] # Null =>
        \/ parts[w] # Null /\ relations[w] = parts[w]
        \/ {"attached", "rows"} \subseteq DOMAIN relations[w] /\ relations[w].rows = {}
  BY SuppliedPartitions
<1> HIDE DEF relations
<1>3. DOMAIN parts' = Windows
  BY <1>1 DEF relations
<1>4. ASSUME NEW w \in Windows, w # b
      PROVE  parts'[w] = relations[w]
  BY <1>1, <1>4 DEF relations
<1>5. b \in Windows => parts'[b] = [relations[b] EXCEPT !.attached = FALSE]
  BY <1>1 DEF relations
<1>6. ASSUME b \in Windows,
             {"attached", "rows"} \subseteq DOMAIN relations[b] /\ relations[b].rows = {}
      PROVE  {"attached", "rows"} \subseteq DOMAIN parts'[b] /\ parts'[b].rows = {}
  BY <1>5, <1>6
<1>7. relations[b] # Null
  BY DEF relations
<1>8. ASSUME NEW w \in Windows, parts'[w] # Null
      PROVE  \/ parts[w] # Null /\ parts'[w] = parts[w]
             \/ parts[w] # Null /\ parts'[w] = [parts[w] EXCEPT !.attached = FALSE]
             \/ {"attached", "rows"} \subseteq DOMAIN parts'[w] /\ parts'[w].rows = {}
  <2>1. CASE w = b
    <3>1. CASE parts[b] # Null /\ relations[b] = parts[b]
      BY <1>5, <1>8, <2>1, <3>1
    <3>2. CASE {"attached", "rows"} \subseteq DOMAIN relations[b] /\ relations[b].rows = {}
      BY <1>6, <1>8, <2>1, <3>2
    <3> QED
      BY <1>2, <1>7, <1>8, <2>1, <3>1, <3>2
  <2>2. CASE w # b
    <3>1. parts'[w] = relations[w]
      BY <1>4, <2>2
    <3> QED
      BY <1>2, <1>8, <3>1
  <2> QED
    BY <2>1, <2>2
<1> QED
  BY <1>3, <1>8, FewerPartitions

LEMMA CycleStep ==
  ASSUME Shape, NEW p, NEW now, NEW dropped, Cycle(p, now, dropped)
  PROVE  DataStep
<1> DEFINE relations == Supplied(dropped, now)
<1>1. hot' = hot /\ told' = told /\ abandoned' = abandoned /\ eras' = eras /\ cold # Null
  BY DEF Cycle, ghosts
<1>2. PartsShape
  BY DEF Shape
<1>3. \/ parts' = relations
      \/ relations[cold.boundary] # Null
         /\ parts' = [relations EXCEPT ![cold.boundary].attached = FALSE]
  BY DEF Cycle
<1>4. HotStep
  <2>1. CASE parts' = relations
    <3>1. DOMAIN parts' = Windows
      BY <2>1 DEF Supplied
    <3>2. \A w \in Windows : parts'[w] # Null =>
            \/ parts[w] # Null /\ parts'[w] = parts[w]
            \/ {"attached", "rows"} \subseteq DOMAIN parts'[w] /\ parts'[w].rows = {}
      BY <2>1, SuppliedPartitions
    <3> HIDE DEF relations
    <3> QED
      BY <1>2, <3>1, <3>2, FewerPartitions
  <2>2. CASE relations[cold.boundary] # Null
             /\ parts' = [relations EXCEPT ![cold.boundary].attached = FALSE]
    BY <1>2, <2>2, DetachStep
  <2> QED
    BY <1>3, <2>1, <2>2
<1>5. ColdStep
  <2>1. CASE cold' = cold
    BY <2>1, SameColdTable DEF Shape
  <2>2. CASE cold' = [cold EXCEPT !.boundary = Widened(relations, now)]
    <3>1. cold'.rows = cold.rows /\ {"rows", "fields"} \subseteq DOMAIN cold'
      BY <1>1, <2>2 DEF Shape, ColdShape
    <3> QED
      BY <1>1, <3>1, SameColdRows DEF Shape
  <2> QED
    BY <2>1, <2>2 DEF Cycle
<1> QED
  BY <1>1, <1>4, <1>5, NothingTold, SameTable DEF Shape, DataStep

LEMMA CommitStep ==
  ASSUME Shape, NEW p, Commit(p)
  PROVE  DataStep
<1>1. /\ hot' = hot /\ parts' = parts /\ told' = told /\ abandoned' = abandoned /\ eras' = eras
  BY DEF Commit, ghosts
<1>2. ColdStep
  <2>1. CASE cold' = cold
    BY <2>1, SameColdTable DEF Shape
  <2>2. ASSUME NEW w \in Windows, cold # Null, parts[w] # Null,
               cold' = [cold EXCEPT !.boundary = w + 1,
                                    !.rows = @ \cup {Align(r, cold.fields) : r \in parts[w].rows}]
        PROVE  ColdStep
    <3> DEFINE moved == {Align(r, cold.fields) : r \in parts[w].rows}
    <3>1. \A r \in moved : \E s \in parts[w].rows : Kept(r, s)
      <4> SUFFICES ASSUME NEW s \in parts[w].rows
                   PROVE  Kept(Align(s, cold.fields), s)
        OBVIOUS
      <4> QED
        BY <2>2, RowAligned DEF Shape, PartsShape, IsRelation
    <3> HIDE DEF moved
    <3>2. {"rows", "fields"} \subseteq DOMAIN cold' /\ cold'.rows = cold.rows \cup moved
      BY <2>2 DEF Shape, ColdShape, moved
    <3>3. parts[w].rows \subseteq RowsIn(parts)
      BY <2>2 DEF RowsIn
    <3>4. \A r \in cold.rows : IsRow(r)
      BY <2>2 DEF Shape, ColdShape
    <3>5. ColdShape'
      BY <3>1, <3>2, <3>4 DEF ColdShape, Kept
    <3>6. \A r \in ColdRows' : r \in cold.rows \/ r \in moved
      BY <3>2 DEF ColdRows
    <3>7. \A r \in ColdRows' : \E s \in ColdRows \cup RowsIn(parts) : Kept(r, s)
      BY <2>2, <3>1, <3>3, <3>4, <3>6, KeptItself DEF ColdRows
    <3> QED
      BY <2>2, <3>5, <3>7 DEF ColdStep
  <2> QED
    BY <2>1, <2>2 DEF Commit
<1> QED
  BY <1>1, <1>2, SamePartitions, NothingTold, SameTable DEF Shape, DataStep

LEMMA DropEntryStep ==
  ASSUME Shape, NEW p, DropEntry(p)
  PROVE  DataStep
<1>1. /\ hot' = hot /\ parts' = parts /\ cold' = Null /\ told' = told
      /\ abandoned' = abandoned /\ eras' = eras
  BY DEF DropEntry, ghosts
<1> QED
  BY <1>1, SamePartitions, SameColdRows, NothingTold, SameTable DEF Shape, DataStep

LEMMA DeleteFilesStep ==
  ASSUME Shape, NEW p, DeleteFiles(p)
  PROVE  DataStep
<1>1. /\ hot' = hot /\ parts' = parts /\ cold' = cold /\ told' = told
      /\ abandoned' = abandoned /\ eras' = eras
  BY DEF DeleteFiles, ghosts
<1> QED
  BY <1>1, SamePartitions, SameColdTable, NothingTold, SameTable DEF Shape, DataStep

LEMMA DropParentStep ==
  ASSUME Shape, NEW p, DropParent(p)
  PROVE  DataStep
<1>1. /\ hot' = Null /\ cold' = cold /\ told' = told /\ abandoned' = abandoned /\ eras' = eras
      /\ parts' = [w \in Windows |-> IF w \in Detached THEN parts[w] ELSE Null]
  BY DEF DropParent, ghosts
<1>2. HotStep
  BY <1>1, FewerPartitions DEF Shape, Detached
<1> QED
  BY <1>1, <1>2, SameColdTable, NothingTold, SameTable DEF Shape, DataStep

LEMMA DropOrphansStep ==
  ASSUME Shape, NEW p, DropOrphans(p)
  PROVE  DataStep
<1>1. /\ hot' = hot /\ cold' = cold /\ told' = told /\ abandoned' = abandoned /\ eras' = eras
      /\ parts' = [w \in Windows |-> IF w \in Detached THEN Null ELSE parts[w]]
  BY DEF DropOrphans
<1>2. HotStep
  BY <1>1, FewerPartitions DEF Shape
<1> QED
  BY <1>1, <1>2, SameColdTable, NothingTold, SameTable DEF Shape, DataStep

LEMMA CrashStep ==
  ASSUME Shape, NEW p, Crash(p)
  PROVE  DataStep
<1>1. /\ hot' = hot /\ parts' = parts /\ cold' = cold /\ told' = told
      /\ abandoned \subseteq abandoned' /\ eras' = eras
  BY DEF Crash, store
<1> QED
  BY <1>1, SamePartitions, SameColdTable, NothingTold, SameTable DEF Shape, DataStep

LEMMA AlterColdStep ==
  ASSUME Shape, NEW n, AlterCold(n)
  PROVE  DataStep
<1> DEFINE widened(r) == [r EXCEPT !.values = [m \in DOMAIN @ \cup {n} |-> IF m = n THEN Null ELSE @[m]]]
<1>1. /\ hot' = hot /\ parts' = parts /\ told' = told /\ abandoned' = abandoned /\ eras' = eras
      /\ cold # Null
      /\ cold' = [cold EXCEPT
           !.fields = Append(@, [name |-> n, type |-> Utf8, nullable |-> TRUE]),
           !.rows = {widened(r) : r \in @}]
  BY DEF AlterCold, ghosts
<1>2. {"rows", "fields"} \subseteq DOMAIN cold /\ \A r \in cold.rows : IsRow(r)
  BY <1>1 DEF Shape, ColdShape
<1>3. \A r \in cold.rows : Kept(widened(r), r)
  BY <1>2, KeptRecolumned
<1> HIDE DEF widened
<1>4. {"rows", "fields"} \subseteq DOMAIN cold' /\ cold'.rows = {widened(r) : r \in cold.rows}
  BY <1>1, <1>2
<1>5. \A r \in ColdRows' : \E s \in ColdRows : Kept(r, s)
  BY <1>1, <1>3, <1>4 DEF ColdRows
<1>6. ColdShape'
  BY <1>3, <1>4 DEF ColdShape, Kept
<1>7. ColdStep
  BY <1>1, <1>5, <1>6 DEF ColdStep
<1> QED
  BY <1>1, <1>7, SamePartitions, NothingTold, SameTable DEF Shape, DataStep

LEMMA AlterHotStep ==
  ASSUME Shape, NEW n, AlterHot(n)
  PROVE  DataStep
<1> DEFINE added(columns) == [m \in DOMAIN columns \cup {n} |->
                                IF m = n THEN Field(n, Utf8, TRUE, Null, Null) ELSE columns[m]]
           widened(r) == [r EXCEPT !.values = [m \in DOMAIN @ \cup {n} |-> IF m = n THEN Null ELSE @[m]]]
<1>1. /\ cold' = cold /\ told' = told /\ abandoned' = abandoned /\ eras' = eras
      /\ hot # Null
      /\ hot' = [hot EXCEPT !.ddl.columns = added(@)]
      /\ parts' = [w \in Windows |->
           IF parts[w] # Null /\ parts[w].attached
             THEN [parts[w] EXCEPT !.columns = added(@), !.rows = {widened(r) : r \in @}]
             ELSE parts[w]]
  BY DEF AlterHot, ghosts
<1>2. TableStep
  <2>1. {"era", "ddl"} \subseteq DOMAIN hot /\ {"key", "hasEnd", "columns"} \subseteq DOMAIN hot.ddl
    BY <1>1 DEF Shape, HotShape
  <2> HIDE DEF added
  <2>2. /\ {"era", "ddl"} \subseteq DOMAIN hot' /\ {"key", "hasEnd", "columns"} \subseteq DOMAIN hot'.ddl
        /\ hot'.era = hot.era /\ hot'.ddl.key = hot.ddl.key /\ hot'.ddl.hasEnd = hot.ddl.hasEnd
    BY <1>1, <2>1
  <2>3. HotShape'
    BY <2>2 DEF HotShape
  <2>4. eras' \in Nat /\ eras <= eras'
    <3>1. eras' = eras
      BY <1>1
    <3>2. eras \in Nat
      BY DEF Shape
    <3> QED
      BY <3>1, <3>2
  <2> QED
    BY <1>1, <2>2, <2>3, <2>4 DEF TableStep
<1>3. HotStep
  <2> SUFFICES ASSUME NEW w \in Windows, parts'[w] # Null
               PROVE  /\ IsRelation(parts'[w])
                      /\ \A r \in parts'[w].rows :
                           /\ parts[w] # Null /\ (parts'[w].attached => parts[w].attached)
                           /\ \E s \in parts[w].rows : Kept(r, s)
    BY <1>1 DEF HotStep
  <2>1. CASE parts[w] # Null /\ parts[w].attached
    <3>1. IsRelation(parts[w])
      BY <2>1 DEF Shape, PartsShape
    <3>2. \A r \in parts[w].rows : Kept(widened(r), r)
      BY <3>1, KeptRecolumned DEF IsRelation
    <3> HIDE DEF widened, added
    <3>3. /\ {"attached", "rows"} \subseteq DOMAIN parts'[w]
          /\ parts'[w].rows = {widened(r) : r \in parts[w].rows}
      BY <1>1, <2>1, <3>1 DEF IsRelation
    <3>4. \A r \in parts'[w].rows : \E s \in parts[w].rows : Kept(r, s)
      BY <3>2, <3>3
    <3>5. IsRelation(parts'[w])
      BY <3>3, <3>4 DEF IsRelation, Kept
    <3> QED
      BY <2>1, <3>4, <3>5
  <2>2. CASE ~(parts[w] # Null /\ parts[w].attached)
    <3>1. parts'[w] = parts[w]
      BY <1>1, <2>2
    <3> QED
      BY <3>1, KeptItself DEF Shape, PartsShape, IsRelation
  <2> QED
    BY <2>1, <2>2
<1> QED
  BY <1>1, <1>2, <1>3, SameColdTable, NothingTold DEF Shape, DataStep

LEMMA WidenColdStep ==
  ASSUME Shape, WidenCold
  PROVE  DataStep
<1>1. /\ hot' = hot /\ parts' = parts /\ told' = told /\ abandoned' = abandoned /\ eras' = eras
      /\ cold # Null
  BY DEF WidenCold, ghosts
<1>2. PICK i : cold' = [cold EXCEPT !.fields[i].type.width = @ + 1]
  BY DEF WidenCold
<1>3. cold'.rows = cold.rows /\ {"rows", "fields"} \subseteq DOMAIN cold'
  BY <1>1, <1>2 DEF Shape, ColdShape
<1>4. ColdStep
  BY <1>1, <1>3, SameColdRows DEF Shape
<1> QED
  BY <1>1, <1>4, SamePartitions, NothingTold, SameTable DEF Shape, DataStep

LEMMA NextIsDataStep ==
  ASSUME Shape, [Next]_vars
  PROVE  DataStep
<1>1. CASE UNCHANGED vars
  <2>1. /\ hot' = hot /\ parts' = parts /\ cold' = cold /\ told' = told
        /\ abandoned' = abandoned /\ eras' = eras
    BY <1>1 DEF vars, store, ghosts
  <2> QED
    BY <2>1, SamePartitions, SameColdTable, NothingTold, SameTable DEF Shape, DataStep
<1>2. ASSUME NEW p \in Processes, NEW f \in DOMAIN Files, Connect(p, f)  PROVE DataStep
  BY <1>2, ConnectStep
<1>3. ASSUME NEW p \in Processes, NEW f \in Opening, Open(p, f)  PROVE DataStep
  BY <1>3, OpenStep
<1>4. ASSUME NEW p \in Processes, CreateHot(p)  PROVE DataStep
  BY <1>4, CreateHotStep
<1>5. ASSUME NEW p \in Processes, CreateCold(p)  PROVE DataStep
  BY <1>5, CreateColdStep
<1>6. ASSUME NEW p \in Processes, NEW w \in Windows, NEW s \in Supplies(p), Write(p, w, s)
      PROVE  DataStep
  BY <1>6, WriteStep
<1>7. ASSUME NEW p \in Processes, NEW now \in 0..(LastWindow + 1), NEW dropped \in SUBSET Detached,
             Cycle(p, now, dropped)
      PROVE  DataStep
  BY <1>7, CycleStep
<1>8. ASSUME NEW p \in Processes, Commit(p)  PROVE DataStep
  BY <1>8, CommitStep
<1>9. ASSUME NEW p \in Processes, DropEntry(p) \/ DeleteFiles(p) \/ DropParent(p) \/ DropOrphans(p)
      PROVE  DataStep
  BY <1>9, DropEntryStep, DeleteFilesStep, DropParentStep, DropOrphansStep
<1>10. ASSUME NEW p \in Processes, Crash(p)  PROVE DataStep
  BY <1>10, CrashStep
<1>11. ASSUME NEW n \in NewColumns, AlterCold(n) \/ AlterHot(n)  PROVE DataStep
  BY <1>11, AlterColdStep, AlterHotStep
<1>12. CASE WidenCold
  BY <1>12, WidenColdStep
<1> QED
  BY <1>1, <1>2, <1>3, <1>4, <1>5, <1>6, <1>7, <1>8, <1>9, <1>10, <1>11, <1>12 DEF Next

-----------------------------------------------------------------------------
(* What a step does to a process.                                            *)

\* What stopped a process for what its file says is not what `check` reads.
NotForItsText(x) ==
  x.pc = "down" /\ x.file # Null => NotAnArn(Files[x.file]) \/ Clashing(Files[x.file])

Moves(q) ==
  \/ proc'[q] = proc[q]
  \/ proc'[q].pc \in {"down", "built"} /\ NotForItsText(proc'[q])
  \/ /\ proc'[q].pc = "verified" /\ proc'[q].hotEra = hot'.era
     /\ (hot # Null /\ hot' = hot) \/ hot'.era = eras'
     /\ VerifyDeclaration(hot'.ddl, Declared[proc'[q].file])
  \/ /\ proc[q].pc \in Serving /\ proc'[q].pc \in Serving
     /\ proc'[q].file = proc[q].file /\ proc'[q].hotEra = proc[q].hotEra
  \/ /\ proc'[q].pc = "unlisted" /\ proc'[q].doomed = Stored
     /\ cold' = Null /\ parts' = parts /\ told' = told
  \/ /\ proc[q].pc = "unlisted" /\ proc'[q].pc = "deleted"
     /\ proc'[q].doomed = proc[q].doomed
  \/ /\ proc[q].pc = "deleted" /\ proc'[q].pc = "parentless"
     /\ proc'[q].doomed = proc[q].doomed
     /\ \A w \in Windows : parts'[w] # Null => ~parts'[w].attached

\* Every process is still one, and goes on as one of these.
ProcStep == ProcShape' /\ \A q \in Processes : Moves(q)

LEMMA NoneMoves ==
  ASSUME ProcShape, proc' = proc
  PROVE  ProcStep
  BY DEF ProcStep, ProcShape, Moves

LEMMA OneMoves ==
  ASSUME ProcShape, NEW p \in Processes, NEW x, proc' = [proc EXCEPT ![p] = x], IsProcess(x),
         Moves(p)
  PROVE  ProcStep
<1>1. DOMAIN proc' = Processes /\ proc'[p] = x /\ \A q \in Processes : q # p => proc'[q] = proc[q]
  BY DEF ProcShape
<1>2. ProcShape'
  BY <1>1 DEF ProcShape
<1>3. \A q \in Processes : q # p => Moves(q)
  BY <1>1 DEF Moves
<1> QED
  BY <1>2, <1>3 DEF ProcStep

\* A process is stopped.
LEMMA OneStops ==
  ASSUME ProcShape, NEW p \in Processes, NEW f, Refused(p, f),
         f # Null => NotAnArn(Files[f]) \/ Clashing(Files[f])
  PROVE  ProcStep
<1>1. proc' = [proc EXCEPT ![p] = Down(f)]
  BY DEF Refused
<1>2. IsProcess(Down(f))
  BY DEF Down, IsProcess, Serving, Purging
<1>3. proc'[p] = Down(f)
  BY <1>1 DEF ProcShape
<1>4. Moves(p)
  BY <1>3 DEF Moves, NotForItsText, Down
<1> QED
  BY <1>1, <1>2, <1>4, OneMoves

\* A file that `check` accepts and Settings::connect does not is a bucket's that is no ARN.
LEMMA AcceptedOpens ==
  ASSUME NEW f \in Accepted, f \notin Opening
  PROVE  NotAnArn(Files[f])
<1> DEFINE file == Files[f]
<1>1. f \in DOMAIN Files /\ \E s \in ReadSettings(file) : ValidateAll(s)
  BY DEF Accepted, CheckAccepts
<1>2. /\ {"lines", "settings", "registered"} \subseteq DOMAIN file
      /\ {"hot", "cold"} \subseteq DOMAIN file.settings
      /\ {"catalog", "uri", "scheme", "warehouse"} \subseteq DOMAIN file.settings.cold
  BY <1>1, FilesAssumption
<1> HIDE DEF file
<1>3. PICK s \in ReadSettings(file) : ValidateAll(s)
  BY <1>1
<1>4. PICK read \in FromToml(file) :
        s = [read.settings EXCEPT !.hot.url = read.lines.url.text,
                                  !.cold.warehouse = read.lines.warehouse.text]
  BY <1>3 DEF ReadSettings
<1>5. read.settings = file.settings
  <2>1. \E lines : read = [file EXCEPT !.lines = lines]
    BY <1>4 DEF FromToml
  <2> QED
    BY <1>2, <2>1
<1>6. /\ s.cold.catalog = file.settings.cold.catalog /\ s.cold.scheme = file.settings.cold.scheme
      /\ s.cold.uri = file.settings.cold.uri
  BY <1>2, <1>4, <1>5
<1>7. ValidateCold(s.cold)
  BY <1>3 DEF ValidateAll
<1>8. ~OpenCold(s.cold)
  BY <1>3 DEF Opening, file
<1>9. s.cold.catalog = "s3tables" /\ s.cold.scheme # "arn"
  BY <1>7, <1>8 DEF OpenCold, ValidateCold
<1> QED
  BY <1>6, <1>9 DEF NotAnArn, file

LEMMA ConnectMoves ==
  ASSUME Shape, NEW p \in Processes, NEW f, Connect(p, f)
  PROVE  ProcStep
<1>1. f \notin Opening /\ Refused(p, IF f \in Accepted THEN f ELSE Null)
  BY DEF Connect
<1>2. ProcShape
  BY DEF Shape
<1>3. CASE f \in Accepted
  BY <1>1, <1>2, <1>3, AcceptedOpens, OneStops
<1>4. CASE f \notin Accepted
  BY <1>1, <1>2, <1>4, OneStops
<1> QED
  BY <1>3, <1>4

LEMMA OpenMoves ==
  ASSUME Shape, NEW p \in Processes, NEW f, Open(p, f)
  PROVE  ProcStep
<1>1. ProcShape
  BY DEF Shape
<1>2. CASE Refused(p, Null)
  BY <1>1, <1>2, OneStops
<1>3. CASE Refused(p, IF RelationsApart(Files[f].registered) THEN Null ELSE f)
  <2>1. CASE RelationsApart(Files[f].registered)
    BY <1>1, <1>3, <2>1, OneStops
  <2>2. CASE ~RelationsApart(Files[f].registered)
    <3>1. Refused(p, f)
      BY <1>3, <2>2
    <3>2. Clashing(Files[f])
      BY <2>2 DEF Clashing
    <3> QED
      BY <1>1, <3>1, <3>2, OneStops
  <2> QED
    BY <2>1, <2>2
<1> DEFINE x == [pc |-> "built", file |-> f, schema |-> cold'.fields, coldEra |-> cold'.era]
<1>4. CASE proc' = [proc EXCEPT ![p] = x]
  <2>1. IsProcess(x)
    BY DEF IsProcess, Serving, Purging
  <2>2. proc'[p] = x
    BY <1>1, <1>4 DEF ProcShape
  <2>3. Moves(p)
    BY <2>2 DEF Moves, NotForItsText
  <2> HIDE DEF x
  <2> QED
    BY <1>1, <1>4, <2>1, <2>3, OneMoves
<1> QED
  BY <1>2, <1>3, <1>4 DEF Open

LEMMA CreateHotMoves ==
  ASSUME Shape, NEW p \in Processes, CreateHot(p)
  PROVE  ProcStep
<1> DEFINE x(era) == [pc |-> "verified", file |-> proc[p].file, schema |-> proc[p].schema,
                      coldEra |-> proc[p].coldEra, hotEra |-> era]
<1>1. ProcShape /\ proc[p].pc = "built"
  BY DEF Shape, CreateHot
<1>2. CASE Refused(p, Null)
  BY <1>1, <1>2, OneStops
<1>3. ASSUME NEW era, proc' = [proc EXCEPT ![p] = x(era)], era = hot'.era,
             (hot # Null /\ hot' = hot) \/ era = eras',
             VerifyDeclaration(hot'.ddl, Config(p))
      PROVE  ProcStep
  <2>1. IsProcess(x(era))
    BY DEF IsProcess, Serving, Purging
  <2>2. proc'[p] = x(era)
    BY <1>1, <1>3 DEF ProcShape
  <2>3. /\ proc'[p].pc = "verified" /\ proc'[p].hotEra = era
        /\ Declared[proc'[p].file] = Config(p)
    BY <2>2 DEF Config
  <2>4. Moves(p)
    BY <1>3, <2>3 DEF Moves
  <2> HIDE DEF x
  <2> QED
    BY <1>1, <1>3, <2>1, <2>4, OneMoves
<1>4. CASE /\ hot' = [era |-> eras', ddl |-> HotDdl(Config(p))]
           /\ proc' = [proc EXCEPT ![p] = x(eras')]
  <2>1. hot'.era = eras' /\ hot'.ddl = HotDdl(Config(p))
    BY <1>4
  <2>2. VerifyDeclaration(HotDdl(Config(p)), Config(p))
    BY DEF VerifyDeclaration, HotDdl
  <2> HIDE DEF x
  <2> QED
    BY <1>3, <1>4, <2>1, <2>2
<1>5. CASE /\ hot # Null /\ VerifyDeclaration(hot.ddl, Config(p)) /\ hot' = hot
           /\ proc' = [proc EXCEPT ![p] = x(hot.era)]
  <2> HIDE DEF x
  <2> QED
    BY <1>3, <1>5
<1> QED
  BY <1>2, <1>4, <1>5 DEF CreateHot

\* A process goes on in another place, and knows what it knew.
LEMMA OneGoesOn ==
  ASSUME ProcShape, NEW p \in Processes, proc[p].pc \in Serving, NEW pc \in Serving,
         proc' = [proc EXCEPT ![p].pc = pc]
  PROVE  ProcStep
<1> DEFINE x == [proc[p] EXCEPT !.pc = pc]
<1>1. proc' = [proc EXCEPT ![p] = x] /\ proc'[p] = x
  BY DEF ProcShape
<1>2. /\ IsProcess(proc[p])
      /\ {"pc", "file", "schema", "coldEra", "hotEra"} \subseteq DOMAIN proc[p]
  BY DEF ProcShape, IsProcess, Serving
<1>3. /\ x.pc = pc /\ x.file = proc[p].file /\ x.hotEra = proc[p].hotEra
      /\ {"pc", "file", "schema", "coldEra", "hotEra"} \subseteq DOMAIN x
  BY <1>2
<1> HIDE DEF x
<1>4. IsProcess(x)
  BY <1>3 DEF IsProcess, Serving, Purging
<1>5. Moves(p)
  BY <1>1, <1>3 DEF Moves
<1> QED
  BY <1>1, <1>4, <1>5, OneMoves

LEMMA CreateColdMoves ==
  ASSUME Shape, NEW p \in Processes, CreateCold(p)
  PROVE  ProcStep
<1>1. ProcShape /\ proc[p].pc = "verified"
  BY DEF Shape, CreateCold
<1>2. CASE Refused(p, Null)
  BY <1>1, <1>2, OneStops
<1>3. CASE proc' = [proc EXCEPT ![p].pc = "ready"]
  BY <1>1, <1>3, OneGoesOn DEF Serving
<1> QED
  BY <1>2, <1>3 DEF CreateCold

LEMMA CycleMoves ==
  ASSUME Shape, NEW p \in Processes, NEW now, NEW dropped, Cycle(p, now, dropped)
  PROVE  ProcStep
<1>1. ProcShape /\ proc[p].pc = "ready"
  BY DEF Shape, Cycle
<1>2. CASE proc' = proc
  BY <1>1, <1>2, NoneMoves
<1>3. CASE proc' = [proc EXCEPT ![p].pc = "archiving"]
  BY <1>1, <1>3, OneGoesOn DEF Serving
<1> QED
  BY <1>2, <1>3 DEF Cycle

LEMMA CommitMoves ==
  ASSUME Shape, NEW p \in Processes, Commit(p)
  PROVE  ProcStep
<1>1. /\ ProcShape /\ proc[p].pc = "archiving"
      /\ proc' = [proc EXCEPT ![p].pc = "ready"]
  BY DEF Shape, Commit
<1> QED
  BY <1>1, OneGoesOn DEF Serving

LEMMA DropEntryMoves ==
  ASSUME Shape, NEW p \in Processes, DropEntry(p)
  PROVE  ProcStep
<1> DEFINE x == [pc |-> "unlisted", doomed |-> Stored, files |-> Ids(ColdRows)]
<1>1. /\ ProcShape /\ proc' = [proc EXCEPT ![p] = x]
      /\ cold' = Null /\ parts' = parts /\ told' = told
  BY DEF Shape, DropEntry, ghosts
<1>2. IsProcess(x) /\ x.pc = "unlisted" /\ x.doomed = Stored
  BY DEF IsProcess, Serving, Purging
<1> HIDE DEF x
<1>3. proc'[p] = x
  BY <1>1 DEF ProcShape
<1>4. Moves(p)
  BY <1>1, <1>2, <1>3 DEF Moves
<1> QED
  BY <1>1, <1>2, <1>4, OneMoves

\* The next step of a purge.
LEMMA OnePurges ==
  ASSUME ProcShape, NEW p \in Processes, proc[p].pc \in Purging, NEW pc \in Purging,
         proc' = [proc EXCEPT ![p].pc = pc], Moves(p)
  PROVE  ProcStep
<1> DEFINE x == [proc[p] EXCEPT !.pc = pc]
<1>1. proc' = [proc EXCEPT ![p] = x]
  BY DEF ProcShape
<1>2. {"pc", "doomed", "files"} \subseteq DOMAIN proc[p]
  BY DEF ProcShape, IsProcess
<1>3. x.pc = pc /\ {"pc", "doomed", "files"} \subseteq DOMAIN x
  BY <1>2
<1> HIDE DEF x
<1>4. IsProcess(x)
  BY <1>3 DEF IsProcess, Serving, Purging
<1> QED
  BY <1>1, <1>4, OneMoves

\* What such a step leaves of the process.
LEMMA SamePurge ==
  ASSUME ProcShape, NEW p \in Processes, proc[p].pc \in Purging, NEW pc,
         proc' = [proc EXCEPT ![p].pc = pc]
  PROVE  proc'[p].pc = pc /\ proc'[p].doomed = proc[p].doomed
<1>1. {"pc", "doomed", "files"} \subseteq DOMAIN proc[p]
  BY DEF ProcShape, IsProcess
<1> QED
  BY <1>1 DEF ProcShape

LEMMA DeleteFilesMoves ==
  ASSUME Shape, NEW p \in Processes, DeleteFiles(p)
  PROVE  ProcStep
<1>1. ProcShape /\ proc[p].pc = "unlisted" /\ proc' = [proc EXCEPT ![p].pc = "deleted"]
  BY DEF Shape, DeleteFiles
<1>2. proc'[p].pc = "deleted" /\ proc'[p].doomed = proc[p].doomed
  BY <1>1, SamePurge DEF Purging
<1>3. Moves(p)
  BY <1>1, <1>2 DEF Moves
<1> QED
  BY <1>1, <1>3, OnePurges DEF Purging

LEMMA DropParentMoves ==
  ASSUME Shape, NEW p \in Processes, DropParent(p)
  PROVE  ProcStep
<1>1. /\ ProcShape /\ proc[p].pc = "deleted" /\ proc' = [proc EXCEPT ![p].pc = "parentless"]
      /\ parts' = [w \in Windows |-> IF w \in Detached THEN parts[w] ELSE Null]
  BY DEF Shape, DropParent
<1>2. proc'[p].pc = "parentless" /\ proc'[p].doomed = proc[p].doomed
  BY <1>1, SamePurge DEF Purging
<1>3. \A w \in Windows : parts'[w] # Null => ~parts'[w].attached
  BY <1>1 DEF Detached
<1>4. Moves(p)
  BY <1>1, <1>2, <1>3 DEF Moves
<1> QED
  BY <1>1, <1>4, OnePurges DEF Purging

LEMMA DropOrphansMoves ==
  ASSUME Shape, NEW p \in Processes, DropOrphans(p)
  PROVE  ProcStep
  BY OneStops DEF Shape, DropOrphans, Refused

LEMMA CrashMoves ==
  ASSUME Shape, NEW p \in Processes, Crash(p)
  PROVE  ProcStep
  BY OneStops DEF Shape, Crash, Refused

LEMMA NextIsProcStep ==
  ASSUME Shape, [Next]_vars
  PROVE  ProcStep
<1>1. CASE proc' = proc
  BY <1>1, NoneMoves DEF Shape
<1>2. ASSUME NEW p \in Processes, NEW f \in DOMAIN Files, Connect(p, f)  PROVE ProcStep
  BY <1>2, ConnectMoves
<1>3. ASSUME NEW p \in Processes, NEW f \in Opening, Open(p, f)  PROVE ProcStep
  BY <1>3, OpenMoves
<1>4. ASSUME NEW p \in Processes, CreateHot(p) \/ CreateCold(p)  PROVE ProcStep
  BY <1>4, CreateHotMoves, CreateColdMoves
<1>5. ASSUME NEW p \in Processes, NEW w \in Windows, NEW s \in Supplies(p), Write(p, w, s)
      PROVE  proc' = proc
  BY <1>5 DEF Write
<1>6. ASSUME NEW p \in Processes, NEW now \in 0..(LastWindow + 1), NEW dropped \in SUBSET Detached,
             Cycle(p, now, dropped)
      PROVE  ProcStep
  BY <1>6, CycleMoves
<1>7. ASSUME NEW p \in Processes, Commit(p) \/ Crash(p)  PROVE ProcStep
  BY <1>7, CommitMoves, CrashMoves
<1>8. ASSUME NEW p \in Processes, DropEntry(p) \/ DeleteFiles(p) \/ DropParent(p) \/ DropOrphans(p)
      PROVE  ProcStep
  BY <1>8, DropEntryMoves, DeleteFilesMoves, DropParentMoves, DropOrphansMoves
<1>9. ASSUME NEW n \in NewColumns, AlterCold(n) \/ AlterHot(n)  PROVE proc' = proc
  BY <1>9 DEF AlterCold, AlterHot
<1>10. ASSUME WidenCold  PROVE proc' = proc
  BY <1>10 DEF WidenCold
<1>11. ASSUME UNCHANGED vars  PROVE proc' = proc
  BY <1>11 DEF vars
<1> QED
  BY <1>1, <1>2, <1>3, <1>4, <1>5, <1>6, <1>7, <1>8, <1>9, <1>10, <1>11 DEF Next

-----------------------------------------------------------------------------
(* What the variables hold, always.                                          *)

LEMMA ShapeInit == Init => Shape
<1> SUFFICES ASSUME Init
             PROVE  Shape
  OBVIOUS
<1>1. HotShape /\ PartsShape /\ ColdShape
  BY DEF Init, HotShape, PartsShape, ColdShape
<1>2. ProcShape
  BY DEF Init, ProcShape, IsProcess, Down, Serving, Purging
<1>3. ToldShape
  BY DEF Init, ToldShape
<1> QED
  BY <1>1, <1>2, <1>3 DEF Init, Shape

LEMMA ShapeNext == Shape /\ [Next]_vars => Shape'
<1> SUFFICES ASSUME Shape, [Next]_vars
             PROVE  Shape'
  OBVIOUS
<1>1. DataStep /\ ProcStep
  BY NextIsDataStep, NextIsProcStep
<1>2. PartsShape'
  BY <1>1 DEF DataStep, HotStep, PartsShape
<1>3. HotShape' /\ ColdShape' /\ ToldShape' /\ eras' \in Nat /\ ProcShape'
  BY <1>1 DEF DataStep, TableStep, ColdStep, ToldStep, ProcStep
<1> QED
  BY <1>2, <1>3 DEF Shape

-----------------------------------------------------------------------------
(* What a process is refused for.                                            *)

LEMMA TextInit == Init => CheckedStarts
  BY DEF Init, CheckedStarts, Down

LEMMA TextNext == Shape /\ CheckedStarts /\ [Next]_vars => CheckedStarts'
<1> SUFFICES ASSUME Shape, CheckedStarts, [Next]_vars, NEW p \in Processes
             PROVE  NotForItsText(proc'[p])
  BY DEF CheckedStarts, NotForItsText
<1>1. Moves(p)
  BY NextIsProcStep DEF ProcStep
<1>2. NotForItsText(proc[p])
  BY DEF CheckedStarts, NotForItsText
<1>3. CASE proc'[p] = proc[p]
  BY <1>2, <1>3
<1>4. CASE NotForItsText(proc'[p])
  BY <1>4
<1>5. CASE proc'[p].pc \in Serving \cup Purging
  BY <1>5 DEF NotForItsText, Serving, Purging
<1> QED
  BY <1>1, <1>3, <1>4, <1>5 DEF Moves, Serving, Purging

\* A process is refused for what its file says only by `check`, for any files: what
\* settings.rs:583 and catalog.rs:903 leave to be found later is a bucket that is no ARN
\* and two tables of one relation, and nothing else.
THEOREM CheckedStartsAlways == Spec => []CheckedStarts
<1>1. Init => Shape /\ CheckedStarts
  BY ShapeInit, TextInit
<1>2. Shape /\ CheckedStarts /\ [Next]_vars => (Shape /\ CheckedStarts)'
  BY ShapeNext, TextNext
<1> QED
  BY <1>1, <1>2, PTL DEF Spec

-----------------------------------------------------------------------------
(* What a row means, always.                                                 *)

AllRows == RowsIn(parts) \cup ColdRows

\* A row was a row of the same identity, or is what a process writes.
LEMMA RowsComeFrom ==
  ASSUME DataStep, NEW r \in AllRows'
  PROVE  Written(r) \/ \E s \in AllRows : Kept(r, s)
<1>1. CASE r \in RowsIn(parts)'
  <2>1. PICK w \in Windows : parts'[w] # Null /\ r \in parts'[w].rows
    BY <1>1 DEF RowsIn
  <2>2. Written(r) \/ (parts[w] # Null /\ \E s \in parts[w].rows : Kept(r, s))
    BY <2>1 DEF DataStep, HotStep
  <2>3. parts[w] # Null => parts[w].rows \subseteq AllRows
    BY DEF AllRows, RowsIn
  <2> QED
    BY <2>2, <2>3
<1>2. CASE r \in ColdRows'
  BY <1>2 DEF DataStep, ColdStep, AllRows
<1> QED
  BY <1>1, <1>2 DEF AllRows

LEMMA MeaningInit == Init => MeaningInv
<1> SUFFICES ASSUME Init
             PROVE  MeaningInv
  OBVIOUS
<1>1. RowsIn(parts) \cup ColdRows = {}
  BY DEF Init, RowsIn, ColdRows
<1>2. hot = Null /\ \A p \in Processes : proc[p].pc \notin Serving
  BY DEF Init, Down, Serving
<1> QED
  BY <1>1, <1>2 DEF MeaningInv, OneMeaning

LEMMA MeaningNext == Shape /\ MeaningInv /\ [Next]_vars => MeaningInv'
<1> SUFFICES ASSUME Shape, MeaningInv, [Next]_vars
             PROVE  MeaningInv'
  OBVIOUS
<1>1. DataStep /\ ProcStep
  BY NextIsDataStep, NextIsProcStep
<1>2. eras \in Nat /\ eras' \in Nat /\ eras <= eras'
  BY <1>1 DEF DataStep, TableStep, Shape
<1>3. 0..eras \subseteq 0..eras' /\ eras' \in 0..eras'
  BY <1>2
<1>4. hot' # Null =>
        \/ hot # Null /\ hot'.era = hot.era /\ hot'.ddl.key = hot.ddl.key /\ hot'.ddl.hasEnd = hot.ddl.hasEnd
        \/ hot'.era = eras + 1 /\ eras' = eras + 1
  BY <1>1 DEF DataStep, TableStep
\* The hot table's era.
<1>5. hot' # Null => hot'.era \in 0..eras'
  <2>1. hot # Null => hot.era \in 0..eras
    BY DEF MeaningInv
  <2> QED
    BY <1>3, <1>4, <2>1
\* A table made anew is of no era yet seen.
<1>6. ASSUME NEW era \in 0..eras, hot' # Null, hot'.era = era
      PROVE  /\ hot # Null /\ hot.era = era
             /\ hot'.ddl.key = hot.ddl.key /\ hot'.ddl.hasEnd = hot.ddl.hasEnd
  BY <1>2, <1>4, <1>6
\* The processes.
<1>7. ASSUME NEW p \in Processes, proc'[p].pc \in Serving
      PROVE  /\ proc'[p].hotEra \in 0..eras'
             /\ hot' # Null /\ hot'.era = proc'[p].hotEra =>
                  VerifyDeclaration(hot'.ddl, Declared[proc'[p].file])
  <2>1. Moves(p)
    BY <1>1 DEF ProcStep
  <2>2. CASE /\ proc[p].pc \in Serving
             /\ proc'[p].hotEra = proc[p].hotEra /\ proc'[p].file = proc[p].file
    <3>1. /\ proc[p].hotEra \in 0..eras
          /\ hot # Null /\ hot.era = proc[p].hotEra => VerifyDeclaration(hot.ddl, Declared[proc[p].file])
      BY <2>2 DEF MeaningInv, Config
    <3>2. ASSUME hot' # Null, hot'.era = proc[p].hotEra
          PROVE  VerifyDeclaration(hot'.ddl, Declared[proc[p].file])
      <4>1. /\ hot # Null /\ hot.era = proc[p].hotEra
            /\ hot'.ddl.key = hot.ddl.key /\ hot'.ddl.hasEnd = hot.ddl.hasEnd
        BY <1>6, <3>1, <3>2
      <4>2. VerifyDeclaration(hot.ddl, Declared[proc[p].file])
        BY <3>1, <4>1
      <4> QED
        BY <4>1, <4>2 DEF VerifyDeclaration
    <3> QED
      BY <1>3, <2>2, <3>1, <3>2
  <2>3. CASE /\ proc'[p].hotEra = hot'.era
             /\ (hot # Null /\ hot' = hot) \/ hot'.era = eras'
             /\ VerifyDeclaration(hot'.ddl, Declared[proc'[p].file])
    <3>1. hot # Null => hot.era \in 0..eras
      BY DEF MeaningInv
    <3> QED
      BY <1>3, <2>3, <3>1
  <2> QED
    BY <1>7, <2>1, <2>2, <2>3 DEF Moves, Serving
\* The rows.
<1>8. ASSUME NEW r \in AllRows'
      PROVE  /\ r.verified \in 0..eras'
             /\ hot' # Null /\ r.verified = hot'.era =>
                  r.key \o <<"version">> = hot'.ddl.key /\ r.hasEnd = hot'.ddl.hasEnd
  <2>1. CASE Written(r)
    <3>1. PICK p \in Processes : /\ proc[p].pc = "ready" /\ r.verified = proc[p].hotEra
                                 /\ r.key = MergeKey(Config(p)) /\ r.hasEnd = HasIntervalEnd(Config(p))
      BY <2>1 DEF Written
    <3>2. hot' = hot
      BY <2>1 DEF Written
    <3>3. /\ proc[p].hotEra \in 0..eras
          /\ hot # Null /\ hot.era = proc[p].hotEra => VerifyDeclaration(hot.ddl, Config(p))
      BY <3>1 DEF MeaningInv, Serving
    <3> QED
      BY <1>3, <3>1, <3>2, <3>3 DEF VerifyDeclaration
  <2>2. ASSUME NEW s \in AllRows, Kept(r, s)
        PROVE  /\ r.verified \in 0..eras'
               /\ hot' # Null /\ r.verified = hot'.era =>
                    r.key \o <<"version">> = hot'.ddl.key /\ r.hasEnd = hot'.ddl.hasEnd
    <3>1. /\ s.verified \in 0..eras
          /\ hot # Null /\ s.verified = hot.era =>
               s.key \o <<"version">> = hot.ddl.key /\ s.hasEnd = hot.ddl.hasEnd
      BY DEF MeaningInv, OneMeaning, AllRows
    <3>2. r.verified = s.verified /\ r.key = s.key /\ r.hasEnd = s.hasEnd
      BY <2>2 DEF Kept
    <3>3. ASSUME hot' # Null, s.verified = hot'.era
          PROVE  s.key \o <<"version">> = hot'.ddl.key /\ s.hasEnd = hot'.ddl.hasEnd
      <4>1. /\ hot # Null /\ hot.era = s.verified
            /\ hot'.ddl.key = hot.ddl.key /\ hot'.ddl.hasEnd = hot.ddl.hasEnd
        BY <1>6, <3>1, <3>3
      <4> QED
        BY <3>1, <4>1
    <3> QED
      BY <1>3, <3>1, <3>2, <3>3
  <2> QED
    BY <1>1, <2>1, <2>2, RowsComeFrom
<1>9. OneMeaning'
  BY <1>8 DEF OneMeaning, AllRows
<1> QED
  BY <1>5, <1>7, <1>8, <1>9 DEF MeaningInv, AllRows, Config

\* A row of either tier, written by a process that verified the hot table there is, is
\* identified as that table identifies readings and ends as it has them end, through any
\* purges and re-creations under other declarations (hot/postgres.rs:400).
THEOREM OneMeaningAlways == Spec => []OneMeaning
<1>1. Init => Shape /\ MeaningInv
  BY ShapeInit, MeaningInit
<1>2. Shape /\ MeaningInv /\ [Next]_vars => (Shape /\ MeaningInv)'
  BY ShapeNext, MeaningNext
<1>3. MeaningInv => OneMeaning
  BY DEF MeaningInv
<1> QED
  BY <1>1, <1>2, <1>3, PTL DEF Spec

-----------------------------------------------------------------------------
(* What is gone, always.                                                     *)

\* Files are deleted by the purge that listed them; what it does not get to is orphaned.
LEMMA StillDeleting ==
  ASSUME NEW p \in Processes, \A q \in Processes : q # p => proc'[q] = proc[q]
  PROVE  BeingDeleted \subseteq BeingDeleted' \cup (IF proc[p].pc = "unlisted" THEN proc[p].files ELSE {})
<1> SUFFICES ASSUME NEW q \in Processes, proc[q].pc = "unlisted", NEW id \in proc[q].files
             PROVE  id \in BeingDeleted' \cup (IF proc[p].pc = "unlisted" THEN proc[p].files ELSE {})
  BY DEF BeingDeleted
<1>1. CASE q = p
  BY <1>1
<1>2. CASE q # p
  <2>1. proc'[q].pc = "unlisted" /\ id \in proc'[q].files
    BY <1>2
  <2> QED
    BY <2>1 DEF BeingDeleted
<1> QED
  BY <1>1, <1>2

\* What a step does to the files no entry names and to what is reported destroyed.
FilesStep ==
  /\ files' \subseteq files \cup Ids(ColdRows)
  /\ files \subseteq abandoned \cup BeingDeleted => files' \subseteq abandoned' \cup BeingDeleted'

PurgedStep ==
  \/ purged' = purged
  \/ /\ cold' = cold /\ told' = told
     /\ \A w \in Windows : parts'[w] # Null =>
          parts'[w] = parts[w] /\ w \notin Detached
     /\ \E p \in Processes : proc[p].pc = "parentless" /\ purged' = purged \cup proc[p].doomed

GhostStep == FilesStep /\ PurgedStep

LEMMA QuietGhosts ==
  ASSUME NEW p \in Processes, \A q \in Processes : q # p => proc'[q] = proc[q],
         proc[p].pc # "unlisted", abandoned \subseteq abandoned', files' = files, purged' = purged
  PROVE  GhostStep
<1>1. BeingDeleted \subseteq BeingDeleted'
  BY StillDeleting
<1> QED
  BY <1>1 DEF GhostStep, FilesStep, PurgedStep

LEMMA QuieterGhosts ==
  ASSUME proc' = proc, abandoned \subseteq abandoned', files' = files, purged' = purged
  PROVE  GhostStep
<1>1. BeingDeleted \subseteq BeingDeleted'
  BY DEF BeingDeleted
<1> QED
  BY <1>1 DEF GhostStep, FilesStep, PurgedStep

\* A step of one process leaves the others where they were.
LEMMA OthersStay ==
  ASSUME Shape, NEW p \in Processes, NEW x,
         proc' = [proc EXCEPT ![p] = x] \/ proc' = [proc EXCEPT ![p].pc = x] \/ proc' = proc
  PROVE  \A q \in Processes : q # p => proc'[q] = proc[q]
  BY DEF Shape, ProcShape

LEMMA StartingGhosts ==
  ASSUME Shape, NEW p \in Processes, NEW f,
         Connect(p, f) \/ Open(p, f) \/ CreateHot(p) \/ CreateCold(p)
  PROVE  GhostStep
<1>1. files' = files /\ purged' = purged /\ proc[p].pc # "unlisted"
  BY DEF Connect, Open, CreateHot, CreateCold, store, ghosts
<1>2. abandoned \subseteq abandoned'
  BY ConnectStep, OpenStep, CreateHotStep, CreateColdStep DEF DataStep, ToldStep
<1>3. \A q \in Processes : q # p => proc'[q] = proc[q]
  BY OthersStay DEF Connect, Open, CreateHot, CreateCold, Refused
<1> QED
  BY <1>1, <1>2, <1>3, QuietGhosts

LEMMA DropEntryGhosts ==
  ASSUME Shape, NEW p \in Processes, DropEntry(p)
  PROVE  GhostStep
<1> DEFINE x == [pc |-> "unlisted", doomed |-> Stored, files |-> Ids(ColdRows)]
<1>1. /\ proc' = [proc EXCEPT ![p] = x] /\ proc[p].pc = "ready" /\ files' = files \cup Ids(ColdRows)
      /\ purged' = purged /\ abandoned' = abandoned
  BY DEF DropEntry, ghosts
<1>2. x.pc = "unlisted" /\ x.files = Ids(ColdRows)
  OBVIOUS
<1> HIDE DEF x
<1>3. proc'[p] = x /\ \A q \in Processes : q # p => proc'[q] = proc[q]
  BY <1>1 DEF Shape, ProcShape
<1>4. BeingDeleted \subseteq BeingDeleted'
  BY <1>1, <1>3, StillDeleting
<1>5. Ids(ColdRows) \subseteq BeingDeleted'
  BY <1>2, <1>3 DEF BeingDeleted
<1> QED
  BY <1>1, <1>4, <1>5 DEF GhostStep, FilesStep, PurgedStep

LEMMA DeleteFilesGhosts ==
  ASSUME Shape, NEW p \in Processes, DeleteFiles(p)
  PROVE  GhostStep
<1>1. /\ proc' = [proc EXCEPT ![p].pc = "deleted"] /\ proc[p].pc = "unlisted"
      /\ files' = files \ proc[p].files /\ purged' = purged /\ abandoned' = abandoned
  BY DEF DeleteFiles, ghosts
<1>2. \A q \in Processes : q # p => proc'[q] = proc[q]
  BY <1>1, OthersStay
<1>3. BeingDeleted \subseteq BeingDeleted' \cup proc[p].files
  BY <1>1, <1>2, StillDeleting
<1> QED
  BY <1>1, <1>3 DEF GhostStep, FilesStep, PurgedStep

LEMMA CrashGhosts ==
  ASSUME Shape, NEW p \in Processes, Crash(p)
  PROVE  GhostStep
<1> DEFINE orphaned == IF proc[p].pc = "unlisted" THEN proc[p].files ELSE {}
<1>1. /\ proc' = [proc EXCEPT ![p] = Down(Null)] /\ files' = files /\ purged' = purged
      /\ abandoned' = abandoned \cup orphaned
  BY DEF Crash, store
<1>2. \A q \in Processes : q # p => proc'[q] = proc[q]
  BY <1>1, OthersStay
<1>3. BeingDeleted \subseteq BeingDeleted' \cup orphaned
  BY <1>2, StillDeleting
<1> HIDE DEF orphaned
<1> QED
  BY <1>1, <1>3 DEF GhostStep, FilesStep, PurgedStep

LEMMA DropOrphansGhosts ==
  ASSUME Shape, NEW p \in Processes, DropOrphans(p)
  PROVE  GhostStep
<1>1. /\ proc' = [proc EXCEPT ![p] = Down(Null)] /\ proc[p].pc = "parentless"
      /\ files' = files /\ purged' = purged \cup proc[p].doomed /\ abandoned' = abandoned
      /\ cold' = cold /\ told' = told
      /\ parts' = [w \in Windows |-> IF w \in Detached THEN Null ELSE parts[w]]
  BY DEF DropOrphans
<1>2. \A q \in Processes : q # p => proc'[q] = proc[q]
  BY <1>1, OthersStay
<1>3. BeingDeleted \subseteq BeingDeleted'
  BY <1>1, <1>2, StillDeleting
<1>4. FilesStep
  BY <1>1, <1>3 DEF FilesStep
<1>5. \A w \in Windows : parts'[w] # Null => parts'[w] = parts[w] /\ w \notin Detached
  BY <1>1
<1> QED
  BY <1>1, <1>4, <1>5 DEF GhostStep, PurgedStep

LEMMA NextIsGhostStep ==
  ASSUME Shape, [Next]_vars
  PROVE  GhostStep
<1>0. abandoned \subseteq abandoned'
  BY NextIsDataStep DEF DataStep, ToldStep
<1>1. ASSUME UNCHANGED vars  PROVE GhostStep
  <2>1. proc' = proc /\ files' = files /\ purged' = purged
    BY <1>1 DEF vars, store, ghosts
  <2> QED
    BY <1>0, <2>1, QuieterGhosts
<1>2. ASSUME NEW p \in Processes, NEW f \in DOMAIN Files, Connect(p, f)  PROVE GhostStep
  BY <1>2, StartingGhosts
<1>3. ASSUME NEW p \in Processes, NEW f \in Opening, Open(p, f)  PROVE GhostStep
  BY <1>3, StartingGhosts
<1>4. ASSUME NEW p \in Processes, CreateHot(p) \/ CreateCold(p)  PROVE GhostStep
  BY <1>4, StartingGhosts
<1>5. ASSUME NEW p \in Processes, NEW w \in Windows, NEW s \in Supplies(p), Write(p, w, s)
      PROVE  GhostStep
  <2>1. proc' = proc /\ files' = files /\ purged' = purged
    BY <1>5 DEF Write
  <2> QED
    BY <1>0, <2>1, QuieterGhosts
<1>6. ASSUME NEW p \in Processes, NEW now \in 0..(LastWindow + 1), NEW dropped \in SUBSET Detached,
             Cycle(p, now, dropped)
      PROVE  GhostStep
  <2>1. files' = files /\ purged' = purged /\ proc[p].pc # "unlisted"
    BY <1>6 DEF Cycle, ghosts
  <2>2. \A q \in Processes : q # p => proc'[q] = proc[q]
    BY <1>6, OthersStay DEF Cycle
  <2> QED
    BY <1>0, <2>1, <2>2, QuietGhosts
<1>7. ASSUME NEW p \in Processes, Commit(p)  PROVE GhostStep
  <2>1. files' = files /\ purged' = purged /\ proc[p].pc # "unlisted"
    BY <1>7 DEF Commit, ghosts
  <2>2. \A q \in Processes : q # p => proc'[q] = proc[q]
    BY <1>7, OthersStay DEF Commit
  <2> QED
    BY <1>0, <2>1, <2>2, QuietGhosts
<1>8. ASSUME NEW p \in Processes, DropParent(p)  PROVE GhostStep
  <2>1. files' = files /\ purged' = purged /\ proc[p].pc # "unlisted"
    BY <1>8 DEF DropParent, ghosts
  <2>2. \A q \in Processes : q # p => proc'[q] = proc[q]
    BY <1>8, OthersStay DEF DropParent
  <2> QED
    BY <1>0, <2>1, <2>2, QuietGhosts
<1>9. ASSUME NEW p \in Processes, DropEntry(p) \/ DeleteFiles(p) \/ DropOrphans(p) \/ Crash(p)
      PROVE  GhostStep
  BY <1>9, DropEntryGhosts, DeleteFilesGhosts, DropOrphansGhosts, CrashGhosts
<1>10. ASSUME NEW n \in NewColumns, AlterCold(n) \/ AlterHot(n)  PROVE GhostStep
  <2>1. proc' = proc /\ files' = files /\ purged' = purged
    BY <1>10 DEF AlterCold, AlterHot, ghosts
  <2> QED
    BY <1>0, <2>1, QuieterGhosts
<1>11. ASSUME WidenCold  PROVE GhostStep
  <2>1. proc' = proc /\ files' = files /\ purged' = purged
    BY <1>11 DEF WidenCold, ghosts
  <2> QED
    BY <1>0, <2>1, QuieterGhosts
<1> QED
  BY <1>1, <1>2, <1>3, <1>4, <1>5, <1>6, <1>7, <1>8, <1>9, <1>10, <1>11 DEF Next

\* The row `id` is written in this step.
New(id) == id = Len(told) + 1 /\ Len(told') = Len(told) + 1

LEMMA HotIds ==
  ASSUME DataStep, NEW w \in Windows, parts'[w] # Null, NEW id \in Ids(parts'[w].rows)
  PROVE  \/ New(id)
         \/ /\ parts[w] # Null /\ id \in Ids(parts[w].rows)
            /\ parts'[w].attached => parts[w].attached
<1>1. PICK r \in parts'[w].rows : r.id = id
  BY DEF Ids
<1>2. \/ Written(r)
      \/ /\ parts[w] # Null /\ (parts'[w].attached => parts[w].attached)
         /\ \E s \in parts[w].rows : Kept(r, s)
  BY DEF DataStep, HotStep
<1>3. CASE Written(r)
  BY <1>1, <1>3 DEF Written, New
<1>4. ASSUME NEW s \in parts[w].rows, Kept(r, s)
      PROVE  id \in Ids(parts[w].rows)
  BY <1>1, <1>4 DEF Kept, Ids
<1> QED
  BY <1>2, <1>3, <1>4

LEMMA RowIds ==
  ASSUME NEW relations, NEW w \in Windows, relations[w] # Null
  PROVE  Ids(relations[w].rows) \subseteq Ids(RowsIn(relations))
<1>1. relations[w].rows \subseteq RowsIn(relations)
  BY DEF RowsIn
<1> QED
  BY <1>1 DEF Ids

LEMMA PartitionOf ==
  ASSUME NEW relations, NEW id \in Ids(RowsIn(relations))
  PROVE  \E w \in Windows : relations[w] # Null /\ id \in Ids(relations[w].rows)
  BY DEF Ids, RowsIn

LEMMA AllHotIds ==
  ASSUME DataStep, NEW id \in Ids(RowsIn(parts'))
  PROVE  New(id) \/ id \in Ids(RowsIn(parts))
<1>1. PICK w \in Windows : parts'[w] # Null /\ id \in Ids(parts'[w].rows)
  BY PartitionOf
<1>2. New(id) \/ (parts[w] # Null /\ id \in Ids(parts[w].rows))
  BY <1>1, HotIds
<1> QED
  BY <1>2, RowIds

LEMMA ColdIds ==
  ASSUME DataStep, NEW id \in Ids(ColdRows')
  PROVE  New(id) \/ id \in Ids(ColdRows) \/ (cold # Null /\ id \in Ids(RowsIn(parts)))
<1>1. PICK r \in ColdRows' : r.id = id
  BY DEF Ids
<1>2. \/ Written(r)
      \/ \E s \in ColdRows \cup (IF cold = Null THEN {} ELSE RowsIn(parts)) : Kept(r, s)
  BY DEF DataStep, ColdStep
<1>3. CASE Written(r)
  BY <1>1, <1>3 DEF Written, New
<1>4. ASSUME NEW s \in ColdRows, Kept(r, s)
      PROVE  id \in Ids(ColdRows)
  BY <1>1, <1>4 DEF Kept, Ids
<1>5. ASSUME NEW s \in RowsIn(parts), Kept(r, s)
      PROVE  id \in Ids(RowsIn(parts))
  BY <1>1, <1>5 DEF Kept, Ids
<1> QED
  BY <1>2, <1>3, <1>4, <1>5

\* What was numbered before the step is not what is written in it.
LEMMA NumberedIsOld ==
  ASSUME Shape, DataStep
  PROVE  /\ \A id \in Numbered : ~New(id)
         /\ Numbered \subseteq Numbered' /\ \A id : New(id) => id \in Numbered'
<1>1. Len(told) \in Nat /\ Len(told') \in Nat /\ Len(told) <= Len(told')
  BY DEF Shape, ToldShape, DataStep, ToldStep
<1>2. \A id \in Numbered : ~New(id)
  BY <1>1 DEF Numbered, New
<1>3. Numbered \subseteq Numbered'
  BY <1>1 DEF Numbered
<1>4. ASSUME NEW id, New(id)  PROVE id \in Numbered'
  BY <1>1, <1>4 DEF New, Numbered
<1> QED
  BY <1>2, <1>3, <1>4

\* The rows of a purge stay out of the cold table and out of the partitions attached.
NotColdAfter(ids) == /\ ids \cap Ids(ColdRows') \subseteq abandoned'
                     /\ cold' # Null => ids \cap Ids(RowsIn(parts')) \subseteq abandoned'

NotAttachedAfter(ids) == \A w \in Windows : parts'[w] # Null /\ parts'[w].attached =>
  ids \cap Ids(parts'[w].rows) \subseteq abandoned'

LEMMA StaysOut ==
  ASSUME Shape, DataStep, NEW ids, ids \subseteq Numbered, NotCold(ids)
  PROVE  NotColdAfter(ids) /\ (NotAttached(ids) => NotAttachedAfter(ids))
<1>1. \A id \in ids : ~New(id)
  BY NumberedIsOld
<1>2. abandoned \subseteq abandoned'
  BY DEF DataStep, ToldStep
<1>3. ASSUME NEW id \in ids, id \in Ids(ColdRows')
      PROVE  id \in abandoned'
  <2>1. id \in Ids(ColdRows) \/ (cold # Null /\ id \in Ids(RowsIn(parts)))
    BY <1>1, <1>3, ColdIds
  <2> QED
    BY <1>2, <2>1 DEF NotCold
<1>4. ASSUME NEW id \in ids, cold' # Null, id \in Ids(RowsIn(parts'))
      PROVE  id \in abandoned'
  <2>1. id \in Ids(RowsIn(parts))
    BY <1>1, <1>4, AllHotIds
  <2>2. CASE cold # Null
    BY <1>2, <2>1, <2>2 DEF NotCold
  <2>3. CASE cold = Null
    BY <1>4, <2>1, <2>3 DEF DataStep, ColdStep
  <2> QED
    BY <2>2, <2>3
<1>5. ASSUME NotAttached(ids), NEW w \in Windows, parts'[w] # Null, parts'[w].attached,
             NEW id \in ids, id \in Ids(parts'[w].rows)
      PROVE  id \in abandoned'
  <2>1. parts[w] # Null /\ parts[w].attached /\ id \in Ids(parts[w].rows)
    BY <1>1, <1>5, HotIds
  <2> QED
    BY <1>2, <1>5, <2>1 DEF NotAttached
<1> QED
  BY <1>3, <1>4, <1>5 DEF NotColdAfter, NotAttachedAfter

LEMMA GoneInit == Init => GoneInv
<1> SUFFICES ASSUME Init
             PROVE  GoneInv
  OBVIOUS
<1>1. RowsIn(parts) = {} /\ ColdRows = {} /\ files = {} /\ purged = {}
  BY DEF Init, RowsIn, ColdRows
<1>2. \A p \in Processes : proc[p].pc \notin Purging
  BY DEF Init, Down, Purging
<1>3. Ids(RowsIn(parts)) = {} /\ Ids(ColdRows) = {}
  BY <1>1 DEF Ids
<1> QED
  BY <1>1, <1>2, <1>3 DEF GoneInv, Stored

LEMMA GoneNext == Shape /\ GoneInv /\ [Next]_vars => GoneInv'
<1> SUFFICES ASSUME Shape, GoneInv, [Next]_vars
             PROVE  GoneInv'
  OBVIOUS
<1>1. DataStep /\ ProcStep /\ GhostStep
  BY NextIsDataStep, NextIsProcStep, NextIsGhostStep
<1>2. /\ Ids(RowsIn(parts)) \subseteq Numbered /\ Ids(ColdRows) \subseteq Numbered
      /\ files \subseteq Numbered /\ purged \subseteq Numbered
      /\ purged \cap (Ids(RowsIn(parts)) \cup Ids(ColdRows)) \subseteq abandoned
  BY DEF GoneInv, Stored
<1>3. /\ \A id \in Numbered : ~New(id)
      /\ Numbered \subseteq Numbered' /\ \A id : New(id) => id \in Numbered'
  BY <1>1, NumberedIsOld
<1>4. abandoned \subseteq abandoned'
  BY <1>1 DEF DataStep, ToldStep
<1>5. \A p \in Processes : proc[p].pc \in Purging =>
        /\ proc[p].doomed \subseteq Numbered /\ NotCold(proc[p].doomed)
        /\ proc[p].pc = "parentless" => NotAttached(proc[p].doomed)
  BY DEF GoneInv
\* What is stored, and the files.
<1>6. Ids(RowsIn(parts')) \subseteq Numbered'
  BY <1>1, <1>2, <1>3, AllHotIds
<1>7. Ids(ColdRows') \subseteq Numbered'
  BY <1>1, <1>2, <1>3, ColdIds
<1>8. files' \subseteq Numbered' /\ files' \subseteq abandoned' \cup BeingDeleted'
  <2>1. files' \subseteq files \cup Ids(ColdRows)
    BY <1>1 DEF GhostStep, FilesStep
  <2>2. files' \subseteq abandoned' \cup BeingDeleted'
    BY <1>1 DEF GhostStep, FilesStep, GoneInv
  <2> QED
    BY <1>2, <1>3, <2>1, <2>2
\* What is reported destroyed.
<1>9. /\ purged' \subseteq Numbered'
      /\ purged' \cap (Ids(RowsIn(parts')) \cup Ids(ColdRows')) \subseteq abandoned'
  <2>1. ASSUME NEW id \in purged, id \in Ids(RowsIn(parts')) \cup Ids(ColdRows')
        PROVE  id \in abandoned'
    <3>1. ~New(id)
      BY <1>2, <1>3
    <3>2. id \in Ids(RowsIn(parts)) \cup Ids(ColdRows)
      BY <1>1, <2>1, <3>1, AllHotIds, ColdIds
    <3> QED
      BY <1>2, <1>4, <3>2
  <2>2. CASE purged' = purged
    BY <1>2, <1>3, <2>1, <2>2
  <2>3. ASSUME NEW p \in Processes, proc[p].pc = "parentless", purged' = purged \cup proc[p].doomed,
               cold' = cold,
               \A w \in Windows : parts'[w] # Null => parts'[w] = parts[w] /\ w \notin Detached
        PROVE  /\ purged' \subseteq Numbered'
               /\ purged' \cap (Ids(RowsIn(parts')) \cup Ids(ColdRows')) \subseteq abandoned'
    <3>1. /\ proc[p].doomed \subseteq Numbered /\ NotCold(proc[p].doomed)
          /\ NotAttached(proc[p].doomed)
      BY <1>5, <2>3 DEF Purging
    <3>2. ASSUME NEW id \in proc[p].doomed, id \in Ids(ColdRows')
          PROVE  id \in abandoned'
      <4>1. id \in Ids(ColdRows)
        BY <2>3, <3>2 DEF ColdRows
      <4> QED
        BY <1>4, <3>1, <4>1 DEF NotCold
    <3>3. ASSUME NEW id \in proc[p].doomed, id \in Ids(RowsIn(parts'))
          PROVE  id \in abandoned'
      <4>1. PICK w \in Windows : parts'[w] # Null /\ id \in Ids(parts'[w].rows)
        BY <3>3, PartitionOf
      <4>2. parts[w] # Null /\ parts[w].attached /\ id \in Ids(parts[w].rows)
        BY <2>3, <4>1 DEF Detached
      <4> QED
        BY <1>4, <3>1, <4>2 DEF NotAttached
    <3> QED
      BY <1>2, <1>3, <2>1, <2>3, <3>1, <3>2, <3>3
  <2> QED
    BY <1>1, <2>2, <2>3 DEF GhostStep, PurgedStep
\* The purges under way.
<1>10. ASSUME NEW p \in Processes, proc'[p].pc \in Purging
       PROVE  /\ proc'[p].doomed \subseteq Numbered'
              /\ NotColdAfter(proc'[p].doomed)
              /\ proc'[p].pc = "parentless" => NotAttachedAfter(proc'[p].doomed)
  <2>1. Moves(p)
    BY <1>1 DEF ProcStep
  <2>2. ASSUME proc[p].pc \in Purging, proc'[p].doomed = proc[p].doomed
        PROVE  /\ proc'[p].doomed \subseteq Numbered' /\ NotColdAfter(proc'[p].doomed)
               /\ NotAttached(proc[p].doomed) => NotAttachedAfter(proc'[p].doomed)
    <3>1. proc[p].doomed \subseteq Numbered /\ NotCold(proc[p].doomed)
      BY <1>5, <2>2
    <3>2. NotColdAfter(proc[p].doomed) /\ (NotAttached(proc[p].doomed) => NotAttachedAfter(proc[p].doomed))
      BY <1>1, <3>1, StaysOut
    <3> QED
      BY <1>3, <2>2, <3>1, <3>2
  <2>3. CASE proc'[p] = proc[p]
    BY <1>5, <1>10, <2>2, <2>3
  <2>4. CASE /\ proc'[p].pc = "unlisted" /\ proc'[p].doomed = Stored
             /\ cold' = Null /\ parts' = parts /\ told' = told
    <3>1. Ids(ColdRows') = {}
      BY <2>4 DEF ColdRows, Ids
    <3>2. Stored \subseteq Numbered
      BY DEF GoneInv
    <3> QED
      BY <1>3, <2>4, <3>1, <3>2 DEF NotColdAfter
  <2>5. CASE proc[p].pc = "unlisted" /\ proc'[p].pc = "deleted" /\ proc'[p].doomed = proc[p].doomed
    BY <2>2, <2>5 DEF Purging
  <2>6. CASE /\ proc[p].pc = "deleted" /\ proc'[p].pc = "parentless"
             /\ proc'[p].doomed = proc[p].doomed
             /\ \A w \in Windows : parts'[w] # Null => ~parts'[w].attached
    BY <2>2, <2>6 DEF Purging, NotAttachedAfter
  <2> QED
    BY <1>10, <2>1, <2>3, <2>4, <2>5, <2>6 DEF Moves, Purging, Serving
<1>11. Stored' \subseteq Numbered'
  BY <1>6, <1>7, <1>8 DEF Stored
<1>12. \A p \in Processes : proc'[p].pc \in Purging =>
         /\ proc'[p].doomed \subseteq Numbered'
         /\ NotCold(proc[p].doomed)'
         /\ proc'[p].pc = "parentless" => NotAttached(proc[p].doomed)'
  BY <1>10 DEF NotColdAfter, NotAttachedAfter, NotCold, NotAttached
<1> QED
  BY <1>8, <1>9, <1>11, <1>12 DEF GoneInv

\* What a purge reported destroyed is in neither tier and in no file, whichever processes
\* write, archive, start, crash or purge beside it, but for the rows excepted: those whose
\* files a crash orphaned, whose files another purge still deletes, or that a cold table
\* was created over (session/store.rs:3072, cold/iceberg.rs:1518).
THEOREM PurgedIsGoneAlways == Spec => []PurgedIsGone
<1>1. Init => Shape /\ GoneInv
  BY ShapeInit, GoneInit
<1>2. Shape /\ GoneInv /\ [Next]_vars => (Shape /\ GoneInv)'
  BY ShapeNext, GoneNext
<1>3. GoneInv => PurgedIsGone
  BY DEF GoneInv, PurgedIsGone, Stored
<1> QED
  BY <1>1, <1>2, <1>3, PTL DEF Spec
=============================================================================
