------------------------------ MODULE Schemas -------------------------------
(***************************************************************************)
(* The schemas of the two tiers and how rows move between them: the hot    *)
(* table's DDL and the checks an insert meets, the cold table's fields and *)
(* partition spec, the comparison that quarantines a table, and the two    *)
(* ways a batch is brought to a schema: by name when it is archived, by    *)
(* position when it is read from the hot tier.                             *)
(*                                                                         *)
(* A row's core columns are always there and move as they are; values[n]   *)
(* is what it holds in a declared column n, Null for a null.               *)
(***************************************************************************)
EXTENDS Settings

LOCAL INSTANCE SequencesExt

\* A field of a schema: what a tier keeps of a column's declaration.
Plain(f) == [name |-> f.name, type |-> f.type, nullable |-> f.nullable]

StorageSchema(fields) == Core \o [i \in DOMAIN fields |-> Plain(fields[i])]

Has(schema, n) == n \in Names(schema)
FieldOf(schema, n) == schema[SelectInSeq(schema, LAMBDA f : f.name = n)]

-----------------------------------------------------------------------------
(* What changed between the schema configured and the one stored.            *)

\* A stored type reads as the configured one: integers, floats and decimals of one scale
\* widen.
IsPromotable(from, to) ==
  \/ from = to
  \/ /\ from.kind = to.kind /\ from.kind \in {"Int", "Float", "Decimal"}
     /\ from.scale = to.scale /\ from.width <= to.width

Compare(configured, stored) ==
  LET common == Names(configured) \cap Names(stored)
      was(n) == FieldOf(stored, n)
      is(n) == FieldOf(configured, n)
  IN  {[change |-> "added", name |-> n, safe |-> is(n).nullable] :
         n \in Names(configured) \ Names(stored)}
        \cup {[change |-> "dropped", name |-> n, safe |-> was(n).nullable] :
                n \in Names(stored) \ Names(configured)}
        \cup {[change |-> "retyped", name |-> n, safe |-> IsPromotable(was(n).type, is(n).type)] :
                n \in {m \in common : was(m).type # is(m).type}}
        \cup {[change |-> "nullability", name |-> n, safe |-> is(n).nullable] :
                n \in {m \in common : was(m).nullable # is(m).nullable}}

RequireSafe(changes) == \A c \in changes : c.safe

-----------------------------------------------------------------------------
(* The hot table.                                                            *)

\* What CREATE TABLE makes of a declaration: the primary key, whether `to` is required,
\* and the declared columns with their constraints.
HotDdl(c) ==
  [key |-> MergeKey(c) \o <<"version">>, hasEnd |-> HasIntervalEnd(c),
   meloRequired |-> MeloInMergeKey(c),
   columns |-> [n \in Names(Extra(c)) |-> FieldOf(Extra(c), n)]]

\* As VerifyDeclaration, if the key alone were read back.
VerifyDeclarationKey(table, c) == table.key = MergeKey(c) \o <<"version">>

\* What is read back from a table that was already there.
VerifyDeclaration(table, c) ==
  /\ table.key = MergeKey(c) \o <<"version">>
  /\ table.hasEnd = HasIntervalEnd(c)

\* The constraint a column's declaration leaves on it; a null passes any.
ColumnAdmits(f, v) ==
  v # Null => /\ f.values # Null => v \in f.values
              /\ f.check # Null => ShapePattern(f.check, v)

\* INSERT of a row with the columns of its batch, under the writer's conflict key.
InsertAccepts(table, key, row) ==
  /\ ToSet(key) \cup {"version"} = ToSet(table.key)
  /\ table.hasEnd => row.hasEnd
  /\ table.meloRequired => row.hasMelo
  /\ DOMAIN row.values \subseteq DOMAIN table.columns
  /\ \A n \in DOMAIN table.columns :
       LET v == IF n \in DOMAIN row.values THEN row.values[n] ELSE Null
       IN  ColumnAdmits(table.columns[n], v) /\ (v = Null => table.columns[n].nullable)

\* The row as the table keeps it: a column the batch leaves out is null.
Inserted(table, row) ==
  [row EXCEPT !.values = [n \in DOMAIN table.columns |->
                            IF n \in DOMAIN row.values THEN row.values[n] ELSE Null]]

\* A scan names every column it wants.
ScanAccepts(columns, spec) == ToSet(spec.extra) \subseteq columns

\* A batch of a scan: its columns in the order the scan named them, all nullable.
BatchSchema(spec) ==
  Core \o [i \in DOMAIN spec.extra |-> [name |-> spec.extra[i], type |-> Utf8, nullable |-> TRUE]]

-----------------------------------------------------------------------------
(* The encoder: every declared column has a value, in its one spelling.      *)

EncodeColumn(f, supplied) ==
  IF f.name \notin DOMAIN supplied THEN IF f.nullable THEN {Null} ELSE {}
  ELSE IF supplied[f.name] = Null THEN IF f.nullable THEN {Null} ELSE {}
  ELSE IF f.check = Null THEN {supplied[f.name]}
  ELSE Canonicalise(f.check, supplied[f.name])

EncodeExtra(fields, supplied) ==
  IF \E i \in DOMAIN fields : EncodeColumn(fields[i], supplied) = {} THEN {}
  ELSE {[n \in Names(fields) |-> CHOOSE v \in EncodeColumn(FieldOf(fields, n), supplied) : TRUE]}

-----------------------------------------------------------------------------
(* The cold table.                                                           *)

\* The identity columns in their order, then the month.
PartitionSpec(identity) == Append(identity, "from_month")

CheckPartitionSpec(spec, identity) == spec = PartitionSpec(identity)

PolicyProperties(policy) ==
  [maxSnapshotAge |-> policy.retention, minSnapshots |-> policy.keep,
   targetFileSize |-> policy.fileSize, commitRetries |-> 0, metadataDelete |-> TRUE]

\* The properties that differ are restated; no target given leaves the one published.
ReconcileProperties(properties, policy) ==
  [p \in DOMAIN properties |->
     IF p = "targetFileSize" /\ policy.fileSize = Null THEN properties[p]
     ELSE PolicyProperties(policy)[p]]

\* A batch is brought to the table's schema by name, and must have just its columns, with a
\* value where the schema requires one.
AlignAccepts(batch, schema, rows) ==
  /\ Len(batch) = Len(schema) /\ Names(schema) \subseteq Names(batch)
  /\ \A row \in rows, i \in DOMAIN schema :
       schema[i].name \notin CoreNames /\ row.values[schema[i].name] = Null => schema[i].nullable

Align(row, schema) == [row EXCEPT !.values = [n \in Names(schema) \ CoreNames |-> @[n]]]

-----------------------------------------------------------------------------
(* Reading.                                                                  *)

\* The columns a reader's schema shows beside the core.
Shown(schema) == {i \in DOMAIN schema : schema[i].name \notin CoreNames}

\* A hot batch is brought to the reader's schema by position.
CastAccepts(batch, schema, row) ==
  /\ Len(batch) = Len(schema)
  /\ \A i \in Shown(schema) : row.values[batch[i].name] = Null => schema[i].nullable

CastTo(batch, schema, row) ==
  [row EXCEPT !.values = [n \in Names(schema) \ CoreNames |->
     @[batch[SelectInSeq(schema, LAMBDA f : f.name = n)].name]]]

\* A cold scan projects the current fields at the positions of the reader's schema.
ProjectAccepts(fields, schema) == Len(schema) <= Len(fields)

Project(fields, schema, row) == CastTo(fields, schema, row)

\* The resolved view names the configured columns of the reader's schema.
ResolutionPlans(c, schema) ==
  Names(Extra(c)) \cup ToSet(MergeKey(c)) \subseteq Names(schema)
=============================================================================
