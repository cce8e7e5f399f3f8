------------------------------ MODULE Settings ------------------------------
(***************************************************************************)
(* The configuration: what a file says, what `check` accepts of it, the    *)
(* table declarations it gives and the names and keys derived from them.   *)
(* Durations count milliseconds of an instance whose units are UnitSize.   *)
(* A result that may be refused is a set: empty, or the one thing it       *)
(* returns.                                                                *)
(***************************************************************************)
EXTENDS Integers, Sequences, FiniteSets

LOCAL INSTANCE SequencesExt
LOCAL INSTANCE FiniteSetsExt

CONSTANTS
  Null,           \* no value
  Environment,    \* Environment[name]: the value of a variable, for those that are set
  NameLength,     \* NameLength[name]: its bytes, for every name a file may use
  Stem,           \* Stem[name]: a table's name without the suffix _versions
  PlainNames,     \* the names that are plain identifiers
  WithComma,      \* the codes that hold a comma
  CodeBook,       \* CodeBook[text]: what a text is as an identifier, see Parsed
  Core,           \* the core columns in storage order: [name, type, nullable]
  CoreKey,        \* the core columns of the merge key, the Marktlokation first
  UnitSize,       \* UnitSize[unit]: a unit of a duration
  LargestNumber,  \* of a duration's seconds
  IdentifierRoom, \* bytes PostgreSQL keeps of an identifier
  PartitionSuffix,   \* bytes a partition's name adds to its table's
  ConstraintSuffix,  \* bytes the longest constraint's name adds to its partition's
  SecretBytes,    \* of the shortest erasure key
  CompiledCatalogs, CompiledStores,  \* the features of this build
  Defaults        \* the settings a file leaves out

CoreNames == {Core[i].name : i \in DOMAIN Core}

ASSUME SettingsAssumption ==
  /\ {"ms", "s", "m", "h", "d", "w", "y"} \subseteq DOMAIN UnitSize
  /\ \A u \in DOMAIN UnitSize : UnitSize[u] \in Nat \ {0}
  /\ UnitSize["ms"] = 1
  /\ LargestNumber \in Nat /\ IdentifierRoom \in Nat
  /\ PartitionSuffix \in Nat /\ ConstraintSuffix \in Nat /\ SecretBytes \in Nat
  /\ \A i \in DOMAIN CoreKey : CoreKey[i] \in CoreNames
  /\ {"malo_id", "melo_id", "from", "to"} \subseteq CoreNames

-----------------------------------------------------------------------------
(* The text of a file: a sequence of literals and references to the          *)
(* environment; a comment is kept as it is.                                  *)

Interpolate(line) ==
  IF \A i \in DOMAIN line.text : line.text[i].ref => line.text[i].name \in DOMAIN Environment
    THEN {[line EXCEPT !.text = [i \in DOMAIN @ |->
             IF @[i].ref THEN [ref |-> FALSE, name |-> Environment[@[i].name]] ELSE @[i]]]}
    ELSE {}

Blank(text) == \A i \in DOMAIN text : text[i].name = ""

\* A file is read when every reference of every line is set.
FromToml(file) ==
  IF \A f \in DOMAIN file.lines : Interpolate(file.lines[f]) # {}
    THEN {[file EXCEPT !.lines = [f \in DOMAIN @ |-> CHOOSE l \in Interpolate(@[f]) : TRUE]]}
    ELSE {}

-----------------------------------------------------------------------------
(* Durations, [value, unit] in a file.                                       *)

Seconds(unit) == UnitSize[unit] \div UnitSize["s"]

ParseDuration(text) ==
  IF text.unit = "ms" THEN {text.value}
  ELSE IF text.unit \in DOMAIN UnitSize /\ text.value * Seconds(text.unit) <= LargestNumber
    THEN {text.value * UnitSize[text.unit]} ELSE {}

\* As FormatDuration, if the largest unit that fits were enough.
FormatDurationRounded(d) ==
  LET first == SelectInSeq(<<"y", "w", "d", "h", "m", "s">>, LAMBDA u : d >= UnitSize[u])
      unit == IF first = 0 THEN "ms" ELSE <<"y", "w", "d", "h", "m", "s">>[first]
  IN  [value |-> d \div UnitSize[unit], unit |-> unit]

\* The largest unit that divides it, and milliseconds below a second.
FormatDuration(d) ==
  LET fits(u) == d # 0 /\ d % UnitSize[u] = 0
      first == SelectInSeq(<<"y", "w", "d", "h", "m">>, fits)
      unit == IF d % UnitSize["s"] # 0 THEN "ms"
              ELSE IF first = 0 THEN "s" ELSE <<"y", "w", "d", "h", "m">>[first]
  IN  [value |-> d \div UnitSize[unit], unit |-> unit]

-----------------------------------------------------------------------------
(* Columns.                                                                  *)

Utf8 == [kind |-> "Utf8", width |-> 0, scale |-> 0]

Field(name, type, nullable, values, check) ==
  [name |-> name, type |-> type, nullable |-> nullable, values |-> values, check |-> check]

CodedColumn(name, allowed, nullable) == Field(name, Utf8, nullable, allowed, Null)

CheckedColumn(name, check, nullable) == Field(name, Utf8, nullable, Null, check)

EicTypes == {"X", "Y", "Z", "W", "T", "V", "A"}

\* An unrefined EIC, one of each object type, and the three other schemes.
ValueChecks == {[scheme |-> "EIC", type |-> t] : t \in EicTypes \cup {Null}}
                 \cup {[scheme |-> s, type |-> Null] : s \in {"MALO", "MELO", "BDEW"}}

\* What a domain type reads in a text: its scheme, its one spelling, an EIC's object
\* type, and whether its check character is right.
Parsed(scheme, text) == IF CodeBook[text].scheme = scheme /\ CodeBook[text].sound
                          THEN {CodeBook[text]} ELSE {}

\* As Canonicalise, if a text that reads were stored as it was supplied.
CanonicaliseAsGiven(check, text) ==
  {text : code \in {c \in Parsed(check.scheme, text) : check.type \in {Null, c.type}}}

Canonicalise(check, text) ==
  {code.spelling : code \in {c \in Parsed(check.scheme, text) :
                               check.type \in {Null, c.type}}}

\* The half of the rule a regular expression carries.
ShapePattern(check, text) ==
  /\ CodeBook[text].scheme = check.scheme /\ CodeBook[text].spelling = text
  /\ check.type \in {Null, CodeBook[text].type}

\* A column as a file declares it: a vocabulary and a scheme exclude one another.
ColumnField(column) ==
  IF \/ column.type \notin {"string", "utf8", "text"}
     \/ column.check # Null /\ (column.values # Null \/ column.check \notin ValueChecks)
     \/ column.values # Null /\ (column.values = {} \/ column.values \cap WithComma # {})
    THEN {}
  ELSE IF column.check # Null THEN {CheckedColumn(column.name, column.check, ~column.identity)}
  ELSE IF column.values # Null THEN {CodedColumn(column.name, column.values, ~column.identity)}
  ELSE {Field(column.name, Utf8, ~column.identity, Null, Null)}

-----------------------------------------------------------------------------
(* A table's declaration, as its builder calls leave it.                     *)

NewTable(name) ==
  [name |-> name, model |-> "interval", identifyByMelo |-> Null,
   identity |-> <<>>, attributes |-> <<>>, subject |-> Null,
   archivalStep |-> Defaults.archivalStep, settlementLag |-> Defaults.settlementLag,
   headroom |-> Defaults.headroom, grace |-> Defaults.grace, pinAge |-> Defaults.pinAge,
   retention |-> Defaults.retention, keep |-> Defaults.keep, chunk |-> Defaults.chunk,
   fileSize |-> Null]

Extra(c) == c.identity \o c.attributes
Names(fields) == {fields[i].name : i \in DOMAIN fields}
NameList(fields) == [i \in DOMAIN fields |-> fields[i].name]

WithColumn(c, field, identity) ==
  IF identity THEN [c EXCEPT !.identity = Append(@, field)]
              ELSE [c EXCEPT !.attributes = Append(@, field)]

\* A column that is already an attribute is adopted; any other is declared.
WithSubject(c, name) ==
  [c EXCEPT !.subject = name,
            !.attributes = IF name \in Names(@) THEN @
                           ELSE Append(@, Field(name, Utf8, TRUE, Null, Null))]

NamesFit(c) ==
  /\ c.name \in PlainNames
  /\ NameLength[c.name] <= IdentifierRoom - PartitionSuffix - ConstraintSuffix

DurationsFit(c) ==
  /\ c.archivalStep >= UnitSize["m"]
  /\ c.settlementLag >= c.archivalStep
  /\ c.headroom >= c.archivalStep
  /\ c.grace >= 0 /\ c.pinAge >= 0 /\ c.retention > 0

CountsFit(c) == c.fileSize # 0 /\ c.chunk > 0 /\ c.keep > 0

ColumnsFit(c) ==
  /\ \A i \in DOMAIN Extra(c) : Extra(c)[i].type = Utf8 /\ Extra(c)[i].name \in PlainNames
  /\ \A i \in DOMAIN c.identity : ~c.identity[i].nullable
  /\ c.subject \notin Names(c.identity)
  /\ IsInjective(NameList(Extra(c)))
  /\ Names(Extra(c)) \cap CoreNames = {}

Build(c) == IF NamesFit(c) /\ DurationsFit(c) /\ CountsFit(c) /\ ColumnsFit(c) THEN {c} ELSE {}

HasIntervalEnd(c) == c.model = "interval"

MeloInMergeKey(c) == IF c.identifyByMelo = Null THEN c.model = "point" ELSE c.identifyByMelo

MergeKey(c) == <<Head(CoreKey)>> \o (IF MeloInMergeKey(c) THEN <<"melo_id">> ELSE <<>>)
                 \o Tail(CoreKey) \o NameList(c.identity)

DiscriminatorColumns(c) == SelectSeq(MergeKey(c), LAMBDA n : n \notin ToSet(CoreKey))

\* As ScanSpec, if it named the attributes before the identity columns.
ScanSpecAttributesFirst(c) ==
  [key |-> MergeKey(c), extra |-> NameList(c.attributes \o c.identity), chunk |-> c.chunk]

\* The columns a scan asks for and the order its pages are cut in.
ScanSpec(c) == [key |-> MergeKey(c), extra |-> NameList(Extra(c)), chunk |-> c.chunk]

CursorColumns(spec) ==
  <<"malo_id", "from">> \o SelectSeq(spec.key, LAMBDA n : n \notin {"malo_id", "from"})
                        \o <<"version">>

MaintenancePolicy(c) == [fileSize |-> c.fileSize, retention |-> c.retention, keep |-> c.keep]

\* A partition is named to the minute, and read back from its name.
RelationName(c, start) == [table |-> c.name, minute |-> start \div UnitSize["m"]]

FromRelationName(c, name) == IF name.table = c.name THEN {name.minute * UnitSize["m"]} ELSE {}

-----------------------------------------------------------------------------
(* A table of a file, and the sections around it.                            *)

\* What is given replaces the default.
Given(value, default) == IF value = Null THEN default ELSE value

AddColumn(c, column) ==
  UNION {{WithColumn(d, f, column.identity) : f \in ColumnField(column)} : d \in c}

\* Every duration of the file, parsed; the others are the defaults'.
TimedTable(t) ==
  LET bare == [NewTable(t.name) EXCEPT !.model = t.model, !.identifyByMelo = t.identifyByMelo,
                                       !.fileSize = t.fileSize,
                                       !.chunk = Given(t.chunk, @), !.keep = Given(t.keep, @)]
  IN  IF \A f \in DOMAIN t.durations : ParseDuration(t.durations[f]) # {}
        THEN {[f \in DOMAIN bare |->
                 IF f \in DOMAIN t.durations THEN CHOOSE d \in ParseDuration(t.durations[f]) : TRUE
                 ELSE bare[f]]}
        ELSE {}

ValidateTable(t) ==
  LET columned == FoldLeft(AddColumn, TimedTable(t), t.columns)
      subjected == IF t.subject = Null THEN columned
                   ELSE IF \E i \in DOMAIN t.columns : t.columns[i].name = t.subject
                                                         /\ t.columns[i].identity
                     THEN {} ELSE {WithSubject(c, t.subject) : c \in columned}
  IN  UNION {Build(c) : c \in subjected}

ValidatePrivacy(privacy) ==
  IF privacy.secret = Null THEN privacy.retired = <<>>
  ELSE \A b \in {privacy.secret} \cup ToSet(privacy.retired) : b >= SecretBytes

ValidateHot(h) == ~Blank(h.url) /\ h.connections > 0

WarehouseSchemes == [file |-> "file", memory |-> "memory", s3 |-> "s3", minio |-> "s3",
                     gs |-> "gcs", abfss |-> "azure"]

\* The scheme of a warehouse names the object store that holds it.
WarehouseFactory(scheme) == /\ scheme \in DOMAIN WarehouseSchemes
                            /\ WarehouseSchemes[scheme] \in CompiledStores \cup {"file", "memory"}

\* As ValidateCold, if a warehouse's scheme were left to the catalogue.
ValidateColdAnyScheme(c) ==
  /\ c.catalog # "s3tables" => ~Blank(c.uri)
  /\ ~Blank(c.warehouse) /\ ~Blank(c.namespace)
  /\ c.fileTarget > 0
  /\ c.catalog = "sql" => c.pool > 0
  /\ c.catalog \in CompiledCatalogs

ValidateCold(c) ==
  /\ c.catalog # "s3tables" => ~Blank(c.uri) /\ WarehouseFactory(c.scheme)
  /\ ~Blank(c.warehouse) /\ ~Blank(c.namespace)
  /\ c.fileTarget > 0
  /\ c.catalog = "sql" => c.pool > 0
  /\ c.catalog \in CompiledCatalogs

\* Opening the catalogue: each kind is built by its own constructor.
OpenCold(c) == /\ ValidateCold(c)
               /\ c.catalog \in {"sql", "rest"} => WarehouseFactory(c.scheme)
               /\ c.catalog = "rest" => ~Blank(c.uri)
               /\ c.catalog = "s3tables" => c.scheme = "arn"

ValidateAll(s) == /\ ValidateHot(s.hot) /\ ValidateCold(s.cold)
                  /\ s.tables # <<>> /\ ValidatePrivacy(s.privacy)
                  /\ \A i \in DOMAIN s.tables : ValidateTable(s.tables[i]) # {}

\* The raw and the resolved relation a table registers.
RawName(name) == [stem |-> Stem[name], versions |-> TRUE]
ResolvedName(name) == [stem |-> Stem[name], versions |-> FALSE]

\* A session holds one table of each name.
RelationsApart(names) ==
  \A i, j \in DOMAIN names : i # j =>
    {RawName(names[i]), ResolvedName(names[i])} \cap {RawName(names[j]), ResolvedName(names[j])} = {}
=============================================================================
