--------------------------- MODULE MCDeclaration ---------------------------
(***************************************************************************)
(* Files of a deployment: declarations a table grows through, others that  *)
(* claim its name, and files that are refused.                             *)
(***************************************************************************)
EXTENDS Declaration, TLC

MCUnitSize == [ms |-> 1, s |-> 2, m |-> 4, h |-> 8, d |-> 16, w |-> 32, y |-> 80]

MCEnvironment == [PG_URL |-> "postgres", BLANK |-> ""]

MCNameLength == [readings_versions |-> 17, readings |-> 8, a_name_too_long |-> 40]
MCStem == [readings_versions |-> "readings", readings |-> "readings",
           a_name_too_long |-> "a_name_too_long"]
MCPlainNames == {"readings_versions", "readings", "a_name_too_long", "bk", "nz", "tenant",
                 "eic", "ref", "value"}

Text(spelling, type, sound) == [scheme |-> "EIC", spelling |-> spelling, type |-> type, sound |-> sound]
MCCodeBook == [eic_x |-> Text("EIC_X", "X", TRUE), EIC_X |-> Text("EIC_X", "X", TRUE),
               EIC_Y |-> Text("EIC_Y", "Y", TRUE), EIC_bad |-> Text("EIC_bad", "X", FALSE)]

CoreField(name, kind, nullable) ==
  [name |-> name, type |-> [kind |-> kind, width |-> 18, scale |-> 6], nullable |-> nullable]
MCCore == <<CoreField("malo_id", "Utf8", FALSE), CoreField("melo_id", "Utf8", TRUE),
            CoreField("from", "Timestamp", FALSE), CoreField("to", "Timestamp", TRUE),
            CoreField("value", "Decimal", FALSE)>>
MCCoreKey == <<"malo_id", "from">>

MCDefaults == [archivalStep |-> 16, settlementLag |-> 32, headroom |-> 16, grace |-> 8,
               pinAge |-> 3, retention |-> 80, keep |-> 1, chunk |-> 1]

MCOffered == [bk |-> {"b"}, nz |-> {"n"}, tenant |-> {"a"},
              eic |-> {"eic_x", "EIC_Y"}, ref |-> {"r"}]

-----------------------------------------------------------------------------

Attribute(name) == [name |-> name, type |-> "string", values |-> Null, check |-> Null, identity |-> FALSE]

Table(columns) ==
  [name |-> "readings_versions", model |-> "interval", identifyByMelo |-> Null, fileSize |-> Null,
   chunk |-> Null, keep |-> Null, durations |-> <<>>, columns |-> columns, subject |-> Null]

Literal(name) == [ref |-> FALSE, name |-> name]

Whole ==
  [hot |-> [url |-> Null, connections |-> 1],
   cold |-> [catalog |-> "sql", uri |-> <<Literal("catalogue")>>, scheme |-> "file",
             warehouse |-> Null, namespace |-> <<Literal("metering")>>, fileTarget |-> 1, pool |-> 1],
   privacy |-> [secret |-> 32, retired |-> <<>>], tables |-> <<>>]

\* A file of one table.
Of(table) ==
  [lines |-> [url |-> [text |-> <<[ref |-> TRUE, name |-> "PG_URL"]>>],
              warehouse |-> [text |-> <<Literal("warehouse")>>]],
   settings |-> [Whole EXCEPT !.tables = <<table>>], registered |-> <<table.name>>]

Base  == Table(<<Attribute("bk")>>)
Grown == Of([Table(<<Attribute("nz"), Attribute("bk")>>) EXCEPT !.fileSize = 7])
Point == Of([Base EXCEPT !.model = "point", !.identifyByMelo = FALSE,
                         !.durations = [archivalStep |-> [value |-> 3, unit |-> "s"]]])
Rich  == Of([Table(<<[Attribute("tenant") EXCEPT !.identity = TRUE, !.values = {"a"}],
                     [Attribute("eic") EXCEPT !.check = [scheme |-> "EIC", type |-> "X"]]>>)
               EXCEPT !.subject = "ref"])

\* Accepted too: an S3 Tables bucket that is no ARN, and two tables that register one
\* relation.
Bucket == [Of(Base) EXCEPT !.settings.cold.catalog = "s3tables"]
Clash  == [Of(Base) EXCEPT !.settings.tables = @ \o <<[Base EXCEPT !.name = "readings"]>>,
                           !.registered = @ \o <<"readings">>]

\* The others are refused: one file of each rule.
MCFiles ==
  [base |-> Of(Base), grown |-> Grown, point |-> Point, rich |-> Rich, bucket |-> Bucket, clash |-> Clash,
   unset |-> [Of(Base) EXCEPT !.lines.url.text[1].name = "UNSET"],
   blank |-> [Of(Base) EXCEPT !.lines.url.text[1].name = "BLANK"],
   ftp |-> [Of(Base) EXCEPT !.settings.cold.scheme = "ftp"],
   glue |-> [Of(Base) EXCEPT !.settings.cold.catalog = "glue"],
   secret |-> [Of(Base) EXCEPT !.settings.privacy.secret = 3],
   named |-> Of([Base EXCEPT !.name = "a_name_too_long"]),
   lag |-> Of([Base EXCEPT !.durations = [settlementLag |-> [value |-> 1, unit |-> "m"]]]),
   long |-> Of([Base EXCEPT !.durations = [retention |-> [value |-> 999, unit |-> "y"]]]),
   twice |-> Of(Table(<<Attribute("bk"), Attribute("bk")>>)),
   core |-> Of(Table(<<Attribute("value")>>)),
   subject |-> Of([Table(<<[Attribute("ref") EXCEPT !.identity = TRUE]>>) EXCEPT !.subject = "ref"])]

Symmetry == Permutations(Processes)
=============================================================================
