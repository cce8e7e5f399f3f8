------------------------------ MODULE MCQueries ------------------------------
(* Instants 0 to 8 with rows on the even ones, windows of four, two months and two
   tenants; each scene is a store with a few writes and questions around a theme. *)
EXTENDS Queries, TLC

MCCanonical == [t \in {"t1", "t2", "m1", "m2", "nb1", "nb2", "a", "b", "PT15M", "bk"} |-> t]
                 @@ ("T1" :> "t1") @@ ("??" :> "malformed") @@ ("1-0:A" :> "a")

MCCollation == Null :> 0 @@ "a" :> 1 @@ "1-0:A" :> 2 @@ "b" :> 3 @@ "m1" :> 4 @@ "m2" :> 5
                 @@ "t1" :> 6 @@ "t2" :> 7 @@ "tenant" :> 8 @@ "grid" :> 9 @@ "nb1" :> 10 @@ "nb2" :> 11
                 @@ "PT15M" :> 12 @@ "bk" :> 13 @@ "T1" :> 14 @@ "??" :> 15

-----------------------------------------------------------------------------
(* Filters.                                                                  *)

From(op, v)      == [kind |-> "compare", op |-> op, value |-> v, cast |-> "none",
                     valueCast |-> "none", columnFirst |-> TRUE]
Flipped(op, v)   == [From(op, v) EXCEPT !.columnFirst = FALSE]
Cast(op, v, c)   == [From(op, v) EXCEPT !.cast = c]
Between(l, h)    == [kind |-> "between", low |-> l, high |-> h, cast |-> "none", negated |-> FALSE]
Quality          == [kind |-> "quality"]
Both(f, g)       == [kind |-> "and", left |-> f, right |-> g]
Either(f, g)     == [kind |-> "or", left |-> f, right |-> g]

Plain == {From(op, v) : op \in {"<", "<=", ">", ">=", "=", "!="}, v \in {2, 3, 4}}
           \cup {Flipped(op, 4) : op \in {"<", "<=", ">", ">="}}
           \cup {Cast(op, 4, c) : op \in {"<=", "="}, c \in {"nano", "date"}}
           \cup {Between(2, 2), Between(3, 4), [Between(2, 4) EXCEPT !.negated = TRUE], Quality,
                 [From(">=", 5) EXCEPT !.valueCast = "date"], From(">", 8), From("=", 8),
                 From("=", 6), From(">=", 6)}

Joined == {Both(From(">=", 2), From("<", 4)), Either(From("=", 2), From("=", 6)),
           Both(Quality, From("<", 4)), Either(Quality, From(">=", 6))}

MCFilters == Plain \cup Joined
MCDepth   == [f \in MCFilters |-> IF f \in Plain THEN 0 ELSE 1]

-----------------------------------------------------------------------------
(* Tables, deliveries and questions.                                         *)

Tenant == [name |-> "tenant", nullable |-> FALSE, check |-> "code", identity |-> TRUE]
Grid   == [name |-> "grid", nullable |-> TRUE, check |-> "none", identity |-> FALSE]
Newer  == [name |-> "grid", nullable |-> TRUE, check |-> "later", identity |-> FALSE]

Table(points, byMelo, columns) ==
  [points |-> points, byMelo |-> byMelo, constraints |-> TRUE, columns |-> columns]

Plainly   == Table(FALSE, FALSE, {})
ByTenant  == Table(FALSE, FALSE, {Tenant, Grid})
ByMelo    == Table(FALSE, TRUE, {})
Registers == Table(TRUE, TRUE, {})
Unchecked == [Plainly EXCEPT !.constraints = FALSE]

Val(t, v) == [from |-> t, to |-> t + 2, value |-> v, q |-> "MEASURED", obis |-> Null]

At(t, v) == [Val(t, v) EXCEPT !.to = Null]

Base(version, intervals) ==
  [sparte |-> "Strom", unit |-> "kWh", obis |-> "a", melo |-> "m1", res |-> "PT15M",
   source |-> [kind |-> "MSCONS", by |-> "p1"], prov |-> "p1",
   label |-> Label([operator |-> "nb1", month |-> 1], version),
   rec |-> 2 * version, extra |-> <<>>, intervals |-> intervals]

Owned(d, tenant) == [d EXCEPT !.extra = "tenant" :> tenant]

Append_(batch)   == [authored |-> FALSE, mode |-> "Unified", points |-> FALSE, batch |-> batch]
Author(batch)    == [Append_(batch) EXCEPT !.authored = TRUE]
Readings(batch)  == [Append_(batch) EXCEPT !.points = TRUE]

\* The rows of a delivery as a store holds them before the scene.
Held(tbl, d) == CHOOSE rows \in Encode(tbl, <<d>>) : TRUE

Scene(tbl, b, hotRows, coldFiles, given, asked) ==
  [table |-> tbl, boundary |-> b, hot |-> {hotRows[n] : n \in DOMAIN hotRows}, cold |-> coldFiles,
   writes |-> given, questions |-> asked]

Q == [relation |-> "resolved", mode |-> [kind |-> "Unified"], scope |-> <<>>, filter |-> Null,
      start |-> Null, end |-> Null, obis |-> Null, columns |-> <<>>, quality |-> {}, fold |-> "sql"]

Mode(k)      == [Q EXCEPT !.mode = [kind |-> k]]
KnownAt(t)   == [Q EXCEPT !.mode = [kind |-> "AsKnownAt", at |-> t]]
Pinned(max)  == [Q EXCEPT !.mode = [kind |-> "AsOf", maxVersion |-> max]]
Fold(f)      == [Q EXCEPT !.fold = f]
Range(f, l, h) == [Q EXCEPT !.fold = f, !.start = l, !.end = h]

-----------------------------------------------------------------------------
(* Scenes.                                                                   *)

In(month, d)    == [d EXCEPT !.label.scope.month = month]
Under(nb, d)    == [d EXCEPT !.label.scope.operator = nb]
MeasuredAt(m, d) == [d EXCEPT !.melo = m]
On(channel, d)  == [d EXCEPT !.obis = channel]
From_(p, d)     == [d EXCEPT !.prov = p]

V1 == Base(1, <<Val(2, 2), Val(4, 2)>>)
V2 == Base(2, <<Val(2, 4), Val(4, 4)>>)

OldRows == Held(Plainly, V1)

\* A correction across the boundary, questions asked beside it in every mode and fold.
Modes == {Q, [Q EXCEPT !.relation = "raw"], Mode("Historical"), Mode("Operational"),
          KnownAt(2), Pinned(Null), Pinned(1),
          [Pinned(Null) EXCEPT !.fold = "latest"]}

Folds_ == {Fold("latest"), Fold("collect"), Fold("deliveries"), Fold("channels"),
           Range("collect", 0, 4), Range("sql", 3, 5), Range("collect", 2, 3),
           [Fold("latest") EXCEPT !.start = 2]}

Corrected(given, asked) ==
  Scene(Plainly, 4, <<OldRows[2]>>, <<<<OldRows[1]>>>>, given, asked)

Corrections == Corrected(<<Append_(<<V2>>)>>, Modes \cup Folds_)

\* Nothing in the hot tier, or nothing archived: where `latest` probes and falls through,
\* and where it does not.
Emptied ==
  {Scene(Plainly, 4, <<>>, <<<<OldRows[1]>>>>, <<>>, {Fold("latest"), Mode("Operational")}),
   Scene(Plainly, 0, OldRows, <<>>, <<>>, {Fold("latest"), Q, Mode("Historical")})}

\* Two writers on one line, before and behind the boundary; a value outranked from the
\* start; a boundary that moves twice under one write; a value stored where two others of
\* its batch are cut to, which the report looks up elsewhere.
V0 == Base(0, <<Val(4, 8)>>)

CutOnto == <<Base(5, <<Val(2, 4)>>), Base(3, <<Val(3, 6)>>), Base(2, <<Val(3, 8)>>)>>

Rivals ==
  {Corrected(<<Author(<<V0>>), Append_(<<Base(3, <<Val(4, 6)>>)>>)>>, {}),
   Corrected(<<Author(<<[V0 EXCEPT !.intervals = <<Val(5, 8)>>]>>)>>, {}),
   Scene(Plainly, 0, <<>>, <<>>, <<Append_(<<V2>>)>>, {}),
   Corrected(<<Append_(<<V2>>), Append_(<<Base(3, <<Val(2, 6)>>)>>)>>, {}),
   Corrected(<<Append_(<<V2>>), Append_(<<V2>>)>>, {}),
   Corrected(<<Author(<<V1>>), Append_(<<V2>>)>>, {}),
   Corrected(<<Author(CutOnto), Append_(<<Base(9, <<Val(2, 2)>>)>>)>>, {}),
   Corrected(<<Author(<<V1>>), Author(<<[V2 EXCEPT !.intervals = <<Val(4, 8), Val(6, 8)>>]>>)>>, {})}

\* Filters over a row on each instant.
Line == Base(1, <<Val(2, 2), Val(4, 4)>>)

Filtered ==
  Scene(Plainly, 4,
        <<Held(Plainly, Line)[2], [Held(Plainly, Line)[2] EXCEPT !.from = 6, !.to = 8, !.q = "SUBSTITUTED"]>>,
        <<<<[Held(Plainly, Line)[1] EXCEPT !.from = 0, !.to = 2, !.q = "SUBSTITUTED"],
            Held(Plainly, Line)[1]>>>>,
        <<>>, {[Q EXCEPT !.filter = f] : f \in MCFilters})

\* Two tenants' readings of one line: a session confined to one, questions narrowed to
\* one, folds that would mix them, a spelling that is not the stored one, no tenant at all.
TenantRows(t) == Held(ByTenant, Owned(V1, t))

SaidAgain == [V1 EXCEPT !.intervals = <<Val(4, 2)>>]

Narrowed(f, t) == [Fold(f) EXCEPT !.columns = "tenant" :> t]
Confined(f, t) == [Fold(f) EXCEPT !.scope = "tenant" :> t]

Tenants ==
  {Scene(ByTenant, 4, <<TenantRows("t1")[2], TenantRows("t2")[2]>>,
         <<<<TenantRows("t1")[1], TenantRows("t2")[1]>>>>, given, asked) :
     <<given, asked>> \in
       {<<<<Append_(<<Owned(V2, "t2")>>)>>,
          {Fold("collect"), Fold("by_channel"), Narrowed("collect", "t1"),
           Narrowed("latest", "t2"), Confined("sql", "t1"), Confined("collect", "t2"), [Q EXCEPT !.scope = "grid" :> "t1"],
           [Q EXCEPT !.columns = "melo" :> "m1"]}>>,
        <<<<Append_(<<Owned(V2, "T1")>>), Append_(<<Owned(V2, "t1")>>)>>, {}>>,
        <<<<Author(<<Owned(SaidAgain, "t1"), Owned(SaidAgain, "t2")>>), Append_(<<Owned(V2, "t2")>>)>>, {}>>,
        <<<<Append_(<<Owned(V2, "??")>>), Append_(<<Owned(V2, "t1"), Owned(V2, "t2")>>)>>, {}>>}}

\* One tenant's reading beside the other's: nothing repeats, and a fold would still mix
\* them.
SideBySide ==
  Scene(ByTenant, 4, <<TenantRows("t2")[2]>>, <<<<TenantRows("t1")[1]>>>>, <<>>,
        {Fold("collect"), Fold("by_channel"), Confined("by_channel", "t2")})

\* A delivery a table refuses, or one of another kind.
Odd(d, t) == [d EXCEPT !.intervals = <<t>>]

Refusals ==
  {Corrected(<<given>>, {}) :
     given \in {[Append_(<<V2>>) EXCEPT !.mode = "AsOf"], Readings(<<V2>>),
                Append_(<<Odd(V2, Val(4, 3))>>), Append_(<<Odd(V2, Val(2, 42))>>),
                Append_(<<Odd(V2, Val(6, 4))>>), Append_(<<[V2 EXCEPT !.unit = "m3"]>>),
                Append_(<<Odd(V2, [Val(4, 4) EXCEPT !.to = 4])>>),
                Append_(<<On(Null, V2)>>), Append_(<<Under("nb2", V2)>>),
                Append_(<<Odd(Under("nb2", V2), Val(2, 4))>>),
                Append_(<<[V1 EXCEPT !.intervals = <<Val(4, 6)>>]>>),
                Append_(<<[V1 EXCEPT !.intervals = <<Val(2, 6)>>]>>),
                Append_(<<MeasuredAt("m2", [V1 EXCEPT !.intervals = <<Val(2, 2)>>])>>),
                Append_(<<Odd(V1, Val(5, 4))>>), Append_(<<Odd(V2, Val(3, 4))>>),
                Append_(<<V2, V2>>), Append_(<<V2, Base(3, <<Val(2, 6), Val(4, 6)>>)>>),
                Append_(<<[V2 EXCEPT !.intervals = <<>>]>>)}}
    \cup {Scene([Plainly EXCEPT !.columns = {Newer}], 4, <<>>, <<>>, <<Append_(<<V1>>)>>, {})}

\* A gas delivery counts the line's months by its own days, and a table without its
\* constraints takes another operator's: one reading in two scopes, refused from then on.
GasDay   == [Base(2, <<Val(6, 4)>>) EXCEPT !.sparte = "Gas"]
PowerDay == In(2, Base(1, <<Val(6, 2)>>))

TwoScopes_ ==
  {Scene(Plainly, 4, Held(Plainly, PowerDay), <<>>,
         <<Append_(<<GasDay>>), Append_(<<In(2, Base(3, <<Val(6, 6)>>))>>)>>, {Fold("collect")}),
   Scene(Unchecked, 4, Held(Plainly, PowerDay), <<>>,
         <<Append_(<<Under("nb2", In(2, Base(2, <<Val(6, 4)>>)))>>)>>, {Fold("collect"), Q})}

\* Two meters of one line, intervals and register readings, each authored.
AtMeter(tbl, m) == Held(tbl, MeasuredAt(m, IF tbl.points THEN Base(1, <<At(2, 2), At(4, 2)>>) ELSE V1))

Meters ==
  {Scene(tbl, 4, <<AtMeter(tbl, "m1")[2], AtMeter(tbl, "m2")[2]>>,
         <<<<AtMeter(tbl, "m1")[1], AtMeter(tbl, "m2")[1]>>>>, given, asked) :
     <<tbl, given, asked>> \in
       {<<ByMelo, <<Author(<<MeasuredAt("m2", V1)>>), Append_(<<MeasuredAt(Null, V2)>>)>>, {}>>,
        <<ByMelo, <<Author(<<MeasuredAt("m1", Base(0, <<Val(2, 6)>>)),
                             MeasuredAt("m2", Base(0, <<Val(4, 8)>>))>>)>>, {}>>,
        <<ByMelo, <<Author(<<MeasuredAt("m1", Base(0, <<Val(2, 6)>>)),
                             MeasuredAt("m2", Base(0, <<Val(2, 6)>>))>>)>>, {}>>,
        <<ByMelo, <<Author(<<MeasuredAt("m2", Base(1, <<Val(6, 8)>>))>>),
                    Append_(<<MeasuredAt("m2", Base(2, <<Val(6, 6)>>)),
                              MeasuredAt("m1", Base(2, <<Val(6, 2)>>))>>)>>, {}>>,
        <<Registers, <<Readings(<<MeasuredAt("m2", Base(2, <<At(2, 4), At(4, 4)>>))>>)>>,
          {Q, Fold("collect"), Fold("by_channel"), Fold("latest"), Narrowed("collect", "t1"),
           [Fold("collect") EXCEPT !.columns = "melo" :> "m2"], Fold("deliveries")}>>}}

\* Two channels and two sources on one line, and rows another writer left that no typed
\* read takes.
Sources ==
  Scene(Plainly, 4, <<Held(Plainly, From_("p2", V1))[2]>>, <<<<OldRows[1]>>>>,
        <<Append_(<<[V2 EXCEPT !.res = Null, !.source.by = "p2"]>>)>>,
        {Fold("deliveries"), Fold("collect"), [Fold("deliveries") EXCEPT !.relation = "raw"]})

OnB == Held(Plainly, On("b", V1))

TwoChannels ==
  Scene(Plainly, 4, <<OldRows[2], OnB[2]>>, <<<<OldRows[1], OnB[1]>>>>,
        <<Append_(<<[V2 EXCEPT !.intervals = <<[Val(2, 4) EXCEPT !.obis = "b"], Val(4, 4)>>]>>)>>,
        {Fold("by_channel"), Fold("collect"), Fold("channels"), Fold("deliveries"), Fold("latest"),
         [Fold("collect") EXCEPT !.obis = "b"], [Q EXCEPT !.quality = {"SUBSTITUTED"}]})

Foreign ==
  {Scene(Plainly, 4, <<>>, <<<<row>>>>, <<>>, {Q, Fold("deliveries"), Fold("collect"), Fold("by_channel")}) :
     row \in {[OldRows[1] EXCEPT !.obis = "1-0:A"], [OldRows[1] EXCEPT !.melo = "??"],
              [OldRows[1] EXCEPT !.detail = Null], [OldRows[1] EXCEPT !.to = Null],
              [OldRows[1] EXCEPT !.scope.operator = "T1"], [OldRows[1] EXCEPT !.unit = "m3"],
              [OldRows[1] EXCEPT !.melo = "T1"]}}

MCReauthored == {Corrected(<<Author(<<V1>>), Append_(<<V2>>)>>, {})}

MCScenes == {Corrections, Filtered, SideBySide, Sources, TwoChannels}
              \cup Emptied \cup Rivals \cup Tenants \cup Refusals \cup TwoScopes_ \cup Meters \cup Foreign
Symmetry == Permutations(Writers)
=============================================================================
