--------------------------- MODULE MCCompleteness ---------------------------
(* Three days of 2, 6 and 4 quarter-hours for electricity, and the same line cut
   one tick later for gas; two channels. *)
EXTENDS Completeness, TLC

CONSTANTS c1, c2

MCDays     == 0 .. 5
Cuts       == (0 :> -4) @@ (1 :> 0) @@ (2 :> 2) @@ (3 :> 8) @@ (4 :> 12) @@ (5 :> 16) @@ (6 :> 20)
MCDayStart == [s \in {"STROM", "GAS"} |-> [d \in MCDays |-> Cuts[d] + IF s = "GAS" THEN 1 ELSE 0]]
MCDayEnd   == [s \in {"STROM", "GAS"} |-> [d \in MCDays |-> Cuts[d + 1] + IF s = "GAS" THEN 1 ELSE 0]]
MCTicks    == ("PT15M" :> 1) @@ ("PT1H" :> 2)

Row(c, s, g, t, q) == [channel |-> c, sparte |-> s, grid |-> g, from |-> t, quality |-> q]

Full(c, s, g, d, step) ==
  {Row(c, s, g, t, "MEASURED") : t \in {x \in MCDayStart[s][d] .. (MCDayEnd[s][d] - 1) :
                                          (x - MCDayStart[s][d]) % step = 0}}

\* What a channel may have delivered on a day: nothing, all of a grid, all but a
\* first or last interval, both halves of a change of grid, twice what it declares.
DayOf(c, s, d) ==
  LET q == Full(c, s, "PT15M", d, 1)
      h == Full(c, s, "PT1H", d, 2)
      a == MCDayStart[s][d]
  IN  {{}, q, h,
       q \ {Row(c, s, "PT15M", MCDayEnd[s][d] - 1, "MEASURED")},
       (h \ {Row(c, s, "PT1H", a, "MEASURED")}) \union {Row(c, s, "PT15M", a, "ESTIMATED")},
       Full(c, s, "PT1H", d, 1)}

First1 == {x \union y \union z : x \in DayOf(c1, "STROM", 1) \ {Full(c1, "STROM", "PT1H", 1, 2)}, y \in DayOf(c1, "STROM", 2),
                                 z \in DayOf(c1, "STROM", 3)}

\* The second channel: nothing, gas by the day, gas by the hour on one day, a
\* grid changed inside the reference window, and no grid at all.
Second == {{},
           {Row(c2, "GAS", "P1D", 1, "SUBSTITUTED"), Row(c2, "GAS", "P1D", 9, "MEASURED")},
           Full(c2, "GAS", "PT1H", 1, 2),
           Full(c2, "STROM", "PT1H", 0, 2) \union Full(c2, "STROM", "PT15M", 1, 1),
           Full(c2, "STROM", None, 1, 2)}

MCTables == {x \union y : x \in First1, y \in Second}

MCLateRows == {Row(c2, "GAS", "PT1H", 3, "MEASURED")}

At(t) == [kind |-> "instant", at |-> t]
Text(n) == [kind |-> "text", text |-> n]

MCCalls == {<<At(0), At(12)>>, <<At(1), At(11)>>, <<At(0), At(2), At(12)>>,
            <<Text("lastgang"), At(5), At(13)>>,
            <<Text("lastgang_resolved"), At(-4), At(3), At(7)>>,
            <<At(5), At(5)>>, <<At(2), At(2), At(7)>>, <<Text("other"), At(0), At(12)>>,
            <<Text("lastgang"), Text("lastgang"), At(0), At(12)>>}
=============================================================================
