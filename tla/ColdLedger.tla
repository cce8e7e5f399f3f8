----------------------------- MODULE ColdLedger -----------------------------
(***************************************************************************)
(* What the cold table promises: settled rows and a boundary, where the    *)
(* boundary moves only with the whole of the next window and a correction  *)
(* adds rows below it.                                                     *)
(***************************************************************************)
EXTENDS Naturals

CONSTANTS Rows, Hot

VARIABLES boundary, rows

Init == boundary = 0 /\ rows = {}

\* The next window, its rows and the boundary at once.
Settle ==
  /\ boundary \in DOMAIN Hot
  /\ boundary' = boundary + 1
  /\ rows' = rows \union Hot[boundary]

\* A correction of what is settled moves no boundary.
Correct ==
  /\ \E new \in SUBSET {r \in Rows : r.from < boundary} : rows' = rows \union new
  /\ UNCHANGED boundary

Spec == Init /\ [][Settle \/ Correct]_<<boundary, rows>>
=============================================================================
