---------------------------- MODULE TieredLedger ----------------------------
(***************************************************************************)
(* What the two tiers promise together, without leases, partitions,        *)
(* snapshots or retries: one boundary, the rows settled below it for ever, *)
(* and the rows PostgreSQL still holds.                                    *)
(***************************************************************************)
EXTENDS Integers

CONSTANTS Rows, WindowOf, LastWindow

VARIABLES
  boundary, \* the first window the hot tier owns
  settled,  \* the rows the cold tier stores
  open      \* the rows the hot tier stores

vars == <<boundary, settled, open>>

Init == boundary = 0 /\ settled = {} /\ open = {}

\* PostgreSQL takes rows, in one transaction.
Accept ==
  /\ \E B \in (SUBSET Rows) \ {{}} : open' = open \union B
  /\ UNCHANGED <<boundary, settled>>

\* Late rows go straight below the boundary, each of them once.
Correct ==
  /\ \E B \in (SUBSET Rows) \ {{}} :
       /\ B \cap settled = {}
       /\ \A r \in B : WindowOf[r] < boundary
       /\ settled' = settled \union B
  /\ UNCHANGED <<boundary, open>>

\* The first unsettled window is settled with every open row of it, or with
\* none where there was no partition to scan.  The rows stay open for a while.
Settle ==
  /\ boundary' \in boundary + 1 .. LastWindow + 1
  /\ LET first == {r \in open : WindowOf[r] = boundary}
     IN  settled' = settled \union first \/ settled' = settled
  /\ UNCHANGED open

\* Open rows are given up window by window, and only settled ones.
Release ==
  /\ \E w \in 0 .. boundary - 1 :
       /\ open' = {r \in open : WindowOf[r] # w}
       /\ open \ open' \subseteq settled
  /\ UNCHANGED <<boundary, settled>>

Next == Accept \/ Correct \/ Settle \/ Release

Spec == Init /\ [][Next]_vars
=============================================================================
