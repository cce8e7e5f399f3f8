----------------------------- MODULE MCTiering -----------------------------
(* Small instances of Tiering: the rows and the deliveries that carry them. *)
EXTENDS Tiering, TLC

CONSTANTS r0, r1, p1, p2

\* One row in the first window, strictly inside it, and one that starts the
\* second.
MCRows      == {r0, r1}
MCWindowOf  == (r0 :> 0) @@ (r1 :> 1)
MCUnaligned == {r0}

\* A delivery that can straddle the boundary, and one that is a part of it sent
\* again on its own.
EarlyAndBoth == {{r0}, {r0, r1}}
Early        == {{r0}}
Every        == {{r0}, {r1}, {r0, r1}}
Both         == {{r0, r1}}

MCAppenders == {p1, p2}

\* Appenders are interchangeable: no definition names one.
Symmetry == Permutations(MCAppenders)
=============================================================================
