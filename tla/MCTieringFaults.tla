-------------------------- MODULE MCTieringFaults --------------------------
(* The instances of MCTiering with leases that can be lost. *)
EXTENDS MCTiering, TieringFaults

CONSTANTS a1, a2

MCArchivers == {a1, a2}

\* Archivers are interchangeable, for the same reason.
ArchiverSymmetry == Permutations(MCArchivers)
=============================================================================
