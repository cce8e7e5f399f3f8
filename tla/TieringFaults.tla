--------------------------- MODULE TieringFaults ---------------------------
(***************************************************************************)
(* Tiering when a database session dies under the process that took a      *)
(* lease on it.  A lease is a session-scoped advisory lock: PostgreSQL     *)
(* frees it with the session, while the run that took it reads and writes  *)
(* through other connections of the pool and never asks for it again.      *)
(***************************************************************************)
EXTENDS Tiering

LoseArchiveLease ==
  /\ archiveLease # Nobody
  /\ archiveLease' = Nobody
  /\ UNCHANGED <<clock, hotVars, coldVars, coldLease, arch, writer, aux>>

LoseColdLease ==
  /\ coldLease # Nobody
  /\ coldLease' = Nobody
  /\ UNCHANGED <<clock, hotVars, coldVars, archiveLease, arch, writer, aux>>

FaultyNext == Next \/ LoseArchiveLease \/ LoseColdLease

FaultySpec == Init /\ [][FaultyNext]_vars
=============================================================================
