----------------------------- MODULE MCReaders -----------------------------
(* Instances of Readers with MCTiering's rows: queries for everything or for what
   starts in the second window, or readers that died and left their pins behind. *)
EXTENDS MCTiering, Readers

CONSTANTS
  Late,     \* the rows delivered after the start, if at all
  LeftPins  \* the pins of readers that are gone

MCRanges == {[from |-> 0, to |-> LastWindow + 1, open |-> TRUE],
             [from |-> 1, to |-> 2, open |-> FALSE]}

\* Each reader planned at the epoch, took its pin when the clock stood at 1, and died.
Deceased == {[by |-> q, at |-> 0, expires |-> 1 + MaxPinAge] : q \in Readers}

\* All rows but the late ones delivered, and the clock at the first window's end.
Loaded ==
  /\ clock = 1
  /\ hot = [w \in Windows |-> {r \in Rows \ Late : WindowOf[r] = w}]
  /\ part = [w \in Windows |-> IF hot[w] # {} THEN "attached" ELSE "absent"]
  /\ reclaimed = 0 /\ snapshot = 0 /\ watermark = 0
  /\ cold = [r \in Rows |-> 0]
  /\ archivedAt = [w \in Windows |-> 0]
  /\ archiveLease = Nobody /\ coldLease = Nobody
  /\ arch = [a \in Archivers |-> NoCycle]
  /\ writer = [p \in Writers |-> NoWrite]
  /\ acked = Rows \ Late /\ streamed = {} /\ passedOver = {}
  /\ pins = LeftPins
  /\ reclaim = [a \in Archivers |-> NoTransaction]
  /\ query = [q \in Readers |-> NoQuery]

LoadedSpec == Loaded /\ [][ReadersNext]_allVars

LoadedFairSpec == LoadedSpec /\ ReadersFairness
=============================================================================
