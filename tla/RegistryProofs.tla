--------------------------- MODULE RegistryProofs ---------------------------
(***************************************************************************)
(* What the subject registry promises, for any number of registrars,       *)
(* erasures and sweeps: every reference is linked or audited, an erased    *)
(* identifier is linked nowhere, and an erasure that committed kept both.  *)
(***************************************************************************)
EXTENDS Registry, SequenceTheorems, TLAPS

-----------------------------------------------------------------------------
(* Types.                                                                    *)

\* What a step makes of the transaction of one process.
LEMMA TransactionType ==
  ASSUME TypeOK, NEW p \in Processes
  PROVE  /\ tx[p] \in Transactions
         /\ tx[p].pc \in Phases /\ tx[p].id \in Subjects \union {None}
         /\ tx[p].ref \in Refs \union {None} /\ tx[p].epoch \in Epochs
         /\ tx[p].todo \subseteq Refs /\ tx[p].held \subseteq Refs
  BY DEF TypeOK, Transactions

LEMMA IdleType == Idle \in Transactions
  BY RegistryAssumption DEF Idle, Transactions, Phases, Epochs

LEMMA EndType ==
  ASSUME TypeOK, NEW p \in Processes, End(p)
  PROVE  tx' \in [Processes -> Transactions]
  BY IdleType DEF TypeOK, End

LEMMA StepType ==
  ASSUME TypeOK, NEW p \in Processes, NEW phase \in Phases, Step(p, phase)
  PROVE  tx' \in [Processes -> Transactions]
  BY TransactionType DEF TypeOK, Step, Transactions

\* A process that leaves the queues leaves queues.
LEMMA LeaveType ==
  ASSUME TypeOK, NEW p \in Processes
  PROVE  Leave(p) \in [Refs -> Seq(Processes)]
<1> SUFFICES ASSUME NEW ref \in Refs, Waits(p, ref)
             PROVE  RemoveAt(queue[ref], Place(p, ref)) \in Seq(Processes)
  BY DEF Leave, TypeOK
<1>1. queue[ref] \in Seq(Processes)
  BY DEF TypeOK
<1>2. Place(p, ref) \in DOMAIN queue[ref]
  BY DEF Waits, Place
<1>3. Place(p, ref) \in 1..Len(queue[ref])
  BY <1>1, <1>2
<1>4. /\ SubSeq(queue[ref], 1, Place(p, ref) - 1) \in Seq(Processes)
      /\ SubSeq(queue[ref], Place(p, ref) + 1, Len(queue[ref])) \in Seq(Processes)
  BY <1>1, <1>3, SubSeqProperties
<1> QED
  BY <1>4, ConcatProperties DEF RemoveAt

\* What an erasure or a sweep leaves on the trail is a trail.
LEMMA TagType ==
  ASSUME TypeOK, NEW e \in Processes
  PROVE  /\ TagOf(e) \in Tags \union {None}
         /\ TagOf(e) # None => /\ TagOf(e).id = tx[e].id /\ tx[e].id \in Subjects
                               /\ ring # <<>> /\ TagOf(e).key = Head(ring)
                               /\ TagOf(e).key \in RingKeys
<1>1. CASE ring = <<>> \/ tx[e].id = None
  BY <1>1 DEF TagOf, Tombstone
<1>2. CASE ring # <<>> /\ tx[e].id # None
  <2>1. Head(ring) = ring[1] /\ 1 \in DOMAIN ring /\ Head(ring) \in Keys
    BY <1>2 DEF TypeOK
  <2>2. TagOf(e) = [key |-> Head(ring), id |-> tx[e].id] /\ tx[e].id \in Subjects
    BY <1>2, TransactionType DEF TagOf, Tombstone
  <2> QED
    BY <1>2, <2>1, <2>2 DEF Tags, RingKeys
<1> QED
  BY <1>1, <1>2

LEMMA TrailType ==
  ASSUME TypeOK, NEW e \in Processes, CommitErase(e)
  PROVE  trail' \subseteq Entries
<1>1. TagOf(e) \in Tags \union {None} /\ trail \subseteq Entries
  BY TagType DEF TypeOK
<1>2. Targets(e) \subseteq Refs
  BY TransactionType DEF Targets
<1>3. Coalesced(Targets(e), TagOf(e)) \subseteq Entries
  BY <1>1 DEF Coalesced, Entries
<1>4. \A ref \in Refs \union {None} : Entry(ref, "request", TagOf(e)) \in Entries
  BY <1>1 DEF Entry, Entries
<1> QED
  BY <1>2, <1>3, <1>4 DEF CommitErase

LEMMA TypeStepRegistrar ==
  ASSUME TypeOK, NEW g \in Registrars, RegistrarInStep(g), Register(g) \/ RegistrarStep(g)
  PROVE  TypeOK'
<1> USE DEF Processes
<1>1. CASE Register(g)
  <2>1. PICK id \in Subjects, epoch \in 0..year :
          tx' = [tx EXCEPT ![g] = [Idle EXCEPT !.pc = "lock", !.id = id, !.epoch = epoch]]
    BY <1>1 DEF Register
  <2>2. epoch \in Epochs
    BY RegistryAssumption DEF TypeOK, Epochs
  <2>3. [Idle EXCEPT !.pc = "lock", !.id = id, !.epoch = epoch] \in Transactions
    BY <2>2, RegistryAssumption DEF Idle, Transactions, Phases
  <2> QED
    BY <1>1, <2>1, <2>3 DEF Register, TypeOK
<1>2. CASE LockForRegister(g)
  <2>1. tx' \in [Processes -> Transactions]
    BY <1>2, StepType DEF LockForRegister, Phases
  <2> QED
    BY <1>2, <2>1 DEF LockForRegister, TypeOK
<1>3. CASE Relookup(g)
  <2>1. tx' \in [Processes -> Transactions]
    BY <1>3, StepType, EndType DEF Relookup, Phases
  <2> QED
    BY <1>3, <2>1 DEF Relookup, TypeOK
<1>4. CASE CheckSuppressed(g)
  <2>1. tx' \in [Processes -> Transactions]
    BY <1>4, StepType, EndType DEF CheckSuppressed, Phases
  <2> QED
    BY <1>4, <2>1 DEF CheckSuppressed, TypeOK
<1>5. CASE Insert(g)
  <2>1. tx' \in [Processes -> Transactions] /\ minted' \in 0..MaxRefs /\ minted + 1 \in Refs
    BY <1>5, EndType, RegistryAssumption DEF Insert, TypeOK, Refs
  <2>2. [ref |-> minted + 1, id |-> tx[g].id, epoch |-> tx[g].epoch] \in Links
    BY <1>5, <2>1, TransactionType DEF Insert, RegistrarInStep, Links
  <2>3. map' \subseteq Links
    BY <1>5, <2>2 DEF Insert, TypeOK
  <2> QED
    BY <1>5, <2>1, <2>3 DEF Insert, TypeOK
<1> QED
  BY <1>1, <1>2, <1>3, <1>4, <1>5 DEF RegistrarStep

LEMMA TypeStepRows ==
  ASSUME TypeOK, NEW p \in Processes, WaitForRow(p) \/ TakeRow(p)
  PROVE  TypeOK'
<1>1. CASE WaitForRow(p)
  <2>1. PICK ref \in NextRows(p) : queue' = [queue EXCEPT ![ref] = Append(@, p)]
    BY <1>1 DEF WaitForRow
  <2>2. ref \in Refs /\ queue[ref] \in Seq(Processes)
    BY TransactionType DEF NextRows, TypeOK
  <2>3. queue' \in [Refs -> Seq(Processes)]
    BY <2>1, <2>2, AppendProperties DEF TypeOK
  <2> QED
    BY <1>1, <2>3 DEF WaitForRow, TypeOK
<1>2. CASE TakeRow(p)
  <2>1. PICK ref \in NextRows(p) :
          tx' = [tx EXCEPT ![p].todo = @ \ {ref},
                           ![p].held = IF Mapped(ref) THEN @ \union {ref} ELSE @]
    BY <1>2 DEF TakeRow
  <2>2. ref \in Refs
    BY TransactionType DEF NextRows
  <2> DEFINE taken == [tx[p] EXCEPT !.todo = @ \ {ref},
                                    !.held = IF Mapped(ref) THEN @ \union {ref} ELSE @]
  <2>3. taken \in Transactions
    BY <2>2, TransactionType DEF Transactions
  <2>4. tx' = [tx EXCEPT ![p] = taken]
    BY <2>1 DEF TypeOK
  <2>5. tx' \in [Processes -> Transactions]
    BY <2>3, <2>4 DEF TypeOK
  <2> QED
    BY <1>2, <2>5, LeaveType DEF TakeRow, TypeOK
<1> QED
  BY <1>1, <1>2

LEMMA TypeStepEraser ==
  ASSUME TypeOK, NEW e \in Erasers, Erase(e) \/ EraserStep(e)
  PROVE  TypeOK'
<1> USE DEF Processes
<1>1. CASE Erase(e)
  <2>1. /\ \A id \in Subjects : [Idle EXCEPT !.pc = "lock", !.id = id] \in Transactions
        /\ \A id \in Subjects, ref \in Refs :
             [Idle EXCEPT !.pc = "lock", !.id = id, !.ref = ref] \in Transactions
        /\ \A ref \in Refs : [Idle EXCEPT !.pc = "write", !.ref = ref] \in Transactions
    BY IdleType DEF Transactions, Phases
  <2>2. \A ref \in 1..minted : ref \in Refs
    BY RegistryAssumption DEF TypeOK, Refs
  <2>3. PICK t \in Transactions : tx' = [tx EXCEPT ![e] = t]
    <3>1. CASE \E id \in Subjects :
                 tx' = [tx EXCEPT ![e] = [Idle EXCEPT !.pc = "lock", !.id = id]]
      BY <2>1, <3>1
    <3>2. CASE \E link \in map :
                 tx' = [tx EXCEPT ![e] = [Idle EXCEPT !.pc = "lock", !.id = link.id, !.ref = link.ref]]
      BY <2>1, <3>2 DEF TypeOK, Links
    <3>3. CASE \E ref \in 1..minted :
                 tx' = [tx EXCEPT ![e] = [Idle EXCEPT !.pc = "write", !.ref = ref]]
      BY <2>1, <2>2, <3>3
    <3> QED
      BY <1>1, <3>1, <3>2, <3>3 DEF Erase
  <2> QED
    BY <1>1, <2>3 DEF Erase, TypeOK
<1>2. CASE LockForErase(e)
  <2>1. tx' \in [Processes -> Transactions]
    BY <1>2, StepType DEF LockForErase, Phases
  <2> QED
    BY <1>2, <2>1 DEF LockForErase, TypeOK
<1>3. CASE SelectEpochs(e)
  <2>1. {link.ref : link \in EveryEpoch(e)} \subseteq Refs
    BY DEF TypeOK, EveryEpoch, Registrations, Links
  <2> DEFINE found == [tx[e] EXCEPT !.pc = "rows", !.todo = {link.ref : link \in EveryEpoch(e)}]
  <2>2. found \in Transactions
    BY <2>1, TransactionType DEF Transactions, Phases
  <2>3. tx' = [tx EXCEPT ![e] = found]
    BY <1>3 DEF SelectEpochs, TypeOK
  <2> QED
    BY <1>3, <2>2, <2>3 DEF SelectEpochs, TypeOK
<1>4. CASE Write(e)
  <2> DEFINE note == Targets(e) = {} /\ ring # <<>> /\ ~Suppressed(tx[e].id)
             written == [tx[e] EXCEPT !.pc = "commit", !.note = note]
  <2>1. written \in Transactions
    BY TransactionType DEF Transactions, Phases
  <2>2. tx' = [tx EXCEPT ![e] = written]
    BY <1>4 DEF Write, TypeOK
  <2> QED
    BY <1>4, <2>1, <2>2 DEF Write, TypeOK
<1>5. CASE CommitErase(e)
  <2>1. tx' \in [Processes -> Transactions] /\ trail' \subseteq Entries
    BY <1>5, EndType, TrailType DEF CommitErase
  <2> QED
    BY <1>5, <2>1 DEF CommitErase, TypeOK
<1> QED
  BY <1>1, <1>2, <1>3, <1>4, <1>5, TypeStepRows DEF EraserStep

LEMMA TypeStepSweeper ==
  ASSUME TypeOK, NEW w \in Sweepers, SweeperStep(w)
  PROVE  TypeOK'
<1> USE DEF Processes
<1>1. CASE Sweep(w)
  <2>1. Boundary \in Epochs
    BY RegistryAssumption DEF TypeOK, Boundary, Epochs
  <2>2. [Idle EXCEPT !.pc = "pick", !.epoch = Boundary] \in Transactions
    BY <2>1, IdleType DEF Idle, Transactions, Phases
  <2> QED
    BY <1>1, <2>2 DEF Sweep, TypeOK
<1>2. CASE PickBatch(w)
  <2>1. {link.ref : link \in Due(tx[w].epoch)} \subseteq Refs
    BY DEF TypeOK, Due, Links
  <2>2. tx' \in [Processes -> Transactions]
    <3>1. CASE End(w)
      BY <3>1, EndType
    <3>2. CASE \E batch \in SUBSET Refs :
                 tx' = [tx EXCEPT ![w].pc = "rows", ![w].todo = batch, ![w].held = {}]
      <4> PICK batch \in SUBSET Refs :
                 tx' = [tx EXCEPT ![w].pc = "rows", ![w].todo = batch, ![w].held = {}]
        BY <3>2
      <4> DEFINE picked == [tx[w] EXCEPT !.pc = "rows", !.todo = batch, !.held = {}]
      <4>1. picked \in Transactions
        BY TransactionType DEF Transactions, Phases
      <4>2. tx' = [tx EXCEPT ![w] = picked]
        BY DEF TypeOK
      <4> QED
        BY <4>1, <4>2 DEF TypeOK
    <3> QED
      BY <1>2, <2>1, <3>1, <3>2 DEF PickBatch
  <2> QED
    BY <1>2, <2>2 DEF PickBatch, TypeOK
<1>3. CASE CommitBatch(w)
  <2>1. \A ref \in Refs : Entry(ref, "retention", None) \in Entries
    BY DEF Entry, Entries
  <2>2. trail' \subseteq Entries
    BY <1>3, <2>1, TransactionType DEF CommitBatch, TypeOK
  <2>3. tx' \in [Processes -> Transactions]
    <3>1. CASE End(w)
      BY <3>1, EndType
    <3>2. CASE tx' = [tx EXCEPT ![w].pc = "pick", ![w].held = {}]
      <4> DEFINE next == [tx[w] EXCEPT !.pc = "pick", !.held = {}]
      <4>1. next \in Transactions
        BY TransactionType DEF Transactions, Phases
      <4>2. tx' = [tx EXCEPT ![w] = next]
        BY <3>2 DEF TypeOK
      <4> QED
        BY <4>1, <4>2 DEF TypeOK
    <3> QED
      BY <1>3, <3>1, <3>2 DEF CommitBatch
  <2> QED
    BY <1>3, <2>2, <2>3 DEF CommitBatch, TypeOK
<1> QED
  BY <1>1, <1>2, <1>3, TypeStepRows DEF SweeperStep

LEMMA TypeStep ==
  ASSUME RegistryCoherent, [Next]_vars
  PROVE  TypeOK'
<1>0. TypeOK /\ \A g \in Registrars : RegistrarInStep(g)
  BY DEF RegistryCoherent
<1>1. ASSUME NEW g \in Registrars, Register(g) \/ RegistrarStep(g)
      PROVE  TypeOK'
  BY <1>0, <1>1, TypeStepRegistrar
<1>2. ASSUME NEW e \in Erasers, Erase(e) \/ EraserStep(e)
      PROVE  TypeOK'
  BY <1>0, <1>2, TypeStepEraser
<1>3. ASSUME NEW w \in Sweepers, SweeperStep(w)
      PROVE  TypeOK'
  BY <1>0, <1>3, TypeStepSweeper
<1>4. ASSUME NEW p \in Processes, Rollback(p) \/ DeadlockAbort(p)
      PROVE  TypeOK'
  <2>1. tx' \in [Processes -> Transactions] /\ queue' \in [Refs -> Seq(Processes)]
    BY <1>0, <1>4, EndType, LeaveType DEF Rollback, DeadlockAbort
  <2> QED
    BY <1>0, <1>4, <2>1, RegistryAssumption DEF Rollback, DeadlockAbort, TypeOK
<1>5. CASE LiftSuppression
  <2>1. trail' \subseteq Entries
    BY <1>0, <1>5 DEF LiftSuppression, TypeOK, Entries
  <2> QED
    BY <1>0, <1>5, <2>1 DEF LiftSuppression, TypeOK
<1>6. CASE NextYear
  BY <1>0, <1>6, RegistryAssumption DEF NextYear, TypeOK, Epochs
<1>7. ASSUME Restart
      PROVE  tx' \in [Processes -> Transactions] /\ queue' \in [Refs -> Seq(Processes)]
  BY <1>7, IdleType DEF Restart
<1>8. CASE RotateKey
  <2>1. Len(ring) + 1 \in Keys /\ ring \in Seq(Keys)
    BY <1>0, <1>8, RegistryAssumption DEF RotateKey, TypeOK, Keys
  <2>2. ring' \in Seq(Keys)
    BY <1>8, <2>1, ConcatProperties DEF RotateKey
  <2> QED
    BY <1>0, <1>7, <1>8, <2>2 DEF RotateKey, TypeOK
<1>9. CASE StopDeclaring
  BY <1>0, <1>7, <1>9 DEF StopDeclaring, TypeOK
<1>10. CASE UNCHANGED vars
  BY <1>0, <1>10 DEF vars, TypeOK
<1> QED
  BY <1>1, <1>2, <1>3, <1>4, <1>5, <1>6, <1>8, <1>9, <1>10 DEF Next

-----------------------------------------------------------------------------
(* Steps that change nothing but what one process is doing.                  *)

\* Every key the trail names is still in the ring, so the check before an insert
\* finds whatever is there.
LEMMA TombstonedIsSuppressed ==
  ASSUME TypeOK, TrailCoherent, NEW id \in Subjects, Tombstoned(id)
  PROVE  Suppressed(id)
<1>1. PICK e \in trail : e.tag # None /\ e.tag.id = id
  BY DEF Tombstoned
<1>2. e.tag \in Tags /\ e.tag.key \in RingKeys
  BY <1>1 DEF TypeOK, Entries, TrailCoherent
<1>3. e.tag = [key |-> e.tag.key, id |-> id]
  BY <1>1, <1>2 DEF Tags
<1> QED
  BY <1>2, <1>3 DEF Suppressed, Tombstones

\* One transaction changes and the others do not.
LEMMA Changed ==
  ASSUME TypeOK, NEW p \in Processes, NEW t, tx' = [tx EXCEPT ![p] = t]
  PROVE  tx'[p] = t /\ \A q \in Processes \ {p} : tx'[q] = tx[q]
  BY DEF TypeOK

\* An erasure that comes to name a reference and an identifier read both from one link.
Claims(p) ==
  tx'[p].ref # None /\ tx'[p].id # None =>
    \/ tx'[p].ref = tx[p].ref /\ tx'[p].id = tx[p].id
    \/ \E link \in map : link.ref = tx'[p].ref /\ link.id = tx'[p].id

LEMMA LocalStep ==
  ASSUME RegistryCoherent, TypeOK', NEW p \in Processes,
         UNCHANGED <<map, trail, ring, minted>>,
         \A q \in Processes \ {p} : tx'[q] = tx[q],
         \A id \in Subjects : HoldsLock(p, id)' => HoldsLock(p, id) \/ LockNaturalId(p, id),
         \A ref \in tx'[p].held :
            Mapped(ref) /\ \A q \in Processes \ {p} : ref \notin tx[q].held,
         p \in Registrars => RegistrarInStep(p)',
         p \in Erasers => EraserInStep(p)' /\ Claims(p),
         p \in Sweepers => SweeperInStep(p)'
  PROVE  RegistryCoherent'
<1> USE DEF RegistryCoherent
<1>1. LinksCoherent' /\ TrailCoherent' /\ LinkedOrAudited' /\ SuppressedIsUnlinked'
  BY DEF LinksCoherent, TrailCoherent, LinkedOrAudited, SuppressedIsUnlinked, Audited,
         RingKeys, Mapped, Resolve, Tombstoned, Registrations
<1>2. LockExclusive'
  <2>1. SUFFICES ASSUME NEW id \in Subjects, NEW q \in Processes, NEW r \in Processes,
                        HoldsLock(q, id)', HoldsLock(r, id)', q # r
                 PROVE  FALSE
    BY DEF LockExclusive
  <2>2. \A other \in Processes \ {p} : HoldsLock(other, id)' = HoldsLock(other, id)
    BY DEF HoldsLock
  <2> QED
    BY <2>1, <2>2 DEF LockExclusive, LockNaturalId
<1>3. RowsCoherent'
  BY DEF RowsCoherent, Mapped, Resolve
<1>4. \A g \in Registrars : RegistrarInStep(g)'
  BY DEF Processes, RegistrarInStep, LookupIn, Tombstoned
<1>5. \A e \in Erasers : EraserInStep(e)'
  BY DEF Processes, EraserInStep, Registrations
<1>6. \A w \in Sweepers : SweeperInStep(w)'
  BY DEF Processes, SweeperInStep
<1>7. ReferencesCoherent'
  <2>1. SUFFICES ASSUME NEW e \in Erasers, tx'[e].ref # None, tx'[e].id # None
                 PROVE  /\ \A entry \in trail : entry.ref = tx'[e].ref /\ entry.tag # None
                                                => entry.tag.id = tx'[e].id
                        /\ \A f \in Erasers : tx'[f].ref = tx'[e].ref
                                                => tx'[f].id \in {None, tx'[e].id}
    BY DEF ReferencesCoherent
  <2>2. \A f \in Erasers, link \in map : link.ref = tx'[f].ref => link.id = tx'[f].id
    BY <1>5 DEF EraserInStep
  <2>3. CASE tx'[e].ref = tx[e].ref /\ tx'[e].id = tx[e].id
    <3>1. \A entry \in trail : entry.ref = tx'[e].ref /\ entry.tag # None
                                => entry.tag.id = tx'[e].id
      BY <2>1, <2>3 DEF ReferencesCoherent
    <3>2. ASSUME NEW f \in Erasers, tx'[f].ref = tx'[e].ref, tx'[f].id # None
          PROVE  tx'[f].id = tx'[e].id
      <4>1. CASE tx'[f].ref = tx[f].ref /\ tx'[f].id = tx[f].id
        BY <2>1, <2>3, <3>2, <4>1 DEF ReferencesCoherent
      <4>2. CASE f = p /\ \E link \in map : link.ref = tx'[p].ref /\ link.id = tx'[p].id
        BY <2>2, <3>2, <4>2
      <4> QED
        BY <2>1, <3>2, <4>1, <4>2 DEF Claims, Processes
    <3> QED
      BY <3>1, <3>2
  <2>4. CASE e = p /\ \E link \in map : link.ref = tx'[p].ref /\ link.id = tx'[p].id
    <3>1. PICK link \in map : link.ref = tx'[e].ref /\ link.id = tx'[e].id
      BY <2>4
    <3>2. link.ref \notin Audited
      BY DEF LinksCoherent, LinkedOrAudited, Mapped, Resolve
    <3>3. \A entry \in trail : entry.ref # tx'[e].ref
      BY <2>1, <3>1, <3>2 DEF Audited
    <3> QED
      BY <2>2, <3>1, <3>3
  <2> QED
    BY <2>1, <2>3, <2>4 DEF Claims, Processes
<1> QED
  BY <1>1, <1>2, <1>3, <1>4, <1>5, <1>6, <1>7

LEMMA SameStep ==
  ASSUME RegistryCoherent, TypeOK', UNCHANGED <<map, trail, ring, minted, tx>>
  PROVE  RegistryCoherent'
<1> USE DEF RegistryCoherent
<1>1. LinksCoherent' /\ TrailCoherent' /\ LinkedOrAudited' /\ SuppressedIsUnlinked'
  BY DEF LinksCoherent, TrailCoherent, LinkedOrAudited, SuppressedIsUnlinked, Audited,
         RingKeys, Mapped, Resolve, Tombstoned, Registrations
<1>2. LockExclusive' /\ RowsCoherent' /\ ReferencesCoherent'
  BY DEF LockExclusive, HoldsLock, RowsCoherent, ReferencesCoherent, Mapped, Resolve
<1>3. /\ \A g \in Registrars : RegistrarInStep(g)'
      /\ \A e \in Erasers : EraserInStep(e)'
      /\ \A w \in Sweepers : SweeperInStep(w)'
  BY DEF RegistrarInStep, EraserInStep, SweeperInStep, LookupIn, Tombstoned, Registrations
<1> QED
  BY <1>1, <1>2, <1>3

\* A transaction that ends without having changed anything.
LEMMA EndStep ==
  ASSUME RegistryCoherent, TypeOK', NEW p \in Processes, End(p),
         UNCHANGED <<map, trail, ring, minted>>
  PROVE  RegistryCoherent'
<1>1. TypeOK
  BY DEF RegistryCoherent
<1>2. tx'[p] = Idle /\ \A q \in Processes \ {p} : tx'[q] = tx[q]
  BY <1>1, Changed DEF End
<1>3. \A link \in map : link.ref # None
  BY <1>1, RegistryAssumption DEF TypeOK, Links
<1>4. p \in Registrars => RegistrarInStep(p)'
  BY <1>2 DEF RegistrarInStep, Idle
<1>5. p \in Erasers => EraserInStep(p)' /\ Claims(p)
  BY <1>2, <1>3 DEF EraserInStep, Claims, Idle
<1>6. p \in Sweepers => SweeperInStep(p)'
  BY <1>2 DEF SweeperInStep, Idle
<1>7. \A id \in Subjects : ~HoldsLock(p, id)'
  BY <1>2 DEF HoldsLock, Idle
<1>8. tx'[p].held = {}
  BY <1>2 DEF Idle
<1> QED
  BY <1>2, <1>4, <1>5, <1>6, <1>7, <1>8, LocalStep

\* A registration up to its insert.
LEMMA RegistrarLocal ==
  ASSUME RegistryCoherent, TypeOK', NEW g \in Registrars,
         Register(g) \/ LockForRegister(g) \/ Relookup(g) \/ CheckSuppressed(g)
  PROVE  RegistryCoherent'
<1>0. /\ TypeOK /\ TrailCoherent /\ RegistrarInStep(g) /\ g \in Processes
      /\ g \notin Erasers /\ g \notin Sweepers /\ UNCHANGED <<map, trail, ring, minted>>
  BY RegistryAssumption DEF RegistryCoherent, Processes, Register, LockForRegister, Relookup,
                            CheckSuppressed
<1>1. CASE Register(g)
  <2>1. PICK id \in Subjects, epoch \in 0..year :
          tx' = [tx EXCEPT ![g] = [Idle EXCEPT !.pc = "lock", !.id = id, !.epoch = epoch]]
    BY <1>1 DEF Register
  <2>2. /\ tx'[g] = [Idle EXCEPT !.pc = "lock", !.id = id, !.epoch = epoch]
        /\ \A q \in Processes \ {g} : tx'[q] = tx[q]
    BY <1>0, <2>1, Changed
  <2>3. tx'[g].pc = "lock" /\ tx'[g].id = id /\ tx'[g].held = {}
    BY <2>2 DEF Idle
  <2>4. RegistrarInStep(g)' /\ \A other \in Subjects : ~HoldsLock(g, other)'
    BY <2>3 DEF RegistrarInStep, HoldsLock
  <2> QED
    BY <1>0, <2>2, <2>3, <2>4, LocalStep
<1>2. ASSUME NEW phase \in {"relookup", "check", "insert"}, Step(g, phase),
             tx[g].pc # "idle",
             tx[g].pc = "lock" => LockNaturalId(g, tx[g].id),
             phase \in {"check", "insert"} => LookupIn(tx[g].id, tx[g].epoch) = {},
             phase = "insert" => ~Tombstoned(tx[g].id)
      PROVE  RegistryCoherent'
  <2>1. /\ tx'[g].pc = phase /\ tx'[g].id = tx[g].id /\ tx'[g].epoch = tx[g].epoch
        /\ tx'[g].held = tx[g].held /\ \A q \in Processes \ {g} : tx'[q] = tx[q]
    BY <1>0, <1>2 DEF Step, TypeOK, Transactions
  <2>2. RegistrarInStep(g)'
    BY <1>0, <1>2, <2>1 DEF RegistrarInStep, LookupIn, Tombstoned
  <2>3. \A id \in Subjects : HoldsLock(g, id)' => HoldsLock(g, id) \/ LockNaturalId(g, id)
    BY <1>2, <2>1 DEF HoldsLock
  <2>4. tx'[g].held = {}
    BY <1>0, <2>1 DEF RegistrarInStep
  <2> QED
    BY <1>0, <2>1, <2>2, <2>3, <2>4, LocalStep
<1>3. CASE LockForRegister(g)
  BY <1>2, <1>3 DEF LockForRegister
<1>4. CASE Relookup(g)
  BY <1>0, <1>2, <1>4, EndStep DEF Relookup
<1>5. CASE CheckSuppressed(g)
  <2>1. ~Suppressed(tx[g].id) => ~Tombstoned(tx[g].id)
    BY <1>0, <1>5, TombstonedIsSuppressed DEF CheckSuppressed, RegistrarInStep
  <2>2. LookupIn(tx[g].id, tx[g].epoch) = {}
    BY <1>0, <1>5 DEF CheckSuppressed, RegistrarInStep
  <2> QED
    BY <1>0, <1>2, <1>5, <2>1, <2>2, EndStep DEF CheckSuppressed
<1> QED
  BY <1>1, <1>3, <1>4, <1>5

\* A row taken by an erasure or a sweep had no holder, and is gone if it was not taken.
LEMMA TakeRowLocal ==
  ASSUME RegistryCoherent, TypeOK', NEW p \in Erasers \union Sweepers, TakeRow(p)
  PROVE  RegistryCoherent'
<1>0. TypeOK /\ p \in Processes /\ p \notin Registrars /\ UNCHANGED <<map, trail, ring, minted>>
  BY RegistryAssumption DEF RegistryCoherent, Processes, TakeRow
<1>1. PICK ref \in NextRows(p) :
        /\ ~Held(ref)
        /\ tx' = [tx EXCEPT ![p].todo = @ \ {ref},
                            ![p].held = IF Mapped(ref) THEN @ \union {ref} ELSE @]
  BY DEF TakeRow
<1>2. /\ tx[p].pc = "rows" /\ tx'[p].pc = "rows" /\ tx'[p].id = tx[p].id
      /\ tx'[p].ref = tx[p].ref /\ tx'[p].todo = tx[p].todo \ {ref}
      /\ tx'[p].held = IF Mapped(ref) THEN tx[p].held \union {ref} ELSE tx[p].held
      /\ \A q \in Processes \ {p} : tx'[q] = tx[q]
  BY <1>0, <1>1 DEF TakeRow, TypeOK, Transactions
<1>3. ASSUME NEW taken \in tx'[p].held
      PROVE  Mapped(taken) /\ \A q \in Processes \ {p} : taken \notin tx[q].held
  <2>1. CASE taken \in tx[p].held
    BY <1>0, <2>1 DEF RegistryCoherent, RowsCoherent
  <2>2. CASE taken = ref /\ Mapped(ref)
    BY <1>1, <2>2 DEF Held
  <2> QED
    BY <1>2, <1>3, <2>1, <2>2
<1>4. p \in Erasers => EraserInStep(p)'
  <2>1. SUFFICES ASSUME p \in Erasers, EraserInStep(p)
                 PROVE  EraserInStep(p)'
    BY DEF RegistryCoherent
  <2>2. ref \in tx[p].todo
    BY DEF NextRows
  <2>3. \A link \in map : link.ref = ref => Mapped(ref)
    BY DEF Mapped, Resolve
  <2>4. \A link \in map : link.ref \in tx[p].todo \union tx[p].held
                          <=> link.ref \in tx'[p].todo \union tx'[p].held
    BY <1>2, <2>2, <2>3
  <2> QED
    BY <1>0, <1>2, <2>1, <2>4 DEF EraserInStep, Registrations
<1>5. p \in Sweepers => SweeperInStep(p)'
  BY <1>2 DEF RegistryCoherent, SweeperInStep
<1>6. Claims(p) /\ \A id \in Subjects : HoldsLock(p, id)' => HoldsLock(p, id)
  BY <1>2 DEF Claims, HoldsLock
<1> QED
  BY <1>0, <1>2, <1>3, <1>4, <1>5, <1>6, LocalStep

\* An erasure up to its commit.
LEMMA EraserLocal ==
  ASSUME RegistryCoherent, TypeOK', NEW e \in Erasers,
         Erase(e) \/ LockForErase(e) \/ SelectEpochs(e) \/ Write(e)
  PROVE  RegistryCoherent'
<1>0. /\ TypeOK /\ LinksCoherent /\ EraserInStep(e) /\ e \in Processes
      /\ e \notin Registrars /\ e \notin Sweepers /\ UNCHANGED <<map, trail, ring, minted>>
  BY RegistryAssumption DEF RegistryCoherent, Processes, Erase, LockForErase, SelectEpochs, Write
<1>n. /\ \A link \in map : link.ref \in 1..minted /\ link.ref # None /\ link.id \in Subjects
                           /\ link.id # None
      /\ \A ref \in 1..minted : ref # None
  BY <1>0, RegistryAssumption DEF LinksCoherent, TypeOK, Links, Refs
<1>1. ASSUME NEW t, tx' = [tx EXCEPT ![e] = t], t.pc \in {"lock", "write"},
             t.held = {}, t.todo = {},
             t.pc = "lock" => t.id \in Subjects,
             t.pc = "write" => t.id = None /\ t.ref # None,
             t.ref # None => t.ref \in 1..minted,
             \A link \in map : link.ref = t.ref => link.id = t.id,
             t.ref # None /\ t.id # None =>
               \E link \in map : link.ref = t.ref /\ link.id = t.id
      PROVE  RegistryCoherent'
  <2>1. tx'[e] = t /\ \A q \in Processes \ {e} : tx'[q] = tx[q]
    BY <1>0, <1>1, Changed
  <2>2. EraserInStep(e)'
    BY <1>0, <1>1, <2>1, RegistryAssumption DEF EraserInStep, Registrations
  <2>3. Claims(e) /\ \A id \in Subjects : ~HoldsLock(e, id)'
    BY <1>1, <2>1, RegistryAssumption DEF Claims, HoldsLock
  <2> QED
    BY <1>0, <1>1, <2>1, <2>2, <2>3, LocalStep
<1>2. CASE Erase(e)
  <2>1. CASE \E id \in Subjects : tx' = [tx EXCEPT ![e] = [Idle EXCEPT !.pc = "lock", !.id = id]]
    <3>1. PICK id \in Subjects : tx' = [tx EXCEPT ![e] = [Idle EXCEPT !.pc = "lock", !.id = id]]
      BY <2>1
    <3> DEFINE t == [Idle EXCEPT !.pc = "lock", !.id = id]
    <3>2. t.pc = "lock" /\ t.id = id /\ t.ref = None /\ t.held = {} /\ t.todo = {}
      BY DEF Idle
    <3> HIDE DEF t
    <3> QED
      BY <1>1, <1>n, <3>1, <3>2 DEF t
  <2>2. CASE \E link \in map :
               tx' = [tx EXCEPT ![e] = [Idle EXCEPT !.pc = "lock", !.id = link.id, !.ref = link.ref]]
    <3>1. PICK link \in map :
            tx' = [tx EXCEPT ![e] = [Idle EXCEPT !.pc = "lock", !.id = link.id, !.ref = link.ref]]
      BY <2>2
    <3> DEFINE t == [Idle EXCEPT !.pc = "lock", !.id = link.id, !.ref = link.ref]
    <3>2. t.pc = "lock" /\ t.id = link.id /\ t.ref = link.ref /\ t.held = {} /\ t.todo = {}
      BY DEF Idle
    <3>3. \A other \in map : other.ref = link.ref => other.id = link.id
      BY <1>0 DEF LinksCoherent
    <3> HIDE DEF t
    <3> QED
      BY <1>1, <1>n, <3>1, <3>2, <3>3 DEF t
  <2>3. CASE \E ref \in 1..minted :
               /\ Resolve(ref) = {}
               /\ tx' = [tx EXCEPT ![e] = [Idle EXCEPT !.pc = "write", !.ref = ref]]
    <3>1. PICK ref \in 1..minted :
            /\ Resolve(ref) = {}
            /\ tx' = [tx EXCEPT ![e] = [Idle EXCEPT !.pc = "write", !.ref = ref]]
      BY <2>3
    <3> DEFINE t == [Idle EXCEPT !.pc = "write", !.ref = ref]
    <3>2. t.pc = "write" /\ t.id = None /\ t.ref = ref /\ t.held = {} /\ t.todo = {}
      BY DEF Idle
    <3>3. \A link \in map : link.ref # ref
      BY <3>1 DEF Resolve
    <3> HIDE DEF t
    <3> QED
      BY <1>1, <1>n, <3>1, <3>2, <3>3 DEF t
  <2> QED
    BY <1>2, <2>1, <2>2, <2>3 DEF Erase
<1>3. CASE LockForErase(e)
  <2>1. /\ tx[e].pc = "lock" /\ LockNaturalId(e, tx[e].id)
        /\ tx'[e].pc = "select" /\ tx'[e].id = tx[e].id /\ tx'[e].ref = tx[e].ref
        /\ tx'[e].todo = tx[e].todo /\ tx'[e].held = tx[e].held
        /\ \A q \in Processes \ {e} : tx'[q] = tx[q]
    BY <1>0, <1>3 DEF LockForErase, Step, TypeOK, Transactions
  <2>2. EraserInStep(e)' /\ Claims(e) /\ tx'[e].held = {}
    BY <1>0, <2>1 DEF EraserInStep, Registrations, Claims
  <2>3. \A id \in Subjects : HoldsLock(e, id)' => LockNaturalId(e, id)
    BY <2>1 DEF HoldsLock
  <2> QED
    BY <1>0, <2>1, <2>2, <2>3, LocalStep
<1>4. CASE SelectEpochs(e)
  <2>1. /\ tx[e].pc = "select"
        /\ tx'[e].pc = "rows" /\ tx'[e].id = tx[e].id /\ tx'[e].ref = tx[e].ref
        /\ tx'[e].todo = {link.ref : link \in EveryEpoch(e)} /\ tx'[e].held = tx[e].held
        /\ \A q \in Processes \ {e} : tx'[q] = tx[q]
    BY <1>0, <1>4 DEF SelectEpochs, TypeOK, Transactions
  <2>2. tx'[e].held = {} /\ tx[e].held = {}
    BY <1>0, <2>1 DEF EraserInStep
  <2>3. /\ \A link \in map : link.ref \in tx'[e].todo <=> link.id = tx[e].id
        /\ tx'[e].todo \subseteq 1..minted
    BY <1>0, <2>1 DEF EveryEpoch, Registrations, LinksCoherent
  <2>4. EraserInStep(e)'
    BY <1>0, <2>1, <2>2, <2>3 DEF EraserInStep, Registrations
  <2>5. Claims(e) /\ \A id \in Subjects : HoldsLock(e, id)' => HoldsLock(e, id)
    BY <2>1 DEF Claims, HoldsLock
  <2> QED
    BY <1>0, <2>1, <2>2, <2>4, <2>5, LocalStep
<1>5. CASE Write(e)
  <2>1. /\ tx[e].pc \in {"rows", "write"} /\ tx[e].todo = {}
        /\ tx'[e].pc = "commit" /\ tx'[e].id = tx[e].id /\ tx'[e].ref = tx[e].ref
        /\ tx'[e].todo = tx[e].todo /\ tx'[e].held = tx[e].held
        /\ \A q \in Processes \ {e} : tx'[q] = tx[q]
    BY <1>0, <1>5 DEF Write, TypeOK, Transactions, EraserInStep
  <2>2. EraserInStep(e)'
    <3>1. tx[e].pc = "write" => \A link \in map : link.id # tx[e].id
      BY <1>0, <1>n DEF EraserInStep
    <3> QED
      BY <1>0, <2>1, <3>1 DEF EraserInStep, Registrations
  <2>3. Claims(e) /\ \A id \in Subjects : HoldsLock(e, id)' => HoldsLock(e, id)
    BY <2>1 DEF Claims, HoldsLock
  <2>4. \A ref \in tx'[e].held : Mapped(ref) /\ \A q \in Processes \ {e} : ref \notin tx[q].held
    BY <1>0, <2>1 DEF RegistryCoherent, RowsCoherent
  <2> QED
    BY <1>0, <2>1, <2>2, <2>3, <2>4, LocalStep
<1> QED
  BY <1>2, <1>3, <1>4, <1>5

\* A sweep between its batches.
LEMMA SweeperLocal ==
  ASSUME RegistryCoherent, TypeOK', NEW w \in Sweepers, Sweep(w) \/ PickBatch(w)
  PROVE  RegistryCoherent'
<1>0. /\ TypeOK /\ SweeperInStep(w) /\ w \in Processes
      /\ w \notin Registrars /\ w \notin Erasers /\ UNCHANGED <<map, trail, ring, minted>>
  BY RegistryAssumption DEF RegistryCoherent, Processes, Sweep, PickBatch
<1>1. ASSUME tx'[w].pc \in {"pick", "rows"}, tx'[w].id = None, tx'[w].ref = None, tx'[w].held = {},
             \A q \in Processes \ {w} : tx'[q] = tx[q]
      PROVE  RegistryCoherent'
  <2>1. SweeperInStep(w)' /\ \A id \in Subjects : ~HoldsLock(w, id)'
    BY <1>1, RegistryAssumption DEF SweeperInStep, HoldsLock
  <2> QED
    BY <1>0, <1>1, <2>1, LocalStep
<1>2. CASE Sweep(w)
  <2>1. /\ tx'[w] = [Idle EXCEPT !.pc = "pick", !.epoch = Boundary]
        /\ \A q \in Processes \ {w} : tx'[q] = tx[q]
    BY <1>0, <1>2, Changed DEF Sweep
  <2>2. tx'[w].pc = "pick" /\ tx'[w].id = None /\ tx'[w].ref = None /\ tx'[w].held = {}
    BY <2>1 DEF Idle
  <2> QED
    BY <1>1, <2>1, <2>2
<1>3. CASE PickBatch(w) /\ ~End(w)
  <2>1. PICK batch : tx' = [tx EXCEPT ![w].pc = "rows", ![w].todo = batch, ![w].held = {}]
    BY <1>3 DEF PickBatch
  <2>2. /\ tx'[w].pc = "rows" /\ tx'[w].id = tx[w].id /\ tx'[w].ref = tx[w].ref /\ tx'[w].held = {}
        /\ \A q \in Processes \ {w} : tx'[q] = tx[q]
    BY <1>0, <2>1 DEF TypeOK, Transactions
  <2> QED
    BY <1>0, <1>1, <2>2 DEF SweeperInStep
<1> QED
  BY <1>0, <1>2, <1>3, EndStep

-----------------------------------------------------------------------------
(* Steps that commit.                                                        *)

\* A new link: its reference is new, and its identifier has no tombstone.
LEMMA InsertStep ==
  ASSUME RegistryCoherent, TypeOK', NEW g \in Registrars, Insert(g)
  PROVE  RegistryCoherent'
<1> USE DEF RegistryCoherent
<1> DEFINE new == [ref |-> minted + 1, id |-> tx[g].id, epoch |-> tx[g].epoch]
<1>0. /\ TypeOK /\ RegistrarInStep(g) /\ tx[g].pc = "insert" /\ g \in Processes
      /\ g \notin Erasers /\ g \notin Sweepers
      /\ minted \in Nat /\ minted' = minted + 1 /\ UNCHANGED <<trail, ring>>
  BY RegistryAssumption DEF Processes, Insert, TypeOK
<1>1. /\ tx[g].id \in Subjects /\ ~Tombstoned(tx[g].id) /\ LookupIn(tx[g].id, tx[g].epoch) = {}
      /\ map' = map \union {new}
  BY <1>0 DEF RegistrarInStep, Insert
<1>2. tx'[g] = Idle /\ \A q \in Processes \ {g} : tx'[q] = tx[q]
  BY <1>0, Changed DEF Insert, End
<1>3. \A link \in map : link.ref # minted + 1 /\ link.ref \in 1..minted
  BY <1>0 DEF LinksCoherent
<1>4. \A ref : Mapped(ref)' <=> Mapped(ref) \/ ref = minted + 1
  <2>1. \A ref : Mapped(ref) <=> \E link \in map : link.ref = ref
    BY DEF Mapped, Resolve
  <2>2. \A ref : Mapped(ref)' <=> \E link \in map' : link.ref = ref
    BY DEF Mapped, Resolve
  <2>3. new.ref = minted + 1
    OBVIOUS
  <2> HIDE DEF new
  <2> QED
    BY <1>1, <2>1, <2>2, <2>3
<1>5. minted + 1 \notin Audited /\ Audited' = Audited
  BY <1>0 DEF TrailCoherent, Audited
<1>6. LinksCoherent' /\ TrailCoherent' /\ LinkedOrAudited'
  <2>1. LinksCoherent'
    BY <1>0, <1>1, <1>3 DEF LinksCoherent
  <2>2. TrailCoherent'
    BY <1>0, <1>5 DEF TrailCoherent, RingKeys
  <2>3. LinkedOrAudited'
    BY <1>0, <1>4, <1>5 DEF LinkedOrAudited
  <2> QED
    BY <2>1, <2>2, <2>3
<1>7. SuppressedIsUnlinked'
  BY <1>0, <1>1 DEF SuppressedIsUnlinked, Tombstoned, Registrations
<1>8. \A q \in Processes : HoldsLock(q, tx[g].id) => q = g
  BY <1>0, <1>1 DEF LockExclusive, HoldsLock
<1>9. LockExclusive' /\ RowsCoherent'
  <2>1. \A q \in Processes, id \in Subjects : HoldsLock(q, id)' => HoldsLock(q, id)
    BY <1>2 DEF HoldsLock, Idle
  <2>2. tx'[g].held = {}
    BY <1>2 DEF Idle
  <2> QED
    BY <1>2, <1>4, <2>1, <2>2 DEF LockExclusive, RowsCoherent
<1>10. ASSUME NEW h \in Registrars
       PROVE  RegistrarInStep(h)'
  <2>1. CASE h = g
    BY <1>2, <2>1 DEF RegistrarInStep, Idle
  <2>2. CASE h # g
    <3>1. RegistrarInStep(h) /\ tx'[h] = tx[h]
      BY <1>2, <2>2 DEF Processes
    <3>2. tx[h].pc \in {"check", "insert"} => tx[h].id # tx[g].id
      BY <1>8, <2>2, <3>1 DEF HoldsLock, Processes
    <3> QED
      BY <1>0, <1>1, <3>1, <3>2 DEF RegistrarInStep, LookupIn, Tombstoned
  <2> QED
    BY <2>1, <2>2
<1>11. ASSUME NEW e \in Erasers
       PROVE  EraserInStep(e)'
  <2>1. EraserInStep(e) /\ tx'[e] = tx[e] /\ e \in Processes /\ e # g
    BY <1>0, <1>2 DEF Processes
  <2>2. tx[e].pc \in {"rows", "commit"} => tx[e].id # tx[g].id
    BY <1>8, <2>1 DEF HoldsLock
  <2>3. tx[e].ref # minted + 1 /\ minted + 1 \notin tx[e].todo
    <3>1. minted + 1 # None /\ minted + 1 \notin 1..minted
      BY <1>0, RegistryAssumption DEF Insert, Refs
    <3> QED
      BY <2>1, <3>1 DEF EraserInStep
  <2>4. minted + 1 \notin tx[e].held
    BY <1>3, <2>1 DEF RowsCoherent, Mapped, Resolve
  <2> QED
    BY <1>0, <1>1, <2>1, <2>2, <2>3, <2>4 DEF EraserInStep, Registrations
<1>12. \A w \in Sweepers : SweeperInStep(w)'
  BY <1>0, <1>2 DEF SweeperInStep, Processes
<1>13. ReferencesCoherent'
  BY <1>0, <1>2 DEF ReferencesCoherent, Processes
<1> QED
  BY <1>6, <1>7, <1>9, <1>10, <1>11, <1>12, <1>13

\* Which references are still linked, and which audited, after `gone` was deleted.
LEMMA DeletedLinks ==
  ASSUME NEW gone, map' = {link \in map : link.ref \notin gone}
  PROVE  \A ref : Mapped(ref)' <=> Mapped(ref) /\ ref \notin gone
<1>1. \A ref : Mapped(ref) <=> \E link \in map : link.ref = ref
  BY DEF Mapped, Resolve
<1>2. \A ref : Mapped(ref)' <=> \E link \in map' : link.ref = ref
  BY DEF Mapped, Resolve
<1> QED
  BY <1>1, <1>2

\* A commit that deletes what it holds and audits it keeps everybody else coherent.
LEMMA CommitKeeps ==
  ASSUME RegistryCoherent, NEW p \in Erasers \union Sweepers,
         map' = {link \in map : link.ref \notin tx[p].held},
         UNCHANGED <<ring, minted>>,
         Audited' = Audited \union tx[p].held,
         \A e \in trail' : e.tag # None => e.tag.key \in RingKeys,
         tx'[p].held = {}, \A q \in Processes \ {p} : tx'[q] = tx[q],
         \A id \in Subjects : ~HoldsLock(p, id)',
         p \in Erasers => tx'[p] = Idle,
         p \in Sweepers => SweeperInStep(p)',
         \A g \in Registrars, id \in Subjects :
            tx[g].pc = "insert" /\ tx[g].id = id /\ Tombstoned(id)' => Tombstoned(id)
  PROVE  /\ LinksCoherent' /\ TrailCoherent' /\ LockExclusive' /\ RowsCoherent'
         /\ \A g \in Registrars : RegistrarInStep(g)'
         /\ \A e \in Erasers : EraserInStep(e)'
         /\ \A w \in Sweepers : SweeperInStep(w)'
         /\ LinkedOrAudited'
<1> USE DEF RegistryCoherent
<1>0. /\ p \in Processes /\ p \notin Registrars /\ TypeOK /\ map' \subseteq map
      /\ tx[p].held \subseteq Refs
  BY RegistryAssumption, TransactionType DEF Processes
<1>1. \A ref : Mapped(ref)' <=> Mapped(ref) /\ ref \notin tx[p].held
  BY DeletedLinks
<1>2. \A ref \in tx[p].held : ref \in 1..minted
  BY <1>0 DEF RowsCoherent, LinksCoherent, Mapped, Resolve
<1>3. LinksCoherent'
  BY <1>0 DEF LinksCoherent
<1>4. TrailCoherent'
  BY <1>2 DEF TrailCoherent, RingKeys
<1>5. LinkedOrAudited'
  BY <1>1 DEF LinkedOrAudited
<1>6. LockExclusive'
  BY DEF LockExclusive, HoldsLock
<1>7. RowsCoherent'
  <2>1. \A q \in Processes : q # p => \A ref \in tx[q].held : ref \notin tx[p].held
    BY <1>0 DEF RowsCoherent
  <2>2. \A q \in Processes : \A ref \in tx'[q].held : Mapped(ref)'
    BY <1>1, <2>1 DEF RowsCoherent
  <2>3. \A q, r \in Processes : q # r => tx'[q].held \cap tx'[r].held = {}
    BY DEF RowsCoherent
  <2> QED
    BY <2>2, <2>3 DEF RowsCoherent
<1>8. ASSUME NEW g \in Registrars
      PROVE  RegistrarInStep(g)'
  <2>1. RegistrarInStep(g) /\ tx'[g] = tx[g]
    BY <1>0 DEF Processes
  <2>2. tx[g].pc = "insert" => ~\E e \in trail' : e.tag # None /\ e.tag.id = tx[g].id
    BY <2>1 DEF RegistrarInStep, Tombstoned
  <2> QED
    BY <1>0, <2>1, <2>2 DEF RegistrarInStep, LookupIn, Tombstoned
<1>9. ASSUME NEW e \in Erasers
      PROVE  EraserInStep(e)'
  <2>1. CASE e = p
    <3>1. \A link \in map' : link.ref # None
      BY <1>0, RegistryAssumption DEF TypeOK, Links
    <3> QED
      BY <2>1, <3>1 DEF EraserInStep, Idle
  <2>2. CASE e # p
    <3>1. EraserInStep(e) /\ tx'[e] = tx[e]
      BY <2>2 DEF Processes
    <3> QED
      BY <1>0, <3>1 DEF EraserInStep, Registrations
  <2> QED
    BY <2>1, <2>2
<1>10. ASSUME NEW w \in Sweepers
       PROVE  SweeperInStep(w)'
  BY DEF SweeperInStep, Processes
<1> QED
  BY <1>3, <1>4, <1>5, <1>6, <1>7, <1>8, <1>9, <1>10

\* What a sweep expires is audited without a tombstone.
LEMMA CommitBatchStep ==
  ASSUME RegistryCoherent, TypeOK', NEW w \in Sweepers, CommitBatch(w)
  PROVE  RegistryCoherent'
<1> DEFINE entries == {Entry(ref, "retention", None) : ref \in tx[w].held \ Audited}
<1>0. /\ TypeOK /\ SweeperInStep(w) /\ w \in Processes /\ w \notin Erasers
      /\ tx[w].held \subseteq Refs /\ UNCHANGED <<ring, minted>>
      /\ map' = {link \in map : link.ref \notin tx[w].held}
      /\ trail' = trail \union entries
  BY RegistryAssumption, TransactionType DEF RegistryCoherent, Processes, CommitBatch
<1>1. \A e \in entries : e.tag = None /\ e.ref \in tx[w].held \ Audited
  BY DEF Entry
<1>2. Audited' = Audited \union tx[w].held
  <2>1. \A ref \in tx[w].held \ Audited : ref # None /\ \E e \in entries : e.ref = ref
    <3>1. \A ref \in tx[w].held : ref # None
      BY <1>0, RegistryAssumption
    <3>2. \A ref : Entry(ref, "retention", None).ref = ref
      BY DEF Entry
    <3> QED
      BY <3>1, <3>2
  <2> HIDE DEF entries
  <2> QED
    BY <1>0, <1>1, <2>1 DEF Audited
<1>3. /\ \A q \in Processes \ {w} : tx'[q] = tx[q]
      /\ tx'[w].held = {} /\ tx'[w].id = None /\ SweeperInStep(w)'
  <2>1. CASE End(w)
    <3>1. tx'[w] = Idle /\ \A q \in Processes \ {w} : tx'[q] = tx[q]
      BY <1>0, <2>1, Changed DEF End
    <3> QED
      BY <3>1 DEF SweeperInStep, Idle
  <2>2. CASE tx' = [tx EXCEPT ![w].pc = "pick", ![w].held = {}]
    <3>1. /\ tx'[w].pc = "pick" /\ tx'[w].held = {}
          /\ tx'[w].id = tx[w].id /\ tx'[w].ref = tx[w].ref
          /\ \A q \in Processes \ {w} : tx'[q] = tx[q]
      BY <1>0, <2>2 DEF TypeOK, Transactions
    <3> QED
      BY <1>0, <3>1 DEF SweeperInStep
  <2> QED
    BY <2>1, <2>2 DEF CommitBatch
<1>4. \A e \in trail' : e.tag # None => e \in trail
  <2> HIDE DEF entries
  <2> QED
    BY <1>0, <1>1
<1>5. \A id : Tombstoned(id)' => Tombstoned(id)
  BY <1>4 DEF Tombstoned
<1>6. /\ LinksCoherent' /\ TrailCoherent' /\ LockExclusive' /\ RowsCoherent'
      /\ \A g \in Registrars : RegistrarInStep(g)'
      /\ \A e \in Erasers : EraserInStep(e)'
      /\ \A v \in Sweepers : SweeperInStep(v)'
      /\ LinkedOrAudited'
  <2>1. \A e \in trail' : e.tag # None => e.tag.key \in RingKeys
    BY <1>4 DEF RegistryCoherent, TrailCoherent
  <2>2. \A id \in Subjects : ~HoldsLock(w, id)'
    BY <1>3, RegistryAssumption DEF HoldsLock
  <2> QED
    BY <1>0, <1>2, <1>3, <1>5, <2>1, <2>2, CommitKeeps
<1>7. SuppressedIsUnlinked'
  BY <1>0, <1>5 DEF RegistryCoherent, SuppressedIsUnlinked, Registrations
<1>8. ReferencesCoherent'
  <2>1. SUFFICES ASSUME NEW e \in Erasers, tx[e].ref # None, tx[e].id # None,
                        NEW entry \in trail', entry.ref = tx[e].ref, entry.tag # None
                 PROVE  entry.tag.id = tx[e].id
    BY <1>0, <1>3 DEF RegistryCoherent, ReferencesCoherent, Processes
  <2> QED
    BY <1>4, <2>1 DEF RegistryCoherent, ReferencesCoherent
<1> QED
  BY <1>6, <1>7, <1>8 DEF RegistryCoherent

\* What an erasure is told of is held by it, or audited already.
LEMMA TargetsOf ==
  ASSUME RegistryCoherent, NEW e \in Erasers, tx[e].pc = "commit"
  PROVE  /\ tx[e].held \subseteq Targets(e) /\ Targets(e) \subseteq tx[e].held \union Audited
         /\ Targets(e) \subseteq tx[e].held \union {tx[e].ref} /\ None \notin Targets(e)
         /\ Targets(e) \subseteq 1..minted
<1> USE DEF RegistryCoherent
<1>0. /\ TypeOK /\ EraserInStep(e) /\ e \in Processes /\ tx[e].held \subseteq Refs
  BY TransactionType DEF Processes
<1>1. \A ref \in tx[e].held : ref # None /\ ref \in 1..minted
  BY <1>0, RegistryAssumption DEF RowsCoherent, LinksCoherent, Mapped, Resolve
<1>2. CASE tx[e].held = {} /\ tx[e].ref # None
  <2>1. Targets(e) = {tx[e].ref} /\ tx[e].ref \in 1..minted /\ tx[e].todo = {}
    BY <1>0, <1>2 DEF Targets, EraserInStep
  <2>2. \A link \in map : link.ref # tx[e].ref
    BY <1>0, <1>2, <2>1 DEF EraserInStep, Registrations
  <2>3. ~Mapped(tx[e].ref)
    BY <2>2 DEF Mapped, Resolve
  <2> QED
    BY <1>2, <2>1, <2>3 DEF LinkedOrAudited
<1>3. CASE ~(tx[e].held = {} /\ tx[e].ref # None)
  BY <1>1, <1>3 DEF Targets
<1> QED
  BY <1>2, <1>3

\* The trail after an erasure: what it said before, and the tag on the targets.
LEMMA ErasedTrail ==
  ASSUME RegistryCoherent, NEW e \in Erasers, CommitErase(e)
  PROVE  /\ Audited' = Audited \union tx[e].held
         /\ \A t \in trail' : t.tag # None =>
              \/ \E old \in trail : old.tag = t.tag /\ old.ref = t.ref
              \/ t.tag = TagOf(e) /\ t.ref \in Targets(e) \union {None}
         /\ \A ref \in Targets(e) \ Audited : \E t \in trail' : t.ref = ref /\ t.tag = TagOf(e)
         /\ \A old \in trail : \E t \in trail' :
              /\ t.ref = old.ref
              /\ old.tag # None => t.tag = old.tag
              /\ old.tag = None /\ old.ref \in Targets(e) => t.tag = TagOf(e)
         /\ tx[e].note => \E t \in trail' : t.tag = TagOf(e)
<1> DEFINE tag      == TagOf(e)
           kept     == Coalesced(Targets(e), tag)
           entries  == {Entry(ref, "request", tag) : ref \in Targets(e) \ Audited}
           nameless == IF tx[e].note THEN {Entry(None, "request", tag)} ELSE {}
<1>1. trail' = kept \union entries \union nameless /\ tx[e].pc = "commit"
  BY DEF CommitErase
<1>2. \A ref : Entry(ref, "request", tag).ref = ref /\ Entry(ref, "request", tag).tag = tag
  BY DEF Entry
<1>o. \A old \in trail : [old EXCEPT !.tag = tag].ref = old.ref /\ [old EXCEPT !.tag = tag].tag = tag
  BY DEF RegistryCoherent, TypeOK, Entries
<1>3. \A t \in kept : \E old \in trail :
         /\ t.ref = old.ref
         /\ t.tag = old.tag \/ (t.tag = tag /\ t.ref \in Targets(e))
  BY <1>o DEF Coalesced
<1>4. ASSUME NEW old \in trail
      PROVE  \E t \in kept :
               /\ t.ref = old.ref
               /\ old.tag # None => t.tag = old.tag
               /\ old.tag = None /\ old.ref \in Targets(e) => t.tag = tag
  <2>1. CASE old.ref \in Targets(e) /\ old.tag = None
    <3>1. [old EXCEPT !.tag = tag] \in kept
      BY <2>1 DEF Coalesced
    <3> QED
      BY <1>o, <2>1, <3>1
  <2>2. CASE ~(old.ref \in Targets(e) /\ old.tag = None)
    <3>1. old \in kept
      BY <2>2 DEF Coalesced
    <3> QED
      BY <2>2, <3>1
  <2> QED
    BY <2>1, <2>2
<1>5. \A t \in entries : t.ref \in Targets(e) /\ t.tag = tag
  BY <1>2
<1>6. \A ref \in Targets(e) \ Audited : \E t \in entries : t.ref = ref /\ t.tag = tag
  BY <1>2
<1>7. \A t \in nameless : t.ref = None /\ t.tag = tag
  BY <1>2
<1>8. tx[e].note => \E t \in nameless : t.tag = tag
  BY <1>2
<1> HIDE DEF tag, kept, entries, nameless
<1>9. Audited' = Audited \union tx[e].held
  <2>1. \A ref : ref \in Audited <=> ref # None /\ \E t \in trail : t.ref = ref
    BY DEF Audited
  <2>2. \A ref : ref \in Audited' <=> ref # None /\ \E t \in trail' : t.ref = ref
    BY DEF Audited
  <2>3. \A ref \in Audited' : ref \in Audited \union Targets(e)
    BY <1>1, <1>3, <1>5, <1>7, <2>1, <2>2
  <2>4. \A ref \in Audited \union Targets(e) : ref \in Audited'
    BY <1>1, <1>4, <1>6, <2>1, <2>2, TargetsOf
  <2> QED
    BY <1>1, <2>3, <2>4, TargetsOf
<1> QED
  BY <1>1, <1>3, <1>4, <1>5, <1>6, <1>7, <1>8, <1>9 DEF tag

LEMMA CommitEraseStep ==
  ASSUME RegistryCoherent, TypeOK', NEW e \in Erasers, CommitErase(e)
  PROVE  /\ RegistryCoherent'
         /\ \A id \in Subjects : id = tx[e].id => Registrations(id)' = {}
<1> USE DEF RegistryCoherent
<1>0. /\ TypeOK /\ EraserInStep(e) /\ e \in Processes /\ e \notin Registrars /\ e \notin Sweepers
      /\ tx[e].pc = "commit" /\ UNCHANGED <<ring, minted>>
      /\ map' = {link \in map : link.ref \notin tx[e].held}
      /\ tx'[e] = Idle /\ \A q \in Processes \ {e} : tx'[q] = tx[q]
  BY RegistryAssumption, Changed DEF Processes, CommitErase, End
<1>1. \A t \in trail' : t.tag # None =>
        \/ \E old \in trail : old.tag = t.tag /\ old.ref = t.ref
        \/ t.tag = TagOf(e) /\ t.ref \in Targets(e) \union {None}
  BY ErasedTrail
<1>2. \A t \in trail' : t.tag # None => t.tag.key \in RingKeys
  BY <1>0, <1>1, TagType DEF TrailCoherent
<1>3. \A id \in Subjects : Tombstoned(id)' => Tombstoned(id) \/ id = tx[e].id
  BY <1>0, <1>1, TagType DEF Tombstoned
<1>4. ASSUME NEW id \in Subjects, id = tx[e].id
      PROVE  {link \in map' : link.id = id} = {}
  <2>1. \A link \in map : link.id = id => link.ref \in tx[e].held
    BY <1>0, <1>4 DEF EraserInStep, Registrations
  <2> QED
    BY <1>0, <2>1
<1>5. ASSUME NEW g \in Registrars, tx[g].pc = "insert"
      PROVE  tx[g].id # tx[e].id
  <2>1. tx[g].id \in Subjects /\ g # e /\ g \in Processes
    BY <1>0, <1>5 DEF RegistrarInStep, Processes
  <2> QED
    BY <1>0, <1>5, <2>1 DEF LockExclusive, HoldsLock
<1>6. /\ LinksCoherent' /\ TrailCoherent' /\ LockExclusive' /\ RowsCoherent'
      /\ \A g \in Registrars : RegistrarInStep(g)'
      /\ \A f \in Erasers : EraserInStep(f)'
      /\ \A w \in Sweepers : SweeperInStep(w)'
      /\ LinkedOrAudited'
  <2>1. tx'[e].held = {} /\ \A id \in Subjects : ~HoldsLock(e, id)'
    BY <1>0 DEF HoldsLock, Idle
  <2>2. \A g \in Registrars, id \in Subjects :
          tx[g].pc = "insert" /\ tx[g].id = id /\ Tombstoned(id)' => Tombstoned(id)
    BY <1>3, <1>5
  <2> QED
    BY <1>0, <1>2, <2>1, <2>2, ErasedTrail, CommitKeeps
<1>7. SuppressedIsUnlinked'
  <2>1. SUFFICES ASSUME NEW id \in Subjects, Tombstoned(id)'
                 PROVE  {link \in map' : link.id = id} = {}
    BY DEF SuppressedIsUnlinked, Registrations
  <2> QED
    BY <1>0, <1>3, <1>4, <2>1 DEF SuppressedIsUnlinked, Registrations
<1>8. ReferencesCoherent'
  <2>1. SUFFICES ASSUME NEW f \in Erasers, f # e, tx[f].ref # None, tx[f].id # None,
                        NEW t \in trail', t.ref = tx[f].ref, t.tag # None
                 PROVE  t.tag.id = tx[f].id
    BY <1>0 DEF ReferencesCoherent, Processes, Idle
  <2>2. CASE \E old \in trail : old.tag = t.tag /\ old.ref = t.ref
    BY <2>1, <2>2 DEF ReferencesCoherent
  <2>3. CASE t.tag = TagOf(e) /\ t.ref \in Targets(e)
    <3>1. t.tag.id = tx[e].id /\ tx[e].id # None
      BY <1>0, <2>1, <2>3, TagType, RegistryAssumption
    <3>2. CASE t.ref = tx[e].ref
      BY <2>1, <3>1, <3>2 DEF ReferencesCoherent
    <3>3. CASE t.ref \in tx[e].held
      <4>1. PICK link \in map : link.ref = t.ref
        BY <1>0, <3>3 DEF RowsCoherent, Mapped, Resolve
      <4>2. link.id = tx[e].id
        BY <1>0, <3>3, <4>1 DEF EraserInStep
      <4>3. link.id = tx[f].id
        BY <2>1, <4>1 DEF EraserInStep
      <4> QED
        BY <3>1, <4>2, <4>3
    <3> QED
      BY <1>0, <2>3, <3>2, <3>3, TargetsOf
  <2> QED
    BY <1>1, <2>1, <2>2, <2>3
<1>9. \A id \in Subjects : id = tx[e].id => Registrations(id)' = {}
  BY <1>4 DEF Registrations
<1> QED
  BY <1>6, <1>7, <1>8, <1>9

\* An erasure that wrote anything under a key leaves a tombstone of its identifier,
\* even where a reference of it was audited before.
LEMMA ErasureSuppresses ==
  ASSUME RegistryCoherent, NEW e \in Erasers, CommitErase(e), NEW id \in Subjects, tx[e].id = id,
         ring # <<>>, Targets(e) # {} \/ tx[e].note
  PROVE  Suppressed(id)'
<1> USE DEF RegistryCoherent
<1>0. /\ TypeOK /\ e \in Processes /\ tx[e].pc = "commit" /\ EraserInStep(e)
      /\ UNCHANGED ring
  BY DEF Processes, CommitErase
<1>1. TagOf(e) = [key |-> Head(ring), id |-> id] /\ Head(ring) \in RingKeys /\ id # None
  <2>1. Head(ring) = ring[1] /\ 1 \in DOMAIN ring
    BY <1>0 DEF TypeOK
  <2>2. id # None
    BY RegistryAssumption
  <2> QED
    BY <2>1, <2>2 DEF TagOf, Tombstone, RingKeys
<1>2. SUFFICES ASSUME \A t \in trail' : ~\E k \in RingKeys : t.tag = [key |-> k, id |-> id]
               PROVE  FALSE
  BY <1>0 DEF Suppressed, Tombstones, RingKeys
<1>3. \A t \in trail' : t.tag # TagOf(e)
  BY <1>1, <1>2
<1>4. PICK ref \in Targets(e) : TRUE
  BY <1>3, ErasedTrail
<1>5. ref \in Audited /\ ref \notin tx[e].held
  BY <1>0, <1>3, <1>4, ErasedTrail, TargetsOf DEF RowsCoherent, LinkedOrAudited
<1>6. ref = tx[e].ref /\ ref # None
  BY <1>0, <1>4, <1>5, TargetsOf
<1>7. PICK old \in trail : old.ref = ref
  BY <1>5 DEF Audited
<1>8. PICK t \in trail' : /\ t.ref = old.ref
                          /\ old.tag # None => t.tag = old.tag
                          /\ old.tag = None => t.tag = TagOf(e)
  BY <1>4, <1>7, ErasedTrail
<1>9. old.tag # None /\ old.tag.id = id /\ old.tag.key \in RingKeys /\ old.tag \in Tags
  BY <1>0, <1>1, <1>3, <1>6, <1>7, <1>8 DEF ReferencesCoherent, TrailCoherent, TypeOK, Entries
<1>10. old.tag = [key |-> old.tag.key, id |-> id]
  BY <1>9 DEF Tags
<1> QED
  BY <1>2, <1>8, <1>9, <1>10

-----------------------------------------------------------------------------
(* The rest of the steps, and what follows.                                  *)

\* Lifting a suppression takes tags off the trail and no entry.
LEMMA LiftStep ==
  ASSUME RegistryCoherent, TypeOK', LiftSuppression
  PROVE  RegistryCoherent'
<1> USE DEF RegistryCoherent
<1>0. TypeOK /\ UNCHANGED <<map, ring, minted, tx>>
  BY DEF LiftSuppression
<1>1. PICK id \in Subjects :
        trail' = {IF e.tag \in Tombstones(id) THEN [e EXCEPT !.tag = None, !.lifted = TRUE]
                  ELSE e : e \in trail}
  BY DEF LiftSuppression
<1>2. \A e \in trail : /\ [e EXCEPT !.tag = None, !.lifted = TRUE].ref = e.ref
                       /\ [e EXCEPT !.tag = None, !.lifted = TRUE].tag = None
  BY <1>0 DEF TypeOK, Entries
<1>3. \A t \in trail' : \E e \in trail : t.ref = e.ref /\ t.tag \in {None, e.tag}
  BY <1>1, <1>2
<1>4. \A e \in trail : \E t \in trail' : t.ref = e.ref
  BY <1>1, <1>2
<1>5. Audited' = Audited
  BY <1>3, <1>4 DEF Audited
<1>6. \A other : Tombstoned(other)' => Tombstoned(other)
  BY <1>3 DEF Tombstoned
<1>7. LinksCoherent' /\ TrailCoherent' /\ LinkedOrAudited'
  <2>1. \A t \in trail' : t.tag # None => t.tag.key \in RingKeys
    BY <1>3 DEF TrailCoherent
  <2> QED
    BY <1>0, <1>5, <2>1 DEF LinksCoherent, TrailCoherent, LinkedOrAudited, Mapped, Resolve, RingKeys
<1>8. LockExclusive' /\ RowsCoherent'
  BY <1>0 DEF LockExclusive, HoldsLock, RowsCoherent, Mapped, Resolve
<1>9. /\ \A g \in Registrars : RegistrarInStep(g)'
      /\ \A e \in Erasers : EraserInStep(e)'
      /\ \A w \in Sweepers : SweeperInStep(w)'
  <2>1. ASSUME NEW g \in Registrars
        PROVE  RegistrarInStep(g)'
    BY <1>0, <1>3 DEF RegistrarInStep, LookupIn, Tombstoned
  <2> QED
    BY <1>0, <2>1 DEF EraserInStep, SweeperInStep, Registrations
<1>10. SuppressedIsUnlinked'
  BY <1>0, <1>6 DEF SuppressedIsUnlinked, Registrations
<1>11. ReferencesCoherent'
  BY <1>0, <1>3 DEF ReferencesCoherent
<1> QED
  BY <1>7, <1>8, <1>9, <1>10, <1>11

\* A restart ends every transaction; a new key joins the ring and none leaves it.
LEMMA RestartStep ==
  ASSUME RegistryCoherent, TypeOK', Restart, RingKeys \subseteq RingKeys',
         UNCHANGED <<map, trail, minted>>
  PROVE  RegistryCoherent'
<1> USE DEF RegistryCoherent
<1>0. TypeOK /\ \A p \in Processes : tx'[p] = Idle
  BY DEF Restart
<1>1. LinksCoherent' /\ LinkedOrAudited' /\ SuppressedIsUnlinked'
  BY DEF LinksCoherent, LinkedOrAudited, SuppressedIsUnlinked, Audited, Mapped, Resolve,
         Tombstoned, Registrations
<1>2. TrailCoherent'
  BY DEF TrailCoherent, Audited
<1>3. LockExclusive' /\ RowsCoherent' /\ ReferencesCoherent'
  BY <1>0 DEF LockExclusive, HoldsLock, RowsCoherent, ReferencesCoherent, Idle, Processes
<1>4. /\ \A g \in Registrars : RegistrarInStep(g)'
      /\ \A w \in Sweepers : SweeperInStep(w)'
  BY <1>0 DEF RegistrarInStep, SweeperInStep, Idle, Processes
<1>5. ASSUME NEW e \in Erasers
      PROVE  EraserInStep(e)'
  <2>1. \A link \in map : link.ref # None
    BY <1>0, RegistryAssumption DEF TypeOK, Links
  <2> QED
    BY <1>0, <2>1 DEF EraserInStep, Idle, Processes
<1> QED
  BY <1>1, <1>2, <1>3, <1>4, <1>5

LEMMA CoherentInit == Init => RegistryCoherent
<1> SUFFICES ASSUME Init
             PROVE  RegistryCoherent
  OBVIOUS
<1> USE DEF Init
<1>1. TypeOK
  BY IdleType, RegistryAssumption, EmptySeq DEF TypeOK, Epochs
<1>2. \A p \in Processes : tx[p] = Idle
  OBVIOUS
<1>3. LinksCoherent /\ TrailCoherent /\ LinkedOrAudited /\ SuppressedIsUnlinked
  BY DEF LinksCoherent, TrailCoherent, LinkedOrAudited, SuppressedIsUnlinked, Audited, Tombstoned
<1>4. LockExclusive /\ RowsCoherent /\ ReferencesCoherent
  BY <1>2 DEF LockExclusive, HoldsLock, RowsCoherent, ReferencesCoherent, Idle, Processes
<1>5. /\ \A g \in Registrars : RegistrarInStep(g)
      /\ \A e \in Erasers : EraserInStep(e)
      /\ \A w \in Sweepers : SweeperInStep(w)
  BY <1>2 DEF RegistrarInStep, EraserInStep, SweeperInStep, Idle, Processes
<1> QED
  BY <1>1, <1>3, <1>4, <1>5 DEF RegistryCoherent

LEMMA CoherentStep ==
  ASSUME RegistryCoherent, [Next]_vars
  PROVE  RegistryCoherent'
<1>0. TypeOK /\ TypeOK'
  BY TypeStep DEF RegistryCoherent
<1>1. ASSUME NEW g \in Registrars, Register(g) \/ RegistrarStep(g)
      PROVE  RegistryCoherent'
  BY <1>0, <1>1, RegistrarLocal, InsertStep DEF RegistrarStep
<1>2. ASSUME NEW p \in Erasers \union Sweepers, WaitForRow(p)
      PROVE  RegistryCoherent'
  BY <1>0, <1>2, SameStep DEF WaitForRow
<1>3. ASSUME NEW e \in Erasers, Erase(e) \/ EraserStep(e)
      PROVE  RegistryCoherent'
  BY <1>0, <1>2, <1>3, EraserLocal, TakeRowLocal, CommitEraseStep DEF EraserStep
<1>4. ASSUME NEW w \in Sweepers, SweeperStep(w)
      PROVE  RegistryCoherent'
  BY <1>0, <1>2, <1>4, SweeperLocal, TakeRowLocal, CommitBatchStep DEF SweeperStep
<1>5. ASSUME NEW p \in Processes, Rollback(p) \/ DeadlockAbort(p)
      PROVE  RegistryCoherent'
  BY <1>0, <1>5, EndStep DEF Rollback, DeadlockAbort
<1>6. CASE LiftSuppression
  BY <1>0, <1>6, LiftStep
<1>7. CASE NextYear \/ UNCHANGED vars
  BY <1>0, <1>7, SameStep DEF NextYear, vars
<1>8. CASE RotateKey
  <2>1. RingKeys \subseteq RingKeys'
    <3> DEFINE new == <<Len(ring) + 1>>
    <3>1. ring \in Seq(Keys) /\ Keys \subseteq Nat /\ Len(ring) \in Nat
      BY <1>0 DEF TypeOK, Keys
    <3>2. ring \in Seq(Nat)
      BY <3>1, SeqMonotonic
    <3>3. new \in Seq(Nat) /\ Len(new) = 1
      BY <3>1
    <3>4. ring' = new \o ring
      BY <1>8 DEF RotateKey
    <3> HIDE DEF new
    <3>c. /\ new \o ring \in Seq(Nat) /\ Len(new \o ring) = Len(new) + Len(ring)
          /\ \A i \in 1..(Len(new) + Len(ring)) :
               (new \o ring)[i] = IF i <= Len(new) THEN new[i] ELSE ring[i - Len(new)]
      BY <3>2, <3>3, ConcatProperties
    <3>5. /\ ring' \in Seq(Nat) /\ Len(ring') = 1 + Len(ring)
          /\ \A i \in 1..(1 + Len(ring)) : ring'[i] = IF i <= 1 THEN new[i] ELSE ring[i - 1]
      BY <3>3, <3>4, <3>c
    <3>6. \A i \in DOMAIN ring : i + 1 \in DOMAIN ring' /\ ring'[i + 1] = ring[i]
      BY <3>1, <3>5
    <3> QED
      BY <3>6 DEF RingKeys
  <2> QED
    BY <1>0, <1>8, <2>1, RestartStep DEF RotateKey
<1>9. CASE StopDeclaring
  BY <1>0, <1>9, RestartStep DEF StopDeclaring, RingKeys
<1> QED
  BY <1>1, <1>3, <1>4, <1>5, <1>6, <1>7, <1>8, <1>9 DEF Next

\* Every state the registry comes to is coherent, for any number of identifiers,
\* keys, years and processes.
THEOREM RegistryCoherentAlways == Spec => []RegistryCoherent
<1>1. Init => RegistryCoherent
  BY CoherentInit
<1>2. RegistryCoherent /\ [Next]_vars => RegistryCoherent'
  BY CoherentStep
<1> QED
  BY <1>1, <1>2, PTL DEF Spec

\* No reference is ever both live and audited, or neither (erase_linkage,
\* expire_epochs_before).
THEOREM LinkedOrAuditedAlways == Spec => []LinkedOrAudited
<1>1. RegistryCoherent => LinkedOrAudited
  BY DEF RegistryCoherent
<1> QED
  BY <1>1, RegistryCoherentAlways, PTL

\* No registration slips past an erasure (lock_natural_id, suppressed_on).
THEOREM SuppressedIsUnlinkedAlways == Spec => []SuppressedIsUnlinked
<1>1. RegistryCoherent => SuppressedIsUnlinked
  BY DEF RegistryCoherent
<1> QED
  BY <1>1, RegistryCoherentAlways, PTL

\* The commit of an erasure leaves its identifier unlinked in every year, and kept out
\* where there is a key to keep it out with (erase_linkage).
THEOREM ErasureHonouredAlways == Spec => ErasureHonoured
<1>1. ASSUME RegistryCoherent, [Next]_vars,
             NEW e \in Erasers, NEW id \in Subjects, tx[e].id = id, CommitErase(e)
      PROVE  /\ Registrations(id)' = {}
             /\ ring # <<>> /\ (Targets(e) # {} \/ tx[e].note) => Suppressed(id)'
  <2>1. TypeOK'
    BY <1>1, TypeStep
  <2> QED
    BY <1>1, <2>1, CommitEraseStep, ErasureSuppresses
<1>2. RegistryCoherent /\ [Next]_vars =>
        [\A e \in Erasers, id \in Subjects : tx[e].id = id /\ CommitErase(e) =>
           /\ Registrations(id)' = {}
           /\ ring # <<>> /\ (Targets(e) # {} \/ tx[e].note) => Suppressed(id)']_vars
  BY <1>1
<1> QED
  BY <1>2, RegistryCoherentAlways, PTL DEF Spec, ErasureHonoured
=============================================================================
