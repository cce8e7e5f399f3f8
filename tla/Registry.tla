------------------------------ MODULE Registry ------------------------------
(***************************************************************************)
(* The subject registry: the mapping between natural identifiers and the   *)
(* references stored on readings, the audit trail of what was destroyed,   *)
(* and the suppression list that keeps an erased identifier out.  A        *)
(* registration, an erasure and a retention sweep are transactions at READ *)
(* COMMITTED: each statement sees what is committed when it starts, a row  *)
(* being deleted is locked until its transaction ends, and one advisory    *)
(* lock per identifier orders registrations and erasures of it.            *)
(***************************************************************************)
EXTENDS Naturals, Sequences, FiniteSets, SequencesExt

CONSTANTS
  Subjects,    \* natural identifiers
  MaxKeys,     \* bound: erasure keys a deployment ever has, numbered as they come
  Registrars, Erasers, Sweepers,  \* processes, by what they run
  LastYear,    \* bound: the last year the clock reaches
  Years,       \* Retention::CalendarYears
  SweepBatch,  \* SWEEP_BATCH
  MaxRefs,     \* bound: references minted
  MaxAborts,   \* bound: transactions lost to a crash or to their caller
  None         \* no process, subject, reference or key

Processes == Registrars \union Erasers \union Sweepers
Epochs == 0..LastYear
Refs   == 1..MaxRefs
Keys   == 1..MaxKeys

ASSUME RegistryAssumption ==
  /\ None \notin Processes \union Subjects \union Refs
  /\ None \notin [key : Keys, id : Subjects]
  /\ LastYear \in Nat /\ Years \in Nat /\ SweepBatch \in Nat \ {0}
  /\ MaxKeys \in Nat /\ MaxRefs \in Nat /\ MaxAborts \in Nat
  /\ IsFiniteSet(Subjects)
  /\ Registrars \cap Erasers = {} /\ Registrars \cap Sweepers = {}
  /\ Erasers \cap Sweepers = {}

VARIABLES
  map,       \* meterstore_subject_map
  trail,     \* meterstore_erasures
  ring,      \* the key ring, the writing key first
  declared,  \* whether some table declares a subject column
  year,      \* the year now falls in
  minted,    \* references handed out so far
  tx,        \* tx[p]: what process p is doing and has not committed
  queue,     \* queue[ref]: who waits for the row of ref, in order
  aborts     \* crashes so far, for their bound

vars == <<map, trail, ring, declared, year, minted, tx, queue, aborts>>

\* A tag is the hash of an identifier under a key, stored with the key's name.
Tags    == [key : Keys, id : Subjects]
Links   == [ref : Refs, id : Subjects, epoch : Epochs]
Entries == [ref : Refs \union {None}, trigger : {"request", "retention"},
            tag : Tags \union {None}, lifted : BOOLEAN]

Phases == {"idle", "lock", "relookup", "check", "insert",
           "select", "rows", "write", "commit", "pick"}

Transactions == [pc : Phases, id : Subjects \union {None}, ref : Refs \union {None},
                 epoch : Epochs, todo : SUBSET Refs, held : SUBSET Refs, note : BOOLEAN]

Idle == [pc |-> "idle", id |-> None, ref |-> None, epoch |-> 0,
         todo |-> {}, held |-> {}, note |-> FALSE]

TypeOK ==
  /\ map \subseteq Links /\ trail \subseteq Entries
  /\ ring \in Seq(Keys) /\ declared \in BOOLEAN
  /\ year \in Epochs /\ minted \in 0..MaxRefs /\ aborts \in 0..MaxAborts
  /\ tx \in [Processes -> Transactions]
  /\ queue \in [Refs -> Seq(Processes)]

Init ==
  /\ map = {} /\ trail = {} /\ ring = <<>> /\ declared = TRUE
  /\ year = 0 /\ minted = 0 /\ aborts = 0
  /\ tx = [p \in Processes |-> Idle]
  /\ queue = [ref \in Refs |-> <<>>]

-----------------------------------------------------------------------------
(* Lookups.                                                                 *)

RingKeys == {ring[i] : i \in DOMAIN ring}

LookupIn(id, epoch) == {link \in map : link.id = id /\ link.epoch = epoch}
Registrations(id)   == {link \in map : link.id = id}
Resolve(ref)        == {link \in map : link.ref = ref}

Tombstone(id)  == IF ring = <<>> THEN None ELSE [key |-> Head(ring), id |-> id]
Tombstones(id) == {[key |-> k, id |-> id] : k \in RingKeys}

SuppressedByWriter(id) == \E e \in trail : e.tag = Tombstone(id) /\ e.tag # None

Suppressed(id) == \E e \in trail : e.tag \in Tombstones(id)

\* Every process that has the advisory lock of an identifier is past "lock".
HoldsLock(p, id) == tx[p].id = id /\ tx[p].pc \notin {"idle", "lock"}

LockNaturalId(p, id) == \A q \in Processes \ {p} : ~HoldsLock(q, id)

\* A row another transaction has deleted or selected FOR UPDATE makes the next one
\* wait, behind those who wait already.
Held(ref)     == \E p \in Processes : ref \in tx[p].held
Waits(p, ref) == \E i \in DOMAIN queue[ref] : queue[ref][i] = p
Waiting(p)    == \E ref \in Refs : Waits(p, ref)

\* Nobody waits for a row twice.
Place(p, ref) == CHOOSE i \in DOMAIN queue[ref] : queue[ref][i] = p
Leave(p) == [ref \in Refs |-> IF Waits(p, ref) THEN RemoveAt(queue[ref], Place(p, ref))
                              ELSE queue[ref]]

Step(p, phase) == tx' = [tx EXCEPT ![p].pc = phase]
End(p)         == tx' = [tx EXCEPT ![p] = Idle]

-----------------------------------------------------------------------------
(* register_in_epoch                                                        *)

\* The fast path returns what is mapped without a transaction and changes nothing.
Register(g) ==
  /\ tx[g].pc = "idle"
  /\ minted + Cardinality({h \in Registrars : tx[h].pc # "idle"}) < MaxRefs
  /\ \E id \in Subjects, epoch \in 0..year :
       /\ LookupIn(id, epoch) = {}
       /\ tx' = [tx EXCEPT ![g] = [Idle EXCEPT !.pc = "lock", !.id = id, !.epoch = epoch]]
  /\ UNCHANGED <<map, trail, ring, declared, year, minted, queue, aborts>>

LockForRegister(g) ==
  /\ tx[g].pc = "lock" /\ LockNaturalId(g, tx[g].id)
  /\ Step(g, "relookup")
  /\ UNCHANGED <<map, trail, ring, declared, year, minted, queue, aborts>>

Relookup(g) ==
  /\ tx[g].pc = "relookup"
  /\ IF LookupIn(tx[g].id, tx[g].epoch) = {} THEN Step(g, "check") ELSE End(g)
  /\ UNCHANGED <<map, trail, ring, declared, year, minted, queue, aborts>>

CheckSuppressed(g) ==
  /\ tx[g].pc = "check"
  /\ IF Suppressed(tx[g].id) THEN End(g) ELSE Step(g, "insert")
  /\ UNCHANGED <<map, trail, ring, declared, year, minted, queue, aborts>>

\* The insert keeps a link that is already there, and commits.
Insert(g) ==
  /\ tx[g].pc = "insert" /\ minted < MaxRefs
  /\ minted' = minted + 1
  /\ map' = IF LookupIn(tx[g].id, tx[g].epoch) = {}
              THEN map \union {[ref |-> minted + 1, id |-> tx[g].id, epoch |-> tx[g].epoch]}
              ELSE map
  /\ End(g)
  /\ UNCHANGED <<trail, ring, declared, year, queue, aborts>>

-----------------------------------------------------------------------------
(* erase_linkage                                                            *)

\* The identifier is named by the request, or read from the mapping without a
\* lock.  A reference that resolves to nothing has nobody to lock or look for.
Erase(e) ==
  /\ tx[e].pc = "idle"
  /\ \/ \E id \in Subjects :
          tx' = [tx EXCEPT ![e] = [Idle EXCEPT !.pc = "lock", !.id = id]]
     \/ \E link \in map :
          tx' = [tx EXCEPT ![e] = [Idle EXCEPT !.pc = "lock", !.id = link.id, !.ref = link.ref]]
     \/ \E ref \in 1..minted :
          /\ Resolve(ref) = {}
          /\ tx' = [tx EXCEPT ![e] = [Idle EXCEPT !.pc = "write", !.ref = ref]]
  /\ UNCHANGED <<map, trail, ring, declared, year, minted, queue, aborts>>

LockForErase(e) ==
  /\ tx[e].pc = "lock" /\ LockNaturalId(e, tx[e].id)
  /\ Step(e, "select")
  /\ UNCHANGED <<map, trail, ring, declared, year, minted, queue, aborts>>

NamedEpochOnly(e) ==
  IF tx[e].ref = None THEN Registrations(tx[e].id) ELSE Resolve(tx[e].ref)

EveryEpoch(e) == Registrations(tx[e].id)

\* SELECT ... FOR UPDATE: the rows the statement finds, to be locked one by one.
SelectEpochs(e) ==
  /\ tx[e].pc = "select"
  /\ tx' = [tx EXCEPT ![e].pc = "rows", ![e].todo = {link.ref : link \in EveryEpoch(e)}]
  /\ UNCHANGED <<map, trail, ring, declared, year, minted, queue, aborts>>

EpochOf(ref) == (CHOOSE link \in map : link.ref = ref).epoch

Mapped(ref) == Resolve(ref) # {}

\* An erasure takes its rows in the order of their epochs, a sweep in any.
NextRows(p) ==
  {ref \in tx[p].todo : p \in Erasers /\ Mapped(ref) =>
     \A other \in tx[p].todo : Mapped(other) => EpochOf(ref) <= EpochOf(other)}

WaitForRow(p) ==
  /\ tx[p].pc = "rows" /\ ~Waiting(p)
  /\ \E ref \in NextRows(p) :
       /\ Held(ref) \/ queue[ref] # <<>>
       /\ queue' = [queue EXCEPT ![ref] = Append(@, p)]
  /\ UNCHANGED <<map, trail, ring, declared, year, minted, tx, aborts>>

\* A row that is gone by the time its turn comes is skipped.
TakeRow(p) ==
  /\ tx[p].pc = "rows"
  /\ \E ref \in NextRows(p) :
       /\ ~Held(ref)
       /\ IF Waiting(p) THEN queue[ref] # <<>> /\ Head(queue[ref]) = p ELSE queue[ref] = <<>>
       /\ tx' = [tx EXCEPT ![p].todo = @ \ {ref},
                           ![p].held = IF Mapped(ref) THEN @ \union {ref} ELSE @]
  /\ queue' = Leave(p)
  /\ UNCHANGED <<map, trail, ring, declared, year, minted, aborts>>

NamedReference(e) == IF tx[e].ref # None THEN {tx[e].ref} ELSE tx[e].held

Targets(e) ==
  IF tx[e].held = {} /\ tx[e].ref # None THEN {tx[e].ref} ELSE tx[e].held

\* What the request leaves when no link is found: `note` is the tombstone of an
\* identifier without a row, written only when no key of the ring has one.
Write(e) ==
  /\ \/ tx[e].pc = "rows" /\ tx[e].todo = {}
     \/ tx[e].pc = "write"
  /\ tx' = [tx EXCEPT ![e].pc = "commit",
                      ![e].note = Targets(e) = {} /\ ring # <<>> /\ ~Suppressed(tx[e].id)]
  /\ UNCHANGED <<map, trail, ring, declared, year, minted, queue, aborts>>

TagOf(e) == IF tx[e].id = None THEN None ELSE Tombstone(tx[e].id)

Entry(ref, trigger, tag) == [ref |-> ref, trigger |-> trigger, tag |-> tag, lifted |-> FALSE]

\* A row of the trail keeps what it says and a tombstone it has.
Coalesced(refs, tag) ==
  {IF e.ref \in refs /\ e.tag = None THEN [e EXCEPT !.tag = tag] ELSE e : e \in trail}

Audited == {e.ref : e \in trail} \ {None}

\* The deletion and its audit commit together.
CommitErase(e) ==
  /\ tx[e].pc = "commit"
  /\ map' = {link \in map : link.ref \notin tx[e].held}
  /\ trail' = Coalesced(Targets(e), TagOf(e))
                \union {Entry(ref, "request", TagOf(e)) : ref \in Targets(e) \ Audited}
                \union (IF tx[e].note THEN {Entry(None, "request", TagOf(e))} ELSE {})
  /\ End(e)
  /\ UNCHANGED <<ring, declared, year, minted, queue, aborts>>

\* lift_suppression: one statement, without the identifier's lock.
LiftSuppression ==
  /\ \E id \in Subjects :
       /\ Suppressed(id)
       /\ trail' = {IF e.tag \in Tombstones(id) THEN [e EXCEPT !.tag = None, !.lifted = TRUE]
                    ELSE e : e \in trail}
  /\ UNCHANGED <<map, ring, declared, year, minted, tx, queue, aborts>>

-----------------------------------------------------------------------------
(* expire_epochs_before, run by every replica's maintenance loop            *)

BoundaryAYearEarly == IF year > Years + 1 THEN year - Years - 1 ELSE 0

\* The first epoch kept: sweep_boundary of Retention::cutoff, saturating at the bottom.
Boundary == IF year > Years THEN year - Years ELSE 0

Due(before) == {link \in map : link.epoch < before}

\* anonymise_across refuses when it meets no store that declares a subject column.
Sweep(w) ==
  /\ tx[w].pc = "idle" /\ declared /\ Due(Boundary) # {}
  /\ tx' = [tx EXCEPT ![w] = [Idle EXCEPT !.pc = "pick", !.epoch = Boundary]]
  /\ UNCHANGED <<map, trail, ring, declared, year, minted, queue, aborts>>

PickBatch(w) ==
  /\ tx[w].pc = "pick"
  /\ LET due == {link.ref : link \in Due(tx[w].epoch)}
     IN  IF due = {} THEN End(w)
         ELSE \E batch \in SUBSET due :
                /\ Cardinality(batch) = SweepBatch \/ (batch = due /\ Cardinality(due) < SweepBatch)
                /\ tx' = [tx EXCEPT ![w].pc = "rows", ![w].todo = batch, ![w].held = {}]
  /\ UNCHANGED <<map, trail, ring, declared, year, minted, queue, aborts>>

\* An expiry is audited and suppresses nothing.  A batch that came back short is
\* taken for the last one.
CommitBatch(w) ==
  /\ tx[w].pc = "rows" /\ tx[w].todo = {}
  /\ map' = {link \in map : link.ref \notin tx[w].held}
  /\ trail' = trail \union {Entry(ref, "retention", None) : ref \in tx[w].held \ Audited}
  /\ IF Cardinality(tx[w].held) < SweepBatch
       THEN End(w)
       ELSE tx' = [tx EXCEPT ![w].pc = "pick", ![w].held = {}]
  /\ UNCHANGED <<ring, declared, year, minted, queue, aborts>>

-----------------------------------------------------------------------------
(* What happens to transactions and to the deployment.                      *)

\* A crash, a lost connection, or a caller that rolls back a transaction it owns.
Rollback(p) ==
  /\ tx[p].pc # "idle" /\ aborts < MaxAborts
  /\ aborts' = aborts + 1
  /\ End(p) /\ queue' = Leave(p)
  /\ UNCHANGED <<map, trail, ring, declared, year, minted>>

Deadlocked(p) ==
  \E circle \in SUBSET Processes :
    /\ p \in circle
    /\ \A q \in circle : \E other \in circle : \E ref \in tx[other].held : Waits(q, ref)

\* PostgreSQL ends one of the transactions that wait for each other with an error.
DeadlockAbort(p) ==
  /\ Deadlocked(p)
  /\ End(p) /\ queue' = Leave(p)
  /\ UNCHANGED <<map, trail, ring, declared, year, minted, aborts>>

NextYear ==
  /\ year < LastYear
  /\ year' = year + 1
  /\ UNCHANGED <<map, trail, ring, declared, minted, tx, queue, aborts>>

\* The ring and the tables are configuration: a change of them restarts every process.
Restart == tx' = [p \in Processes |-> Idle] /\ queue' = [ref \in Refs |-> <<>>]

RotateKey ==
  /\ Len(ring) < MaxKeys
  /\ ring' = <<Len(ring) + 1>> \o ring
  /\ Restart
  /\ UNCHANGED <<map, trail, declared, year, minted, aborts>>

StopDeclaring ==
  /\ declared
  /\ declared' = FALSE
  /\ Restart
  /\ UNCHANGED <<map, trail, ring, year, minted, aborts>>

RegistrarStep(g) ==
  LockForRegister(g) \/ Relookup(g) \/ CheckSuppressed(g) \/ Insert(g)

EraserStep(e) ==
  LockForErase(e) \/ SelectEpochs(e) \/ WaitForRow(e) \/ TakeRow(e) \/ Write(e) \/ CommitErase(e)

SweeperStep(w) == Sweep(w) \/ PickBatch(w) \/ WaitForRow(w) \/ TakeRow(w) \/ CommitBatch(w)

Next ==
  \/ \E g \in Registrars : Register(g) \/ RegistrarStep(g)
  \/ \E e \in Erasers : Erase(e) \/ EraserStep(e)
  \/ \E w \in Sweepers : SweeperStep(w)
  \/ \E p \in Processes : Rollback(p) \/ DeadlockAbort(p)
  \/ LiftSuppression \/ NextYear \/ RotateKey \/ StopDeclaring

Spec == Init /\ [][Next]_vars

\* A transaction that can go on does, PostgreSQL ends a deadlock, and every
\* maintenance loop comes round to the sweep.  Nobody has to register or to erase.
Fairness ==
  /\ \A g \in Registrars : WF_vars(RegistrarStep(g))
  /\ \A e \in Erasers : WF_vars(EraserStep(e))
  /\ \A w \in Sweepers : WF_vars(SweeperStep(w))
  /\ WF_vars(\E p \in Processes : DeadlockAbort(p))

FairSpec == Spec /\ Fairness

-----------------------------------------------------------------------------
(* What the registry promises.                                              *)

\* Every reference ever handed out is live or its destruction is on the trail,
\* never both and never neither, whichever transactions died (erase_linkage,
\* expire_epochs_before).
LinkedOrAudited ==
  \A ref \in 1..minted : Mapped(ref) <=> ref \notin Audited

\* An identifier with a tombstone that was not lifted has no live link in any year:
\* no registration slipped past the erasure, whichever key it was recorded under
\* (lock_natural_id, suppressed_on).
Tombstoned(id) == \E e \in trail : e.tag # None /\ e.tag.id = id

SuppressedIsUnlinked ==
  \A id \in Subjects : Tombstoned(id) => Registrations(id) = {}

\* An erasure that knows the identifier ends with every year of it unlinked and,
\* where it wrote anything under a key, with the identifier kept out
\* (erase_linkage, whatever other transactions did in between).
ErasureHonoured ==
  [][\A e \in Erasers, id \in Subjects : tx[e].id = id /\ CommitErase(e) =>
       /\ Registrations(id)' = {}
       /\ ring # <<>> /\ (Targets(e) # {} \/ tx[e].note) => Suppressed(id)']_vars

-----------------------------------------------------------------------------
(* Why it keeps the promises: what every state of it has in common.          *)

\* A reference is minted once and names one link.
LinksCoherent ==
  /\ \A link \in map : link.ref \in 1..minted
  /\ \A one, other \in map : one.ref = other.ref => one = other

\* Only minted references are audited, and only under keys the ring still has.
TrailCoherent ==
  /\ Audited \subseteq 1..minted
  /\ \A e \in trail : e.tag # None => e.tag.key \in RingKeys

LockExclusive ==
  \A id \in Subjects : \A p, q \in Processes : HoldsLock(p, id) /\ HoldsLock(q, id) => p = q

\* A row that is held is there, and has one holder.
RowsCoherent ==
  /\ \A p \in Processes : \A ref \in tx[p].held : Mapped(ref)
  /\ \A p, q \in Processes : p # q => tx[p].held \cap tx[q].held = {}

\* What a registration found under the lock is still so when it inserts.
RegistrarInStep(g) ==
  /\ tx[g].pc \in {"idle", "lock", "relookup", "check", "insert"} /\ tx[g].held = {}
  /\ tx[g].pc # "idle" => tx[g].id \in Subjects
  /\ tx[g].pc \in {"check", "insert"} => LookupIn(tx[g].id, tx[g].epoch) = {}
  /\ tx[g].pc = "insert" => ~Tombstoned(tx[g].id)

\* An erasure of an identifier has all its links before it, and none of another's.
\* A reference it was given is of that identifier, or of nobody any more.
EraserInStep(e) ==
  /\ tx[e].pc \in {"idle", "lock", "select", "rows", "write", "commit"}
  /\ tx[e].pc \notin {"rows", "commit"} => tx[e].held = {}
  /\ tx[e].pc # "rows" => tx[e].todo = {}
  /\ tx[e].todo \subseteq 1..minted
  /\ tx[e].pc = "idle" => tx[e].id = None /\ tx[e].ref = None
  /\ tx[e].pc \in {"lock", "select", "rows"} => tx[e].id # None
  /\ tx[e].pc = "write" => tx[e].id = None /\ tx[e].ref # None
  /\ tx[e].pc = "commit" /\ tx[e].id = None => tx[e].ref # None /\ tx[e].held = {}
  /\ tx[e].pc \in {"rows", "commit"} =>
       \A link \in Registrations(tx[e].id) : link.ref \in tx[e].todo \union tx[e].held
  /\ \A link \in map : link.ref \in tx[e].todo \union tx[e].held \union {tx[e].ref}
                         => link.id = tx[e].id
  /\ tx[e].ref # None => tx[e].ref \in 1..minted

\* Whoever erases or has erased one reference did so for one identifier.
ReferencesCoherent ==
  \A e \in Erasers : tx[e].ref # None /\ tx[e].id # None =>
    /\ \A entry \in trail : entry.ref = tx[e].ref /\ entry.tag # None => entry.tag.id = tx[e].id
    /\ \A f \in Erasers : tx[f].ref = tx[e].ref => tx[f].id \in {None, tx[e].id}

SweeperInStep(w) ==
  /\ tx[w].pc \in {"idle", "pick", "rows"} /\ tx[w].id = None /\ tx[w].ref = None
  /\ tx[w].pc # "rows" => tx[w].held = {}

RegistryCoherent ==
  /\ TypeOK /\ LinksCoherent /\ TrailCoherent /\ LockExclusive /\ RowsCoherent
  /\ \A g \in Registrars : RegistrarInStep(g)
  /\ \A e \in Erasers : EraserInStep(e)
  /\ \A w \in Sweepers : SweeperInStep(w)
  /\ ReferencesCoherent /\ LinkedOrAudited /\ SuppressedIsUnlinked

-----------------------------------------------------------------------------
(* What comes about in the end.                                              *)

\* The year of a link's values is Years behind the present one.
PastItsPeriod(link) == link.epoch + Years < year

\* A link past its period is destroyed in the end, though erasures and sweeps
\* wait for each other's rows and PostgreSQL ends some of them, as long as some
\* table declares a subject column (expire_epochs_before, anonymise_across).
DueIsSwept ==
  \A ref \in Refs :
    (\E link \in Resolve(ref) : PastItsPeriod(link)) ~> ~Mapped(ref) \/ ~declared

=============================================================================
