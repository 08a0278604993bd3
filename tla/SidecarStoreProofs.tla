------------------------- MODULE SidecarStoreProofs -------------------------
(***************************************************************************)
(* Proofs about SidecarStore while the PDF keeps its file: no acknowledged  *)
(* mark is lost, and the file operations implement the contract of the      *)
(* AnnotationStore trait.  Both rest on the same invariant: between its      *)
(* comparison and its rename a saver holds the one lock, so the sidecar it    *)
(* compared with is the sidecar it replaces.                                  *)
(***************************************************************************)
EXTENDS SidecarStore, TLAPS

(* A saver in one of these places has the lock of the PDF's only file. *)
Holding ==
  {"locked", "validated", "compared", "revalidated", "written", "synced", "renamed"}

(* The comparison was made and the sidecar is not replaced yet. *)
Decided == {"compared", "revalidated", "written", "synced"}

TypeOK ==
  /\ path = 1
  /\ bytes \in [Files -> Versions]
  /\ lock \in [Files -> Savers \cup {Nobody}]
  /\ sidecar \in Store!Entries /\ firm \in Store!Entries
  /\ solid = TRUE
  /\ at \in [Savers -> {"idle", "ready", "opened"} \cup Holding]
  /\ doc \in [Savers -> Versions]
  /\ base \in [Savers -> 0..MaxRevision]
  /\ snap \in [Savers -> Store!Snapshots]
  /\ held = [s \in Savers |-> 1]
  /\ losses \in Nat

(* Being in a critical place means having the lock. *)
LockInv == \A s \in Savers : at[s] \in Holding => lock[1] = s

(* What the comparison allowed is still allowed. *)
DecidedInv ==
  \A s \in Savers :
    at[s] \in Decided => Store!MaySave(sidecar, doc[s], base[s], snap[s])

(* The sidecar is still the one the saver has put there. *)
RenamedInv == \A s \in Savers : at[s] = "renamed" => sidecar = Replaced(s)

(* The snapshot a saver holds has every mark of the revision it expects. *)
BaseInv ==
  \A s \in Savers : at[s] # "idle" =>
    /\ base[s] <= Store!Stored(sidecar).revision
    /\ base[s] = Store!Stored(sidecar).revision =>
         Store!Stored(sidecar).body \subseteq snap[s].body

KeptInv ==
  /\ losses = 0 => acked \subseteq Store!Stored(sidecar).body
  /\ fixed \subseteq Store!Stored(sidecar).body \cap Store!Stored(firm).body

SidecarInv == TypeOK /\ LockInv /\ DecidedInv /\ RenamedInv /\ BaseInv /\ KeptInv

-----------------------------------------------------------------------------
(* What an entry holds *)

(* An entry, once it is made of an identity and a snapshot, is not the       *)
(* absence of one, and it holds that snapshot.                               *)
LEMMA RecordEntry ==
  ASSUME NEW d \in Versions, NEW p \in Store!Snapshots
  PROVE  LET e == [identity |-> d, snapshot |-> p]
         IN  e \in Store!Entries /\ e # NoEntry /\ Store!Stored(e) = p
<1> DEFINE e == [identity |-> d, snapshot |-> p]
<1>1. e \in [identity : Versions, snapshot : Store!Snapshots]
  OBVIOUS
<1>2. p \in [revision : Nat, body : SUBSET Marks]
  BY SidecarAssumption DEF Store!Snapshots
<1>3. e \in [identity : 1..MaxVersions,
             snapshot : [revision : Nat, body : SUBSET Marks]]
  BY <1>2 DEF Versions
<1>4. e # NoEntry
  BY <1>3, SidecarAssumption
<1> QED
  BY <1>1, <1>4 DEF Store!Entries, Store!Stored

(* What load returns for any entry is a snapshot. *)
LEMMA StoredType ==
  ASSUME NEW e \in Store!Entries
  PROVE  Store!Stored(e) \in Store!Snapshots
BY SidecarAssumption DEF Store!Entries, Store!Stored, Store!Snapshots, Store!EmptySnapshot

LEMMA SnapshotFields ==
  ASSUME NEW p \in Store!Snapshots
  PROVE  p.revision \in 0..MaxRevision /\ p.body \in SUBSET Marks /\ p.revision \in Nat
BY SidecarAssumption DEF Store!Snapshots

-----------------------------------------------------------------------------
(* The invariant is kept *)

LEMMA InitInv == Init => SidecarInv
<1> SUFFICES ASSUME Init PROVE SidecarInv
  OBVIOUS
<1>1. Store!EmptySnapshot \in Store!Snapshots
  BY SidecarAssumption DEF Store!EmptySnapshot, Store!Snapshots
<1>2. TypeOK
  BY <1>1, SidecarAssumption DEF Init, TypeOK, Store!Entries, Versions, Files
<1>3. LockInv /\ DecidedInv /\ RenamedInv /\ BaseInv
  BY DEF Init, LockInv, DecidedInv, RenamedInv, BaseInv, Holding, Decided
<1>4. KeptInv
  BY DEF Init, KeptInv
<1> QED
  BY <1>2, <1>3, <1>4 DEF SidecarInv

(* Dropping the lock of one saver takes it from nobody else. *)
LEMMA UnlockedLemma ==
  ASSUME TypeOK, LockInv, NEW s \in Savers
  PROVE  /\ Unlocked(s) \in [Files -> Savers \cup {Nobody}]
         /\ \A t \in Savers \ {s} : at[t] \in Holding => Unlocked(s)[1] = t
<1>1. 1 \in Files
  BY SidecarAssumption DEF Files
<1> QED
  BY <1>1 DEF TypeOK, LockInv, Unlocked

(* A step that moves one saver, and nothing on the disk or in a memory,      *)
(* keeps the invariant when the lock and the comparison justify the place    *)
(* the saver goes to.                                                         *)
LEMMA MoveInv ==
  ASSUME SidecarInv, NEW s \in Savers,
         NEW place \in ({"idle", "ready", "opened"} \cup Holding) \ {"renamed"},
         at' = [at EXCEPT ![s] = place],
         UNCHANGED <<pdf, disk, memory, held, history, losses>>,
         lock' \in [Files -> Savers \cup {Nobody}],
         \A t \in Savers \ {s} : at[t] \in Holding => lock'[1] = t,
         place \in Holding => lock'[1] = s,
         place \in Decided => Store!MaySave(sidecar, doc[s], base[s], snap[s]),
         place # "idle" => at[s] # "idle"
  PROVE  SidecarInv'
<1> USE DEF SidecarInv, pdf, disk, memory, history
<1>1. TypeOK'
  BY DEF TypeOK
<1>2. LockInv'
  BY DEF LockInv, TypeOK
<1>3. DecidedInv'
  BY DEF DecidedInv, TypeOK
<1>4. RenamedInv'
  BY DEF RenamedInv, TypeOK, Replaced
<1>5. BaseInv'
  BY DEF BaseInv, TypeOK
<1>6. KeptInv'
  BY DEF KeptInv
<1> QED
  BY <1>1, <1>2, <1>3, <1>4, <1>5, <1>6

LEMMA OpensInv ==
  ASSUME SidecarInv, NEW s \in Savers, Opens(s)
  PROVE  SidecarInv'
<1>1. UNCHANGED held
  BY DEF SidecarInv, TypeOK, Opens
<1>2. at' = [at EXCEPT ![s] = "opened"] /\ at[s] # "idle"
  BY DEF Opens, Goes
<1>3. UNCHANGED <<pdf, lock, disk, memory, held, history, losses>>
  BY <1>1 DEF Opens
<1> QED
  BY <1>2, <1>3, MoveInv DEF SidecarInv, TypeOK, LockInv, Holding, Decided

LEMMA LocksInv ==
  ASSUME SidecarInv, NEW s \in Savers, Locks(s)
  PROVE  SidecarInv'
<1>1. held[s] = 1 /\ 1 \in Files
  BY SidecarAssumption DEF SidecarInv, TypeOK, Files
<1>2. lock[1] = Nobody /\ lock' = [lock EXCEPT ![1] = s]
  BY <1>1 DEF Locks
<1>3. \A t \in Savers : at[t] \notin Holding
  BY <1>2, SidecarAssumption DEF SidecarInv, LockInv
<1>4. lock' \in [Files -> Savers \cup {Nobody}] /\ lock'[1] = s
  BY <1>1, <1>2 DEF SidecarInv, TypeOK
<1>5. at' = [at EXCEPT ![s] = "locked"] /\ at[s] # "idle"
  BY DEF Locks, Goes
<1>6. UNCHANGED <<pdf, disk, memory, held, history, losses>>
  BY DEF Locks
<1> QED
  BY <1>3, <1>4, <1>5, <1>6, MoveInv DEF Holding, Decided

(* The steps of a save that only compare or write to the temporary file. *)
LEMMA ChecksInv ==
  ASSUME SidecarInv, NEW s \in Savers,
         Validates(s) \/ Compares(s) \/ Revalidates(s) \/ Writes(s) \/ Syncs(s)
  PROVE  SidecarInv'
<1>1. UNCHANGED <<pdf, lock, disk, memory, held, history, losses>>
  BY DEF Validates, Compares, Revalidates, Writes, Syncs
<1>2. at[s] \in Holding
  BY DEF Validates, Compares, Revalidates, Writes, Syncs, Goes, Holding
<1>3. /\ lock' \in [Files -> Savers \cup {Nobody}]
      /\ \A t \in Savers : at[t] \in Holding => lock'[1] = t
  BY <1>1 DEF SidecarInv, TypeOK, LockInv
<1>4. CASE Validates(s)
  BY <1>1, <1>2, <1>3, <1>4, MoveInv DEF Validates, Goes, Holding, Decided
<1>5. CASE Compares(s)
  BY <1>1, <1>2, <1>3, <1>5, MoveInv DEF Compares, Goes, Holding, Decided
<1>6. ASSUME at[s] \in Decided, NEW place \in Decided, Goes(s, at[s], place)
      PROVE  SidecarInv'
  <2>1. Store!MaySave(sidecar, doc[s], base[s], snap[s])
    BY <1>6 DEF SidecarInv, DecidedInv
  <2> QED
    BY <1>1, <1>2, <1>3, <1>6, <2>1, MoveInv DEF Goes, Holding, Decided
<1>7. CASE Revalidates(s) \/ Writes(s) \/ Syncs(s)
  BY <1>6, <1>7 DEF Revalidates, Writes, Syncs, Goes, Decided
<1> QED
  BY <1>4, <1>5, <1>7

(* A conflict, an I/O error or a crash of one process. *)
LEMMA AbandonsInv ==
  ASSUME SidecarInv, NEW s \in Savers, Conflicts(s) \/ IoFails(s) \/ Crashes(s)
  PROVE  SidecarInv'
<1>1. /\ UNCHANGED <<pdf, disk, memory, held, history, losses>>
      /\ lock' = Unlocked(s)
      /\ at[s] # "idle"
      /\ at' = [at EXCEPT ![s] = "ready"] \/ at' = [at EXCEPT ![s] = "idle"]
  BY DEF Conflicts, IoFails, Crashes, Abandons, BeforeRename
<1>2. /\ lock' \in [Files -> Savers \cup {Nobody}]
      /\ \A t \in Savers \ {s} : at[t] \in Holding => lock'[1] = t
  BY <1>1, UnlockedLemma DEF SidecarInv
<1> QED
  BY <1>1, <1>2, MoveInv DEF Holding, Decided

LEMMA LoadsInv ==
  ASSUME SidecarInv, NEW s \in Savers, Loads(s)
  PROVE  SidecarInv'
<1> USE DEF SidecarInv, pdf, disk, history, Loads
<1>1. Store!Stored(sidecar) \in Store!Snapshots
  BY StoredType DEF TypeOK
<1>2. Store!Stored(sidecar).revision \in 0..MaxRevision
  BY <1>1, SnapshotFields
<1>3. TypeOK'
  BY <1>1, <1>2, SidecarAssumption DEF TypeOK, Files
<1>4. LockInv'
  BY DEF LockInv, TypeOK, Holding
<1>5. DecidedInv'
  BY DEF DecidedInv, TypeOK, Decided
<1>6. RenamedInv'
  BY DEF RenamedInv, TypeOK, Replaced
<1>7. BaseInv'
  BY <1>2 DEF BaseInv, TypeOK
<1>8. KeptInv'
  BY DEF KeptInv
<1> QED
  BY <1>3, <1>4, <1>5, <1>6, <1>7, <1>8

LEMMA AnnotatesInv ==
  ASSUME SidecarInv, NEW s \in Savers, NEW m \in Marks, Annotates(s, m)
  PROVE  SidecarInv'
<1> USE DEF SidecarInv, pdf, disk, Annotates
<1> DEFINE longer == [revision |-> snap[s].revision + 1, body |-> snap[s].body \cup {m}]
<1>1. snap[s].revision \in 0..MaxRevision /\ snap[s].body \in SUBSET Marks
  BY SnapshotFields DEF TypeOK
<1>2. longer \in Store!Snapshots
  BY <1>1, SidecarAssumption DEF Store!Snapshots
<1>3. snap' = [snap EXCEPT ![s] = longer]
  BY DEF TypeOK, Store!Snapshots
<1> HIDE DEF longer
<1>4. TypeOK'
  BY <1>2, <1>3 DEF TypeOK
<1>5. LockInv'
  BY DEF LockInv
<1>6. DecidedInv'
  BY <1>3 DEF DecidedInv, TypeOK, Decided
<1>7. RenamedInv'
  BY <1>3 DEF RenamedInv, TypeOK, Replaced
<1>8. BaseInv'
  BY <1>3 DEF BaseInv, TypeOK, longer
<1>9. KeptInv'
  BY DEF KeptInv
<1> QED
  BY <1>4, <1>5, <1>6, <1>7, <1>8, <1>9

(* The rename: the one step that replaces the sidecar.  The saver holds the  *)
(* lock, so no other saver has compared, and the snapshot has every mark of   *)
(* the sidecar it replaces.                                                   *)
LEMMA RenamesInv ==
  ASSUME SidecarInv, NEW s \in Savers, Renames(s)
  PROVE  SidecarInv'
<1> USE DEF SidecarInv, pdf, history, Renames, Goes
<1> DEFINE old == Store!Stored(sidecar)
<1>1. /\ old \in Store!Snapshots
      /\ old.revision \in Nat /\ old.body \in SUBSET Marks
      /\ snap[s] \in Store!Snapshots
      /\ snap[s].revision \in 0..MaxRevision /\ snap[s].revision \in Nat
  BY StoredType, SnapshotFields DEF TypeOK
<1>2. /\ sidecar' \in Store!Entries
      /\ Store!Stored(sidecar') = snap[s]
  BY RecordEntry DEF Replaced, TypeOK
<1>3. Store!MaySave(sidecar, doc[s], base[s], snap[s])
  BY DEF DecidedInv, Decided
<1>4. /\ old.revision = base[s]
      /\ snap[s].revision >= old.revision
      /\ snap[s].revision = old.revision => snap[s] = old
      /\ old.body \subseteq snap[s].body
  BY <1>3, SidecarAssumption DEF BaseInv, Store!MaySave
<1>5. \A t \in Savers \ {s} : at[t] \notin Holding
  BY DEF LockInv, Holding
<1> HIDE DEF old
<1>6. TypeOK'
  BY <1>1, <1>2 DEF TypeOK, Holding
<1>7. LockInv'
  BY DEF LockInv, TypeOK, Holding
<1>8. DecidedInv'
  BY <1>5 DEF DecidedInv, TypeOK, Decided, Holding
<1>9. RenamedInv'
  BY <1>5 DEF RenamedInv, TypeOK, Replaced, Holding
<1>10. BaseInv'
  <2> SUFFICES ASSUME NEW t \in Savers, at'[t] # "idle"
               PROVE  /\ base'[t] <= snap[s].revision
                      /\ base'[t] = snap[s].revision =>
                           snap[s].body \subseteq snap'[t].body
    BY <1>2 DEF BaseInv
  <2>1. CASE t = s
    BY <1>1, <2>1 DEF TypeOK
  <2>2. CASE t # s
    <3>1. at[t] # "idle" /\ base'[t] = base[t] /\ snap' = snap
      BY <2>2 DEF TypeOK
    <3>2. base[t] <= old.revision /\ (base[t] = old.revision => old.body \subseteq snap[t].body)
      BY <3>1 DEF BaseInv, old
    <3>3. base[t] \in Nat
      BY SidecarAssumption DEF TypeOK
    <3> QED
      BY <1>1, <1>4, <3>1, <3>2, <3>3
  <2> QED
    BY <2>1, <2>2
<1>11. KeptInv'
  BY <1>2, <1>4 DEF KeptInv, old
<1> QED
  BY <1>6, <1>7, <1>8, <1>9, <1>10, <1>11

LEMMA ReturnsInv ==
  ASSUME SidecarInv, NEW s \in Savers, NEW dirSynced \in BOOLEAN, Returns(s, dirSynced)
  PROVE  SidecarInv'
<1> USE DEF SidecarInv, pdf, memory, Returns, Goes
<1>1. firm' = IF dirSynced THEN sidecar ELSE firm
  BY DEF TypeOK, OnDisk
<1>2. /\ lock' \in [Files -> Savers \cup {Nobody}]
      /\ \A t \in Savers \ {s} : at[t] \in Holding => lock'[1] = t
  BY UnlockedLemma
<1>3. Store!Stored(sidecar).body = snap[s].body
  <2>1. sidecar = Replaced(s)
    BY DEF RenamedInv
  <2> QED
    BY <2>1, RecordEntry DEF Replaced, TypeOK
<1>4. TypeOK'
  BY <1>1, <1>2 DEF TypeOK
<1>5. LockInv'
  BY <1>2 DEF LockInv, TypeOK, Holding
<1>6. DecidedInv'
  BY DEF DecidedInv, TypeOK, Decided
<1>7. RenamedInv'
  BY DEF RenamedInv, TypeOK, Replaced
<1>8. BaseInv'
  BY DEF BaseInv, TypeOK
<1>9. KeptInv'
  BY <1>1, <1>3 DEF KeptInv
<1> QED
  BY <1>4, <1>5, <1>6, <1>7, <1>8, <1>9

(* An edit of the PDF, the file system's own flush, a power failure. *)
LEMMA WorldInv ==
  ASSUME SidecarInv, (\E v \in Versions : Edited(v)) \/ Flushes \/ PowerFails
  PROVE  SidecarInv'
<1> USE DEF SidecarInv, pdf, disk, memory, history
<1>1. CASE \E v \in Versions : Edited(v)
  <2> PICK v \in Versions : Edited(v)
    BY <1>1
  <2>1. TypeOK'
    BY DEF TypeOK, Edited
  <2>2. LockInv' /\ DecidedInv' /\ RenamedInv' /\ BaseInv' /\ KeptInv'
    BY DEF Edited, LockInv, DecidedInv, RenamedInv, BaseInv, KeptInv, Replaced
  <2> QED
    BY <2>1, <2>2
<1>2. CASE Flushes
  <2>1. firm' = sidecar
    BY <1>2 DEF Flushes, OnDisk, TypeOK
  <2>2. TypeOK'
    BY <1>2, <2>1 DEF TypeOK, Flushes
  <2>3. LockInv' /\ DecidedInv' /\ RenamedInv' /\ BaseInv'
    BY <1>2 DEF Flushes, LockInv, DecidedInv, RenamedInv, BaseInv, Replaced
  <2>4. KeptInv'
    BY <1>2, <2>1 DEF Flushes, KeptInv
  <2> QED
    BY <2>2, <2>3, <2>4
<1>3. CASE PowerFails
  <2>1. TypeOK'
    BY <1>3 DEF TypeOK, PowerFails
  <2>2. LockInv' /\ DecidedInv' /\ RenamedInv' /\ BaseInv'
    BY <1>3 DEF PowerFails, LockInv, DecidedInv, RenamedInv, BaseInv, Holding, Decided
  <2>3. KeptInv'
    BY <1>3 DEF PowerFails, KeptInv, TypeOK
  <2> QED
    BY <2>1, <2>2, <2>3
<1> QED
  BY <1>1, <1>2, <1>3

LEMMA StepInv ==
  ASSUME SidecarInv, [InPlace]_vars
  PROVE  SidecarInv'
<1>1. ASSUME NEW s \in Savers, SaveStep(s)
      PROVE  SidecarInv'
  BY <1>1, LocksInv, ChecksInv, RenamesInv, ReturnsInv, AbandonsInv DEF SaveStep
<1>2. CASE InPlace
  BY <1>1, <1>2, LoadsInv, OpensInv, AbandonsInv, AnnotatesInv, WorldInv DEF InPlace
<1>3. CASE UNCHANGED vars
  BY <1>3 DEF vars, pdf, disk, memory, history, SidecarInv, TypeOK, LockInv, DecidedInv,
       RenamedInv, BaseInv, KeptInv, Replaced
<1> QED
  BY <1>2, <1>3

(* The invariant holds as long as the PDF keeps its file. *)
LEMMA InvHolds == Init /\ [][InPlace]_vars => []SidecarInv
BY InitInv, StepInv, PTL

-----------------------------------------------------------------------------
(* The theorems *)

(* JsonSidecarStore loses no acknowledged mark, for any number of processes  *)
(* that load, save, fail and crash in any order while the PDF is edited in    *)
(* place; what was synced with its directory survives power failures too.     *)
(* Fairness plays no part in it.                                              *)
THEOREM AcknowledgedIsKept == InPlaceSpec => []AcknowledgedKept
<1>1. SidecarInv => AcknowledgedKept
  BY DEF SidecarInv, KeptInv, AcknowledgedKept
<1> QED
  BY <1>1, InvHolds, PTL DEF InPlaceSpec

(* Every step of a process is one step of the trait's contract, or none: the *)
(* rename is the atomic compare_and_save, although the comparison and the    *)
(* writing of the file come steps before it.                                  *)
LEMMA StepRefines ==
  ASSUME SidecarInv, SidecarInv', [InPlace]_vars
  PROVE  [Store!Next]_<<sidecar, firm, base>>
<1> USE DEF disk, memory
<1>1. ASSUME NEW s \in Savers, Loads(s)
      PROVE  Store!Next
  BY <1>1 DEF Loads, Store!Next, Store!Load
<1>2. ASSUME NEW s \in Savers, Renames(s)
      PROVE  Store!Next
  <2>1. Store!MaySave(sidecar, doc[s], base[s], snap[s])
    BY <1>2 DEF SidecarInv, DecidedInv, Decided, Renames, Goes
  <2>2. doc[s] \in Versions /\ snap[s] \in Store!Snapshots
    BY DEF SidecarInv, TypeOK
  <2>3. Store!CompareAndSave(s, doc[s], snap[s])
    BY <1>2, <2>1 DEF Store!CompareAndSave, Renames, Replaced
  <2> QED
    BY <2>2, <2>3 DEF Store!Next
<1>3. ASSUME NEW s \in Savers, NEW dirSynced \in BOOLEAN, Returns(s, dirSynced)
      PROVE  [Store!Next]_<<sidecar, firm, base>>
  BY <1>3 DEF SidecarInv, TypeOK, OnDisk, Returns, Store!Next, Store!Hardens
<1>4. ASSUME Flushes
      PROVE  Store!Next
  BY <1>4 DEF SidecarInv, TypeOK, OnDisk, Flushes, Store!Next, Store!Hardens
<1>5. ASSUME PowerFails
      PROVE  Store!Next
  BY <1>5 DEF PowerFails, Store!Next, Store!PowerFails
<1>6. ASSUME NEW s \in Savers,
             \/ Opens(s) \/ Locks(s) \/ Validates(s) \/ Compares(s) \/ Revalidates(s)
             \/ Writes(s) \/ Syncs(s) \/ Conflicts(s) \/ IoFails(s) \/ Crashes(s)
             \/ \E m \in Marks : Annotates(s, m)
      PROVE  UNCHANGED <<sidecar, firm, base>>
  BY <1>6 DEF Opens, Locks, Validates, Compares, Revalidates, Writes, Syncs, Conflicts,
       IoFails, Abandons, Crashes, Annotates
<1>7. ASSUME NEW v \in Versions, Edited(v)
      PROVE  UNCHANGED <<sidecar, firm, base>>
  BY <1>7 DEF Edited
<1>8. CASE UNCHANGED vars
  BY <1>8 DEF vars
<1> QED
  BY <1>1, <1>2, <1>3, <1>4, <1>5, <1>6, <1>7, <1>8 DEF InPlace, SaveStep

(* The store on disk implements the AnnotationStore contract of one atomic   *)
(* compare-and-save, for every number of processes, versions and revisions.  *)
THEOREM SidecarImplementsStore == InPlaceSpec => StoreContract
<1>1. Init => Store!Init
  BY DEF Init, Store!Init
<1> QED
  BY <1>1, InvHolds, StepRefines, PTL DEF InPlaceSpec, StoreContract, Store!Spec
=============================================================================
