---------------------------- MODULE SidecarStore ----------------------------
(***************************************************************************)
(* JsonSidecarStore for one PDF and the processes that annotate it: load,   *)
(* and compare_and_save as the file operations it consists of, in between   *)
(* which other processes save, crash, or change the PDF, and the power may   *)
(* fail.  The advisory lock is on the PDF's file, not on its path: a PDF     *)
(* that is replaced has another lock.                                        *)
(*                                                                         *)
(* A snapshot is its revision and the set of marks it holds; the identity   *)
(* of a PDF is the version of its bytes, which is what its digest tells      *)
(* apart.                                                                    *)
(***************************************************************************)
EXTENDS Naturals, FiniteSets

CONSTANTS
  Savers, Marks, NoEntry, MaxRevision,
  Nobody,       \* no saver
  Torn,         \* a sidecar whose bytes did not survive a power failure
  MaxVersions,  \* bound: versions of the PDF's bytes
  MaxFiles,     \* bound: files the PDF's path stands for, one after the other
  MaxLosses     \* bound: power failures

ASSUME SidecarAssumption ==
  /\ Nobody \notin Savers
  /\ {MaxVersions, MaxFiles, MaxRevision} \subseteq Nat \ {0}
  /\ MaxLosses \in Nat
  /\ {NoEntry, Torn} \cap [identity : 1..MaxVersions,
                           snapshot : [revision : Nat, body : SUBSET Marks]] = {}
  /\ Torn # NoEntry

Versions == 1..MaxVersions
Files == 1..MaxFiles

VARIABLES
  path,      \* the file at the PDF's path
  bytes,     \* per file: the version of its bytes
  lock,      \* per file: the saver that holds its lock
  sidecar,   \* the sidecar, as every process sees it
  solid,     \* the bytes of that sidecar are on the disk
  firm,      \* the sidecar a power failure leaves
  at,        \* per saver: where it is
  doc,       \* per saver: the identity it loaded the PDF with
  base,      \* per saver: the revision it expects on disk
  snap,      \* per saver: its AnnotationSet
  held,      \* per saver: the file it opened for its lock
  made,      \* marks made so far
  acked,     \* marks in snapshots whose save was acknowledged
  fixed,     \* the same, when the directory had been synced as well
  losses     \* power failures so far

pdf == <<path, bytes>>
disk == <<sidecar, solid, firm>>
memory == <<doc, base, snap>>
history == <<made, acked, fixed>>
vars == <<pdf, lock, disk, at, memory, held, history, losses>>

(* The contract of the store, with the sidecar as its entry. *)
Store == INSTANCE AnnotationStore
  WITH Identities <- Versions, entry <- sidecar, durable <- firm, expected <- base

Init ==
  /\ path = 1
  /\ bytes \in [Files -> {1}]
  /\ lock = [f \in Files |-> Nobody]
  /\ sidecar = NoEntry /\ solid = TRUE /\ firm = NoEntry
  /\ at = [s \in Savers |-> "idle"]
  /\ doc = [s \in Savers |-> 1]
  /\ base = [s \in Savers |-> 0]
  /\ snap = [s \in Savers |-> Store!EmptySnapshot]
  /\ held = [s \in Savers |-> 1]
  /\ made = {} /\ acked = {} /\ fixed = {}
  /\ losses = 0

Goes(s, here, there) == at[s] = here /\ at' = [at EXCEPT ![s] = there]

(* Bug: the lock outlives a save that failed or crashed. *)
Unlocked_Kept(s) == lock

(* The lock goes with the file descriptor, at an error and at a crash too. *)
Unlocked(s) == [f \in Files |-> IF lock[f] = s THEN Nobody ELSE lock[f]]

-----------------------------------------------------------------------------
(* load, and the annotating in between *)

Loads(s) ==
  /\ at[s] \in {"idle", "ready"}
  /\ Store!SameDocument(sidecar, bytes[path])
  /\ at' = [at EXCEPT ![s] = "ready"]
  /\ doc' = [doc EXCEPT ![s] = bytes[path]]
  /\ snap' = [snap EXCEPT ![s] = Store!Stored(sidecar)]
  /\ base' = [base EXCEPT ![s] = Store!Stored(sidecar).revision]
  /\ UNCHANGED <<pdf, lock, disk, held, history, losses>>

(* The user makes a mark: the snapshot grows and its revision advances. *)
Annotates(s, m) ==
  /\ at[s] = "ready" /\ m \notin made /\ snap[s].revision < MaxRevision
  /\ snap' = [snap EXCEPT ![s] = [revision |-> @.revision + 1, body |-> @.body \cup {m}]]
  /\ made' = made \cup {m}
  /\ UNCHANGED <<pdf, lock, disk, at, doc, base, held, acked, fixed, losses>>

-----------------------------------------------------------------------------
(* compare_and_save *)

Opens(s) ==
  /\ Goes(s, "ready", "opened")
  /\ held' = [held EXCEPT ![s] = path]
  /\ UNCHANGED <<pdf, lock, disk, memory, history, losses>>

(* Bug: the lock is not waited for. *)
Locks_Unchecked(s) ==
  /\ Goes(s, "opened", "locked")
  /\ lock' = [lock EXCEPT ![held[s]] = s]
  /\ UNCHANGED <<pdf, disk, memory, held, history, losses>>

Locks(s) ==
  /\ Goes(s, "opened", "locked")
  /\ lock[held[s]] = Nobody
  /\ lock' = [lock EXCEPT ![held[s]] = s]
  /\ UNCHANGED <<pdf, disk, memory, held, history, losses>>

(* revalidate_locked_document: the locked file and the file at the path     *)
(* both have the bytes the snapshot is anchored to.                         *)
SamePdf(s) == bytes[held[s]] = doc[s] /\ bytes[path] = doc[s]

Validates(s) ==
  /\ Goes(s, "locked", "validated")
  /\ SamePdf(s)
  /\ UNCHANGED <<pdf, lock, disk, memory, held, history, losses>>

Compares(s) ==
  /\ Goes(s, "validated", "compared")
  /\ Store!MaySave(sidecar, doc[s], base[s], snap[s])
  /\ UNCHANGED <<pdf, lock, disk, memory, held, history, losses>>

Revalidates(s) ==
  /\ Goes(s, "compared", "revalidated")
  /\ SamePdf(s)
  /\ UNCHANGED <<pdf, lock, disk, memory, held, history, losses>>

(* atomic_write: a temporary file is written, synced and renamed. *)
Writes(s) ==
  /\ Goes(s, "revalidated", "written")
  /\ UNCHANGED <<pdf, lock, disk, memory, held, history, losses>>

Syncs(s) ==
  /\ Goes(s, "written", "synced")
  /\ UNCHANGED <<pdf, lock, disk, memory, held, history, losses>>

Replaced(s) == [identity |-> doc[s], snapshot |-> snap[s]]

(* Bug: the temporary file is renamed before its bytes are on the disk. *)
Renames_Unsynced(s) ==
  /\ Goes(s, "written", "renamed")
  /\ sidecar' = Replaced(s)
  /\ solid' = FALSE
  /\ base' = [base EXCEPT ![s] = snap[s].revision]
  /\ UNCHANGED <<pdf, lock, firm, doc, snap, held, history, losses>>

Renames(s) ==
  /\ Goes(s, "synced", "renamed")
  /\ sidecar' = Replaced(s)
  /\ solid' = (at[s] = "synced")
  /\ base' = [base EXCEPT ![s] = snap[s].revision]
  /\ UNCHANGED <<pdf, lock, firm, doc, snap, held, history, losses>>

OnDisk == IF solid THEN sidecar ELSE Torn

(* The directory is synced if it can be, the lock is dropped and the save is *)
(* acknowledged.                                                             *)
Returns(s, dirSynced) ==
  /\ Goes(s, "renamed", "ready")
  /\ firm' = IF dirSynced THEN OnDisk ELSE firm
  /\ lock' = Unlocked(s)
  /\ acked' = acked \cup snap[s].body
  /\ fixed' = IF dirSynced THEN fixed \cup snap[s].body ELSE fixed
  /\ UNCHANGED <<pdf, sidecar, solid, memory, held, made, losses>>

BeforeRename ==
  {"opened", "locked", "validated", "compared", "revalidated", "written", "synced"}

Abandons(s) ==
  /\ at' = [at EXCEPT ![s] = "ready"]
  /\ lock' = Unlocked(s)
  /\ UNCHANGED <<pdf, disk, memory, held, history, losses>>

(* A check says no: a conflict is returned. *)
Conflicts(s) ==
  /\ \/ at[s] \in {"locked", "compared"} /\ ~SamePdf(s)
     \/ at[s] = "validated" /\ ~Store!MaySave(sidecar, doc[s], base[s], snap[s])
  /\ Abandons(s)

(* A file operation fails: the error is returned. *)
IoFails(s) == at[s] \in BeforeRename /\ Abandons(s)

-----------------------------------------------------------------------------
(* The rest of the world *)

Crashes(s) ==
  /\ at[s] # "idle"
  /\ at' = [at EXCEPT ![s] = "idle"]
  /\ lock' = Unlocked(s)
  /\ UNCHANGED <<pdf, disk, memory, held, history, losses>>

(* The PDF is edited in place. *)
Edited(v) ==
  /\ bytes[path] # v
  /\ bytes' = [bytes EXCEPT ![path] = v]
  /\ UNCHANGED <<path, lock, disk, at, memory, held, history, losses>>

(* Another file takes the PDF's place. *)
Swapped(v) ==
  /\ path < MaxFiles
  /\ path' = path + 1
  /\ bytes' = [bytes EXCEPT ![path + 1] = v]
  /\ UNCHANGED <<lock, disk, at, memory, held, history, losses>>

(* The file system writes the directory out by itself. *)
Flushes ==
  /\ firm' = OnDisk
  /\ UNCHANGED <<pdf, lock, sidecar, solid, at, memory, held, history, losses>>

PowerFails ==
  /\ losses < MaxLosses
  /\ losses' = losses + 1
  /\ sidecar' = firm /\ solid' = TRUE
  /\ at' = [s \in Savers |-> "idle"]
  /\ lock' = [f \in Files |-> Nobody]
  /\ UNCHANGED <<pdf, firm, memory, held, history>>

SaveStep(s) ==
  \/ Locks(s) \/ Validates(s) \/ Compares(s) \/ Revalidates(s) \/ Writes(s)
  \/ Syncs(s) \/ Renames(s) \/ \E dirSynced \in BOOLEAN : Returns(s, dirSynced)
  \/ Conflicts(s)

(* The PDF keeps its file, whatever happens to its bytes. *)
InPlace ==
  \/ \E s \in Savers :
       \/ Loads(s) \/ Opens(s) \/ SaveStep(s) \/ IoFails(s) \/ Crashes(s)
       \/ \E m \in Marks : Annotates(s, m)
  \/ \E v \in Versions : Edited(v)
  \/ Flushes
  \/ PowerFails

Next == InPlace \/ \E v \in Versions : Swapped(v)

Spec == Init /\ [][Next]_vars

(* A save goes on to its end, without the help of errors, and the system    *)
(* does not starve a waiter for the lock.                                   *)
Fairness == \A s \in Savers : WF_vars(SaveStep(s)) /\ SF_vars(Locks(s))

InPlaceSpec == Init /\ [][InPlace]_vars /\ Fairness

-----------------------------------------------------------------------------
(* Properties *)

(* Every mark whose save was acknowledged is still in the sidecar, whoever   *)
(* saved since: nobody's annotations are overwritten by a save that had not   *)
(* seen them.  After a power failure this holds of the saves that could sync  *)
(* the directory.                                                             *)
AcknowledgedKept ==
  /\ losses = 0 => acked \subseteq Store!Stored(sidecar).body
  /\ fixed \subseteq Store!Stored(sidecar).body

(* Whatever the interleaving, the sidecar changes as the contract of the      *)
(* trait allows: a save replaces the revision its caller expected, for the    *)
(* same document, with a newer one, and a power failure leaves a whole file.  *)
StoreContract == Store!Spec

(* A save that was begun ends, also when another process crashes while it     *)
(* holds the lock.                                                            *)
EverySaveEnds ==
  \A s \in Savers : at[s] = "opened" ~> at[s] \in {"ready", "idle"}
=============================================================================
