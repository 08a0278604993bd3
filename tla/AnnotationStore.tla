-------------------------- MODULE AnnotationStore --------------------------
(***************************************************************************)
(* The contract of the AnnotationStore trait for one PDF, as the in-memory *)
(* store keeps it: a save is one step that compares and replaces.  What a   *)
(* power failure may undo is the only addition of the store on disk.        *)
(***************************************************************************)
EXTENDS Naturals

CONSTANTS
  Savers,      \* callers of the store
  Identities,  \* revisions of the PDF (DocumentIdentity)
  Marks,       \* annotations a user can make
  MaxRevision, \* bound on the revision of an AnnotationSet
  NoEntry      \* nothing is stored for the PDF

Snapshots == [revision : 0..MaxRevision, body : SUBSET Marks]

EmptySnapshot == [revision |-> 0, body |-> {}]

Entries == [identity : Identities, snapshot : Snapshots] \cup {NoEntry}

VARIABLES
  entry,     \* the stored entry, as every reader sees it
  durable,   \* the entry a power failure leaves
  expected   \* per caller: the revision it loaded or saved last

(* The snapshot that load returns for an entry; a missing one is empty. *)
Stored(e) == IF e = NoEntry THEN EmptySnapshot ELSE e.snapshot

SameDocument(e, identity) == e # NoEntry => e.identity = identity

(* The conditions under which compare_and_save writes: the entry belongs to *)
(* this document, has the expected revision, and the snapshot is newer or    *)
(* the same.                                                                 *)
MaySave(e, identity, revision, snapshot) ==
  /\ SameDocument(e, identity)
  /\ Stored(e).revision = revision
  /\ snapshot.revision >= Stored(e).revision
  /\ snapshot.revision = Stored(e).revision => snapshot = Stored(e)

Init ==
  /\ entry = NoEntry
  /\ durable = NoEntry
  /\ expected = [s \in Savers |-> 0]

Load(s) ==
  /\ expected' = [expected EXCEPT ![s] = Stored(entry).revision]
  /\ UNCHANGED <<entry, durable>>

CompareAndSave(s, identity, snapshot) ==
  /\ MaySave(entry, identity, expected[s], snapshot)
  /\ entry' = [identity |-> identity, snapshot |-> snapshot]
  /\ expected' = [expected EXCEPT ![s] = snapshot.revision]
  /\ UNCHANGED durable

(* The directory reaches the disk. *)
Hardens ==
  /\ durable' = entry
  /\ UNCHANGED <<entry, expected>>

PowerFails ==
  /\ entry' = durable
  /\ UNCHANGED <<durable, expected>>

Next ==
  \/ \E s \in Savers :
       \/ Load(s)
       \/ \E identity \in Identities, snapshot \in Snapshots :
            CompareAndSave(s, identity, snapshot)
  \/ Hardens
  \/ PowerFails

Spec == Init /\ [][Next]_<<entry, durable, expected>>
=============================================================================
