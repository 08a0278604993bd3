--------------------------- MODULE AssetLifecycle ---------------------------
(***************************************************************************)
(* The images that the HTML editor keeps for the documents of one folder   *)
(* (apps/html/src/main/asset-lifecycle.ts, and the save, close, insert and *)
(* rename handlers of html-main.ts that call it): files below assets/, and  *)
(* a manifest that says which of them the application made, which saved     *)
(* documents use them, and which were inserted and not yet saved (pending). *)
(*                                                                         *)
(* Everything that touches the manifest queues up for the folder's lock.    *)
(* The texts of the documents are written without it: a window's text can   *)
(* land between another's look at its siblings and its deletions.  A text   *)
(* is the set of images it refers to.  A name is one file at a time;         *)
(* `changed' holds those whose bytes no longer have the recorded digest.     *)
(* Save As into another folder, which copies the images, is left out.        *)
(***************************************************************************)
EXTENDS Naturals, Sequences, FiniteSets, SequencesExt

CONSTANTS
  Windows, Docs, Assets,
  Opened,      \* Opened[w]: the document window w starts with
  Nothing,     \* no file
  MaxSaves,    \* bound: saves
  MaxEvents    \* bound: insertions, closes, renames, images modified by others, crashes

ASSUME AssetAssumption ==
  /\ Opened \in [Windows -> Docs]
  /\ \A v, w \in Windows : v # w => Opened[v] # Opened[w]
  /\ {MaxSaves, MaxEvents} \subseteq Nat

VARIABLES
  disk,     \* the files below assets/
  changed,  \* those of them that somebody else has modified
  man,      \* the manifest on disk
  text,     \* per document: the images its saved text refers to
  path,     \* savePathByWc
  buffer,   \* per window: the images its editor refers to
  queue,    \* the jobs that hold (the first) and wait for the manifest's lock
  gc,       \* the first job's deletions, if it has come to them
  save,     \* per window: the save handler
  insert,   \* per window: the image whose name is on its way to the editor
  closed,   \* windows that were closed
  spent     \* saves and other events so far

files == <<disk, changed>>
editor == <<path, buffer, insert, closed>>
vars == <<files, man, text, editor, queue, gc, save, spent>>

Manifest(owned, documents, pending) ==
  [files |-> owned, documents |-> documents, pending |-> pending]

Empty == Manifest({}, [d \in Docs |-> {}], [d \in Docs |-> {}])

Without(m, names) ==
  Manifest(m.files \ names, [d \in Docs |-> m.documents[d] \ names],
           [d \in Docs |-> m.pending[d] \ names])

(* What the manifest says is in use. *)
Protected(m) == UNION {m.documents[d] \cup m.pending[d] : d \in Docs}

(* The deletions of a job: the manifest it will write, the images it has not  *)
(* come to, those that must stay, and the texts as it has read them.           *)
Deletions(running, m, left, kept, seen) ==
  [running |-> running, m |-> m, left |-> left, kept |-> kept, seen |-> seen]

NoGc == Deletions(FALSE, Empty, {}, {}, [d \in Docs |-> {}])

NoSave(w) == [at |-> "idle", from |-> Opened[w], target |-> Opened[w], as |-> FALSE,
              refs |-> {}, pend |-> {}]

Init ==
  /\ disk = {} /\ changed = {} /\ man = Empty
  /\ text = [d \in Docs |-> {}]
  /\ path = Opened
  /\ buffer = [w \in Windows |-> {}]
  /\ queue = <<>> /\ gc = NoGc
  /\ save = [w \in Windows |-> NoSave(w)]
  /\ insert = [w \in Windows |-> Nothing]
  /\ closed = {}
  /\ spent = [saves |-> 0, events |-> 0]

Happens == spent.events < MaxEvents /\ spent' = [spent EXCEPT !.events = @ + 1]

Job(kind, w, d, arg) == [kind |-> kind, win |-> w, doc |-> d, arg |-> arg]

(* withManifestLock: jobs run one after the other, and each lets the next   *)
(* one go, however it ends.                                                  *)
Queues(j) == queue' = Append(queue, j)

Holds(kind) == queue # <<>> /\ Head(queue).kind = kind /\ ~gc.running

Releases == queue' = Tail(queue)

-----------------------------------------------------------------------------
(* Inserting an image *)

(* createOwnedAsset: the file is made under a name no file has, then waits   *)
(* to be recorded for the document the window shows now.  A manifest that was *)
(* not written after a deletion may list another file of that name.           *)
Inserts(w, a) ==
  /\ w \notin closed /\ a \notin disk /\ Happens
  /\ insert[w] = Nothing /\ ~\E j \in ToSet(queue) : j.kind = "record" /\ j.win = w
  /\ disk' = disk \cup {a}
  /\ changed' \in {changed} \cup IF a \in man.files THEN {changed \cup {a}} ELSE {}
  /\ Queues(Job("record", w, path[w], a))
  /\ UNCHANGED <<man, text, editor, gc, save>>

Recorded(j) ==
  Manifest(man.files \cup {j.arg}, man.documents,
           [man.pending EXCEPT ![j.doc] = @ \cup {j.arg}])

(* addOwnedRecord, and the reply with the name of the image. *)
Records ==
  LET j == Head(queue)
  IN  /\ Holds("record") /\ j.arg \notin man.files \cap changed
      /\ man' = Recorded(j)
      /\ changed' = changed \ {j.arg}
      /\ insert' = [insert EXCEPT ![j.win] = j.arg]
      /\ Releases
      /\ UNCHANGED <<disk, text, path, buffer, closed, gc, save, spent>>

(* The manifest cannot be written, or it lists another file of this name:     *)
(* the new file is removed.                                                   *)
RecordFails ==
  /\ Holds("record")
  /\ disk' = disk \ {Head(queue).arg} /\ changed' = changed \ {Head(queue).arg}
  /\ Releases
  /\ UNCHANGED <<man, text, editor, gc, save, spent>>

(* The name reaches the editor, which puts it into the text (if its place is *)
(* gone, the text is as after an edit that takes it out again).               *)
Replies(w) ==
  /\ insert[w] # Nothing
  /\ insert' = [insert EXCEPT ![w] = Nothing]
  /\ buffer' = IF w \in closed THEN buffer ELSE [buffer EXCEPT ![w] = @ \cup {insert[w]}]
  /\ UNCHANGED <<files, man, text, path, closed, queue, gc, save, spent>>

(* The user takes an image out of a text, or pastes one of the folder's. *)
Edits(w, a) ==
  /\ w \notin closed
  /\ \/ a \in buffer[w] /\ buffer' = [buffer EXCEPT ![w] = @ \ {a}]
     \/ a \in man.files \ buffer[w] /\ buffer' = [buffer EXCEPT ![w] = @ \cup {a}]
  /\ UNCHANGED <<files, man, text, path, insert, closed, queue, gc, save, spent>>

-----------------------------------------------------------------------------
(* Saving *)

(* The editor hands its text in, and the handler asks what is pending. *)
Saves(w) ==
  /\ w \notin closed /\ save[w].at = "idle" /\ spent.saves < MaxSaves
  /\ save' = [save EXCEPT ![w] = [NoSave(w) EXCEPT !.at = "asking", !.from = path[w],
                                                  !.refs = buffer[w]]]
  /\ Queues(Job("ask", w, path[w], Nothing))
  /\ spent' = [spent EXCEPT !.saves = @ + 1]
  /\ UNCHANGED <<files, man, text, editor, gc>>

Asks ==
  LET j == Head(queue)
  IN  /\ Holds("ask")
      /\ save' = [save EXCEPT ![j.win] = [@ EXCEPT !.at = "choosing", !.pend = man.pending[j.doc]]]
      /\ Releases
      /\ UNCHANGED <<files, man, text, editor, gc, spent>>

(* The manifest could not be read: nothing counts as pending. *)
AskFails ==
  LET j == Head(queue)
  IN  /\ Holds("ask")
      /\ save' = [save EXCEPT ![j.win].at = "choosing"]
      /\ Releases
      /\ UNCHANGED <<files, man, text, editor, gc, spent>>

Free(d) == text[d] = {} /\ d \notin {path[w] : w \in Windows}

(* resolveSaveTarget: the window's path as it is now, or one the user picks. *)
Targets(w, d, as) ==
  /\ save[w].at = "choosing"
  /\ d = path[w] \/ (as /\ Free(d))
  /\ save' = [save EXCEPT ![w] = [@ EXCEPT !.at = "writing", !.target = d, !.as = as]]
  /\ UNCHANGED <<files, man, text, editor, queue, gc, spent>>

(* The dialog is cancelled, or the text cannot be written. *)
SaveEnds(w) ==
  /\ save[w].at \in {"choosing", "writing"}
  /\ save' = [save EXCEPT ![w] = NoSave(w)]
  /\ UNCHANGED <<files, man, text, editor, queue, gc, spent>>

(* writeTextAtomic, which no lock guards. *)
Writes(w) ==
  /\ save[w].at = "writing"
  /\ text' = [text EXCEPT ![save[w].target] = save[w].refs]
  /\ save' = [save EXCEPT ![w].at = "written"]
  /\ UNCHANGED <<files, man, editor, queue, gc, spent>>

(* The window goes on with the path it was saved to. *)
Settles(w) ==
  /\ save[w].at = "written"
  /\ path' = [path EXCEPT ![w] = save[w].target]
  /\ save' = [save EXCEPT ![w].at = "reconciling"]
  /\ Queues(Job("reconcile", w, save[w].target, Nothing))
  /\ UNCHANGED <<files, man, text, buffer, insert, closed, gc, spent>>

(* Bug: all that is pending is resolved, not what was when the save began. *)
Resolved_All(w) == man.pending[save[w].target]

(* The pending images that this save settles. *)
Resolved(w) == IF save[w].from = save[w].target THEN save[w].pend ELSE {}

(* Bug: only the manifest is asked, not the texts of the siblings. *)
Scanned_Nothing(own, but) == {}

(* siblingHtmlReferences: every other document of the folder is read. *)
Scanned(own, but) == own \cap UNION {text[d] : d \in Docs \ but}

(* What must stay: if a sibling cannot be read or understood, everything. *)
MustStay(m, own, but) == {Protected(m) \cup Scanned(own, but), own}

Collects(m, left, kept, but) ==
  gc' = Deletions(TRUE, m, left, kept, [d \in Docs |-> IF d \in but THEN {} ELSE text[d]])

(* The manifest of a save of w to d that has found own unmodified: it forgets *)
(* what is missing, modified or cannot be read and learns what the saved text  *)
(* refers to.                                                                  *)
Reconciled(own, w, d) ==
  LET n == Without(man, Assets \ own)
  IN  Manifest(n.files, [n.documents EXCEPT ![d] = save[w].refs \cap own],
               [n.pending EXCEPT ![d] = @ \ Resolved(w)])

(* reconcileOwnedAssets, up to its deletions. *)
Reconciles ==
  LET w == Head(queue).win
      d == Head(queue).doc
  IN  /\ Holds("reconcile")
      /\ \E own \in SUBSET ((man.files \cap disk) \ changed) :
           LET m == Reconciled(own, w, d)
           IN  \E kept \in MustStay(m, own, {d}) : Collects(m, own \ kept, kept, {d})
      /\ UNCHANGED <<files, man, text, editor, queue, save, spent>>

NoLongerPending(names, d) ==
  Manifest(man.files, man.documents, [man.pending EXCEPT ![d] = @ \ names])

(* resolvePendingOwnedAssets, up to its deletions: at a close without saving *)
(* all that is pending, after Save As what was pending when it began.        *)
Resolves(kind, names) ==
  LET m == NoLongerPending(names, Head(queue).doc)
  IN  /\ Holds(kind) /\ names # {}
      /\ \E kept \in MustStay(m, man.files, {}) : Collects(m, names \cap man.files, kept, {})
      /\ UNCHANGED <<files, man, text, editor, queue, save, spent>>

Forgets(a) == gc' = Deletions(TRUE, Without(gc.m, {a}), gc.left \ {a}, gc.kept, gc.seen)

Keeps(a) == gc' = Deletions(TRUE, gc.m, gc.left \ {a}, gc.kept, gc.seen)

(* One image at a time: it is gone already, or no longer ours, or in use, or *)
(* cannot be removed.                                                         *)
Spares(a) ==
  /\ gc.running /\ a \in gc.left
  /\ \/ a \notin disk /\ Forgets(a)
     \/ a \in changed /\ IF Head(queue).kind = "reconcile" THEN Keeps(a) ELSE Forgets(a)
     \/ a \in disk \ changed /\ Keeps(a)
  /\ UNCHANGED <<files, man, text, editor, queue, save, spent>>

Deletes(a) ==
  /\ gc.running /\ a \in gc.left /\ a \in disk \ changed /\ a \notin gc.kept
  /\ disk' = disk \ {a}
  /\ Forgets(a)
  /\ UNCHANGED <<changed, man, text, editor, queue, save, spent>>

(* What the window does when its job is over. *)
Continues(j, w) ==
  IF j.kind = "reconcile" /\ save[w].as /\ save[w].from # save[w].target
  THEN /\ queue' = Append(Tail(queue), Job("resolve", w, save[w].from, Nothing))
       /\ UNCHANGED <<save, editor>>
  ELSE /\ Releases
       /\ IF j.kind = "discard"
          THEN /\ closed' = closed \cup {w}
               /\ buffer' = [buffer EXCEPT ![w] = {}]
               /\ UNCHANGED <<save, path, insert>>
          ELSE save' = [save EXCEPT ![w] = NoSave(w)] /\ UNCHANGED editor

(* The manifest is written, if it can be, and the lock given back. *)
Commits(written) ==
  /\ gc.running /\ gc.left = {}
  /\ man' = IF written THEN gc.m ELSE man
  /\ gc' = NoGc
  /\ Continues(Head(queue), Head(queue).win)
  /\ UNCHANGED <<files, text, spent>>

(* Nothing is pending, or the manifest cannot be read. *)
Skips ==
  /\ Holds("reconcile") \/ Holds("resolve") \/ Holds("discard")
  /\ Continues(Head(queue), Head(queue).win)
  /\ UNCHANGED <<files, man, text, gc, spent>>

-----------------------------------------------------------------------------
(* Closing and renaming *)

(* Don't Save: what was inserted and not saved is discarded. *)
ClosesUnsaved(w) ==
  /\ w \notin closed /\ ~\E j \in ToSet(queue) : j.kind = "discard" /\ j.win = w
  /\ Happens
  /\ Queues(Job("discard", w, path[w], Nothing))
  /\ UNCHANGED <<files, man, text, editor, gc, save>>

(* The shell renamed the document: the window follows at once, the manifest  *)
(* when it is its turn.                                                       *)
Renames(w, d) ==
  /\ w \notin closed /\ Free(d) /\ Happens
  /\ text' = [text EXCEPT ![d] = text[path[w]], ![path[w]] = {}]
  /\ path' = [path EXCEPT ![w] = d]
  /\ Queues(Job("rename", w, path[w], d))
  /\ UNCHANGED <<files, man, buffer, insert, closed, gc, save>>

Moved(refs, old, new) == [refs EXCEPT ![new] = @ \cup refs[old], ![old] = {}]

RenamesInManifest(done) ==
  LET j == Head(queue)
  IN  /\ Holds("rename")
      /\ man' = IF done
                THEN Manifest(man.files, Moved(man.documents, j.doc, j.arg),
                              Moved(man.pending, j.doc, j.arg))
                ELSE man
      /\ Releases
      /\ UNCHANGED <<files, text, editor, gc, save, spent>>

-----------------------------------------------------------------------------
(* The rest of the world *)

(* Another program modifies an image that is no news. *)
Modified(a) ==
  /\ a \in disk \ changed /\ Happens
  /\ ~\E j \in ToSet(queue) : j.kind = "record" /\ j.arg = a
  /\ changed' = changed \cup {a}
  /\ UNCHANGED <<disk, man, text, editor, queue, gc, save>>

(* The application ends and is started again on the same documents. *)
Crashes ==
  /\ Happens
  /\ queue' = <<>> /\ gc' = NoGc
  /\ save' = [w \in Windows |-> NoSave(w)]
  /\ insert' = [w \in Windows |-> Nothing]
  /\ buffer' = [w \in Windows |-> IF w \in closed THEN {} ELSE text[path[w]]]
  /\ UNCHANGED <<files, man, text, path, closed>>

(* The job that holds the lock goes on. *)
Works ==
  \/ Records \/ RecordFails \/ Asks \/ AskFails \/ Reconciles \/ Skips
  \/ Resolves("resolve", man.pending[Head(queue).doc] \cap save[Head(queue).win].pend)
  \/ Resolves("discard", man.pending[Head(queue).doc])
  \/ \E a \in Assets : Spares(a) \/ Deletes(a)
  \/ \E ok \in BOOLEAN : Commits(ok) \/ RenamesInManifest(ok)

(* A save goes on outside the lock. *)
Proceeds(w) ==
  \/ \E d \in Docs, as \in BOOLEAN : Targets(w, d, as)
  \/ SaveEnds(w) \/ Writes(w) \/ Settles(w)

Next ==
  \/ Works
  \/ \E w \in Windows :
       \/ Proceeds(w) \/ Saves(w) \/ Replies(w) \/ ClosesUnsaved(w)
       \/ \E a \in Assets : Inserts(w, a) \/ Edits(w, a)
       \/ \E d \in Docs : Renames(w, d)
  \/ \E a \in Assets : Modified(a)
  \/ Crashes

Spec == Init /\ [][Next]_vars

-----------------------------------------------------------------------------
(* Properties *)

(* The images that are deleted in a step as no longer in use. *)
Collected == IF gc.running THEN disk \ disk' ELSE {}

(* What is collected is out of use everywhere else: no text referred to it   *)
(* when the deleting job read that text (a reference is lost only if it came  *)
(* into a text between that look and the deletion, which no lock prevents),   *)
(* and it is not waiting in another document to be saved or undone.  This      *)
(* holds through renames, saves under other names, failures and crashes.       *)
CollectsOnlyUnused ==
  [][\A d \in Docs :
       /\ Collected \cap text[d] \cap gc.seen[d] = {}
       /\ queue # <<>> /\ d # Head(queue).doc => Collected \cap man.pending[d] = {}]_vars

Pending(m) == UNION {m.pending[d] : d \in Docs}

(* A save settles only what was pending when it asked.  An image that is       *)
(* inserted after that, into this document or another, is not in the text the   *)
(* save writes, and yet it is neither deleted nor taken out of the pending      *)
(* images, which would leave it to the next save: unless its name was among     *)
(* those the save has seen, or the manifest disowns it and never deletes it.    *)
LaterInsertionsSurvive ==
  [][gc.running /\ Head(queue).kind # "discard" =>
       LET settled == (Pending(man) \ Pending(man')) \cap man'.files
           deleted == Pending(man) \cap Collected
       IN  deleted \cup settled \subseteq save[Head(queue).win].pend]_vars
=============================================================================
