------------------------ MODULE AssetLifecycleProofs ------------------------
(***************************************************************************)
(* Proofs about AssetLifecycle, for any number of windows, documents and    *)
(* images, of saves and of other events: what is deleted is out of use, and  *)
(* a save settles only what was pending when it asked.  Both are decided      *)
(* when the job that holds the lock looks; the invariant carries them through *)
(* the deletions, in which other windows go on writing, saving and queueing.   *)
(***************************************************************************)
EXTENDS AssetLifecycle, SequenceLemmas

Manifests ==
  [files : SUBSET Assets, documents : [Docs -> SUBSET Assets],
   pending : [Docs -> SUBSET Assets]]

Jobs ==
  [kind : {"record"}, win : Windows, doc : Docs, arg : Assets]
    \cup [kind : {"rename"}, win : Windows, doc : Docs, arg : Docs]
    \cup [kind : {"ask", "reconcile", "resolve", "discard"},
          win : Windows, doc : Docs, arg : {Nothing}]

SaveStates ==
  [at : {"idle", "asking", "choosing", "writing", "written", "reconciling"},
   from : Docs, target : Docs, as : BOOLEAN, refs : SUBSET Assets, pend : SUBSET Assets]

(* The types of the state that the manifest, the queue and the saves depend on. *)
TypeOK ==
  /\ man \in Manifests
  /\ text \in [Docs -> SUBSET Assets]
  /\ path \in [Windows -> Docs]
  /\ buffer \in [Windows -> SUBSET Assets]
  /\ insert \in [Windows -> Assets \cup {Nothing}]
  /\ queue \in Seq(Jobs)
  /\ save \in [Windows -> SaveStates]
  /\ gc.m \in Manifests /\ gc.running \in BOOLEAN

(* The kinds of jobs in which a save waits for the lock. *)
OfSave == {"ask", "reconcile", "resolve"}

(* A save with job j in the queue is where that job belongs. *)
Belongs(j, s) ==
  /\ j.kind = "ask" => s[j.win].at = "asking"
  /\ j.kind \in {"reconcile", "resolve"} => s[j.win].at = "reconciling"

(* A save has at most one job in the queue, and is where that job belongs. *)
SaveInvOf(q, s) ==
  /\ \A i \in 1..Len(q) : Belongs(q[i], s)
  /\ \A i, k \in 1..Len(q) :
       i # k /\ q[i].kind \in OfSave /\ q[k].kind \in OfSave => q[i].win # q[k].win

SaveInv == SaveInvOf(queue, save)

(* The images that the job at work has still to delete. *)
Doomed == gc.left \ gc.kept

(* What the job that deletes has found out when it looked. *)
GcInv ==
  gc.running =>
    /\ queue # <<>> /\ Head(queue).kind \in {"reconcile", "resolve", "discard"}
    /\ \A d \in Docs : \A x \in Doomed :
         /\ x \notin gc.seen[d]
         /\ d # Head(queue).doc => x \notin man.pending[d]
    /\ Head(queue).kind # "discard" =>
         \A x \in Pending(man) \ save[Head(queue).win].pend :
           x \notin Doomed /\ (x \in gc.m.files => x \in Pending(gc.m))

AssetInv == TypeOK /\ SaveInv /\ GcInv

-----------------------------------------------------------------------------
(* Manifests *)

LEMMA ManifestType ==
  ASSUME NEW f \in SUBSET Assets, NEW d \in [Docs -> SUBSET Assets],
         NEW p \in [Docs -> SUBSET Assets]
  PROVE  /\ Manifest(f, d, p) \in Manifests
         /\ Manifest(f, d, p).files = f /\ Manifest(f, d, p).documents = d
         /\ Manifest(f, d, p).pending = p
BY DEF Manifest, Manifests

LEMMA ManifestParts ==
  ASSUME NEW m \in Manifests
  PROVE  /\ m.files \in SUBSET Assets
         /\ m.documents \in [Docs -> SUBSET Assets]
         /\ m.pending \in [Docs -> SUBSET Assets]
BY DEF Manifests

LEMMA WithoutType ==
  ASSUME NEW m \in Manifests, NEW names
  PROVE  /\ Without(m, names) \in Manifests
         /\ Without(m, names).files = m.files \ names
         /\ \A d \in Docs : Without(m, names).documents[d] = m.documents[d] \ names
         /\ \A d \in Docs : Without(m, names).pending[d] = m.pending[d] \ names
<1> DEFINE f == m.files \ names
           ds == [d \in Docs |-> m.documents[d] \ names]
           ps == [d \in Docs |-> m.pending[d] \ names]
<1>1. f \in SUBSET Assets /\ ds \in [Docs -> SUBSET Assets] /\ ps \in [Docs -> SUBSET Assets]
  BY ManifestParts
<1>2. /\ \A d \in Docs : ds[d] = m.documents[d] \ names
      /\ \A d \in Docs : ps[d] = m.pending[d] \ names
  OBVIOUS
<1>3. Without(m, names) = Manifest(f, ds, ps)
  BY DEF Without
<1> HIDE DEF f, ds, ps
<1>4. /\ Manifest(f, ds, ps) \in Manifests
      /\ Manifest(f, ds, ps).files = f /\ Manifest(f, ds, ps).documents = ds
      /\ Manifest(f, ds, ps).pending = ps
  BY <1>1, ManifestType
<1> QED BY <1>2, <1>3, <1>4 DEF f

LEMMA PendingIs ==
  ASSUME NEW m
  PROVE  \A x : x \in Pending(m) <=> \E d \in Docs : x \in m.pending[d]
BY DEF Pending

LEMMA ProtectedIs ==
  ASSUME NEW m, NEW d \in Docs
  PROVE  m.pending[d] \subseteq Protected(m) /\ m.documents[d] \subseteq Protected(m)
BY DEF Protected

LEMMA ScannedIs ==
  ASSUME NEW own, NEW but, NEW d \in Docs \ but
  PROVE  own \cap text[d] \subseteq Scanned(own, but)
BY DEF Scanned

LEMMA EmptyType == Empty \in Manifests
<1>1. [d \in Docs |-> {}] \in [Docs -> SUBSET Assets] /\ {} \in SUBSET Assets
  OBVIOUS
<1> QED BY <1>1, ManifestType DEF Empty

LEMMA DeletionsParts ==
  ASSUME NEW r, NEW m, NEW l, NEW k, NEW s
  PROVE  LET g == Deletions(r, m, l, k, s)
         IN  g.running = r /\ g.m = m /\ g.left = l /\ g.kept = k /\ g.seen = s
BY DEF Deletions

LEMMA JobTypes ==
  ASSUME NEW w \in Windows, NEW d \in Docs
  PROVE  /\ \A a \in Assets : Job("record", w, d, a) \in Jobs
         /\ \A e \in Docs : Job("rename", w, d, e) \in Jobs
         /\ \A kind \in {"ask", "reconcile", "resolve", "discard"} :
              Job(kind, w, d, Nothing) \in Jobs
         /\ \A kind, a : /\ Job(kind, w, d, a).kind = kind /\ Job(kind, w, d, a).win = w
                         /\ Job(kind, w, d, a).doc = d
BY DEF Job, Jobs

LEMMA JobParts ==
  ASSUME NEW j \in Jobs
  PROVE  /\ j.win \in Windows /\ j.doc \in Docs
         /\ j.kind = "record" => j.arg \in Assets
         /\ j.kind = "rename" => j.arg \in Docs
BY DEF Jobs

LEMMA NoSaveType == \A w \in Windows : NoSave(w) \in SaveStates
BY AssetAssumption DEF NoSave, SaveStates

-----------------------------------------------------------------------------
(* Types *)

LEMMA InitType == Init => TypeOK
<1> SUFFICES ASSUME Init PROVE TypeOK
  OBVIOUS
<1>1. man \in Manifests /\ gc.m \in Manifests /\ gc.running \in BOOLEAN
  <2>1. NoGc.m = Empty /\ NoGc.running = FALSE
    BY DEF NoGc, Deletions
  <2> QED BY <2>1, EmptyType DEF Init
<1>2. save \in [Windows -> SaveStates]
  BY NoSaveType DEF Init
<1>3. path \in [Windows -> Docs]
  BY AssetAssumption DEF Init
<1> QED BY <1>1, <1>2, <1>3 DEF Init, TypeOK

(* The first job of the queue. *)
LEMMA HeadType ==
  ASSUME TypeOK, queue # <<>>
  PROVE  /\ Head(queue) \in Jobs /\ Head(queue).win \in Windows /\ Head(queue).doc \in Docs
         /\ Tail(queue) \in Seq(Jobs)
BY TailAt, JobParts DEF TypeOK

LEMMA QueuesType ==
  ASSUME TypeOK, NEW j \in Jobs, Queues(j)
  PROVE  queue' \in Seq(Jobs)
BY AppendAt DEF TypeOK, Queues

LEMMA RecordedType ==
  ASSUME TypeOK, NEW j \in Jobs, j.kind = "record"
  PROVE  Recorded(j) \in Manifests
<1> DEFINE f == man.files \cup {j.arg}
           p == [man.pending EXCEPT ![j.doc] = @ \cup {j.arg}]
<1>1. man \in Manifests /\ j.doc \in Docs /\ j.arg \in Assets
  BY JobParts DEF TypeOK
<1>2. /\ man.files \in SUBSET Assets /\ man.documents \in [Docs -> SUBSET Assets]
      /\ man.pending \in [Docs -> SUBSET Assets]
  BY <1>1, ManifestParts
<1>3. f \in SUBSET Assets /\ p \in [Docs -> SUBSET Assets]
  BY <1>1, <1>2
<1>4. Recorded(j) = Manifest(f, man.documents, p)
  BY DEF Recorded
<1> HIDE DEF f, p
<1> QED BY <1>2, <1>3, <1>4, ManifestType

LEMMA InsertsType ==
  ASSUME TypeOK, NEW w \in Windows, NEW a \in Assets, Inserts(w, a)
  PROVE  TypeOK'
<1>1. path[w] \in Docs
  BY DEF TypeOK
<1>2. Job("record", w, path[w], a) \in Jobs
  BY <1>1, JobTypes
<1>3. queue' \in Seq(Jobs)
  BY <1>2, QueuesType DEF Inserts
<1> QED BY <1>3 DEF TypeOK, Inserts, editor

LEMMA HeldType ==
  ASSUME TypeOK, NEW kind, Holds(kind)
  PROVE  /\ queue # <<>> /\ Head(queue) \in Jobs /\ Head(queue).kind = kind
         /\ Head(queue).win \in Windows /\ Head(queue).doc \in Docs
         /\ Tail(queue) \in Seq(Jobs) /\ ~gc.running
BY HeadType DEF Holds

LEMMA RecordsType ==
  ASSUME TypeOK, Records \/ RecordFails
  PROVE  TypeOK'
<1> DEFINE j == Head(queue)
<1>1. j \in Jobs /\ j.kind = "record" /\ j.win \in Windows /\ Tail(queue) \in Seq(Jobs)
  BY HeldType DEF Records, RecordFails
<1>2. j.arg \in Assets /\ Recorded(j) \in Manifests
  BY <1>1, RecordedType, JobParts
<1> HIDE DEF j
<1>3. CASE Records
  BY <1>1, <1>2, <1>3 DEF Records, Releases, TypeOK, j
<1>4. CASE RecordFails
  BY <1>1, <1>4 DEF RecordFails, Releases, TypeOK, editor
<1> QED BY <1>3, <1>4

LEMMA EditorType ==
  ASSUME TypeOK, NEW w \in Windows,
         Replies(w) \/ \E a \in Assets : Edits(w, a)
  PROVE  TypeOK'
<1>1. CASE Replies(w)
  <2>1. insert[w] \in Assets /\ buffer[w] \in SUBSET Assets
    BY <1>1 DEF Replies, TypeOK
  <2>2. buffer' \in [Windows -> SUBSET Assets] /\ insert' \in [Windows -> Assets \cup {Nothing}]
    BY <1>1, <2>1 DEF Replies, TypeOK
  <2> QED BY <1>1, <2>2 DEF Replies, TypeOK
<1>2. CASE \E a \in Assets : Edits(w, a)
  <2>1. buffer' \in [Windows -> SUBSET Assets]
    BY <1>2 DEF Edits, TypeOK
  <2> QED BY <1>2, <2>1 DEF Edits, TypeOK
<1> QED BY <1>1, <1>2

LEMMA SavesType ==
  ASSUME TypeOK, NEW w \in Windows, Saves(w)
  PROVE  TypeOK'
<1>1. path[w] \in Docs /\ buffer[w] \in SUBSET Assets /\ NoSave(w) \in SaveStates
  BY NoSaveType DEF TypeOK
<1>2. Job("ask", w, path[w], Nothing) \in Jobs
  BY <1>1, JobTypes
<1>3. queue' \in Seq(Jobs)
  BY <1>2, QueuesType DEF Saves
<1>4. [NoSave(w) EXCEPT !.at = "asking", !.from = path[w], !.refs = buffer[w]] \in SaveStates
  BY <1>1 DEF SaveStates
<1>5. save' \in [Windows -> SaveStates]
  BY <1>4 DEF Saves, TypeOK
<1> QED BY <1>3, <1>5 DEF TypeOK, Saves, editor

LEMMA AsksType ==
  ASSUME TypeOK, Asks \/ AskFails
  PROVE  TypeOK'
<1> DEFINE j == Head(queue)
<1>1. j.win \in Windows /\ j.doc \in Docs /\ Tail(queue) \in Seq(Jobs)
  BY HeldType DEF Asks, AskFails
<1>2. man.pending[j.doc] \in SUBSET Assets /\ save[j.win] \in SaveStates
  BY <1>1, ManifestParts DEF TypeOK
<1> HIDE DEF j
<1>3. save' \in [Windows -> SaveStates]
  <2>1. CASE Asks
    <3>1. [save[j.win] EXCEPT !.at = "choosing", !.pend = man.pending[j.doc]] \in SaveStates
      BY <1>2 DEF SaveStates
    <3> QED BY <2>1, <3>1 DEF Asks, TypeOK, j
  <2>2. CASE AskFails
    BY <1>1, <1>2, <2>2 DEF AskFails, TypeOK, SaveStates, j
  <2> QED BY <2>1, <2>2
<1>4. queue' \in Seq(Jobs)
  BY <1>1 DEF Asks, AskFails, Releases
<1> QED BY <1>3, <1>4 DEF Asks, AskFails, TypeOK, editor

LEMMA ProceedsType ==
  ASSUME TypeOK, NEW w \in Windows, Proceeds(w)
  PROVE  TypeOK'
<1>1. CASE \E d \in Docs, as \in BOOLEAN : Targets(w, d, as)
  <2>1. PICK d \in Docs, as \in BOOLEAN : Targets(w, d, as)
    BY <1>1
  <2>2. [save[w] EXCEPT !.at = "writing", !.target = d, !.as = as] \in SaveStates
    BY DEF TypeOK, SaveStates
  <2>3. save' \in [Windows -> SaveStates]
    BY <2>1, <2>2 DEF Targets, TypeOK
  <2> QED BY <2>1, <2>3 DEF Targets, TypeOK, editor
<1>2. CASE SaveEnds(w)
  BY <1>2, NoSaveType DEF SaveEnds, TypeOK, editor
<1>3. CASE Writes(w)
  <2>1. save' \in [Windows -> SaveStates]
    BY <1>3, ZenonT(60) DEF Writes, TypeOK, SaveStates
  <2>2. text' \in [Docs -> SUBSET Assets]
    BY <1>3 DEF Writes, TypeOK, SaveStates
  <2> QED BY <1>3, <2>1, <2>2 DEF Writes, TypeOK, editor
<1>4. CASE Settles(w)
  <2>1. save[w].target \in Docs
    BY DEF TypeOK, SaveStates
  <2>2. Job("reconcile", w, save[w].target, Nothing) \in Jobs
    BY <2>1, JobTypes
  <2>3. queue' \in Seq(Jobs)
    BY <1>4, <2>2, QueuesType DEF Settles
  <2>4. save' \in [Windows -> SaveStates] /\ path' \in [Windows -> Docs]
    BY <1>4, <2>1, ZenonT(60) DEF Settles, TypeOK, SaveStates
  <2> QED BY <1>4, <2>3, <2>4 DEF Settles, TypeOK
<1> QED BY <1>1, <1>2, <1>3, <1>4 DEF Proceeds

LEMMA ReconciledIs ==
  ASSUME TypeOK, NEW own, NEW w \in Windows, NEW d \in Docs, own \in SUBSET Assets
  PROVE  /\ Reconciled(own, w, d) \in Manifests
         /\ \A x \in Reconciled(own, w, d).files : x \in own
         /\ \A e \in Docs : \A x \in own \cap man.pending[e] :
              x \in Reconciled(own, w, d).pending[e] \/ (e = d /\ x \in Resolved(w))
<1> DEFINE n == Without(man, Assets \ own)
           ds == [n.documents EXCEPT ![d] = save[w].refs \cap own]
           ps == [n.pending EXCEPT ![d] = @ \ Resolved(w)]
<1>1. /\ n \in Manifests /\ n.files = man.files \ (Assets \ own)
      /\ \A e \in Docs : n.pending[e] = man.pending[e] \ (Assets \ own)
  BY WithoutType DEF TypeOK
<1>2. /\ n.files \in SUBSET Assets /\ n.documents \in [Docs -> SUBSET Assets]
      /\ n.pending \in [Docs -> SUBSET Assets]
  BY <1>1, ManifestParts
<1>3. Reconciled(own, w, d) = Manifest(n.files, ds, ps)
  BY DEF Reconciled
<1> HIDE DEF n
<1>4. save[w].refs \cap own \in SUBSET Assets
  OBVIOUS
<1>5. ds \in [Docs -> SUBSET Assets] /\ ps \in [Docs -> SUBSET Assets]
  BY <1>2, <1>4
<1>6. \A e \in Docs : ps[e] = IF e = d THEN n.pending[e] \ Resolved(w) ELSE n.pending[e]
  BY <1>2
<1> HIDE DEF ds, ps
<1>7. /\ Manifest(n.files, ds, ps) \in Manifests /\ Manifest(n.files, ds, ps).files = n.files
      /\ Manifest(n.files, ds, ps).pending = ps
  BY <1>2, <1>5, ManifestType
<1>8. \A x \in n.files : x \in own
  BY <1>1, <1>2
<1>9. \A e \in Docs : \A x \in own \cap man.pending[e] :
        x \in ps[e] \/ (e = d /\ x \in Resolved(w))
  BY <1>1, <1>6
<1> QED BY <1>3, <1>7, <1>8, <1>9

LEMMA NoLongerPendingIs ==
  ASSUME TypeOK, NEW names, NEW d \in Docs
  PROVE  /\ NoLongerPending(names, d) \in Manifests
         /\ NoLongerPending(names, d).files = man.files
         /\ \A e \in Docs : NoLongerPending(names, d).pending[e] =
              IF e = d THEN man.pending[e] \ names ELSE man.pending[e]
<1> DEFINE ps == [man.pending EXCEPT ![d] = @ \ names]
<1>1. /\ man.files \in SUBSET Assets /\ man.documents \in [Docs -> SUBSET Assets]
      /\ man.pending \in [Docs -> SUBSET Assets]
  BY ManifestParts DEF TypeOK
<1>2. /\ ps \in [Docs -> SUBSET Assets]
      /\ \A e \in Docs : ps[e] = IF e = d THEN man.pending[e] \ names ELSE man.pending[e]
  BY <1>1
<1>3. NoLongerPending(names, d) = Manifest(man.files, man.documents, ps)
  BY DEF NoLongerPending
<1> HIDE DEF ps
<1>4. /\ Manifest(man.files, man.documents, ps) \in Manifests
      /\ Manifest(man.files, man.documents, ps).files = man.files
      /\ Manifest(man.files, man.documents, ps).pending = ps
  BY <1>1, <1>2, ManifestType
<1> QED BY <1>2, <1>3, <1>4

LEMMA MovedType ==
  ASSUME NEW refs \in [Docs -> SUBSET Assets], NEW old \in Docs, NEW new \in Docs
  PROVE  Moved(refs, old, new) \in [Docs -> SUBSET Assets]
BY DEF Moved

(* What a job does with one image. *)
LEMMA GcStepIs ==
  ASSUME TypeOK, NEW a, Forgets(a) \/ Keeps(a)
  PROVE  /\ gc'.running = TRUE /\ gc'.m \in Manifests
         /\ gc'.left = gc.left \ {a} /\ gc'.kept = gc.kept /\ gc'.seen = gc.seen
         /\ gc'.m = gc.m \/ gc'.m = Without(gc.m, {a})
BY WithoutType DEF TypeOK, Forgets, Keeps, Deletions

LEMMA CollectsIs ==
  ASSUME NEW m, NEW left, NEW kept, NEW but, Collects(m, left, kept, but)
  PROVE  /\ gc'.running = TRUE /\ gc'.m = m /\ gc'.left = left /\ gc'.kept = kept
         /\ \A d \in Docs : gc'.seen[d] = IF d \in but THEN {} ELSE text[d]
BY DEF Collects, Deletions

LEMMA NoGcIs == NoGc.running = FALSE /\ NoGc.m \in Manifests
BY EmptyType DEF NoGc, Deletions

LEMMA LooksType ==
  ASSUME TypeOK, Reconciles \/ \E kind, names : Resolves(kind, names)
  PROVE  TypeOK'
<1>1. gc'.m \in Manifests /\ gc'.running = TRUE
  <2>1. CASE Reconciles
    <3> DEFINE w == Head(queue).win
               d == Head(queue).doc
    <3>1. w \in Windows /\ d \in Docs
      BY <2>1, HeldType DEF Reconciles
    <3>2. PICK own \in SUBSET ((man.files \cap disk) \ changed) :
            \E kept \in MustStay(Reconciled(own, w, d), own, {d}) :
              Collects(Reconciled(own, w, d), own \ kept, kept, {d})
      BY <2>1 DEF Reconciles
    <3>3. own \in SUBSET Assets
      BY ManifestParts DEF TypeOK
    <3> HIDE DEF w, d
    <3>4. Reconciled(own, w, d) \in Manifests
      BY <3>1, <3>3, ReconciledIs
    <3> DEFINE m == Reconciled(own, w, d)
    <3>5. PICK kept : Collects(m, own \ kept, kept, {d})
      BY <3>2
    <3> HIDE DEF m
    <3>6. gc'.m = m /\ gc'.running = TRUE
      BY <3>5, CollectsIs
    <3> QED BY <3>4, <3>6 DEF m
  <2>2. CASE \E kind, names : Resolves(kind, names)
    <3>1. PICK kind, names : Resolves(kind, names)
      BY <2>2
    <3> DEFINE m == NoLongerPending(names, Head(queue).doc)
    <3>2. m \in Manifests
      BY <3>1, HeldType, NoLongerPendingIs DEF Resolves
    <3>3. \E kept : Collects(m, names \cap man.files, kept, {})
      BY <3>1 DEF Resolves
    <3> HIDE DEF m
    <3> QED BY <3>2, <3>3, CollectsIs
  <2> QED BY <2>1, <2>2
<1>2. UNCHANGED <<files, man, text, editor, queue, save, spent>>
  BY DEF Reconciles, Resolves
<1> QED BY <1>1, <1>2 DEF TypeOK, editor

LEMMA DeletesType ==
  ASSUME TypeOK, NEW a, Spares(a) \/ Deletes(a)
  PROVE  TypeOK'
<1>1. gc'.m \in Manifests /\ gc'.running = TRUE
  BY GcStepIs DEF Spares, Deletes
<1> QED BY <1>1 DEF Spares, Deletes, TypeOK, editor

LEMMA ContinuesType ==
  ASSUME TypeOK, queue # <<>>, Continues(Head(queue), Head(queue).win)
  PROVE  /\ queue' \in Seq(Jobs) /\ save' \in [Windows -> SaveStates]
         /\ buffer' \in [Windows -> SUBSET Assets]
         /\ UNCHANGED <<path, insert>>
<1> DEFINE w == Head(queue).win
<1>1. w \in Windows /\ Tail(queue) \in Seq(Jobs)
  BY HeadType
<1>2. save[w].from \in Docs
  BY <1>1 DEF TypeOK, SaveStates
<1>3. Job("resolve", w, save[w].from, Nothing) \in Jobs
  BY <1>1, <1>2, JobTypes
<1>4. Append(Tail(queue), Job("resolve", w, save[w].from, Nothing)) \in Seq(Jobs)
  BY <1>1, <1>3, AppendAt
<1>5. NoSave(w) \in SaveStates
  BY <1>1, NoSaveType
<1> HIDE DEF w
<1>6. Continues(Head(queue), w)
  BY DEF w
<1> QED BY <1>1, <1>4, <1>5, <1>6 DEF Continues, Releases, TypeOK, editor

LEMMA CommitsType ==
  ASSUME TypeOK, GcInv, (\E ok \in BOOLEAN : Commits(ok)) \/ Skips
  PROVE  TypeOK'
<1>1. queue # <<>> /\ Continues(Head(queue), Head(queue).win)
  BY DEF Commits, Skips, GcInv, Holds
<1>2. man' \in Manifests /\ gc'.m \in Manifests /\ gc'.running \in BOOLEAN
  BY NoGcIs DEF Commits, Skips, TypeOK
<1>3. UNCHANGED text
  BY DEF Commits, Skips
<1> QED BY <1>1, <1>2, <1>3, ContinuesType DEF TypeOK

LEMMA ClosesType ==
  ASSUME TypeOK, NEW w \in Windows,
         ClosesUnsaved(w) \/ \E d \in Docs : Renames(w, d)
  PROVE  TypeOK'
<1>1. path[w] \in Docs
  BY DEF TypeOK
<1>2. CASE ClosesUnsaved(w)
  <2>1. Job("discard", w, path[w], Nothing) \in Jobs
    BY <1>1, JobTypes
  <2>2. queue' \in Seq(Jobs)
    BY <1>2, <2>1, QueuesType DEF ClosesUnsaved
  <2> QED BY <1>2, <2>2 DEF ClosesUnsaved, TypeOK, editor
<1>3. CASE \E d \in Docs : Renames(w, d)
  <2>1. PICK d \in Docs : Renames(w, d)
    BY <1>3
  <2>2. Job("rename", w, path[w], d) \in Jobs
    BY <1>1, JobTypes
  <2>3. queue' \in Seq(Jobs)
    BY <2>1, <2>2, QueuesType DEF Renames
  <2>4. text[path[w]] \in SUBSET Assets
    BY <1>1 DEF TypeOK
  <2>5. text' \in [Docs -> SUBSET Assets] /\ path' \in [Windows -> Docs]
    BY <2>1, <2>4 DEF Renames, TypeOK
  <2> QED BY <2>1, <2>3, <2>5 DEF Renames, TypeOK
<1> QED BY <1>2, <1>3

LEMMA RenamesInManifestType ==
  ASSUME TypeOK, NEW ok \in BOOLEAN, RenamesInManifest(ok)
  PROVE  TypeOK'
<1> DEFINE j == Head(queue)
           ds == Moved(man.documents, j.doc, j.arg)
           ps == Moved(man.pending, j.doc, j.arg)
<1>1. j \in Jobs /\ j.kind = "rename" /\ Tail(queue) \in Seq(Jobs)
  BY HeldType DEF RenamesInManifest
<1>2. j.doc \in Docs /\ j.arg \in Docs
  BY <1>1, JobParts
<1>3. /\ man.files \in SUBSET Assets /\ man.documents \in [Docs -> SUBSET Assets]
      /\ man.pending \in [Docs -> SUBSET Assets]
  BY ManifestParts DEF TypeOK
<1>4. ds \in [Docs -> SUBSET Assets] /\ ps \in [Docs -> SUBSET Assets]
  BY <1>2, <1>3, MovedType
<1>5. man' = IF ok THEN Manifest(man.files, ds, ps) ELSE man
  BY DEF RenamesInManifest
<1> HIDE DEF j, ds, ps
<1>6. man' \in Manifests
  BY <1>3, <1>4, <1>5, ManifestType DEF TypeOK
<1> QED BY <1>1, <1>6 DEF RenamesInManifest, Releases, TypeOK, editor

-----------------------------------------------------------------------------
(* The jobs of a save *)

(* Window w waits with no save. *)
NoJob(q, w) == \A i \in 1..Len(q) : q[i].kind \in OfSave => q[i].win # w

LEMMA NoJobWhileElsewhere ==
  ASSUME NEW q \in Seq(Jobs), NEW s, SaveInvOf(q, s), NEW w,
         s[w].at \notin {"asking", "reconciling"}
  PROVE  NoJob(q, w)
BY DEF SaveInvOf, Belongs, NoJob, OfSave

LEMMA NoJobAfterHead ==
  ASSUME NEW q \in Seq(Jobs), NEW s, SaveInvOf(q, s), q # <<>>
  PROVE  /\ SaveInvOf(Tail(q), s)
         /\ Head(q).kind \in OfSave => NoJob(Tail(q), Head(q).win)
<1> DEFINE t == Tail(q)
<1>1. /\ Len(q) \in Nat \ {0} /\ Len(t) = Len(q) - 1 /\ Head(q) = q[1]
      /\ \A i \in 1..Len(t) : i + 1 \in 1..Len(q) /\ t[i] = q[i + 1]
  BY TailAt
<1> HIDE DEF t
<1>2. \A i \in 1..Len(t) : Belongs(t[i], s)
  BY <1>1 DEF SaveInvOf
<1>3. \A i, k \in 1..Len(t) :
        i # k /\ t[i].kind \in OfSave /\ t[k].kind \in OfSave => t[i].win # t[k].win
  <2> SUFFICES ASSUME NEW i \in 1..Len(t), NEW k \in 1..Len(t), i # k,
                      t[i].kind \in OfSave, t[k].kind \in OfSave
               PROVE  t[i].win # t[k].win
    OBVIOUS
  <2>1. /\ i + 1 \in 1..Len(q) /\ k + 1 \in 1..Len(q) /\ i + 1 # k + 1
        /\ t[i] = q[i + 1] /\ t[k] = q[k + 1]
    BY <1>1
  <2> QED BY <2>1 DEF SaveInvOf
<1>4. Head(q).kind \in OfSave => NoJob(t, Head(q).win)
  <2> SUFFICES ASSUME q[1].kind \in OfSave, NEW i \in 1..Len(t), t[i].kind \in OfSave
               PROVE  t[i].win # q[1].win
    BY <1>1 DEF NoJob
  <2>1. i + 1 \in 1..Len(q) /\ i + 1 # 1 /\ 1 \in 1..Len(q) /\ t[i] = q[i + 1]
    BY <1>1
  <2> QED BY <2>1 DEF SaveInvOf
<1> QED BY <1>2, <1>3, <1>4 DEF SaveInvOf, t

LEMMA OtherSaveMoves ==
  ASSUME NEW q \in Seq(Jobs), NEW s, SaveInvOf(q, s), NEW w, NoJob(q, w),
         NEW r, \A v \in Windows \ {w} : r[v] = s[v]
  PROVE  SaveInvOf(q, r)
<1>1. \A i \in 1..Len(q) : q[i].kind \in OfSave => q[i].win \in Windows \ {w}
  BY JobParts DEF NoJob
<1> QED BY <1>1 DEF SaveInvOf, Belongs, OfSave

LEMMA JobQueued ==
  ASSUME NEW q \in Seq(Jobs), NEW s, SaveInvOf(q, s), NEW j \in Jobs,
         j.kind \in OfSave => NoJob(q, j.win), Belongs(j, s)
  PROVE  SaveInvOf(Append(q, j), s)
<1> DEFINE a == Append(q, j)
<1>1. /\ Len(q) \in Nat /\ Len(a) = Len(q) + 1 /\ a[Len(q) + 1] = j
      /\ \A i \in 1..Len(q) : a[i] = q[i]
  BY AppendAt
<1> HIDE DEF a
<1>2. \A i \in 1..Len(a) : Belongs(a[i], s)
  BY <1>1 DEF SaveInvOf
<1>3. \A i, k \in 1..Len(a) :
        i # k /\ a[i].kind \in OfSave /\ a[k].kind \in OfSave => a[i].win # a[k].win
  <2> SUFFICES ASSUME NEW i \in 1..Len(a), NEW k \in 1..Len(a), i # k,
                      a[i].kind \in OfSave, a[k].kind \in OfSave
               PROVE  a[i].win # a[k].win
    OBVIOUS
  <2>1. CASE i \in 1..Len(q) /\ k \in 1..Len(q)
    BY <1>1, <2>1 DEF SaveInvOf
  <2>2. CASE i = Len(q) + 1
    BY <1>1, <2>2 DEF NoJob
  <2>3. CASE k = Len(q) + 1
    BY <1>1, <2>3 DEF NoJob
  <2> QED BY <1>1, <2>1, <2>2, <2>3
<1> QED BY <1>2, <1>3 DEF SaveInvOf, a

(* A step in which a save without a job moves, and perhaps queues one. *)
LEMMA SaveMoves ==
  ASSUME NEW q \in Seq(Jobs), NEW s, SaveInvOf(q, s), NEW w, NEW r,
         s[w].at \notin {"asking", "reconciling"},
         \A v \in Windows \ {w} : r[v] = s[v]
  PROVE  /\ SaveInvOf(q, r)
         /\ \A j \in Jobs : j.win = w /\ Belongs(j, r) => SaveInvOf(Append(q, j), r)
<1>1. NoJob(q, w)
  BY NoJobWhileElsewhere
<1>2. SaveInvOf(q, r)
  BY <1>1, OtherSaveMoves
<1> QED BY <1>1, <1>2, JobQueued

(* A step in which the job of a save is over. *)
LEMMA SaveServed ==
  ASSUME NEW q \in Seq(Jobs), NEW s, SaveInvOf(q, s), q # <<>>, Head(q).kind \in OfSave,
         NEW r, \A v \in Windows \ {Head(q).win} : r[v] = s[v]
  PROVE  /\ SaveInvOf(Tail(q), r)
         /\ \A j \in Jobs : j.win = Head(q).win /\ Belongs(j, r) => SaveInvOf(Append(Tail(q), j), r)
<1>1. Tail(q) \in Seq(Jobs)
  BY TailAt
<1>2. SaveInvOf(Tail(q), s) /\ NoJob(Tail(q), Head(q).win)
  BY NoJobAfterHead
<1> DEFINE t == Tail(q)
           w == Head(q).win
<1>3. t \in Seq(Jobs) /\ SaveInvOf(t, s) /\ NoJob(t, w) /\ \A v \in Windows \ {w} : r[v] = s[v]
  BY <1>1, <1>2
<1> HIDE DEF t, w
<1>4. SaveInvOf(t, r)
  BY <1>3, OtherSaveMoves
<1>5. \A j \in Jobs : j.win = w /\ Belongs(j, r) => SaveInvOf(Append(t, j), r)
  BY <1>3, <1>4, JobQueued
<1> QED BY <1>4, <1>5 DEF t, w

LEMMA InitSave == Init => SaveInv
BY DEF Init, SaveInv, SaveInvOf

(* A job that is of no save comes to the queue, or leaves it. *)
LEMMA OtherQueued ==
  ASSUME TypeOK, SaveInv, NEW j \in Jobs, j.kind \notin OfSave, Queues(j), UNCHANGED save
  PROVE  SaveInv'
<1>1. queue \in Seq(Jobs) /\ SaveInvOf(queue, save) /\ Belongs(j, save)
  BY DEF TypeOK, SaveInv, Belongs, OfSave
<1>2. SaveInvOf(Append(queue, j), save)
  BY <1>1, JobQueued
<1> QED BY <1>2 DEF SaveInv, Queues

LEMMA OtherServed ==
  ASSUME TypeOK, SaveInv, queue # <<>>, Releases, UNCHANGED save
  PROVE  SaveInv'
<1>1. SaveInvOf(Tail(queue), save)
  BY NoJobAfterHead DEF TypeOK, SaveInv
<1> QED BY <1>1 DEF SaveInv, Releases

LEMMA ProceedsSave ==
  ASSUME TypeOK, SaveInv, NEW w \in Windows, Proceeds(w) \/ Saves(w)
  PROVE  SaveInv'
<1>1. queue \in Seq(Jobs) /\ SaveInvOf(queue, save)
  BY DEF TypeOK, SaveInv
<1>2. /\ save[w].at \notin {"asking", "reconciling"}
      /\ \A v \in Windows \ {w} : save'[v] = save[v]
  <2>1. save[w].at \notin {"asking", "reconciling"}
    BY DEF Proceeds, Saves, Targets, SaveEnds, Writes, Settles
  <2>2. \A v \in Windows \ {w} : save'[v] = save[v]
    BY DEF Proceeds, Saves, Targets, SaveEnds, Writes, Settles, TypeOK
  <2> QED BY <2>1, <2>2
<1>3. /\ SaveInvOf(queue, save')
      /\ \A j \in Jobs : j.win = w /\ Belongs(j, save') => SaveInvOf(Append(queue, j), save')
  BY <1>1, <1>2, SaveMoves
<1>4. CASE UNCHANGED queue
  BY <1>3, <1>4 DEF SaveInv
<1>5. CASE Settles(w)
  <2> DEFINE j == Job("reconcile", w, save[w].target, Nothing)
  <2>1. save[w].target \in Docs
    BY DEF TypeOK, SaveStates
  <2>2. j \in Jobs /\ j.win = w /\ j.kind = "reconcile"
    BY <2>1, JobTypes
  <2>3. save'[w].at = "reconciling"
    BY <1>5 DEF Settles, TypeOK, SaveStates
  <2>4. queue' = Append(queue, j)
    BY <1>5 DEF Settles, Queues
  <2> HIDE DEF j
  <2>5. Belongs(j, save')
    BY <2>2, <2>3 DEF Belongs
  <2> QED BY <1>3, <2>2, <2>4, <2>5 DEF SaveInv
<1>6. CASE Saves(w)
  <2> DEFINE j == Job("ask", w, path[w], Nothing)
  <2>1. path[w] \in Docs /\ NoSave(w) \in SaveStates
    BY NoSaveType DEF TypeOK
  <2>2. j \in Jobs /\ j.win = w /\ j.kind = "ask"
    BY <2>1, JobTypes
  <2>3. save'[w].at = "asking"
    BY <1>6, <2>1 DEF Saves, TypeOK, SaveStates
  <2>4. queue' = Append(queue, j)
    BY <1>6 DEF Saves, Queues
  <2> HIDE DEF j
  <2>5. Belongs(j, save')
    BY <2>2, <2>3 DEF Belongs
  <2> QED BY <1>3, <2>2, <2>4, <2>5 DEF SaveInv
<1> QED BY <1>4, <1>5, <1>6 DEF Proceeds, Targets, SaveEnds, Writes

LEMMA AsksSave ==
  ASSUME TypeOK, SaveInv, Asks \/ AskFails
  PROVE  SaveInv'
<1>1. /\ queue \in Seq(Jobs) /\ SaveInvOf(queue, save) /\ queue # <<>>
      /\ Head(queue).kind \in OfSave /\ Head(queue).win \in Windows
  BY HeldType DEF TypeOK, SaveInv, OfSave, Asks, AskFails
<1>2. \A v \in Windows \ {Head(queue).win} : save'[v] = save[v]
  BY <1>1 DEF Asks, AskFails, TypeOK
<1>3. SaveInvOf(Tail(queue), save')
  BY <1>1, <1>2, SaveServed
<1> QED BY <1>3 DEF Asks, AskFails, Releases, SaveInv

LEMMA ContinuesSave ==
  ASSUME TypeOK, SaveInv, queue # <<>>,
         Head(queue).kind \in {"reconcile", "resolve", "discard"},
         Continues(Head(queue), Head(queue).win)
  PROVE  SaveInv'
<1> DEFINE h == Head(queue)
           w == h.win
<1>1. queue \in Seq(Jobs) /\ SaveInvOf(queue, save) /\ w \in Windows
  BY HeadType DEF TypeOK, SaveInv
<1>2. CASE h.kind = "reconcile" /\ save[w].as /\ save[w].from # save[w].target
  <2> DEFINE j == Job("resolve", w, save[w].from, Nothing)
  <2>1. save[w].from \in Docs
    BY <1>1 DEF TypeOK, SaveStates
  <2>2. j \in Jobs /\ j.win = w /\ j.kind = "resolve"
    BY <1>1, <2>1, JobTypes
  <2>3. queue' = Append(Tail(queue), j) /\ save' = save
    BY <1>2 DEF Continues
  <2>4. save[w].at = "reconciling"
    <3>1. 1 \in 1..Len(queue) /\ h = queue[1]
      BY <1>1, TailAt
    <3> QED BY <1>1, <1>2, <3>1 DEF SaveInvOf, Belongs
  <2>5. Belongs(j, save)
    BY <2>2, <2>4 DEF Belongs
  <2>6. \A e \in Jobs : e.win = w /\ Belongs(e, save) => SaveInvOf(Append(Tail(queue), e), save)
    BY <1>1, <1>2, SaveServed DEF OfSave
  <2> HIDE DEF j, w, h
  <2>7. SaveInvOf(Append(Tail(queue), j), save)
    BY <2>2, <2>5, <2>6
  <2> QED BY <2>3, <2>7 DEF SaveInv
<1>3. CASE ~(h.kind = "reconcile" /\ save[w].as /\ save[w].from # save[w].target)
  <2>1. CASE h.kind = "discard"
    <3>1. Releases /\ UNCHANGED save
      BY <1>3, <2>1 DEF Continues
    <3> QED BY <3>1, OtherServed
  <2>2. CASE h.kind # "discard"
    <3>1. queue' = Tail(queue) /\ save' = [save EXCEPT ![w] = NoSave(w)]
      BY <1>3, <2>2 DEF Continues, Releases
    <3>2. \A v \in Windows \ {w} : save'[v] = save[v]
      BY <3>1 DEF TypeOK
    <3>3. SaveInvOf(Tail(queue), save')
      BY <1>1, <2>2, <3>2, SaveServed DEF OfSave
    <3> QED BY <3>1, <3>3 DEF SaveInv
  <2> QED BY <2>1, <2>2
<1> QED BY <1>2, <1>3

LEMMA StepSave ==
  ASSUME TypeOK, SaveInv, GcInv, Next
  PROVE  SaveInv'
<1>1. CASE \E w \in Windows : Proceeds(w) \/ Saves(w)
  BY <1>1, ProceedsSave
<1>2. CASE Asks \/ AskFails
  BY <1>2, AsksSave
<1>3. CASE Skips \/ \E ok \in BOOLEAN : Commits(ok)
  <2>1. /\ queue # <<>> /\ Head(queue).kind \in {"reconcile", "resolve", "discard"}
        /\ Continues(Head(queue), Head(queue).win)
    BY <1>3 DEF Skips, Commits, Holds, GcInv
  <2> QED BY <2>1, ContinuesSave
<1>4. CASE Records \/ RecordFails \/ \E ok \in BOOLEAN : RenamesInManifest(ok)
  <2>1. queue # <<>> /\ Releases /\ UNCHANGED save
    BY <1>4 DEF Records, RecordFails, RenamesInManifest, Holds
  <2> QED BY <2>1, OtherServed
<1>5. ASSUME NEW w \in Windows,
             \/ \E a \in Assets : Inserts(w, a)
             \/ ClosesUnsaved(w)
             \/ \E d \in Docs : Renames(w, d)
      PROVE  SaveInv'
  <2>1. path[w] \in Docs
    BY DEF TypeOK
  <2>2. UNCHANGED save
    BY <1>5 DEF Inserts, ClosesUnsaved, Renames
  <2>3. \E j \in Jobs : j.kind \notin OfSave /\ Queues(j)
    <3>1. CASE \E a \in Assets : Inserts(w, a)
      BY <2>1, <3>1, JobTypes DEF Inserts, OfSave
    <3>2. CASE ClosesUnsaved(w)
      BY <2>1, <3>2, JobTypes DEF ClosesUnsaved, OfSave
    <3>3. CASE \E d \in Docs : Renames(w, d)
      BY <2>1, <3>3, JobTypes DEF Renames, OfSave
    <3> QED BY <1>5, <3>1, <3>2, <3>3
  <2> QED BY <2>2, <2>3, OtherQueued
<1>6. CASE Crashes
  BY <1>6 DEF Crashes, SaveInv, SaveInvOf
<1>7. CASE UNCHANGED <<queue, save>>
  BY <1>7 DEF SaveInv
<1>8. \/ \E w \in Windows : Proceeds(w) \/ Saves(w)
      \/ Asks \/ AskFails
      \/ Skips \/ \E ok \in BOOLEAN : Commits(ok)
      \/ Records \/ RecordFails \/ \E ok \in BOOLEAN : RenamesInManifest(ok)
      \/ \E w \in Windows : \/ \E a \in Assets : Inserts(w, a)
                            \/ ClosesUnsaved(w)
                            \/ \E d \in Docs : Renames(w, d)
      \/ Crashes
      \/ UNCHANGED <<queue, save>>
  BY DEF Next, Works, Reconciles, Resolves, Spares, Deletes, Replies, Edits, Modified
<1> QED BY <1>1, <1>2, <1>3, <1>4, <1>5, <1>6, <1>7, <1>8

-----------------------------------------------------------------------------
(* The deletions *)

(* While a job deletes, what the others do leaves it what it has found out. *)
LEMMA GcFrame ==
  ASSUME TypeOK, GcInv, gc.running, UNCHANGED <<gc, man>>,
         queue' # <<>>, Head(queue)' = Head(queue),
         Head(queue).kind # "discard" => save'[Head(queue).win].pend = save[Head(queue).win].pend
  PROVE  GcInv'
<1>1. Doomed' = Doomed /\ Pending(man)' = Pending(man) /\ Pending(gc.m)' = Pending(gc.m)
  BY DEF Doomed, Pending
<1> QED BY <1>1 DEF GcInv

LEMMA HeadStays ==
  ASSUME NEW q \in Seq(Jobs), q # <<>>, NEW j \in Jobs
  PROVE  Append(q, j) # <<>> /\ Head(Append(q, j)) = Head(q)
<1>1. /\ Append(q, j) \in Seq(Jobs) /\ Len(q) \in Nat \ {0} /\ Len(Append(q, j)) = Len(q) + 1
      /\ Append(q, j)[1] = q[1] /\ Head(q) = q[1]
  BY AppendAt, TailAt
<1>2. Append(q, j) # <<>>
  BY <1>1
<1> QED BY <1>1, <1>2, TailAt

LEMMA OutsideGc ==
  ASSUME TypeOK, SaveInv, GcInv, NEW w \in Windows,
         \/ Proceeds(w) \/ Saves(w) \/ Replies(w) \/ ClosesUnsaved(w)
         \/ \E a \in Assets : Inserts(w, a) \/ Edits(w, a) \/ Modified(a)
         \/ \E d \in Docs : Renames(w, d)
  PROVE  GcInv'
<1>1. UNCHANGED <<gc, man>>
  BY DEF Proceeds, Targets, SaveEnds, Writes, Settles, Saves, Replies, ClosesUnsaved,
         Inserts, Edits, Modified, Renames
<1>2. CASE ~gc.running
  BY <1>1, <1>2 DEF GcInv
<1>3. CASE gc.running
  <2>1. queue \in Seq(Jobs) /\ queue # <<>> /\ Head(queue).kind \in {"reconcile", "resolve", "discard"}
    BY <1>3 DEF GcInv, TypeOK
  <2>2. queue' = queue \/ \E j \in Jobs : queue' = Append(queue, j)
    <3>1. path[w] \in Docs /\ save[w].target \in Docs
      BY DEF TypeOK, SaveStates
    <3> QED BY <3>1, JobTypes DEF Proceeds, Targets, SaveEnds, Writes, Settles, Saves, Replies,
                 ClosesUnsaved, Inserts, Edits, Modified, Renames, Queues
  <2>3. queue' # <<>> /\ Head(queue)' = Head(queue)
    BY <2>1, <2>2, HeadStays
  <2>4. Head(queue).kind # "discard" => save'[Head(queue).win].pend = save[Head(queue).win].pend
    <3> SUFFICES ASSUME Head(queue).kind # "discard"
                 PROVE  save'[Head(queue).win] = save[Head(queue).win]
      OBVIOUS
    <3>1. Head(queue).win \in Windows /\ 1 \in 1..Len(queue) /\ Head(queue) = queue[1]
      BY <2>1, HeadType, TailAt
    <3>2. save[Head(queue).win].at = "reconciling"
      BY <2>1, <3>1 DEF SaveInv, SaveInvOf, Belongs
    <3>3. CASE Proceeds(w) \/ Saves(w)
      <4>1. save[w].at # "reconciling" /\ \A v \in Windows \ {w} : save'[v] = save[v]
        <5>1. save[w].at # "reconciling"
          BY <3>3 DEF Proceeds, Targets, SaveEnds, Writes, Settles, Saves
        <5>2. \A v \in Windows \ {w} : save'[v] = save[v]
          BY <3>3 DEF Proceeds, Targets, SaveEnds, Writes, Settles, Saves, TypeOK
        <5> QED BY <5>1, <5>2
      <4> QED BY <3>1, <3>2, <4>1
    <3>4. CASE UNCHANGED save
      BY <3>4
    <3> QED BY <3>3, <3>4 DEF Replies, ClosesUnsaved, Inserts, Edits, Modified, Renames
  <2> QED BY <1>1, <1>3, <2>3, <2>4, GcFrame
<1> QED BY <1>2, <1>3

LEMMA NotDeleting ==
  ASSUME TypeOK, GcInv,
         \/ Records \/ RecordFails \/ Asks \/ AskFails \/ Skips \/ Crashes
         \/ \E ok \in BOOLEAN : Commits(ok) \/ RenamesInManifest(ok)
  PROVE  GcInv'
<1>1. gc'.running = FALSE
  BY NoGcIs DEF Records, RecordFails, Asks, AskFails, Skips, Crashes, Commits,
                RenamesInManifest, Holds, TypeOK
<1> QED BY <1>1 DEF GcInv

LEMMA DeletesGc ==
  ASSUME TypeOK, GcInv, NEW a, Spares(a) \/ Deletes(a)
  PROVE  GcInv'
<1>1. gc.running /\ (Forgets(a) \/ Keeps(a)) /\ UNCHANGED <<man, queue, save>>
  BY DEF Spares, Deletes
<1>2. /\ gc'.left = gc.left \ {a} /\ gc'.kept = gc.kept /\ gc'.seen = gc.seen
      /\ gc'.m = gc.m \/ gc'.m = Without(gc.m, {a})
  BY <1>1, GcStepIs
<1>3. Doomed' \subseteq Doomed
  BY <1>2 DEF Doomed
<1>4. \A x : x \in gc'.m.files /\ (x \in gc.m.files => x \in Pending(gc.m)) => x \in Pending(gc'.m)
  <2>1. CASE gc'.m = gc.m
    BY <2>1
  <2>2. CASE gc'.m = Without(gc.m, {a})
    <3>1. /\ gc'.m.files = gc.m.files \ {a}
          /\ \A d \in Docs : gc'.m.pending[d] = gc.m.pending[d] \ {a}
      BY <2>2, WithoutType DEF TypeOK
    <3> QED BY <3>1, PendingIs
  <2> QED BY <1>2, <2>1, <2>2
<1>5. Pending(gc.m)' = Pending(gc'.m) /\ Pending(man)' = Pending(man)
  BY <1>1 DEF Pending
<1> QED BY <1>1, <1>2, <1>3, <1>4, <1>5 DEF GcInv

(* Whatever a job has kept, its siblings' references and what the manifest    *)
(* will say is pending are among it.                                          *)
LEMMA KeptIs ==
  ASSUME NEW m, NEW own, NEW but, NEW kept \in MustStay(m, own, but), NEW x \in own, x \notin kept
  PROVE  /\ \A d \in Docs \ but : x \notin text[d]
         /\ \A d \in Docs : x \notin m.pending[d]
<1>1. kept = Protected(m) \cup Scanned(own, but)
  BY DEF MustStay
<1> QED BY <1>1, ProtectedIs, ScannedIs

LEMMA ReconcilesGc ==
  ASSUME TypeOK, Reconciles
  PROVE  GcInv'
<1> DEFINE w == Head(queue).win
           d == Head(queue).doc
<1>1. /\ w \in Windows /\ d \in Docs /\ queue # <<>> /\ Head(queue).kind = "reconcile"
      /\ UNCHANGED <<man, queue, save>>
  BY HeldType DEF Reconciles
<1>2. PICK own \in SUBSET ((man.files \cap disk) \ changed) :
        \E kept \in MustStay(Reconciled(own, w, d), own, {d}) :
          Collects(Reconciled(own, w, d), own \ kept, kept, {d})
  BY DEF Reconciles
<1> DEFINE m == Reconciled(own, w, d)
<1>3. PICK kept \in MustStay(m, own, {d}) : Collects(m, own \ kept, kept, {d})
  BY <1>2
<1>4. own \in SUBSET Assets
  BY ManifestParts DEF TypeOK
<1> HIDE DEF w, d
<1>5. /\ \A x \in m.files : x \in own
      /\ \A e \in Docs : \A x \in own \cap man.pending[e] :
           x \in m.pending[e] \/ (e = d /\ x \in Resolved(w))
  BY <1>1, <1>4, ReconciledIs
<1>6. Resolved(w) \subseteq save[w].pend
  BY DEF Resolved
<1>7. man.files \in SUBSET Assets /\ man.pending \in [Docs -> SUBSET Assets]
  BY ManifestParts DEF TypeOK
<1> HIDE DEF m
<1>8. /\ gc'.m = m /\ gc'.left = own \ kept /\ gc'.kept = kept
      /\ \A e \in Docs : gc'.seen[e] = IF e \in {d} THEN {} ELSE text[e]
      /\ gc'.running = TRUE
  BY ONLY <1>3, CollectsIs
<1>9. \A x \in Doomed' : x \in own /\ x \notin kept
  BY <1>8 DEF Doomed
<1>10. \A x \in Doomed' : /\ \A e \in Docs \ {d} : x \notin text[e]
                          /\ \A e \in Docs : x \notin m.pending[e]
  BY <1>3, <1>9, KeptIs
<1>11. \A x \in Doomed' : \A e \in Docs : e # d => x \notin man.pending[e]
  BY <1>5, <1>9, <1>10
<1>12. \A x \in Pending(man) \ save[w].pend :
         x \notin Doomed' /\ (x \in m.files => x \in Pending(m))
  <2> SUFFICES ASSUME NEW x, NEW e \in Docs, x \in man.pending[e], x \notin save[w].pend
               PROVE  x \notin Doomed' /\ (x \in m.files => x \in m.pending[e])
    BY PendingIs
  <2>1. x \in own => x \in m.pending[e]
    BY <1>5, <1>6
  <2>2. x \in m.files => x \in own
    BY <1>5, <1>7
  <2> QED BY <1>9, <1>10, <2>1, <2>2
<1>13. \A e \in Docs : \A x \in Doomed' : x \notin gc'.seen[e]
  BY <1>8, <1>10
<1>14. Pending(gc.m)' = Pending(m) /\ Pending(man)' = Pending(man)
  BY <1>1, <1>8 DEF Pending
<1> QED BY <1>1, <1>8, <1>11, <1>12, <1>13, <1>14 DEF GcInv, w, d

LEMMA ResolvesGc ==
  ASSUME TypeOK, NEW kind \in {"resolve", "discard"}, NEW names, Resolves(kind, names),
         kind = "resolve" => names \subseteq save[Head(queue).win].pend
  PROVE  GcInv'
<1> DEFINE w == Head(queue).win
           d == Head(queue).doc
           m == NoLongerPending(names, d)
<1>1. /\ w \in Windows /\ d \in Docs /\ queue # <<>> /\ Head(queue).kind = kind
      /\ UNCHANGED <<man, queue, save>>
  BY HeldType DEF Resolves
<1>2. PICK kept \in MustStay(m, man.files, {}) : Collects(m, names \cap man.files, kept, {})
  BY DEF Resolves
<1> HIDE DEF w, d
<1>3. /\ m.files = man.files
      /\ \A e \in Docs : m.pending[e] = IF e = d THEN man.pending[e] \ names ELSE man.pending[e]
  <2>1. TypeOK /\ d \in Docs
    BY <1>1
  <2>2. /\ NoLongerPending(names, d).files = man.files
        /\ \A e \in Docs : NoLongerPending(names, d).pending[e] =
             IF e = d THEN man.pending[e] \ names ELSE man.pending[e]
    BY ONLY <2>1, NoLongerPendingIs
  <2> QED BY <2>2
<1> HIDE DEF m
<1>4. /\ gc'.m = m /\ gc'.left = names \cap man.files /\ gc'.kept = kept
      /\ \A e \in Docs : gc'.seen[e] = IF e \in {} THEN {} ELSE text[e]
  BY <1>2, CollectsIs, ZenonT(60)
<1>5. \A x \in Doomed' : x \in names /\ x \in man.files /\ x \notin kept
  BY <1>4 DEF Doomed
<1>6. \A x \in Doomed' : /\ \A e \in Docs \ {} : x \notin text[e]
                         /\ \A e \in Docs : x \notin m.pending[e]
  BY <1>2, <1>5, KeptIs
<1>7. \A e \in Docs : \A x \in Doomed' : x \notin gc'.seen[e] /\ (e # d => x \notin man.pending[e])
  BY <1>3, <1>4, <1>6
<1>8. kind = "resolve" => \A x \in Pending(man) \ save[w].pend : x \notin Doomed' /\ x \in Pending(m)
  <2> SUFFICES ASSUME kind = "resolve", NEW x, NEW e \in Docs, x \in man.pending[e],
                      x \notin save[w].pend
               PROVE  x \notin Doomed' /\ x \in m.pending[e]
    BY PendingIs
  <2> QED BY <1>3, <1>5 DEF w
<1>9. Pending(gc.m)' = Pending(m) /\ Pending(man)' = Pending(man)
  BY <1>1, <1>4 DEF Pending
<1> QED BY <1>1, <1>4, <1>7, <1>8, <1>9 DEF GcInv, w, d

-----------------------------------------------------------------------------
(* The invariant *)

LEMMA WorksInv ==
  ASSUME AssetInv, Works
  PROVE  TypeOK' /\ GcInv'
<1> DEFINE h == Head(queue)
<1> USE DEF AssetInv
<1>1. CASE Records \/ RecordFails
  BY <1>1, RecordsType, NotDeleting
<1>2. CASE Asks \/ AskFails
  BY <1>2, AsksType, NotDeleting
<1>3. CASE Reconciles
  BY <1>3, LooksType, ReconcilesGc
<1>4. CASE Skips \/ \E ok \in BOOLEAN : Commits(ok)
  BY <1>4, CommitsType, NotDeleting
<1>5. CASE Resolves("resolve", man.pending[h.doc] \cap save[h.win].pend)
  BY <1>5, LooksType, ResolvesGc
<1>6. CASE Resolves("discard", man.pending[h.doc])
  BY <1>6, LooksType, ResolvesGc
<1>7. CASE \E a \in Assets : Spares(a) \/ Deletes(a)
  BY <1>7, DeletesType, DeletesGc
<1>8. CASE \E ok \in BOOLEAN : RenamesInManifest(ok)
  BY <1>8, RenamesInManifestType, NotDeleting
<1> QED BY <1>1, <1>2, <1>3, <1>4, <1>5, <1>6, <1>7, <1>8 DEF Works

LEMMA StepInv ==
  ASSUME AssetInv, [Next]_vars
  PROVE  AssetInv'
<1> USE DEF AssetInv
<1>1. CASE Works
  BY <1>1, WorksInv, StepSave DEF Next
<1>2. ASSUME NEW w \in Windows,
             \/ Proceeds(w) \/ Saves(w) \/ Replies(w) \/ ClosesUnsaved(w)
             \/ \E a \in Assets : Inserts(w, a) \/ Edits(w, a)
             \/ \E d \in Docs : Renames(w, d)
      PROVE  AssetInv'
  <2>1. TypeOK'
    BY <1>2, ProceedsType, SavesType, EditorType, InsertsType, ClosesType
  <2>2. SaveInv'
    BY <1>2, StepSave DEF Next
  <2>3. GcInv'
    BY <1>2, OutsideGc
  <2> QED BY <2>1, <2>2, <2>3
<1>3. CASE \E a \in Assets : Modified(a)
  <2>1. TypeOK' /\ SaveInv'
    BY <1>3 DEF Modified, TypeOK, SaveInv, editor
  <2>2. UNCHANGED <<gc, man, queue, save>>
    BY <1>3 DEF Modified
  <2> QED BY <2>1, <2>2 DEF GcInv, Doomed, Pending
<1>4. CASE Crashes
  <2>1. SaveInv' /\ GcInv'
    BY <1>4, StepSave, NotDeleting DEF Next
  <2>2. TypeOK'
    <3>1. save' \in [Windows -> SaveStates]
      BY <1>4, NoSaveType DEF Crashes
    <3>2. buffer' \in [Windows -> SUBSET Assets]
      BY <1>4 DEF Crashes, TypeOK
    <3>3. insert' \in [Windows -> Assets \cup {Nothing}] /\ queue' \in Seq(Jobs)
      BY <1>4 DEF Crashes
    <3> QED BY <1>4, <3>1, <3>2, <3>3, NoGcIs DEF Crashes, TypeOK
  <2> QED BY <2>1, <2>2
<1>5. CASE UNCHANGED vars
  <2>1. UNCHANGED <<man, text, path, buffer, insert, queue, gc, save>>
    BY <1>5 DEF vars, editor
  <2> QED BY <2>1 DEF TypeOK, SaveInv, GcInv, Doomed, Pending
<1> QED BY <1>1, <1>2, <1>3, <1>4, <1>5 DEF Next

LEMMA AssetInvariant == Spec => []AssetInv
<1>1. Init => AssetInv
  <2> SUFFICES ASSUME Init PROVE GcInv
    BY InitType, InitSave DEF AssetInv
  <2> QED BY NoGcIs DEF Init, GcInv
<1>2. AssetInv /\ [Next]_vars => AssetInv'
  BY StepInv
<1> QED BY <1>1, <1>2, PTL DEF Spec

(* Only the deletions of a job delete while it runs. *)
LEMMA CollectedIs ==
  ASSUME AssetInv, [Next]_vars, NEW x \in Collected
  PROVE  gc.running /\ x \in Doomed
<1>1. gc.running /\ x \in disk /\ x \notin disk'
  BY DEF Collected
<1>2. \E a \in Assets : Deletes(a)
  BY <1>1 DEF Next, vars, files, Works, Records, RecordFails, Asks, AskFails, Reconciles, Resolves,
     Skips, Spares, Commits, RenamesInManifest, Holds, Proceeds, Targets, SaveEnds, Writes,
     Settles, Saves, Replies, ClosesUnsaved, Inserts, Edits, Renames, Modified, Crashes
<1> QED BY <1>1, <1>2 DEF Deletes, Doomed

(* Nothing in use is collected: no text that the deleting job has read refers *)
(* to it, and in no other document is it pending; through renames, saves       *)
(* under other names, failures and crashes, for any number of windows.         *)
THEOREM CollectionIsSafe == Spec => CollectsOnlyUnused
<1> DEFINE Safe == \A d \in Docs :
                     /\ Collected \cap text[d] \cap gc.seen[d] = {}
                     /\ queue # <<>> /\ d # Head(queue).doc => Collected \cap man.pending[d] = {}
<1>1. AssetInv /\ [Next]_vars => Safe
  <2> SUFFICES ASSUME AssetInv, [Next]_vars, NEW d \in Docs, NEW x \in Collected
               PROVE  x \notin gc.seen[d] /\ (d # Head(queue).doc => x \notin man.pending[d])
    OBVIOUS
  <2>1. gc.running /\ x \in Doomed
    BY CollectedIs
  <2> QED BY <2>1 DEF AssetInv, GcInv
<1> QED BY <1>1, AssetInvariant, PTL DEF Spec, CollectsOnlyUnused

(* A save settles, and deletes, only what was pending when it asked: what is   *)
(* inserted after that stays pending, or the manifest disowns it.              *)
THEOREM SavesSettleWhatTheyAsked == Spec => LaterInsertionsSurvive
<1> DEFINE Kept1 == gc.running /\ Head(queue).kind # "discard" =>
                      LET settled == (Pending(man) \ Pending(man')) \cap man'.files
                          deleted == Pending(man) \cap Collected
                      IN  deleted \cup settled \subseteq save[Head(queue).win].pend
<1>1. AssetInv /\ [Next]_vars => Kept1
  <2> SUFFICES ASSUME AssetInv, [Next]_vars, gc.running, Head(queue).kind # "discard",
                      NEW x \in Pending(man), x \notin save[Head(queue).win].pend
               PROVE  x \notin Collected /\ (x \in man'.files => x \in Pending(man'))
    OBVIOUS
  <2>1. x \notin Doomed /\ (x \in gc.m.files => x \in Pending(gc.m))
    BY DEF AssetInv, GcInv
  <2>2. man' = man \/ man' = gc.m
    BY DEF Next, vars, Works, Records, RecordFails, Asks, AskFails, Reconciles, Resolves,
     Skips, Spares, Deletes, Commits, RenamesInManifest, Holds, Proceeds, Targets, SaveEnds, Writes,
     Settles, Saves, Replies, ClosesUnsaved, Inserts, Edits, Renames, Modified, Crashes
  <2> QED BY <2>1, <2>2, CollectedIs
<1> QED BY <1>1, AssetInvariant, PTL DEF Spec, LaterInsertionsSurvive
=============================================================================
