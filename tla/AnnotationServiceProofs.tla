---------------------- MODULE AnnotationServiceProofs ----------------------
(***************************************************************************)
(* Proofs about the annotation service, for any number of clients, documents *)
(* and capacities.  The invariant is built in layers: types, the turns of   *)
(* the lanes, what a lane holds, the clients that have not come yet, the    *)
(* shutdown; on them rest the newest snapshot, the order of events and the   *)
(* draining; and on the order in which the loads and saves of one client     *)
(* pass from the mailbox through its lane to its events rests what a save     *)
(* may expect to find.                                                       *)
(***************************************************************************)
EXTENDS AnnotationService, SequenceLemmas, FiniteSetTheorems

Loads == [kind : {"load"}, client : Clients, gen : Nat, path : Paths]

Saves == [kind : {"save"}, client : Clients, gen : Nat, path : Paths,
          expected : Nat, revision : Nat, n : Nat]

Commands ==
  Loads \cup Saves \cup [kind : {"attach"}, client : Clients]
    \cup [kind : {"wake", "inspect", "shutdown"}]

Ops == Loads \cup Saves \cup [kind : {"detach"}]

Events ==
  [kind : {"loaded", "saved"}, gen : Nat, revision : Nat, n : Nat]
    \cup [kind : {"failed"}, gen : Nat, revision : Nat \cup {None}, n : Nat]

Documents ==
  [gen : Nat, path : Paths \cup {None}, revision : Nat, base : Nat, loaded : BOOLEAN]

Lanes ==
  [status : {"absent", "open", "closing"}, ops : Seq(Ops),
   active : SUBSET (Nat \X Paths), observed : Nat \cup {None}]

(* The types of the state of the clients and of the actor, and the bound of *)
(* the clients' channels.                                                   *)
TypeOK ==
  /\ mailbox \in Seq(Commands)
  /\ service \in {"open", "closing", "down"}
  /\ handle \in [Clients -> {"none", "open", "dropping", "gone"}]
  /\ view \in [Clients -> [shown : Documents, left : Documents, saves : Nat]]
  /\ inbox \in [Clients -> Seq(Events)]
  /\ listening \in [Clients -> BOOLEAN]
  /\ pc \in {"top", "drain", "reap", "serve", "work", "stopped"}
  /\ lane \in [Clients -> Lanes]
  /\ sink \in [Clients -> [open : BOOLEAN, pending : Seq(Events)]]
  /\ ready \in Seq(Clients)
  /\ disk \in [Paths -> [revision : Nat, author : Clients \cup {None, Foreign}]]
  /\ ingested \in [Clients -> Nat] /\ tried \in [Clients -> Nat]
  /\ done \in [Clients -> Nat] /\ read \in [Clients -> Nat]
  /\ \A c \in Clients : Len(inbox[c]) <= EVENT_CAPACITY

-----------------------------------------------------------------------------
(* A lane is in turn once, exactly while it has operations and is not being  *)
(* worked on.                                                                *)
TurnInv ==
  /\ IsInjective(ready)
  /\ pc = "work" => last \in Clients /\ last \notin ToSet(ready)
  /\ \A c \in Clients : lane[c].ops # <<>> <=> (c \in ToSet(ready) \/ (pc = "work" /\ last = c))

(* A lane that closes ends with its detach operation. *)
LaneInvOf(l, c) ==
  /\ l.status = "absent" => l = NoLane
  /\ l.status = "closing" => l.ops # <<>> /\ l.ops[Len(l.ops)].kind = "detach"
  /\ \A i \in 1..Len(l.ops) :
       /\ l.ops[i].kind = "detach" => i = Len(l.ops) /\ l.status = "closing"
       /\ l.ops[i].kind # "detach" => l.ops[i].client = c

LaneInv == \A c \in Clients : LaneInvOf(lane[c], c)

IsLoad(m, c) == m.kind = "load" /\ m.client = c

IsSave(m, c) == m.kind = "save" /\ m.client = c

IsOf(m, c) == m.kind \in {"attach", "load", "save"} /\ m.client = c

(* A client that the actor has not heard of yet. *)
Fresh(c) ==
  /\ lane[c] = NoLane /\ sink[c] = NoSink /\ inbox[c] = <<>>
  /\ done[c] = 0 /\ read[c] = 0
  /\ ~view[c].shown.loaded /\ ~view[c].left.loaded
  /\ \A i \in 1..Len(mailbox) : ~IsSave(mailbox[i], c)

IsAttach(m, c) == m.kind = "attach" /\ m.client = c

AttachOf(c) ==
  /\ handle[c] = "none" => Fresh(c) /\ \A i \in 1..Len(mailbox) : ~IsOf(mailbox[i], c)
  /\ \A i \in 1..Len(mailbox) :
       IsAttach(mailbox[i], c) =>
         Fresh(c) /\ \A j \in 1..Len(mailbox) : IsAttach(mailbox[j], c) => i = j

AttachInv == \A c \in Clients : AttachOf(c)

(* Shutdown is the last command. *)
StopInv ==
  /\ \A i \in 1..Len(mailbox) :
       mailbox[i].kind = "shutdown" => i = Len(mailbox) /\ service # "open"
  /\ stopping => /\ mailbox = <<>> /\ service # "open"
                 /\ \A c \in Clients : lane[c].status # "open"
  /\ pc = "stopped" => stopping /\ ready = <<>>

-----------------------------------------------------------------------------
(* The newest save of a lane is its last one, or has been tried. *)
SnapshotOf(ops, newest, last_tried) ==
  \/ \E i \in 1..Len(ops) :
       /\ ops[i].kind = "save" /\ ops[i].n = newest
       /\ \A j \in (i + 1)..Len(ops) : ops[j].kind # "save"
  \/ last_tried = newest /\ \A j \in 1..Len(ops) : ops[j].kind # "save"

SnapshotInv == \A c \in Clients : SnapshotOf(lane[c].ops, ingested[c], tried[c])

InOrder(waiting, from, to) ==
  /\ Len(waiting) = to - from
  /\ \A i \in 1..Len(waiting) : waiting[i].n = from + i

(* The events of a client that it has not received. *)
Waiting(c) == inbox[c] \o sink[c].pending

EventInv ==
  \A c \in Clients :
    (sink[c].open /\ listening[c]) => InOrder(Waiting(c), read[c], done[c])

-----------------------------------------------------------------------------
(* Loads come in the order of generations, saves only for generations that   *)
(* were loaded, and with revisions that do not fall within a generation.     *)
Before(a, b, c) ==
  /\ (IsLoad(a, c) /\ IsLoad(b, c)) => a.gen < b.gen
  /\ (IsSave(a, c) /\ IsLoad(b, c)) => a.gen < b.gen
  /\ (IsLoad(a, c) /\ IsSave(b, c)) => b.gen < a.gen
  /\ (IsSave(a, c) /\ IsSave(b, c) /\ a.gen = b.gen) => a.revision <= b.revision

Within(q, c) == \A i, j \in 1..Len(q) : i < j => Before(q[i], q[j], c)

Across(q, r, c) == \A i \in 1..Len(q), j \in 1..Len(r) : Before(q[i], r[j], c)

(* A "loaded" event is ahead of the loads and not yet known to any save. *)
Told(e, m, c) ==
  e.kind = "loaded" => /\ IsLoad(m, c) => e.gen < m.gen
                       /\ IsSave(m, c) => m.gen < e.gen

ToldAll(ev, q, c) == \A i \in 1..Len(ev), j \in 1..Len(q) : Told(ev[i], q[j], c)

ToldInOrder(ev) ==
  \A i, j \in 1..Len(ev) :
    (i < j /\ ev[i].kind = "loaded" /\ ev[j].kind = "loaded") => ev[i].gen < ev[j].gen

Serves(l, g) == \E p \in Paths : l.active = {<<g, p>>}

(* Whoever has been told of revision r of generation g. *)
Seen(l, g, r) ==
  /\ l.status # "absent" => l.active # {}
  /\ Serves(l, g) => l.observed # None /\ l.observed <= r

DocumentOK(d, l) == d.loaded => d.gen > 0 /\ Seen(l, d.gen, d.revision)

LoadOK(g, v, l, c) ==
  /\ g \in 1..MaxGeneration[c] /\ g <= v.shown.gen
  /\ v.shown.loaded => v.shown.gen < g
  /\ v.left.loaded => v.left.gen < g
  /\ \A h \in Nat : Serves(l, h) => h < g

KnownAs(m, d) == m.gen = d.gen => d.loaded /\ m.revision <= d.revision

SaveOK(m, v, l) ==
  /\ m.revision > 0 /\ m.gen <= v.shown.gen
  /\ KnownAs(m, v.shown) /\ KnownAs(m, v.left)
  /\ Seen(l, m.gen, m.revision)

ItemOK(m, v, l, c) ==
  /\ IsLoad(m, c) => LoadOK(m.gen, v, l, c)
  /\ IsSave(m, c) => SaveOK(m, v, l)

EventOK(e, v, l) ==
  e.kind = "loaded" =>
    /\ 0 < e.gen /\ e.gen <= v.shown.gen
    /\ v.shown.loaded => v.shown.gen < e.gen
    /\ v.left.loaded => v.left.gen < e.gen
    /\ Seen(l, e.gen, e.revision)

ActiveOK(l, c) ==
  /\ l.active = {} => l.observed = None
  /\ l.active # {} => \E g \in 1..MaxGeneration[c], p \in Paths : l.active = {<<g, p>>}

(* What a reader has opened, and what it held before that. *)
ViewOK(v, c) ==
  /\ v.shown.gen <= MaxGeneration[c]
  /\ v.left.gen < v.shown.gen \/ (v.left.gen = 0 /\ v.shown.gen = 0)
  /\ v.shown.gen > 0 => v.shown.path \in Paths
  /\ v.left.gen > 0 => v.left.path \in Paths

(* The lane serves a document that the reader has opened, and knows what the  *)
(* reader has been told.                                                      *)
LaneOK(v, l, c) ==
  /\ DocumentOK(v.shown, l) /\ DocumentOK(v.left, l)
  /\ ActiveOK(l, c)
  /\ \A h \in Nat : Serves(l, h) => h <= v.shown.gen

Orders(c, mail, ops, ev) ==
  /\ Within(mail, c) /\ Within(ops, c) /\ Across(ops, mail, c)
  /\ ToldInOrder(ev) /\ ToldAll(ev, mail, c) /\ ToldAll(ev, ops, c)

(* The loads and saves of a client from the mailbox through the lane to the  *)
(* events, in one picture.                                                    *)
FlowOf(c, mail, ops, ev, v, l) ==
  /\ Orders(c, mail, ops, ev)
  /\ \A i \in 1..Len(mail) : ItemOK(mail[i], v, l, c)
  /\ \A i \in 1..Len(ops) : ItemOK(ops[i], v, l, c)
  /\ \A i \in 1..Len(ev) : EventOK(ev[i], v, l)
  /\ ViewOK(v, c) /\ LaneOK(v, l, c)

FlowInv ==
  \A c \in Clients : FlowOf(c, mailbox, lane[c].ops, Waiting(c), view[c], lane[c])

(* What a lane has seen of its document is what is stored, unless somebody   *)
(* else stored it.                                                           *)
DiskInv ==
  /\ \A p \in Paths : disk[p].author = None => disk[p].revision = 0
  /\ \A c \in Clients, p \in Paths :
       (/\ lane[c].observed # None /\ disk[p].author \in {None, c}
        /\ \E g \in Nat : lane[c].active = {<<g, p>>})
         => disk[p].revision = lane[c].observed

-----------------------------------------------------------------------------
(* Types *)

LEMMA CommandKinds ==
  ASSUME NEW m \in Commands
  PROVE  /\ m.kind \in {"attach", "load", "save", "wake", "inspect", "shutdown"}
         /\ m.kind = "load" => m \in Loads
         /\ m.kind = "save" => m \in Saves
         /\ m.kind = "attach" => m.client \in Clients
BY DEF Commands, Loads, Saves

LEMMA OpKinds ==
  ASSUME NEW m \in Ops
  PROVE  /\ m.kind \in {"load", "save", "detach"}
         /\ m.kind = "load" => m \in Loads
         /\ m.kind = "save" => m \in Saves
BY DEF Ops, Loads, Saves

LEMMA SaveType ==
  ASSUME NEW c \in Clients, NEW g \in Nat, NEW p \in Paths, NEW e \in Nat, NEW r \in Nat,
         NEW n \in Nat
  PROVE  /\ Save(c, g, p, e, r, n) \in Saves
         /\ Save(c, g, p, e, r, n).kind = "save" /\ Save(c, g, p, e, r, n).client = c
         /\ Save(c, g, p, e, r, n).gen = g /\ Save(c, g, p, e, r, n).path = p
         /\ Save(c, g, p, e, r, n).expected = e /\ Save(c, g, p, e, r, n).revision = r
         /\ Save(c, g, p, e, r, n).n = n
BY DEF Save, Saves

LEMMA LaneIs ==
  ASSUME NEW s, NEW o, NEW a, NEW b
  PROVE  /\ Lane(s, o, a, b).status = s /\ Lane(s, o, a, b).ops = o
         /\ Lane(s, o, a, b).active = a /\ Lane(s, o, a, b).observed = b
BY DEF Lane

LEMMA LaneType ==
  ASSUME NEW s \in {"absent", "open", "closing"}, NEW o \in Seq(Ops),
         NEW a \in SUBSET (Nat \X Paths), NEW b \in Nat \cup {None}
  PROVE  Lane(s, o, a, b) \in Lanes
BY DEF Lane, Lanes

LEMMA NoLaneIs ==
  /\ NoLane.status = "absent" /\ NoLane.ops = <<>>
  /\ NoLane.active = {} /\ NoLane.observed = None /\ NoLane \in Lanes
<1>1. /\ NoLane.status = "absent" /\ NoLane.ops = <<>>
      /\ NoLane.active = {} /\ NoLane.observed = None
  BY LaneIs DEF NoLane
<1>2. <<>> \in Seq(Ops)
  OBVIOUS
<1>3. {} \in SUBSET (Nat \X Paths) /\ None \in Nat \cup {None}
  OBVIOUS
<1>4. NoLane \in Lanes
  BY <1>2, <1>3, LaneType DEF NoLane
<1> QED
  BY <1>1, <1>4

LEMMA LaneParts ==
  ASSUME TypeOK, NEW c \in Clients
  PROVE  /\ lane[c] \in Lanes
         /\ lane[c].status \in {"absent", "open", "closing"} /\ lane[c].ops \in Seq(Ops)
         /\ lane[c].active \in SUBSET (Nat \X Paths) /\ lane[c].observed \in Nat \cup {None}
BY DEF TypeOK, Lanes

LEMMA SinkParts ==
  ASSUME TypeOK, NEW c \in Clients
  PROVE  /\ sink[c] \in [open : BOOLEAN, pending : Seq(Events)]
         /\ sink[c].open \in BOOLEAN /\ sink[c].pending \in Seq(Events)
         /\ inbox[c] \in Seq(Events)
BY DEF TypeOK

LEMMA ViewParts ==
  ASSUME TypeOK, NEW c \in Clients
  PROVE  /\ view[c].shown \in Documents /\ view[c].left \in Documents /\ view[c].saves \in Nat
         /\ view[c].shown.gen \in Nat /\ view[c].left.gen \in Nat
         /\ view[c].shown.revision \in Nat /\ view[c].left.revision \in Nat
         /\ view[c].shown.base \in Nat /\ view[c].left.base \in Nat
         /\ view[c].shown.path \in Paths \cup {None} /\ view[c].left.path \in Paths \cup {None}
         /\ view[c].shown.loaded \in BOOLEAN /\ view[c].left.loaded \in BOOLEAN
BY DEF TypeOK, Documents

LEMMA DocumentType ==
  ASSUME NEW g \in Nat, NEW p \in Paths \cup {None}, NEW r \in Nat, NEW b \in Nat,
         NEW l \in BOOLEAN
  PROVE  /\ Document(g, p, r, b, l) \in Documents
         /\ Document(g, p, r, b, l).gen = g /\ Document(g, p, r, b, l).path = p
         /\ Document(g, p, r, b, l).revision = r /\ Document(g, p, r, b, l).base = b
         /\ Document(g, p, r, b, l).loaded = l
BY DEF Document, Documents

LEMMA ViewIs ==
  ASSUME NEW s, NEW l, NEW n
  PROVE  View(s, l, n).shown = s /\ View(s, l, n).left = l /\ View(s, l, n).saves = n
BY DEF View

LEMMA ViewType ==
  ASSUME NEW s \in Documents, NEW l \in Documents, NEW n \in Nat
  PROVE  View(s, l, n) \in [shown : Documents, left : Documents, saves : Nat]
BY DEF View

LEMMA SinkIs ==
  ASSUME NEW o, NEW p
  PROVE  Sink(o, p).open = o /\ Sink(o, p).pending = p
BY DEF Sink

LEMMA NoSinkIs ==
  /\ NoSink.open = FALSE /\ NoSink.pending = <<>>
  /\ NoSink \in [open : BOOLEAN, pending : Seq(Events)]
<1>1. <<>> \in Seq(Events)
  OBVIOUS
<1> QED
  BY <1>1 DEF NoSink, Sink

-----------------------------------------------------------------------------
(* What the helpers of the actor do *)

(* q is a contiguous part of r. *)
PartOf(q, r) == \E n \in Nat : \A i \in 1..Len(q) : n + i \in 1..Len(r) /\ q[i] = r[n + i]

LEMMA PartSelf == ASSUME NEW S, NEW q \in Seq(S) PROVE PartOf(q, q)
<1>1. \A i \in 1..Len(q) : 0 + i \in 1..Len(q) /\ q[i] = q[0 + i]
  OBVIOUS
<1> QED
  BY <1>1 DEF PartOf

LEMMA PartTail == ASSUME NEW S, NEW q \in Seq(S), q # <<>> PROVE PartOf(Tail(q), q)
<1>1. \A i \in 1..Len(Tail(q)) : 1 + i \in 1..Len(q) /\ Tail(q)[i] = q[1 + i]
  BY TailAt
<1> QED
  BY <1>1 DEF PartOf

LEMMA PartPrefix ==
  ASSUME NEW S, NEW q \in Seq(S), NEW r \in Seq(S)
  PROVE  PartOf(q, q \o r)
<1> DEFINE t == q \o r
<1>1. /\ Len(q) \in Nat /\ Len(r) \in Nat /\ Len(t) = Len(q) + Len(r)
      /\ \A i \in 1..Len(q) : t[i] = q[i]
  BY CatAt
<1> HIDE DEF t
<1>2. \A i \in 1..Len(q) : 0 + i \in 1..Len(t) /\ q[i] = t[0 + i]
  BY <1>1
<1> QED
  BY <1>2 DEF PartOf, t

LEMMA PartSuffix ==
  ASSUME NEW S, NEW q \in Seq(S), NEW r \in Seq(S)
  PROVE  PartOf(r, q \o r)
<1> DEFINE t == q \o r
<1>1. /\ Len(q) \in Nat /\ Len(r) \in Nat /\ Len(t) = Len(q) + Len(r)
      /\ \A i \in 1..Len(r) : t[Len(q) + i] = r[i]
  BY CatAt
<1> HIDE DEF t
<1>2. \A i \in 1..Len(r) : Len(q) + i \in 1..Len(t) /\ r[i] = t[Len(q) + i]
  BY <1>1
<1> QED
  BY <1>1, <1>2 DEF PartOf, t

LEMMA PartEmpty == ASSUME NEW q PROVE PartOf(<<>>, q)
<1>1. \A i \in 1..Len(<<>>) : 0 + i \in 1..Len(q) /\ <<>>[i] = q[0 + i]
  OBVIOUS
<1> QED
  BY <1>1 DEF PartOf

LEMMA CatEmpty == ASSUME NEW S, NEW q \in Seq(S) PROVE q \o <<>> = q
BY ConcatEmptySeq

LEMMA CatAppend ==
  ASSUME NEW S, NEW q \in Seq(S), NEW r \in Seq(S), NEW e \in S
  PROVE  q \o Append(r, e) = Append(q \o r, e)
<1>1. Append(r, e) = r \o <<e>>
  BY AppendIsConcat
<1>2. <<e>> \in Seq(S) /\ q \o r \in Seq(S)
  BY CatAt
<1>3. Append(q \o r, e) = (q \o r) \o <<e>>
  BY <1>2, AppendIsConcat
<1>4. (q \o r) \o <<e>> = q \o (r \o <<e>>)
  BY <1>2, ConcatAssociative
<1> QED
  BY <1>1, <1>3, <1>4

LEMMA CatHeadTail ==
  ASSUME NEW S, NEW q \in Seq(S), NEW r \in Seq(S), q # <<>>
  PROVE  /\ q \o r \in Seq(S) /\ q \o r # <<>>
         /\ Head(q \o r) = Head(q) /\ Tail(q \o r) = Tail(q) \o r
<1> DEFINE t == Tail(q)
           x == q \o r
           y == t \o r
           z == Tail(x)
<1>1. /\ t \in Seq(S) /\ Len(q) \in Nat \ {0} /\ Len(t) = Len(q) - 1 /\ Head(q) = q[1]
      /\ \A i \in 1..Len(t) : i + 1 \in 1..Len(q) /\ t[i] = q[i + 1]
  BY TailAt
<1> HIDE DEF t
<1>2. /\ x \in Seq(S) /\ Len(r) \in Nat /\ Len(x) = Len(q) + Len(r)
      /\ \A i \in 1..Len(q) : x[i] = q[i]
      /\ \A i \in 1..Len(r) : x[Len(q) + i] = r[i]
  BY CatAt
<1>3. /\ y \in Seq(S) /\ Len(y) = Len(t) + Len(r)
      /\ \A i \in 1..Len(t) : y[i] = t[i]
      /\ \A i \in 1..Len(r) : y[Len(t) + i] = r[i]
  <2>1. t \in Seq(S)
    BY <1>1
  <2> QED
    BY ONLY <2>1, r \in Seq(S), CatAt DEF y
<1> HIDE DEF x
<1>4. x # <<>>
  BY <1>1, <1>2, EmptySeq
<1>5. /\ z \in Seq(S) /\ Len(z) = Len(x) - 1 /\ Head(x) = x[1]
      /\ \A i \in 1..Len(z) : z[i] = x[i + 1]
  <2>1. x \in Seq(S)
    BY <1>2
  <2> QED
    BY ONLY <1>4, <2>1, TailAt DEF z
<1> HIDE DEF y, z
<1>6. Len(z) = Len(y)
  BY <1>1, <1>2, <1>3, <1>5
<1>7. ASSUME NEW i \in 1..Len(z) PROVE z[i] = y[i]
  <2>1. CASE i <= Len(t)
    BY <1>1, <1>2, <1>3, <1>5, <2>1
  <2>2. CASE Len(t) < i
    <3>1. i - Len(t) \in 1..Len(r) /\ i = Len(t) + (i - Len(t)) /\ i + 1 = Len(q) + (i - Len(t))
      BY <1>1, <1>2, <1>5, <2>2
    <3>2. y[i] = r[i - Len(t)] /\ x[i + 1] = r[i - Len(t)]
      BY <1>2, <1>3, <3>1
    <3> QED
      BY <1>5, <3>2
  <2> QED
    BY <1>1, <2>1, <2>2
<1>8. z = y
  BY <1>3, <1>5, <1>6, <1>7, SeqEqual
<1>9. Head(x) = Head(q)
  BY <1>1, <1>2, <1>5
<1> QED
  BY <1>2, <1>4, <1>8, <1>9 DEF x, y, z, t

LEMMA CatCut ==
  ASSUME NEW S, NEW q \in Seq(S), NEW r \in Seq(S), NEW n \in 0..Len(r)
  PROVE  (q \o SubSeq(r, 1, n)) \o SubSeq(r, n + 1, Len(r)) = q \o r
<1> DEFINE a == SubSeq(r, 1, n)
           b == SubSeq(r, n + 1, Len(r))
           x == q \o a
           y == x \o b
           z == q \o r
<1>1. /\ a \in Seq(S) /\ Len(a) = n /\ \A i \in 1..n : a[i] = r[i]
      /\ b \in Seq(S) /\ Len(b) = Len(r) - n
      /\ \A i \in 1..(Len(r) - n) : n + i \in 1..Len(r) /\ b[i] = r[n + i]
  BY CutAt
<1> HIDE DEF a, b
<1>2. /\ x \in Seq(S) /\ Len(q) \in Nat /\ Len(x) = Len(q) + Len(a)
      /\ \A i \in 1..Len(q) : x[i] = q[i]
      /\ \A i \in 1..Len(a) : x[Len(q) + i] = a[i]
  <2>1. a \in Seq(S)
    BY <1>1
  <2> QED
    BY ONLY q \in Seq(S), <2>1, CatAt DEF x
<1> HIDE DEF x
<1>3. /\ y \in Seq(S) /\ Len(y) = Len(x) + Len(b)
      /\ \A i \in 1..Len(x) : y[i] = x[i]
      /\ \A i \in 1..Len(b) : y[Len(x) + i] = b[i]
  <2>1. x \in Seq(S) /\ b \in Seq(S)
    BY <1>1, <1>2
  <2> QED
    BY ONLY <2>1, CatAt DEF y
<1>4. /\ z \in Seq(S) /\ Len(r) \in Nat /\ Len(z) = Len(q) + Len(r)
      /\ \A i \in 1..Len(q) : z[i] = q[i]
      /\ \A i \in 1..Len(r) : z[Len(q) + i] = r[i]
  BY CatAt
<1> HIDE DEF y, z
<1>5. Len(y) = Len(z)
  BY <1>1, <1>2, <1>3, <1>4
<1>6. ASSUME NEW i \in 1..Len(z) PROVE y[i] = z[i]
  <2>1. CASE i <= Len(q)
    BY <1>1, <1>2, <1>3, <1>4, <2>1
  <2>2. CASE Len(q) < i /\ i <= Len(x)
    <3>0. i - Len(q) \in 1..n /\ i = Len(q) + (i - Len(q))
      BY <1>1, <1>2, <1>4, <2>2
    <3>1. PICK j \in 1..n : i = Len(q) + j
      BY ONLY <3>0
    <3>2. j \in 1..Len(r) /\ i \in 1..Len(x)
      BY <1>1, <1>2, <1>4, <2>2, <3>1
    <3> QED
      BY <1>1, <1>2, <1>3, <1>4, <3>1, <3>2, SMTT(30)
  <2>3. CASE Len(x) < i
    <3>0. i - Len(x) \in 1..(Len(r) - n) /\ i = Len(x) + (i - Len(x))
      BY <1>1, <1>2, <1>4, <2>3
    <3>1. PICK j \in 1..(Len(r) - n) : i = Len(x) + j
      BY ONLY <3>0
    <3>2. n + j \in 1..Len(r) /\ i = Len(q) + (n + j)
      BY <1>1, <1>2, <1>4, <3>1
    <3>3. y[i] = r[n + j]
      BY <1>1, <1>3, <3>1
    <3> QED
      BY <1>4, <3>2, <3>3
  <2> QED
    BY <1>2, <1>4, <2>1, <2>2, <2>3
<1>7. y = z
  BY <1>3, <1>4, <1>5, <1>6, SeqEqual
<1> QED
  BY <1>7 DEF y, z, x, a, b

(* flush_sink moves events on, and loses them only with their receiver. *)
LEMMA FlushLemma ==
  ASSUME TypeOK, NEW c \in Clients
  PROVE  /\ FlushedSink(c) \in [open : BOOLEAN, pending : Seq(Events)]
         /\ FlushedInbox(c) \in Seq(Events) /\ Len(FlushedInbox(c)) <= EVENT_CAPACITY
         /\ FlushedSink(c).open => sink[c].open
         /\ listening[c] => FlushedInbox(c) \o FlushedSink(c).pending = Waiting(c)
         /\ PartOf(FlushedInbox(c) \o FlushedSink(c).pending, Waiting(c))
<1> DEFINE q == sink[c].pending
           b == inbox[c]
           n == Moved(c)
           head == SubSeq(q, 1, n)
           rest == SubSeq(q, n + 1, Len(q))
<1>1. q \in Seq(Events) /\ b \in Seq(Events) /\ sink[c].open \in BOOLEAN
  BY SinkParts
<1>2. Len(q) \in Nat /\ Len(b) \in Nat /\ Len(b) <= EVENT_CAPACITY /\ EVENT_CAPACITY \in Nat
  BY <1>1, ServiceAssumption DEF TypeOK
<1>3. n \in 0..Len(q) /\ n + Len(b) <= EVENT_CAPACITY
  <2>1. n = IF Len(q) < EVENT_CAPACITY - Len(b) THEN Len(q) ELSE EVENT_CAPACITY - Len(b)
    BY DEF Moved
  <2> DEFINE lq == Len(q)
             lb == Len(b)
  <2> HIDE DEF n, lq, lb
  <2>2. lq \in Nat /\ lb \in Nat /\ lb <= EVENT_CAPACITY /\ EVENT_CAPACITY \in Nat
    BY <1>2 DEF lq, lb
  <2>3. n = IF lq < EVENT_CAPACITY - lb THEN lq ELSE EVENT_CAPACITY - lb
    BY <2>1 DEF lq, lb
  <2>4. n \in 0..lq /\ n + lb <= EVENT_CAPACITY
    BY <2>2, <2>3
  <2> QED
    BY <2>4 DEF lq, lb
<1> HIDE DEF n
<1>4. /\ head \in Seq(Events) /\ Len(head) = n
      /\ rest \in Seq(Events) /\ Len(rest) = Len(q) - n
  BY <1>1, <1>3, CutAt, SMTT(30)
<1>5. (b \o head) \o rest = b \o q
  BY <1>1, <1>3, CatCut
<1>6. b \o head \in Seq(Events) /\ Len(b \o head) = Len(b) + n
  <2>1. head \in Seq(Events)
    BY <1>4
  <2>2. b \o head \in Seq(Events) /\ Len(b \o head) = Len(b) + Len(head)
    BY ONLY <1>1, <2>1, CatAt
  <2> QED
    BY <1>4, <2>2
<1>7. b \o q \in Seq(Events)
  BY <1>1, CatAt
<1>8. Sink(sink[c].open, rest) \in [open : BOOLEAN, pending : Seq(Events)]
  BY <1>1, <1>4 DEF Sink
<1>9. listening[c] \in BOOLEAN
  BY DEF TypeOK
<1> HIDE DEF head, rest
<1>10. CASE listening[c]
  <2>1. FlushedSink(c) = Sink(sink[c].open, rest) /\ FlushedInbox(c) = b \o head
    BY <1>10 DEF FlushedSink, FlushedInbox, rest, head, n
  <2>2. FlushedSink(c).pending = rest /\ FlushedSink(c).open = sink[c].open
    BY <2>1, SinkIs
  <2>3. FlushedInbox(c) \o FlushedSink(c).pending = b \o q
    BY <1>5, <2>1, <2>2
  <2>4. Len(FlushedInbox(c)) <= EVENT_CAPACITY
    BY <1>2, <1>3, <1>6, <2>1
  <2>5. PartOf(b \o q, b \o q)
    BY <1>7, PartSelf
  <2> QED
    BY <1>6, <1>8, <2>1, <2>2, <2>3, <2>4, <2>5 DEF Waiting
<1>11. CASE ~listening[c]
  <2>1. FlushedInbox(c) = b
    BY <1>11 DEF FlushedInbox
  <2>2. FlushedSink(c).pending = <<>> /\ (FlushedSink(c).open => sink[c].open)
        /\ FlushedSink(c) \in [open : BOOLEAN, pending : Seq(Events)]
    <3>1. CASE q # <<>>
      <4>1. FlushedSink(c) = NoSink
        BY <1>11, <3>1 DEF FlushedSink
      <4> QED
        BY <4>1, NoSinkIs
    <3>2. CASE q = <<>>
      <4>1. FlushedSink(c) = Sink(sink[c].open, rest)
        BY <1>11, <3>2 DEF FlushedSink, rest, n
      <4>2. Len(rest) = 0
        <5>1. Len(q) = 0 /\ n = 0
          BY <1>3, <3>2
        <5> QED
          BY <1>4, <5>1
      <4>3. rest = <<>>
        BY <1>4, <4>2, EmptySeq
      <4> QED
        BY <1>8, <4>1, <4>3, SinkIs
    <3> QED
      BY <3>1, <3>2
  <2>3. FlushedInbox(c) \o FlushedSink(c).pending = b
    BY <1>1, <2>1, <2>2, CatEmpty
  <2>4. PartOf(b, b \o q)
    BY <1>1, PartPrefix
  <2> QED
    BY <1>1, <1>2, <1>11, <2>1, <2>2, <2>3, <2>4 DEF Waiting
<1> QED
  BY <1>9, <1>10, <1>11

(* send_event appends, unless nobody is there. *)
LEMMA EmitLemma ==
  ASSUME TypeOK, NEW c \in Clients, NEW e \in Events, Emit(c, e)
  PROVE  /\ inbox' \in [Clients -> Seq(Events)]
         /\ sink' \in [Clients -> [open : BOOLEAN, pending : Seq(Events)]]
         /\ \A k \in Clients : Len(inbox'[k]) <= EVENT_CAPACITY
         /\ \A k \in Clients \ {c} : inbox'[k] = inbox[k] /\ sink'[k] = sink[k]
         /\ sink'[c].open => sink[c].open
         /\ \/ inbox'[c] \o sink'[c].pending = Waiting(c) /\ ~(sink[c].open /\ listening[c])
            \/ inbox'[c] \o sink'[c].pending = Append(Waiting(c), e)
<1> DEFINE q == sink[c].pending
           b == inbox[c]
           direct == sink[c].open /\ q = <<>>
           fits == direct /\ listening[c] /\ Len(b) < EVENT_CAPACITY
<1>1. q \in Seq(Events) /\ b \in Seq(Events) /\ sink[c].open \in BOOLEAN
  BY SinkParts
<1>2. /\ \A k \in Clients : Len(inbox[k]) \in Nat /\ Len(inbox[k]) <= EVENT_CAPACITY
      /\ EVENT_CAPACITY \in Nat
      /\ inbox \in [Clients -> Seq(Events)]
      /\ sink \in [Clients -> [open : BOOLEAN, pending : Seq(Events)]]
      /\ listening[c] \in BOOLEAN
  BY ServiceAssumption DEF TypeOK
<1>3. /\ inbox' = IF fits THEN [inbox EXCEPT ![c] = Append(@, e)] ELSE inbox
      /\ sink' = IF ~sink[c].open \/ fits THEN sink
                 ELSE IF direct /\ ~listening[c] THEN [sink EXCEPT ![c] = NoSink]
                 ELSE [sink EXCEPT ![c] = Sink(TRUE, Append(@.pending, e))]
  BY DEF Emit
<1>4. CASE ~sink[c].open
  <2>1. inbox' = inbox /\ sink' = sink
    BY <1>3, <1>4
  <2> QED
    BY <1>2, <1>4, <2>1 DEF Waiting
<1>5. CASE fits
  <2>1. inbox' = [inbox EXCEPT ![c] = Append(b, e)] /\ sink' = sink
    BY <1>3, <1>5
  <2>2. Append(b, e) \in Seq(Events) /\ Len(Append(b, e)) = Len(b) + 1
    BY <1>1
  <2>3. Len(Append(b, e)) <= EVENT_CAPACITY
    BY <1>2, <1>5, <2>2
  <2>4. \A k \in Clients : inbox'[k] = IF k = c THEN Append(b, e) ELSE inbox[k]
    BY <1>2, <2>1
  <2>5. sink'[c].pending = <<>> /\ Waiting(c) = b /\ inbox'[c] \o <<>> = Append(b, e)
    <3>1. q = <<>>
      BY <1>5
    <3>2. Waiting(c) = b
      BY <1>1, <3>1, CatEmpty DEF Waiting
    <3>3. Append(b, e) \o <<>> = Append(b, e)
      BY <2>2, CatEmpty
    <3> QED
      BY <2>1, <2>4, <3>1, <3>2, <3>3
  <2>6. inbox' \in [Clients -> Seq(Events)]
    BY <1>2, <2>1, <2>2
  <2> HIDE DEF fits, direct, b, q
  <2> QED
    BY <1>2, <2>1, <2>3, <2>4, <2>5, <2>6
<1>6. CASE sink[c].open /\ ~fits /\ direct /\ ~listening[c]
  <2>1. inbox' = inbox /\ sink' = [sink EXCEPT ![c] = NoSink]
    BY <1>3, <1>6
  <2>2. NoSink.pending = <<>> /\ ~NoSink.open
        /\ NoSink \in [open : BOOLEAN, pending : Seq(Events)]
    BY NoSinkIs
  <2>3. \A k \in Clients : sink'[k] = IF k = c THEN NoSink ELSE sink[k]
    BY <1>2, <2>1
  <2>4. q = <<>>
    BY <1>6
  <2>5. sink' \in [Clients -> [open : BOOLEAN, pending : Seq(Events)]]
    BY <1>2, <2>1, <2>2
  <2> QED
    BY <1>2, <1>6, <2>1, <2>2, <2>3, <2>4, <2>5 DEF Waiting
<1>7. CASE sink[c].open /\ ~fits /\ ~(direct /\ ~listening[c])
  <2>1. inbox' = inbox /\ sink' = [sink EXCEPT ![c] = Sink(TRUE, Append(q, e))]
    BY <1>3, <1>7
  <2>2. Append(q, e) \in Seq(Events)
    BY <1>1
  <2>3. Sink(TRUE, Append(q, e)) \in [open : BOOLEAN, pending : Seq(Events)]
    BY <2>2 DEF Sink
  <2>4. \A k \in Clients : sink'[k] = IF k = c THEN Sink(TRUE, Append(q, e)) ELSE sink[k]
    BY <1>2, <2>1
  <2>5. sink'[c].pending = Append(q, e)
    <3>1. sink'[c] = Sink(TRUE, Append(q, e))
      BY <2>4
    <3> QED
      BY <3>1 DEF Sink
  <2>6. b \o Append(q, e) = Append(b \o q, e)
    <3>1. q \in Seq(Events) /\ b \in Seq(Events)
      BY <1>1
    <3> HIDE DEF q, b
    <3> QED
      BY ONLY <3>1, e \in Events, CatAppend
  <2>7. sink' \in [Clients -> [open : BOOLEAN, pending : Seq(Events)]]
    BY <1>2, <2>1, <2>3
  <2> QED
    BY <1>2, <1>7, <2>1, <2>4, <2>5, <2>6, <2>7 DEF Waiting
<1> QED
  BY <1>1, <1>2, <1>4, <1>5, <1>6, <1>7

-----------------------------------------------------------------------------
(* The queue of lanes in turn *)

LEMMA ToSetIs ==
  ASSUME NEW S, NEW q \in Seq(S)
  PROVE  /\ \A x : x \in ToSet(q) <=> \E i \in 1..Len(q) : q[i] = x
         /\ ToSet(q) \subseteq S
         /\ IsInjective(q) <=> \A i, j \in 1..Len(q) : q[i] = q[j] => i = j
BY DEF ToSet, IsInjective

LEMMA CatElements ==
  ASSUME NEW S, NEW q \in Seq(S), NEW r \in Seq(S), IsInjective(q), IsInjective(r),
         ToSet(q) \cap ToSet(r) = {}
  PROVE  /\ q \o r \in Seq(S) /\ IsInjective(q \o r)
         /\ ToSet(q \o r) = ToSet(q) \cup ToSet(r)
<1> DEFINE t == q \o r
           n == Len(q)
           m == Len(r)
<1>1. /\ t \in Seq(S) /\ n \in Nat /\ m \in Nat /\ Len(t) = n + m
      /\ \A i \in 1..n : t[i] = q[i]
      /\ \A i \in 1..m : t[n + i] = r[i]
  BY CatAt
<1>2. /\ \A x : x \in ToSet(q) <=> \E i \in 1..n : q[i] = x
      /\ \A i, j \in 1..n : q[i] = q[j] => i = j
  BY ToSetIs
<1>3. /\ \A x : x \in ToSet(r) <=> \E i \in 1..m : r[i] = x
      /\ \A i, j \in 1..m : r[i] = r[j] => i = j
  BY ToSetIs
<1> HIDE DEF n, m, t
<1>4. /\ \A x : x \in ToSet(t) <=> \E i \in 1..Len(t) : t[i] = x
      /\ IsInjective(t) <=> \A i, j \in 1..Len(t) : t[i] = t[j] => i = j
  BY <1>1, ToSetIs, ZenonT(60)
<1>5. ASSUME NEW k \in 1..Len(t)
      PROVE  \/ k \in 1..n /\ t[k] = q[k] /\ t[k] \in ToSet(q)
             \/ k - n \in 1..m /\ t[k] = r[k - n] /\ t[k] \in ToSet(r)
  <2>1. CASE k \in 1..n
    BY <1>1, <1>2, <2>1
  <2>2. CASE k \notin 1..n
    <3>1. k - n \in 1..m /\ n + (k - n) = k
      BY <1>1, <2>2
    <3>2. t[k] = r[k - n]
      BY <1>1, <3>1
    <3> QED
      BY <1>3, <3>1, <3>2
  <2> QED
    BY <2>1, <2>2
<1>6. IsInjective(t)
  <2> SUFFICES ASSUME NEW i \in 1..Len(t), NEW j \in 1..Len(t), t[i] = t[j] PROVE i = j
    BY <1>4
  <2>1. CASE t[i] \in ToSet(q)
    <3>1. i \in 1..n /\ j \in 1..n /\ t[i] = q[i] /\ t[j] = q[j]
      BY <1>5, <2>1
    <3> QED
      BY <1>2, <3>1
  <2>2. CASE t[i] \notin ToSet(q)
    <3>1. i - n \in 1..m /\ j - n \in 1..m /\ t[i] = r[i - n] /\ t[j] = r[j - n]
      BY <1>5, <2>2
    <3>2. i - n = j - n
      BY <1>3, <3>1
    <3> QED
      BY <1>1, <3>2
  <2> QED
    BY <2>1, <2>2
<1>7. ToSet(t) \subseteq ToSet(q) \cup ToSet(r)
  BY <1>4, <1>5
<1>8. ASSUME NEW x \in ToSet(q) PROVE x \in ToSet(t)
  <2>1. PICK i \in 1..n : q[i] = x
    BY <1>2
  <2>2. i \in 1..Len(t) /\ t[i] = x
    BY <1>1, <2>1
  <2> QED
    BY <1>4, <2>2
<1>9. ASSUME NEW x \in ToSet(r) PROVE x \in ToSet(t)
  <2>1. PICK i \in 1..m : r[i] = x
    BY <1>3
  <2>2. n + i \in 1..Len(t) /\ t[n + i] = x
    BY <1>1, <2>1
  <2> QED
    BY <1>4, <2>2
<1>10. ToSet(t) = ToSet(q) \cup ToSet(r)
  BY <1>7, <1>8, <1>9
<1> QED
  BY <1>1, <1>6, <1>10 DEF t

(* A permutation of a finite set has all of its elements. *)
LEMMA PermutationLemma ==
  ASSUME NEW S, NEW M \in SUBSET S, IsFiniteSet(M), NEW f \in SetToSeqs(M)
  PROVE  f \in Seq(S) /\ IsInjective(f) /\ ToSet(f) = M
<1> DEFINE n == Cardinality(M)
<1>1. /\ n \in Nat
      /\ f \in [1..n -> M]
      /\ \A i, j \in 1..n : i # j => f[i] # f[j]
  BY FS_CardinalityType DEF SetToSeqs
<1> HIDE DEF n
<1>2. f \in Injection(1..n, M)
  BY <1>1 DEF Injection, IsInjective
<1>3. IsFiniteSet(1..n) /\ Cardinality(1..n) = n
  <2>1. 1 \in Int /\ n \in Int
    BY <1>1
  <2> QED
    BY <1>1, <2>1, FS_Interval
<1>4. f \in Surjection(1..n, M)
  <2>1. Cardinality(1..n) = Cardinality(M)
    BY <1>3 DEF n
  <2>2. IsFiniteSet(M)
    OBVIOUS
  <2> QED
    BY ONLY <1>2, <2>1, <2>2, FS_Injection
<1>5. \A x \in M : \E i \in 1..n : f[i] = x
  BY <1>4 DEF Surjection
<1>6. f \in Seq(S) /\ Len(f) = n /\ DOMAIN f = 1..n
  BY <1>1
<1>7. IsInjective(f)
  BY <1>1 DEF IsInjective
<1>8. ToSet(f) = M
  BY <1>1, <1>5 DEF ToSet
<1> QED
  BY <1>6, <1>7, <1>8

LEMMA ScheduledLemma ==
  ASSUME NEW r \in Seq(Clients), IsInjective(r), NEW c \in Clients
  PROVE  /\ Scheduled(r, c) \in Seq(Clients) /\ IsInjective(Scheduled(r, c))
         /\ ToSet(Scheduled(r, c)) = ToSet(r) \cup {c}
<1>1. CASE c \in ToSet(r)
  BY <1>1 DEF Scheduled
<1>2. CASE c \notin ToSet(r)
  <2>1. Scheduled(r, c) = Append(r, c)
    BY <1>2 DEF Scheduled
  <2> QED
    BY <1>2, <2>1, AppendElements
<1> QED
  BY <1>1, <1>2

LEMMA WithReadyLemma ==
  ASSUME ready \in Seq(Clients), IsInjective(ready), NEW L \in SUBSET Clients,
         NEW r \in WithReady(L)
  PROVE  r \in Seq(Clients) /\ IsInjective(r) /\ ToSet(r) = ToSet(ready) \cup L
<1> DEFINE M == L \ ToSet(ready)
<1>1. PICK order \in SetToSeqs(M) : r = ready \o order
  BY DEF WithReady
<1>2. M \in SUBSET Clients /\ IsFiniteSet(M)
  BY ServiceAssumption, FS_Subset
<1>3. ToSet(ready) \cap M = {} /\ ToSet(ready) \cup M = ToSet(ready) \cup L
  OBVIOUS
<1> HIDE DEF M
<1>4. order \in Seq(Clients) /\ IsInjective(order) /\ ToSet(order) = M
  BY ONLY <1>1, <1>2, PermutationLemma
<1>5. ToSet(ready) \cap ToSet(order) = {}
  BY <1>3, <1>4
<1>6. /\ ready \o order \in Seq(Clients) /\ IsInjective(ready \o order)
      /\ ToSet(ready \o order) = ToSet(ready) \cup ToSet(order)
  BY ONLY <1>4, <1>5, ready \in Seq(Clients), IsInjective(ready), CatElements
<1> QED
  BY <1>1, <1>3, <1>4, <1>6

LEMMA RotatedLemma ==
  ASSUME NEW r \in Seq(Clients), IsInjective(r)
  PROVE  Rotated(r) \in Seq(Clients) /\ IsInjective(Rotated(r)) /\ ToSet(Rotated(r)) = ToSet(r)
<1>1. CASE Len(r) > 1 /\ Head(r) = last
  <2>1. r # <<>>
    BY <1>1
  <2>2. /\ Head(r) \in Clients /\ Tail(r) \in Seq(Clients) /\ IsInjective(Tail(r))
        /\ ToSet(r) = ToSet(Tail(r)) \cup {Head(r)} /\ Head(r) \notin ToSet(Tail(r))
    BY <2>1, TailElements
  <2>3. Rotated(r) = Append(Tail(r), Head(r))
    BY <1>1 DEF Rotated
  <2> DEFINE t == Tail(r)
             h == Head(r)
  <2> HIDE DEF t, h
  <2>4. t \in Seq(Clients) /\ h \in Clients /\ IsInjective(t) /\ h \notin ToSet(t)
    BY <2>2 DEF t, h
  <2>5. /\ Append(t, h) \in Seq(Clients) /\ IsInjective(Append(t, h))
        /\ ToSet(Append(t, h)) = ToSet(t) \cup {h}
    BY ONLY <2>4, AppendElements
  <2> QED
    BY <2>2, <2>3, <2>5 DEF t, h
<1>2. CASE ~(Len(r) > 1 /\ Head(r) = last)
  BY <1>2 DEF Rotated
<1> QED
  BY <1>1, <1>2

(* What is passed over goes behind the others. *)
LEMMA TurnedLemma ==
  ASSUME NEW S, NEW r \in Seq(S), IsInjective(r), NEW i \in 1..Len(r), NEW t,
         t = SubSeq(r, i + 1, Len(r)) \o SubSeq(r, 1, i - 1)
  PROVE  t \in Seq(S) /\ IsInjective(t) /\ ToSet(t) = ToSet(r) \ {r[i]}
<1> DEFINE a == SubSeq(r, i + 1, Len(r))
           b == SubSeq(r, 1, i - 1)
           n == Len(r)
<1>1. /\ n \in Nat /\ i \in 1..n
      /\ \A x : x \in ToSet(r) <=> \E j \in 1..n : r[j] = x
      /\ \A j, k \in 1..n : r[j] = r[k] => j = k
  BY ToSetIs
<1>2. /\ a \in Seq(S) /\ Len(a) = n - i
      /\ \A j \in 1..(n - i) : i + j \in 1..n /\ a[j] = r[i + j]
  <2>1. i \in 0..Len(r)
    BY <1>1
  <2> QED
    BY <2>1, CutAt
<1>3. b \in Seq(S) /\ Len(b) = i - 1 /\ \A j \in 1..(i - 1) : b[j] = r[j]
  <2>1. i - 1 \in 0..Len(r)
    BY <1>1
  <2> QED
    BY <2>1, CutAt
<1> HIDE DEF a, b, n
<1>4. /\ \A x : x \in ToSet(a) <=> \E j \in 1..Len(a) : a[j] = x
      /\ IsInjective(a) <=> \A j, k \in 1..Len(a) : a[j] = a[k] => j = k
  BY <1>2, ToSetIs
<1>5. /\ \A x : x \in ToSet(b) <=> \E j \in 1..Len(b) : b[j] = x
      /\ IsInjective(b) <=> \A j, k \in 1..Len(b) : b[j] = b[k] => j = k
  BY <1>3, ToSetIs
<1>6. IsInjective(a)
  <2> SUFFICES ASSUME NEW j \in 1..Len(a), NEW k \in 1..Len(a), a[j] = a[k] PROVE j = k
    BY <1>4
  <2>1. j \in 1..(n - i) /\ k \in 1..(n - i)
    BY <1>2
  <2>2. i + j = i + k
    BY <1>1, <1>2, <2>1
  <2> QED
    BY <1>1, <2>1, <2>2
<1>7. IsInjective(b)
  <2> SUFFICES ASSUME NEW j \in 1..Len(b), NEW k \in 1..Len(b), b[j] = b[k] PROVE j = k
    BY <1>5
  <2>1. j \in 1..(i - 1) /\ k \in 1..(i - 1) /\ j \in 1..n /\ k \in 1..n
    BY <1>1, <1>3
  <2> QED
    BY <1>1, <1>3, <2>1
<1>8. ASSUME NEW x \in ToSet(a) PROVE \E j \in 1..n : i < j /\ r[j] = x
  <2>1. PICK j \in 1..Len(a) : a[j] = x
    BY <1>4
  <2>2. j \in 1..(n - i)
    BY <1>2
  <2>3. i + j \in 1..n /\ r[i + j] = x /\ i < i + j
    BY <1>1, <1>2, <2>1, <2>2
  <2> QED
    BY <2>3
<1>9. ASSUME NEW x \in ToSet(b) PROVE \E j \in 1..n : j < i /\ r[j] = x
  <2>1. PICK j \in 1..Len(b) : b[j] = x
    BY <1>5
  <2>2. j \in 1..n /\ j < i /\ r[j] = x
    BY <1>1, <1>3, <2>1
  <2> QED
    BY <2>2
<1>10. ToSet(a) \cap ToSet(b) = {}
  <2> SUFFICES ASSUME NEW x \in ToSet(a), x \in ToSet(b) PROVE FALSE
    OBVIOUS
  <2>1. PICK j \in 1..n : i < j /\ r[j] = x
    BY <1>8
  <2>2. PICK k \in 1..n : k < i /\ r[k] = x
    BY <1>9
  <2> QED
    BY <1>1, <2>1, <2>2
<1>11. /\ a \o b \in Seq(S) /\ IsInjective(a \o b)
       /\ ToSet(a \o b) = ToSet(a) \cup ToSet(b)
  <2>1. a \in Seq(S) /\ b \in Seq(S)
    BY <1>2, <1>3
  <2> QED
    BY ONLY <1>6, <1>7, <1>10, <2>1, CatElements
<1>12. ASSUME NEW x \in ToSet(a) \cup ToSet(b) PROVE x \in ToSet(r) \ {r[i]}
  <2>1. PICK j \in 1..n : j # i /\ r[j] = x
    <3>1. CASE x \in ToSet(a)
      BY <1>1, <1>8, <3>1
    <3>2. CASE x \in ToSet(b)
      BY <1>1, <1>9, <3>2
    <3> QED
      BY <3>1, <3>2
  <2> QED
    BY <1>1, <2>1
<1>13. ASSUME NEW x \in ToSet(r) \ {r[i]} PROVE x \in ToSet(a) \cup ToSet(b)
  <2>1. PICK j \in 1..n : r[j] = x
    BY <1>1
  <2>2. j # i
    BY <2>1
  <2>3. CASE i < j
    <3>1. j - i \in 1..(n - i) /\ i + (j - i) = j
      BY <1>1, <2>3
    <3>2. a[j - i] = x /\ j - i \in 1..Len(a)
      BY <1>2, <2>1, <3>1
    <3> QED
      BY <1>4, <3>2
  <2>4. CASE j < i
    <3>1. j \in 1..(i - 1)
      BY <1>1, <2>4
    <3>2. b[j] = x /\ j \in 1..Len(b)
      BY <1>3, <2>1, <3>1
    <3> QED
      BY <1>5, <3>2
  <2> QED
    BY <1>1, <2>2, <2>3, <2>4
<1>14. ToSet(a \o b) = ToSet(r) \ {r[i]}
  BY <1>11, <1>12, <1>13
<1> QED
  BY <1>11, <1>14 DEF a, b

-----------------------------------------------------------------------------
(* The operations of a lane *)

(* The coalescing save takes the place of the last operation. *)
LEMMA WithSaveLemma ==
  ASSUME NEW ops \in Seq(Ops), NEW m \in Saves
  PROVE  \E keep, e :
           /\ keep \in Seq(Ops)
           /\ e \in Saves /\ e.kind = "save" /\ e.client = m.client /\ e.gen = m.gen
           /\ e.path = m.path /\ e.revision = m.revision /\ e.n = m.n
           /\ WithSave(ops, m) = Append(keep, e)
           /\ Len(keep) <= Len(ops) /\ \A i \in 1..Len(keep) : keep[i] = ops[i]
           /\ \/ keep = ops
              \/ Len(ops) = Len(keep) + 1 /\ ops[Len(ops)].kind = "save"
<1>1. /\ m.client \in Clients /\ m.gen \in Nat /\ m.path \in Paths /\ m.revision \in Nat
      /\ m.n \in Nat /\ m.kind = "save"
  BY DEF Saves
<1>2. CASE Coalesces(ops, m)
  <2> DEFINE e == Save(m.client, m.gen, m.path, Last(ops).expected, m.revision, m.n)
  <2>1. ops # <<>> /\ Last(ops).kind = "save"
    BY <1>2 DEF Coalesces
  <2>2. Len(ops) \in Nat \ {0} /\ Last(ops) = ops[Len(ops)] /\ Last(ops) \in Ops
    <3>1. Len(ops) \in Nat \ {0}
      BY <2>1, EmptySeq
    <3>2. Last(ops) = ops[Len(ops)]
      BY DEF Last
    <3> QED
      BY <3>1, <3>2
  <2>3. Last(ops).expected \in Nat
    <3>1. Last(ops) \in Saves
      BY <2>1, <2>2, OpKinds
    <3> QED
      BY <3>1 DEF Saves
  <2>4. /\ e \in Saves /\ e.kind = "save" /\ e.client = m.client /\ e.gen = m.gen
        /\ e.path = m.path /\ e.revision = m.revision /\ e.n = m.n
    BY <1>1, <2>3 DEF Save, Saves
  <2>5. /\ Front(ops) \in Seq(Ops) /\ Len(Front(ops)) = Len(ops) - 1
        /\ \A i \in 1..(Len(ops) - 1) : Front(ops)[i] = ops[i]
    BY <2>1, FrontLemma
  <2>6. WithSave(ops, m) = Append(Front(ops), e)
    BY <1>2 DEF WithSave
  <2>7. Len(ops) = Len(Front(ops)) + 1 /\ Len(Front(ops)) <= Len(ops)
    BY <2>2, <2>5
  <2>8. \A i \in 1..Len(Front(ops)) : Front(ops)[i] = ops[i]
    BY <2>5
  <2>9. ops[Len(ops)].kind = "save"
    BY <2>1, <2>2
  <2>10. Front(ops) \in Seq(Ops)
    BY <2>5
  <2> HIDE DEF e
  <2> QED
    BY <2>4, <2>6, <2>7, <2>8, <2>9, <2>10
<1>3. CASE ~Coalesces(ops, m)
  <2>1. WithSave(ops, m) = Append(ops, m)
    BY <1>3 DEF WithSave
  <2> QED
    BY <1>1, <2>1
<1> QED
  BY <1>2, <1>3

LEMMA InformedLemma ==
  ASSUME NEW d \in Documents, NEW e \in Events
  PROVE  /\ Informed(d, e) \in Documents
         /\ Informed(d, e).gen = d.gen /\ Informed(d, e).path = d.path
         /\ (e.kind = "loaded" /\ e.gen = d.gen)
              => Informed(d, e).loaded /\ Informed(d, e).revision = e.revision
         /\ ~(e.kind = "loaded" /\ e.gen = d.gen)
              => /\ Informed(d, e).loaded = d.loaded
                 /\ Informed(d, e).revision = d.revision
<1>1. /\ d.gen \in Nat /\ d.path \in Paths \cup {None} /\ d.revision \in Nat
      /\ d.base \in Nat /\ d.loaded \in BOOLEAN
  BY DEF Documents
<1>2. e.kind \in {"loaded", "saved"} => e.revision \in Nat
  BY DEF Events
<1>3. CASE e.gen = d.gen /\ e.kind = "loaded"
  <2>1. Informed(d, e) = Document(d.gen, d.path, e.revision, e.revision, TRUE)
    BY <1>3 DEF Informed
  <2>2. e.revision \in Nat
    BY <1>2, <1>3
  <2> QED
    BY <1>1, <1>3, <2>1, <2>2 DEF Document, Documents
<1>4. CASE e.gen = d.gen /\ e.kind = "saved" /\ e.revision > d.base
  <2>1. Informed(d, e) = Document(d.gen, d.path, d.revision, e.revision, d.loaded)
    BY <1>4 DEF Informed
  <2>2. e.revision \in Nat
    BY <1>2, <1>4
  <2> QED
    BY <1>1, <1>4, <2>1, <2>2, DocumentType
<1>5. CASE ~(e.gen = d.gen /\ e.kind = "loaded")
           /\ ~(e.gen = d.gen /\ e.kind = "saved" /\ e.revision > d.base)
  <2>1. Informed(d, e) = d
    BY <1>5 DEF Informed
  <2> QED
    BY <1>5, <2>1
<1> QED
  BY <1>3, <1>4, <1>5

-----------------------------------------------------------------------------
(* Types, turns and lanes *)

BaseInv == TypeOK /\ TurnInv /\ LaneInv

LEMMA InitBase == Init => BaseInv
<1> SUFFICES ASSUME Init PROVE BaseInv
  OBVIOUS
<1>1. NoLane \in Lanes /\ NoLane.ops = <<>> /\ NoLane.status = "absent"
  BY NoLaneIs
<1>2. NoSink \in [open : BOOLEAN, pending : Seq(Events)]
  BY NoSinkIs
<1>3. View(NoDocument, NoDocument, 0) \in [shown : Documents, left : Documents, saves : Nat]
  BY DocumentType, ViewType DEF NoDocument
<1>4. EVENT_CAPACITY \in Nat
  BY ServiceAssumption
<1>5. \A c \in Clients : inbox[c] = <<>> /\ Len(inbox[c]) = 0
  BY DEF Init
<1>6. TypeOK
  BY <1>1, <1>2, <1>3, <1>4, <1>5 DEF Init, TypeOK
<1>7. TurnInv
  BY <1>1, EmptyElements DEF Init, TurnInv
<1>8. LaneInv
  BY <1>1 DEF Init, LaneInv, LaneInvOf
<1> QED
  BY <1>6, <1>7, <1>8 DEF BaseInv

LEMMA PostsType ==
  ASSUME TypeOK, NEW m \in Commands, Posts(m)
  PROVE  mailbox' \in Seq(Commands) /\ mailbox' = Append(mailbox, m)
BY DEF TypeOK, Posts

LEMMA TurnFrame ==
  ASSUME TurnInv, LaneInv, UNCHANGED <<pc, lane, ready, last>>
  PROVE  TurnInv' /\ LaneInv'
<1>1. TurnInv'
  BY DEF TurnInv
<1>2. LaneInv'
  BY DEF LaneInv
<1> QED
  BY <1>1, <1>2

LEMMA AttachBase ==
  ASSUME BaseInv, NEW c \in Clients, Attach(c) PROVE BaseInv'
<1> DEFINE m == [kind |-> "attach", client |-> c]
<1>1. m \in Commands
  BY DEF Commands
<1>2. mailbox' \in Seq(Commands)
  BY <1>1, PostsType DEF Attach, BaseInv
<1>3. TypeOK'
  BY <1>2 DEF BaseInv, TypeOK, Attach, actor, history
<1>4. TurnInv' /\ LaneInv'
  BY TurnFrame DEF BaseInv, Attach, actor
<1> QED
  BY <1>3, <1>4 DEF BaseInv

LEMMA ShowsView ==
  ASSUME TypeOK, NEW c \in Clients, NEW p \in Paths, Shows(c, p)
  PROVE  /\ view' \in [Clients -> [shown : Documents, left : Documents, saves : Nat]]
         /\ \A k \in Clients \ {c} : view'[k] = view[k]
         /\ view'[c].shown.gen = view[c].shown.gen + 1 /\ view'[c].shown.path = p
         /\ ~view'[c].shown.loaded /\ view'[c].left = view[c].shown
         /\ view[c].shown.gen < MaxGeneration[c]
<1> DEFINE d == Document(view[c].shown.gen + 1, p, 0, 0, FALSE)
           v == View(d, view[c].shown, view[c].saves)
<1>1. /\ view[c].shown \in Documents /\ view[c].saves \in Nat /\ view[c].shown.gen \in Nat
      /\ view \in [Clients -> [shown : Documents, left : Documents, saves : Nat]]
  BY ViewParts DEF TypeOK
<1>2. view' = [view EXCEPT ![c] = v]
  BY DEF Shows
<1>3. d \in Documents /\ d.gen = view[c].shown.gen + 1 /\ d.path = p /\ ~d.loaded
  BY <1>1 DEF Document, Documents
<1> HIDE DEF d
<1>4. v.shown = d /\ v.left = view[c].shown
  BY DEF View
<1>5. v \in [shown : Documents, left : Documents, saves : Nat]
  BY <1>1, <1>3 DEF View
<1> HIDE DEF v
<1>6. \A k \in Clients : view'[k] = IF k = c THEN v ELSE view[k]
  BY <1>1, <1>2
<1>7. view' \in [Clients -> [shown : Documents, left : Documents, saves : Nat]]
  BY <1>1, <1>2, <1>5
<1>8. view[c].shown.gen < MaxGeneration[c]
  BY DEF Shows
<1> QED
  BY <1>3, <1>4, <1>6, <1>7, <1>8

LEMMA SubmitLoadBase ==
  ASSUME BaseInv, NEW c \in Clients, NEW p \in Paths, SubmitLoad(c, p) PROVE BaseInv'
<1> DEFINE m == [kind |-> "load", client |-> c, gen |-> view[c].shown.gen + 1, path |-> p]
<1>1. TypeOK /\ Shows(c, p) /\ Posts(m)
  BY DEF BaseInv, SubmitLoad
<1>2. m \in Commands
  BY <1>1, ViewParts DEF Commands, Loads
<1> HIDE DEF m
<1>3. mailbox' \in Seq(Commands)
  BY <1>1, <1>2, PostsType
<1>4. view' \in [Clients -> [shown : Documents, left : Documents, saves : Nat]]
  BY <1>1, ShowsView
<1>5. TypeOK'
  BY <1>1, <1>3, <1>4 DEF TypeOK, SubmitLoad, actor, history
<1>6. TurnInv' /\ LaneInv'
  BY TurnFrame DEF BaseInv, SubmitLoad, actor
<1> QED
  BY <1>5, <1>6 DEF BaseInv

LEMMA RefusedLoadBase ==
  ASSUME BaseInv, NEW c \in Clients, NEW p \in Paths, RefusedLoad(c, p) PROVE BaseInv'
<1>1. TypeOK /\ Shows(c, p)
  BY DEF BaseInv, RefusedLoad
<1>2. view' \in [Clients -> [shown : Documents, left : Documents, saves : Nat]]
  BY <1>1, ShowsView
<1>3. TypeOK'
  BY <1>1, <1>2 DEF TypeOK, RefusedLoad, actor, history
<1>4. TurnInv' /\ LaneInv'
  BY TurnFrame DEF BaseInv, RefusedLoad, actor
<1> QED
  BY <1>3, <1>4 DEF BaseInv

(* The snapshot that a save hands in, and the document it leaves behind. *)
LEMMA SubmitSaveView ==
  ASSUME TypeOK, FlowInv, NEW c \in Clients, NEW w \in {"shown", "left"},
         NEW r \in 1..MaxRevision, SubmitSave(c, w, r)
  PROVE  \E d, s, m :
           /\ d = IF w = "shown" THEN view[c].shown ELSE view[c].left
           /\ d.loaded /\ d.revision <= r /\ d.gen \in Nat /\ d.path \in Paths
           /\ s \in Documents /\ s.gen = d.gen /\ s.path = d.path /\ s.revision = r /\ s.loaded
           /\ m \in Saves /\ m.kind = "save" /\ m.client = c /\ m.gen = d.gen /\ m.path = d.path
           /\ m.revision = r
           /\ mailbox' = Append(mailbox, m)
           /\ view' \in [Clients -> [shown : Documents, left : Documents, saves : Nat]]
           /\ \A k \in Clients \ {c} : view'[k] = view[k]
           /\ view'[c].shown = IF w = "shown" THEN s ELSE view[c].shown
           /\ view'[c].left = IF w = "shown" THEN view[c].left ELSE s
<1> DEFINE d == IF w = "shown" THEN view[c].shown ELSE view[c].left
           s == Document(d.gen, d.path, r, d.base, TRUE)
           m == Save(c, d.gen, d.path, d.base, r, view[c].saves + 1)
           v == IF w = "shown" THEN View(s, view[c].left, view[c].saves + 1)
                ELSE View(view[c].shown, s, view[c].saves + 1)
<1>1. /\ view[c].shown \in Documents /\ view[c].left \in Documents /\ view[c].saves \in Nat
      /\ view \in [Clients -> [shown : Documents, left : Documents, saves : Nat]]
  BY ViewParts DEF TypeOK
<1>2. d \in Documents /\ d.loaded
  BY <1>1 DEF SubmitSave
<1>3. d.gen \in Nat /\ d.base \in Nat /\ d.revision \in Nat /\ d.path \in Paths \cup {None}
  BY <1>2 DEF Documents
<1>4. d.path \in Paths
  <2>1. FlowOf(c, mailbox, lane[c].ops, Waiting(c), view[c], lane[c])
    BY DEF FlowInv
  <2>2. /\ view[c].shown.gen > 0 => view[c].shown.path \in Paths
        /\ view[c].left.gen > 0 => view[c].left.path \in Paths
        /\ DocumentOK(view[c].shown, lane[c]) /\ DocumentOK(view[c].left, lane[c])
    BY <2>1 DEF FlowOf, ViewOK, LaneOK
  <2> QED
    BY <1>2, <2>2 DEF DocumentOK
<1>5. d.revision <= r /\ r \in Nat
  BY ServiceAssumption DEF SubmitSave
<1>6. mailbox' = Append(mailbox, m) /\ view' = [view EXCEPT ![c] = v]
  BY DEF SubmitSave, Posts
<1> HIDE DEF d
<1>7. s \in Documents /\ s.gen = d.gen /\ s.path = d.path /\ s.revision = r /\ s.loaded
  BY <1>3, <1>5 DEF Document, Documents
<1>8. /\ m \in Saves /\ m.kind = "save" /\ m.client = c /\ m.gen = d.gen /\ m.path = d.path
      /\ m.revision = r
  BY <1>1, <1>3, <1>4, <1>5 DEF Save, Saves
<1> HIDE DEF s, m
<1>9. /\ v.shown = IF w = "shown" THEN s ELSE view[c].shown
      /\ v.left = IF w = "shown" THEN view[c].left ELSE s
      /\ v \in [shown : Documents, left : Documents, saves : Nat]
  BY <1>1, <1>7 DEF View
<1> HIDE DEF v
<1>10. /\ \A k \in Clients : view'[k] = IF k = c THEN v ELSE view[k]
       /\ view' \in [Clients -> [shown : Documents, left : Documents, saves : Nat]]
  BY <1>1, <1>6, <1>9
<1>11. d = IF w = "shown" THEN view[c].shown ELSE view[c].left
  BY DEF d
<1>12. /\ \A k \in Clients \ {c} : view'[k] = view[k]
       /\ view'[c].shown = IF w = "shown" THEN s ELSE view[c].shown
       /\ view'[c].left = IF w = "shown" THEN view[c].left ELSE s
  BY <1>9, <1>10
<1> QED
  BY <1>2, <1>3, <1>4, <1>5, <1>6, <1>7, <1>8, <1>10, <1>11, <1>12

LEMMA SubmitSaveBase ==
  ASSUME BaseInv, FlowInv, NEW c \in Clients, NEW w \in {"shown", "left"},
         NEW r \in 1..MaxRevision, SubmitSave(c, w, r)
  PROVE  BaseInv'
<1>1. TypeOK
  BY DEF BaseInv
<1>2. PICK m \in Saves :
        /\ mailbox' = Append(mailbox, m)
        /\ view' \in [Clients -> [shown : Documents, left : Documents, saves : Nat]]
  BY <1>1, SubmitSaveView
<1>3. mailbox' \in Seq(Commands)
  <2>1. m \in Commands /\ mailbox \in Seq(Commands)
    BY <1>1 DEF Commands, TypeOK
  <2> QED
    BY <1>2, <2>1
<1>4. TypeOK'
  BY <1>1, <1>2, <1>3 DEF TypeOK, SubmitSave, actor, history
<1>5. TurnInv' /\ LaneInv'
  BY TurnFrame DEF BaseInv, SubmitSave, actor
<1> QED
  BY <1>4, <1>5 DEF BaseInv

(* Taking the first event off the channel is taking the first that waits. *)
LEMMA ReceiveView ==
  ASSUME TypeOK, NEW c \in Clients, Receive(c)
  PROVE  /\ inbox' \in [Clients -> Seq(Events)]
         /\ \A k \in Clients : Len(inbox'[k]) <= EVENT_CAPACITY
         /\ \A k \in Clients \ {c} : inbox'[k] = inbox[k] /\ view'[k] = view[k]
         /\ view' \in [Clients -> [shown : Documents, left : Documents, saves : Nat]]
         /\ Waiting(c) \in Seq(Events) /\ Waiting(c) # <<>>
         /\ inbox'[c] \o sink[c].pending = Tail(Waiting(c))
         /\ view'[c].shown = Informed(view[c].shown, Head(Waiting(c)))
         /\ view'[c].left = view[c].left
<1> DEFINE b == inbox[c]
           q == sink[c].pending
           v == View(Informed(view[c].shown, Head(b)), view[c].left, view[c].saves)
<1>1. /\ b \in Seq(Events) /\ q \in Seq(Events) /\ b # <<>>
      /\ inbox \in [Clients -> Seq(Events)]
      /\ view \in [Clients -> [shown : Documents, left : Documents, saves : Nat]]
      /\ \A k \in Clients : Len(inbox[k]) \in Nat /\ Len(inbox[k]) <= EVENT_CAPACITY
      /\ EVENT_CAPACITY \in Nat
  <2>1. b \in Seq(Events) /\ q \in Seq(Events)
    BY SinkParts
  <2>2. b # <<>>
    BY DEF Receive
  <2>3. /\ inbox \in [Clients -> Seq(Events)]
        /\ view \in [Clients -> [shown : Documents, left : Documents, saves : Nat]]
        /\ \A k \in Clients : Len(inbox[k]) <= EVENT_CAPACITY
    BY DEF TypeOK
  <2>4. \A k \in Clients : Len(inbox[k]) \in Nat
    BY <2>3
  <2>5. EVENT_CAPACITY \in Nat
    BY ServiceAssumption
  <2> QED
    BY <2>1, <2>2, <2>3, <2>4, <2>5
<1>2. /\ Tail(b) \in Seq(Events) /\ Len(Tail(b)) = Len(b) - 1 /\ Head(b) \in Events
  BY <1>1, TailAt
<1>3. inbox' = [inbox EXCEPT ![c] = Tail(b)] /\ view' = [view EXCEPT ![c] = v]
  BY DEF Receive
<1>4. view[c].shown \in Documents /\ view[c].left \in Documents /\ view[c].saves \in Nat
  BY ViewParts
<1>5. Informed(view[c].shown, Head(b)) \in Documents
  BY <1>2, <1>4, InformedLemma
<1>6. /\ v \in [shown : Documents, left : Documents, saves : Nat]
      /\ v.shown = Informed(view[c].shown, Head(b)) /\ v.left = view[c].left
  BY <1>4, <1>5 DEF View
<1> HIDE DEF v
<1>7. /\ \A k \in Clients : inbox'[k] = IF k = c THEN Tail(b) ELSE inbox[k]
      /\ \A k \in Clients : view'[k] = IF k = c THEN v ELSE view[k]
      /\ inbox' \in [Clients -> Seq(Events)]
      /\ view' \in [Clients -> [shown : Documents, left : Documents, saves : Nat]]
  BY <1>1, <1>2, <1>3, <1>6
<1>8. \A k \in Clients : Len(inbox'[k]) <= EVENT_CAPACITY
  BY <1>1, <1>2, <1>7
<1>9. /\ b \o q \in Seq(Events) /\ b \o q # <<>>
      /\ Head(b \o q) = Head(b) /\ Tail(b \o q) = Tail(b) \o q
  <2> HIDE DEF b, q
  <2> QED
    BY <1>1, CatHeadTail
<1> QED
  BY <1>6, <1>7, <1>8, <1>9 DEF Waiting

LEMMA ReceiveBase ==
  ASSUME BaseInv, NEW c \in Clients, Receive(c) PROVE BaseInv'
<1>1. TypeOK
  BY DEF BaseInv
<1>2. /\ inbox' \in [Clients -> Seq(Events)]
      /\ \A k \in Clients : Len(inbox'[k]) <= EVENT_CAPACITY
      /\ view' \in [Clients -> [shown : Documents, left : Documents, saves : Nat]]
  BY <1>1, ReceiveView
<1>3. read' \in [Clients -> Nat]
  BY <1>1 DEF Receive, TypeOK
<1>4. TypeOK'
  BY <1>1, <1>2, <1>3 DEF TypeOK, Receive, actor
<1>5. TurnInv' /\ LaneInv'
  BY TurnFrame DEF BaseInv, Receive, actor
<1> QED
  BY <1>4, <1>5 DEF BaseInv

LEMMA StopListeningBase ==
  ASSUME BaseInv, NEW c \in Clients, StopListening(c) PROVE BaseInv'
<1>1. /\ inbox \in [Clients -> Seq(Events)] /\ listening \in [Clients -> BOOLEAN]
      /\ \A k \in Clients : Len(inbox[k]) <= EVENT_CAPACITY
      /\ EVENT_CAPACITY \in Nat
  BY ServiceAssumption DEF BaseInv, TypeOK
<1>2. inbox' = [inbox EXCEPT ![c] = <<>>] /\ listening' = [listening EXCEPT ![c] = FALSE]
  BY DEF StopListening
<1>3. <<>> \in Seq(Events) /\ Len(<<>>) = 0
  OBVIOUS
<1>4. inbox' \in [Clients -> Seq(Events)] /\ listening' \in [Clients -> BOOLEAN]
  BY <1>1, <1>2, <1>3
<1>5. \A k \in Clients : Len(inbox'[k]) <= EVENT_CAPACITY
  <2>1. \A k \in Clients : inbox'[k] = IF k = c THEN <<>> ELSE inbox[k]
    BY <1>1, <1>2
  <2>2. Len(inbox'[c]) <= EVENT_CAPACITY
    BY <1>1, <1>3, <2>1
  <2> QED
    BY <1>1, <2>1, <2>2
<1>6. TypeOK'
  BY <1>4, <1>5 DEF BaseInv, TypeOK, StopListening, actor, history
<1>7. TurnInv' /\ LaneInv'
  BY TurnFrame DEF BaseInv, StopListening, actor
<1> QED
  BY <1>6, <1>7 DEF BaseInv

LEMMA OthersBase ==
  ASSUME BaseInv
  PROVE  /\ \A c \in Clients : (MarkDetached(c) \/ Nudge(c)) => BaseInv'
         /\ (Inspect \/ Shutdown \/ Joins) => BaseInv'
         /\ \A p \in Paths : ForeignSave(p) => BaseInv'
         /\ (Drained \/ TimesOut) => BaseInv'
<1>0. mailbox \in Seq(Commands)
  BY DEF BaseInv, TypeOK
<1>1. ASSUME NEW c \in Clients, MarkDetached(c) PROVE BaseInv'
  <2>1. TypeOK'
    BY <1>1 DEF BaseInv, TypeOK, MarkDetached, actor, history
  <2>2. TurnInv' /\ LaneInv'
    BY <1>1, TurnFrame DEF BaseInv, MarkDetached, actor
  <2> QED
    BY <2>1, <2>2 DEF BaseInv
<1>2. ASSUME NEW c \in Clients, Nudge(c) PROVE BaseInv'
  <2>1. [kind |-> "wake"] \in Commands
    BY DEF Commands
  <2>2. mailbox' \in Seq(Commands)
    BY <1>0, <1>2, <2>1 DEF Nudge
  <2>3. TypeOK'
    BY <1>2, <2>2 DEF BaseInv, TypeOK, Nudge, actor, history
  <2>4. TurnInv' /\ LaneInv'
    BY <1>2, TurnFrame DEF BaseInv, Nudge, actor
  <2> QED
    BY <2>3, <2>4 DEF BaseInv
<1>3. ASSUME Inspect PROVE BaseInv'
  <2>1. [kind |-> "inspect"] \in Commands
    BY DEF Commands
  <2>2. mailbox' \in Seq(Commands)
    BY <1>0, <1>3, <2>1 DEF Inspect, Posts
  <2>3. TypeOK'
    BY <1>3, <2>2 DEF BaseInv, TypeOK, Inspect, actor, outside, history
  <2>4. TurnInv' /\ LaneInv'
    BY <1>3, TurnFrame DEF BaseInv, Inspect, actor
  <2> QED
    BY <2>3, <2>4 DEF BaseInv
<1>4. ASSUME Shutdown PROVE BaseInv'
  <2>1. [kind |-> "shutdown"] \in Commands
    BY DEF Commands
  <2>2. mailbox' \in Seq(Commands)
    BY <1>0, <1>4, <2>1 DEF Shutdown, Posts
  <2>3. TypeOK'
    BY <1>4, <2>2 DEF BaseInv, TypeOK, Shutdown, actor, history
  <2>4. TurnInv' /\ LaneInv'
    BY <1>4, TurnFrame DEF BaseInv, Shutdown, actor
  <2> QED
    BY <2>3, <2>4 DEF BaseInv
<1>5. ASSUME Joins PROVE BaseInv'
  <2>1. TypeOK'
    BY <1>5 DEF BaseInv, TypeOK, Joins, actor, history
  <2>2. TurnInv' /\ LaneInv'
    BY <1>5, TurnFrame DEF BaseInv, Joins, actor
  <2> QED
    BY <2>1, <2>2 DEF BaseInv
<1>6. ASSUME NEW p \in Paths, ForeignSave(p) PROVE BaseInv'
  <2> DEFINE D == [revision : Nat, author : Clients \cup {None, Foreign}]
  <2>1. disk \in [Paths -> D]
    BY DEF BaseInv, TypeOK
  <2>2. [revision |-> disk[p].revision + 1, author |-> Foreign] \in D
    BY <2>1
  <2>3. disk' = [disk EXCEPT ![p] = [revision |-> disk[p].revision + 1, author |-> Foreign]]
    BY <1>6 DEF ForeignSave
  <2>4. disk' \in [Paths -> D]
    BY <2>1, <2>2, <2>3
  <2>5. TypeOK'
    BY <1>6, <2>4 DEF BaseInv, TypeOK, ForeignSave, outside, actor, history
  <2>6. TurnInv' /\ LaneInv'
    BY <1>6, TurnFrame DEF BaseInv, ForeignSave, actor
  <2> QED
    BY <2>5, <2>6 DEF BaseInv
<1>7. ASSUME Drained \/ TimesOut PROVE BaseInv'
  <2>1. /\ pc # "work" /\ pc' \in {"reap", "top"}
        /\ UNCHANGED <<mailbox, outside, inbox, lane, sink, ready, last, disk, history>>
    BY <1>7 DEF Drained, TimesOut
  <2>2. TypeOK'
    BY <2>1 DEF BaseInv, TypeOK, outside, history
  <2>3. TurnInv'
    BY <2>1 DEF BaseInv, TurnInv
  <2>4. LaneInv'
    BY <2>1 DEF BaseInv, LaneInv
  <2> QED
    BY <2>2, <2>3, <2>4 DEF BaseInv
<1> QED
  BY <1>1, <1>2, <1>3, <1>4, <1>5, <1>6, <1>7

(* A lane that is closed keeps its operations and gets the last one. *)
LEMMA ClosedLemma ==
  ASSUME NEW l \in Lanes, NEW c, l.status = "open", LaneInvOf(l, c)
  PROVE  /\ Closed(l) \in Lanes /\ LaneInvOf(Closed(l), c)
         /\ Closed(l).status = "closing"
         /\ Closed(l).active = l.active /\ Closed(l).observed = l.observed
         /\ \E d \in Ops : d.kind = "detach" /\ Closed(l).ops = Append(l.ops, d)
         /\ Closed(l).ops # <<>>
<1> DEFINE d == [kind |-> "detach"]
           q == Append(l.ops, d)
<1>1. d \in Ops /\ d.kind = "detach"
  BY DEF Ops
<1>2. /\ l.ops \in Seq(Ops) /\ l.active \in SUBSET (Nat \X Paths)
      /\ l.observed \in Nat \cup {None}
  BY DEF Lanes
<1>3. Closed(l) = Lane("closing", q, l.active, l.observed)
  BY DEF Closed
<1> HIDE DEF d
<1>4. /\ q \in Seq(Ops) /\ Len(l.ops) \in Nat /\ Len(q) = Len(l.ops) + 1
      /\ \A i \in 1..Len(l.ops) : q[i] = l.ops[i]
      /\ q[Len(l.ops) + 1] = d /\ q # <<>>
  BY <1>1, <1>2, AppendAt
<1> HIDE DEF q
<1>5. Closed(l) \in Lanes
  BY <1>2, <1>3, <1>4, LaneType, ZenonT(60)
<1>6. /\ Closed(l).status = "closing" /\ Closed(l).ops = q
      /\ Closed(l).active = l.active /\ Closed(l).observed = l.observed
  BY <1>3, LaneIs
<1>7. ASSUME NEW i \in 1..Len(q)
      PROVE  /\ q[i].kind = "detach" => i = Len(q)
             /\ q[i].kind # "detach" => q[i].client = c
  <2>1. CASE i = Len(q)
    BY <1>1, <1>4, <2>1
  <2>2. CASE i # Len(q)
    <3>1. i \in 1..Len(l.ops) /\ q[i] = l.ops[i]
      BY <1>4, <2>2
    <3>2. q[i].kind # "detach" /\ (q[i].kind # "detach" => q[i].client = c)
      BY <3>1 DEF LaneInvOf
    <3> QED
      BY <3>2
  <2> QED
    BY <2>1, <2>2
<1>8. q[Len(q)].kind = "detach"
  BY <1>1, <1>4
<1>9. LaneInvOf(Closed(l), c)
  BY <1>4, <1>6, <1>7, <1>8 DEF LaneInvOf
<1> QED
  BY <1>1, <1>4, <1>5, <1>6, <1>9 DEF q

LEMMA ClosesLemma ==
  ASSUME TypeOK, LaneInv, NEW L \in SUBSET OpenLanes, Closes(L)
  PROVE  /\ lane' \in [Clients -> Lanes] /\ LaneInv'
         /\ \A c \in Clients \ L : lane'[c] = lane[c]
         /\ \A c \in L : lane'[c] = Closed(lane[c])
         /\ \A c \in Clients : lane'[c].ops # <<>> <=> (c \in L \/ lane[c].ops # <<>>)
<1>1. lane' = [c \in Clients |-> IF c \in L THEN Closed(lane[c]) ELSE lane[c]]
  BY DEF Closes
<1>2. L \subseteq Clients /\ \A c \in L : lane[c].status = "open"
  BY DEF OpenLanes
<1>3. \A c \in Clients : lane[c] \in Lanes /\ LaneInvOf(lane[c], c)
  BY DEF TypeOK, LaneInv
<1>4. \A c \in L : /\ Closed(lane[c]) \in Lanes /\ LaneInvOf(Closed(lane[c]), c)
                   /\ Closed(lane[c]).ops # <<>>
  BY <1>2, <1>3, ClosedLemma
<1>5. \A c \in Clients : lane'[c] = IF c \in L THEN Closed(lane[c]) ELSE lane[c]
  BY <1>1
<1>6. lane' \in [Clients -> Lanes]
  BY <1>1, <1>3, <1>4
<1>7. LaneInv'
  BY <1>3, <1>4, <1>5 DEF LaneInv
<1> QED
  BY <1>2, <1>4, <1>5, <1>6, <1>7

(* One lane changes, and what is in turn follows it. *)
LEMMA OneLane ==
  ASSUME BaseInv, NEW c \in Clients, NEW l \in Lanes, lane' = [lane EXCEPT ![c] = l]
  PROVE  /\ lane' \in [Clients -> Lanes] /\ lane'[c] = l
         /\ \A k \in Clients \ {c} : lane'[k] = lane[k]
         /\ LaneInvOf(l, c) => LaneInv'
<1>1. lane \in [Clients -> Lanes]
  BY DEF BaseInv, TypeOK
<1>2. \A k \in Clients : lane'[k] = IF k = c THEN l ELSE lane[k]
  BY <1>1
<1>3. LaneInvOf(l, c) => LaneInv'
  BY <1>2 DEF BaseInv, LaneInv
<1> QED
  BY <1>1, <1>2, <1>3

LEMMA ScheduledTurn ==
  ASSUME BaseInv, NEW c \in Clients, ready' = Scheduled(ready, c), pc # "work", pc' # "work",
         lane'[c].ops # <<>>, \A k \in Clients \ {c} : lane'[k] = lane[k]
  PROVE  ready' \in Seq(Clients) /\ TurnInv'
<1>1. ready \in Seq(Clients) /\ IsInjective(ready)
  BY DEF BaseInv, TypeOK, TurnInv
<1>2. /\ ready' \in Seq(Clients) /\ IsInjective(ready')
      /\ ToSet(ready') = ToSet(ready) \cup {c}
  BY <1>1, ScheduledLemma
<1>3. \A k \in Clients : lane[k].ops # <<>> <=> k \in ToSet(ready)
  BY DEF BaseInv, TurnInv
<1>4. \A k \in Clients : lane'[k].ops # <<>> <=> k \in ToSet(ready')
  BY <1>2, <1>3
<1> QED
  BY <1>2, <1>4 DEF TurnInv

LEMMA HeadIs ==
  ASSUME TypeOK, mailbox # <<>>
  PROVE  /\ Head(mailbox) \in Commands /\ Head(mailbox) = mailbox[1] /\ 1 \in 1..Len(mailbox)
         /\ Tail(mailbox) \in Seq(Commands)
<1>1. mailbox \in Seq(Commands)
  BY DEF TypeOK
<1>2. /\ Tail(mailbox) \in Seq(Commands) /\ Len(mailbox) \in Nat \ {0}
      /\ Head(mailbox) = mailbox[1] /\ Head(mailbox) \in Commands
  BY <1>1, TailAt
<1>3. 1 \in 1..Len(mailbox)
  BY <1>2
<1> QED
  BY <1>2, <1>3

LEMMA ReceivesBase ==
  ASSUME BaseInv, AttachInv, Receives PROVE BaseInv'
<1> DEFINE m == Head(mailbox)
<1>1. TypeOK /\ TurnInv /\ LaneInv
  BY DEF BaseInv
<1>2. mailbox # <<>>
  BY DEF Receives
<1>3. m \in Commands /\ m = mailbox[1] /\ 1 \in 1..Len(mailbox) /\ mailbox' \in Seq(Commands)
  BY <1>1, <1>2, HeadIs DEF Receives
<1>4. /\ pc # "work" /\ pc' # "work" /\ pc' \in {"drain", "top"}
      /\ UNCHANGED <<outside, inbox, last, disk>>
  BY DEF Receives
<1>5. Ingest(m)
  BY DEF Receives
<1> HIDE DEF m
<1>6. (/\ lane' \in [Clients -> Lanes]
       /\ sink' \in [Clients -> [open : BOOLEAN, pending : Seq(Events)]]
       /\ ready' \in Seq(Clients)
       /\ ingested' \in [Clients -> Nat]
       /\ UNCHANGED <<tried, done, read>>
       /\ TurnInv' /\ LaneInv') => BaseInv'
  BY <1>1, <1>3, <1>4 DEF BaseInv, TypeOK, outside
<1>7. CASE IngestAttach(m)
  <2> DEFINE c == m.client
             l == Lane("open", <<>>, {}, None)
  <2>1. m.kind = "attach" /\ c \in Clients
    BY <1>3, <1>7, CommandKinds DEF IngestAttach
  <2>2. lane[c] = NoLane
    BY <1>3, <2>1 DEF AttachInv, AttachOf, IsAttach, Fresh
  <2>3. l \in Lanes /\ LaneInvOf(l, c) /\ l.ops = <<>>
    <3>1. l \in Lanes
      <4>1. <<>> \in Seq(Ops) /\ {} \in SUBSET (Nat \X Paths) /\ None \in Nat \cup {None}
        OBVIOUS
      <4> QED
        BY <4>1, LaneType
    <3>2. l.status = "open" /\ l.ops = <<>>
      BY LaneIs
    <3> QED
      BY <3>1, <3>2 DEF LaneInvOf
  <2>4. lane' = [lane EXCEPT ![c] = l] /\ UNCHANGED <<ready, ingested, tried, done, read>>
        /\ sink' = [sink EXCEPT ![c] = Sink(TRUE, <<>>)]
    BY <1>7 DEF IngestAttach, history
  <2> HIDE DEF l, c
  <2>5. /\ lane' \in [Clients -> Lanes] /\ lane'[c] = l /\ LaneInv'
        /\ \A k \in Clients \ {c} : lane'[k] = lane[k]
    BY <2>1, <2>3, <2>4, OneLane
  <2>6. sink' \in [Clients -> [open : BOOLEAN, pending : Seq(Events)]]
    <3>1. Sink(TRUE, <<>>) \in [open : BOOLEAN, pending : Seq(Events)]
      BY DEF Sink
    <3> QED
      BY <1>1, <2>4, <3>1 DEF TypeOK
  <2>7. TurnInv'
    <3>1. \A k \in Clients : lane'[k].ops # <<>> <=> lane[k].ops # <<>>
      BY <2>2, <2>3, <2>5, NoLaneIs
    <3> QED
      BY <1>1, <1>4, <2>4, <3>1 DEF TurnInv
  <2> QED
    BY <1>1, <1>6, <2>4, <2>5, <2>6, <2>7 DEF TypeOK
<1>8. CASE IngestLoad(m)
  <2> DEFINE c == m.client
             l == Lane("open", Append(lane[c].ops, m), lane[c].active, lane[c].observed)
  <2>1. m.kind = "load" /\ c \in Clients /\ m \in Ops /\ lane[c].status = "open"
    <3>1. m \in Loads
      BY <1>3, <1>8, CommandKinds DEF IngestLoad
    <3> QED
      BY <1>8, <3>1 DEF IngestLoad, Ops, Loads
  <2>2. /\ lane[c].ops \in Seq(Ops) /\ lane[c].active \in SUBSET (Nat \X Paths)
        /\ lane[c].observed \in Nat \cup {None} /\ LaneInvOf(lane[c], c)
    BY <1>1, <2>1, LaneParts DEF LaneInv
  <2>3. /\ lane' = [lane EXCEPT ![c] = l] /\ ready' = Scheduled(ready, c)
        /\ UNCHANGED <<sink, ingested, tried, done, read>>
    BY <1>8 DEF IngestLoad, history
  <2>4. m.client = c
    OBVIOUS
  <2> HIDE DEF c
  <2>5. l \in Lanes /\ l.ops # <<>> /\ LaneInvOf(l, c)
    <3> DEFINE q == Append(lane[c].ops, m)
    <3>1. /\ q \in Seq(Ops) /\ Len(lane[c].ops) \in Nat /\ Len(q) = Len(lane[c].ops) + 1
          /\ \A i \in 1..Len(lane[c].ops) : q[i] = lane[c].ops[i]
          /\ q[Len(lane[c].ops) + 1] = m /\ q # <<>>
      BY <2>1, <2>2, AppendAt
    <3> HIDE DEF q
    <3>2. ASSUME NEW i \in 1..Len(q) PROVE q[i].kind # "detach" /\ q[i].client = c
      <4>1. CASE i = Len(q)
        BY <2>1, <2>4, <3>1, <4>1
      <4>2. CASE i # Len(q)
        <5>1. i \in 1..Len(lane[c].ops) /\ q[i] = lane[c].ops[i]
          BY <3>1, <4>2
        <5> QED
          BY <2>1, <2>2, <5>1 DEF LaneInvOf
      <4> QED
        BY <4>1, <4>2
    <3>3. l.status = "open" /\ l.ops = q
      BY DEF Lane, q
    <3>4. l \in Lanes
      BY <2>2, <3>1, LaneType DEF q
    <3> HIDE DEF l
    <3> QED
      BY <3>1, <3>2, <3>3, <3>4 DEF LaneInvOf
  <2> HIDE DEF l
  <2>6. /\ lane' \in [Clients -> Lanes] /\ lane'[c] = l /\ LaneInv'
        /\ \A k \in Clients \ {c} : lane'[k] = lane[k]
    BY <2>1, <2>3, <2>5, OneLane
  <2>7. ready' \in Seq(Clients) /\ TurnInv'
    BY <1>4, <2>1, <2>3, <2>5, <2>6, ScheduledTurn
  <2> QED
    BY <1>1, <1>6, <2>3, <2>6, <2>7 DEF TypeOK
<1>9. CASE IngestSave(m)
  <2> DEFINE c == m.client
             q == WithSave(lane[c].ops, m)
             l == Lane("open", q, lane[c].active, lane[c].observed)
  <2>1. m.kind = "save" /\ c \in Clients /\ m \in Saves /\ lane[c].status = "open"
    <3>1. m \in Saves
      BY <1>3, <1>9, CommandKinds DEF IngestSave
    <3> QED
      BY <1>9, <3>1 DEF IngestSave, Saves
  <2>2. /\ lane[c].ops \in Seq(Ops) /\ lane[c].active \in SUBSET (Nat \X Paths)
        /\ lane[c].observed \in Nat \cup {None} /\ LaneInvOf(lane[c], c)
    BY <1>1, <2>1, LaneParts DEF LaneInv
  <2>3. /\ lane' = [lane EXCEPT ![c] = l] /\ ready' = Scheduled(ready, c)
        /\ ingested' = [ingested EXCEPT ![c] = m.n]
        /\ UNCHANGED <<sink, tried, done, read>>
    BY <1>9 DEF IngestSave
  <2>4. m.client = c /\ m.n \in Nat
    BY <2>1 DEF Saves
  <2>5. PICK keep, e :
           /\ keep \in Seq(Ops) /\ e \in Saves /\ e.kind = "save" /\ e.client = c
           /\ q = Append(keep, e)
           /\ Len(keep) <= Len(lane[c].ops) /\ \A i \in 1..Len(keep) : keep[i] = lane[c].ops[i]
    <3> DEFINE ops == lane[c].ops
    <3>1. ops \in Seq(Ops) /\ m \in Saves
      BY <2>1, <2>2
    <3> HIDE DEF ops
    <3>2. \E keep, e :
           /\ keep \in Seq(Ops)
           /\ e \in Saves /\ e.kind = "save" /\ e.client = m.client /\ e.gen = m.gen
           /\ e.path = m.path /\ e.revision = m.revision /\ e.n = m.n
           /\ WithSave(ops, m) = Append(keep, e)
           /\ Len(keep) <= Len(ops) /\ \A i \in 1..Len(keep) : keep[i] = ops[i]
           /\ \/ keep = ops
              \/ Len(ops) = Len(keep) + 1 /\ ops[Len(ops)].kind = "save"
      BY ONLY <3>1, WithSaveLemma
    <3> QED
      BY <2>4, <3>2 DEF ops
  <2> HIDE DEF c, q
  <2>6. l \in Lanes /\ l.ops # <<>> /\ LaneInvOf(l, c)
    <3>0. e \in Ops
      BY <2>5 DEF Ops
    <3>1. /\ q \in Seq(Ops) /\ Len(keep) \in Nat /\ Len(q) = Len(keep) + 1
          /\ \A i \in 1..Len(keep) : q[i] = keep[i]
          /\ q[Len(keep) + 1] = e /\ q # <<>>
      <4>1. keep \in Seq(Ops)
        BY <2>5
      <4> QED
        BY <2>5, <3>0, <4>1, AppendAt
    <3>2. ASSUME NEW i \in 1..Len(q) PROVE q[i].kind # "detach" /\ q[i].client = c
      <4>1. CASE i = Len(q)
        BY <2>5, <3>1, <4>1
      <4>2. CASE i # Len(q)
        <5>1. i \in 1..Len(keep) /\ q[i] = keep[i]
          BY <3>1, <4>2
        <5>2. i \in 1..Len(lane[c].ops) /\ q[i] = lane[c].ops[i]
          BY <2>2, <2>5, <3>1, <5>1
        <5> QED
          BY <2>1, <2>2, <5>2 DEF LaneInvOf
      <4> QED
        BY <4>1, <4>2
    <3>3. l.status = "open" /\ l.ops = q
      BY LaneIs
    <3>4. l \in Lanes
      BY <2>2, <3>1, LaneType
    <3> HIDE DEF l
    <3> QED
      BY <3>1, <3>2, <3>3, <3>4 DEF LaneInvOf
  <2> HIDE DEF l
  <2>7. /\ lane' \in [Clients -> Lanes] /\ lane'[c] = l /\ LaneInv'
        /\ \A k \in Clients \ {c} : lane'[k] = lane[k]
    BY <2>1, <2>3, <2>6, OneLane
  <2>8. ready' \in Seq(Clients) /\ TurnInv'
    BY <1>4, <2>1, <2>3, <2>6, <2>7, ScheduledTurn
  <2>9. ingested' \in [Clients -> Nat]
    BY <1>1, <2>3, <2>4 DEF TypeOK
  <2> QED
    BY <1>1, <1>6, <2>3, <2>7, <2>8, <2>9 DEF TypeOK
<1>10. CASE IngestLate(m) \/ IngestInspect(m) \/ IngestWake(m)
  <2>1. UNCHANGED <<lane, sink, ready, ingested, tried, done, read>>
    BY <1>10 DEF IngestLate, IngestInspect, IngestWake, history
  <2>2. TurnInv' /\ LaneInv'
    BY <1>1, <1>4, <2>1 DEF TurnInv, LaneInv
  <2> QED
    BY <1>1, <1>6, <2>1, <2>2 DEF TypeOK
<1>11. CASE IngestShutdown(m)
  <2>1. /\ sink' = [c \in Clients |-> NoSink] /\ Closes(OpenLanes)
        /\ ready' \in WithReady(OpenLanes) /\ UNCHANGED <<ingested, tried, done, read>>
    BY <1>11 DEF IngestShutdown, history
  <2>2. sink' \in [Clients -> [open : BOOLEAN, pending : Seq(Events)]]
    BY <2>1, NoSinkIs
  <2>3. OpenLanes \in SUBSET OpenLanes /\ OpenLanes \in SUBSET Clients
    BY DEF OpenLanes
  <2>4. /\ lane' \in [Clients -> Lanes] /\ LaneInv'
        /\ \A c \in Clients : lane'[c].ops # <<>> <=> (c \in OpenLanes \/ lane[c].ops # <<>>)
    BY <1>1, <2>1, <2>3, ClosesLemma
  <2>5. /\ ready' \in Seq(Clients) /\ IsInjective(ready')
        /\ ToSet(ready') = ToSet(ready) \cup OpenLanes
    <3>1. ready \in Seq(Clients) /\ IsInjective(ready)
      BY <1>1 DEF TypeOK, TurnInv
    <3> QED
      BY <2>1, <2>3, <3>1, WithReadyLemma
  <2>6. TurnInv'
    BY <1>1, <1>4, <2>4, <2>5 DEF TurnInv
  <2> QED
    BY <1>1, <1>6, <2>1, <2>2, <2>4, <2>5, <2>6 DEF TypeOK
<1> QED
  BY <1>5, <1>7, <1>8, <1>9, <1>10, <1>11 DEF Ingest

LEMMA ReapsBase ==
  ASSUME BaseInv, Reaps PROVE BaseInv'
<1> DEFINE L == {c \in OpenLanes : Detached(c)}
<1>1. TypeOK /\ TurnInv /\ LaneInv
  BY DEF BaseInv
<1>2. /\ pc = "reap" /\ pc' = "serve" /\ Closes(L)
      /\ \E r \in WithReady(L) : ready' = Rotated(r)
      /\ sink' = [c \in Clients |-> IF c \in L THEN NoSink ELSE FlushedSink(c)]
      /\ inbox' = [c \in Clients |-> IF c \in L THEN inbox[c] ELSE FlushedInbox(c)]
      /\ UNCHANGED <<mailbox, outside, last, disk, history>>
  BY DEF Reaps
<1>3. L \in SUBSET OpenLanes /\ L \in SUBSET Clients
  BY DEF OpenLanes
<1> HIDE DEF L
<1>4. /\ lane' \in [Clients -> Lanes] /\ LaneInv'
      /\ \A c \in Clients : lane'[c].ops # <<>> <=> (c \in L \/ lane[c].ops # <<>>)
  BY <1>1, <1>2, <1>3, ClosesLemma
<1>5. PICK r \in WithReady(L) : ready' = Rotated(r)
  BY <1>2
<1>6. r \in Seq(Clients) /\ IsInjective(r) /\ ToSet(r) = ToSet(ready) \cup L
  <2>1. ready \in Seq(Clients) /\ IsInjective(ready)
    BY <1>1 DEF TypeOK, TurnInv
  <2> QED
    BY <1>3, <2>1, WithReadyLemma
<1>7. /\ ready' \in Seq(Clients) /\ IsInjective(ready')
      /\ ToSet(ready') = ToSet(ready) \cup L
  BY <1>5, <1>6, RotatedLemma
<1>8. TurnInv'
  BY <1>1, <1>2, <1>4, <1>7 DEF TurnInv
<1>9. \A c \in Clients :
        /\ FlushedSink(c) \in [open : BOOLEAN, pending : Seq(Events)]
        /\ FlushedInbox(c) \in Seq(Events) /\ Len(FlushedInbox(c)) <= EVENT_CAPACITY
  BY <1>1, FlushLemma
<1>10. \A c \in Clients : inbox[c] \in Seq(Events) /\ Len(inbox[c]) <= EVENT_CAPACITY
  BY <1>1 DEF TypeOK
<1>11. /\ sink' \in [Clients -> [open : BOOLEAN, pending : Seq(Events)]]
       /\ inbox' \in [Clients -> Seq(Events)]
  BY <1>2, <1>9, <1>10, NoSinkIs
<1>12. \A c \in Clients : Len(inbox'[c]) <= EVENT_CAPACITY
  <2>1. \A c \in Clients : inbox'[c] = IF c \in L THEN inbox[c] ELSE FlushedInbox(c)
    BY <1>2
  <2> QED
    BY <1>9, <1>10, <2>1
<1>13. TypeOK'
  BY <1>1, <1>2, <1>4, <1>7, <1>11, <1>12 DEF TypeOK, outside, history
<1> QED
  BY <1>4, <1>8, <1>13 DEF BaseInv

LEMMA SelectsBase ==
  ASSUME BaseInv, NEW c \in Clients, Selects(c) PROVE BaseInv'
<1>1. TypeOK /\ TurnInv /\ LaneInv /\ ready \in Seq(Clients) /\ IsInjective(ready)
  BY DEF BaseInv, TypeOK, TurnInv
<1>2. PICK i \in EligibleTurns :
        /\ c = ready[i]
        /\ ready' = SubSeq(ready, i + 1, Len(ready)) \o SubSeq(ready, 1, i - 1)
  BY DEF Selects
<1>3. i \in 1..Len(ready)
  BY DEF EligibleTurns
<1>4. /\ ready' \in Seq(Clients) /\ IsInjective(ready')
      /\ ToSet(ready') = ToSet(ready) \ {c}
  <2>1. /\ ready' \in Seq(Clients) /\ IsInjective(ready')
        /\ ToSet(ready') = ToSet(ready) \ {ready[i]}
    BY <1>1, <1>2, <1>3, TurnedLemma
  <2> QED
    BY <1>2, <2>1
<1>5. c \in ToSet(ready)
  BY <1>1, <1>2, <1>3, ToSetIs
<1>6. /\ pc = "serve" /\ pc' = "work" /\ last' = c
      /\ sink' = [sink EXCEPT ![c] = FlushedSink(c)]
      /\ inbox' = [inbox EXCEPT ![c] = FlushedInbox(c)]
      /\ UNCHANGED <<mailbox, outside, lane, disk, history>>
  BY DEF Selects
<1>7. TurnInv'
  <2>1. \A k \in Clients : lane[k].ops # <<>> <=> k \in ToSet(ready)
    BY <1>1, <1>6 DEF TurnInv
  <2>2. \A k \in Clients : lane'[k].ops # <<>> <=> (k \in ToSet(ready') \/ last' = k)
    BY <1>4, <1>5, <1>6, <2>1
  <2> QED
    BY <1>4, <1>6, <2>2 DEF TurnInv
<1>8. LaneInv'
  BY <1>1, <1>6 DEF LaneInv
<1>9. /\ FlushedSink(c) \in [open : BOOLEAN, pending : Seq(Events)]
      /\ FlushedInbox(c) \in Seq(Events) /\ Len(FlushedInbox(c)) <= EVENT_CAPACITY
  BY <1>1, FlushLemma
<1>10. /\ inbox \in [Clients -> Seq(Events)]
       /\ sink \in [Clients -> [open : BOOLEAN, pending : Seq(Events)]]
       /\ \A k \in Clients : Len(inbox[k]) <= EVENT_CAPACITY
  BY <1>1 DEF TypeOK
<1>11. /\ sink' \in [Clients -> [open : BOOLEAN, pending : Seq(Events)]]
       /\ inbox' \in [Clients -> Seq(Events)]
  BY <1>6, <1>9, <1>10
<1>12. \A k \in Clients : Len(inbox'[k]) <= EVENT_CAPACITY
  <2>1. \A k \in Clients : inbox'[k] = IF k = c THEN FlushedInbox(c) ELSE inbox[k]
    BY <1>6, <1>10
  <2> QED
    BY <1>9, <1>10, <2>1
<1>13. TypeOK'
  BY <1>1, <1>4, <1>6, <1>11, <1>12 DEF TypeOK, outside, history
<1> QED
  BY <1>7, <1>8, <1>13 DEF BaseInv

LEMMA RestsBase ==
  ASSUME BaseInv, Rests PROVE BaseInv'
<1>1. /\ pc # "work" /\ pc' \in {"stopped", "top"}
      /\ UNCHANGED <<mailbox, outside, inbox, lane, sink, ready, last, disk, history>>
  BY DEF Rests
<1>2. TypeOK'
  BY <1>1 DEF BaseInv, TypeOK, outside, history
<1>3. TurnInv'
  BY <1>1 DEF BaseInv, TurnInv
<1>4. LaneInv'
  BY <1>1 DEF BaseInv, LaneInv
<1> QED
  BY <1>2, <1>3, <1>4 DEF BaseInv

(* The operation at work is the first of its lane. *)
LEMMA OpIs ==
  ASSUME BaseInv, pc = "work"
  PROVE  /\ last \in Clients /\ lane[last].ops \in Seq(Ops) /\ lane[last].ops # <<>>
         /\ Op \in Ops /\ Op = lane[last].ops[1] /\ 1 \in 1..Len(lane[last].ops)
         /\ Op.kind \in {"load", "save", "detach"}
         /\ Op.kind \in {"load", "save"} => Op.gen \in Nat /\ Op.path \in Paths
         /\ Op.kind = "save" => Op.revision \in Nat /\ Op.n \in Nat /\ Op \in Saves
         /\ Op.kind # "detach" => Op.client = last
         /\ Op.kind = "load" => IsLoad(Op, last)
         /\ Op.kind = "save" => IsSave(Op, last)
<1>1. last \in Clients /\ lane[last].ops # <<>>
  BY DEF BaseInv, TurnInv
<1>2. lane[last].ops \in Seq(Ops)
  BY <1>1, LaneParts DEF BaseInv
<1>3. /\ Len(lane[last].ops) \in Nat \ {0} /\ Op = lane[last].ops[1] /\ Op \in Ops
  BY <1>1, <1>2, TailAt DEF Op
<1>4. 1 \in 1..Len(lane[last].ops)
  BY <1>3
<1>5. Op.kind # "detach" => Op.client = last
  BY <1>1, <1>3, <1>4 DEF BaseInv, LaneInv, LaneInvOf
<1>6. /\ Op.kind \in {"load", "save", "detach"}
      /\ Op.kind = "load" => Op \in Loads
      /\ Op.kind = "save" => Op \in Saves
  BY <1>3, OpKinds
<1>7. /\ Op.kind \in {"load", "save"} => Op.gen \in Nat /\ Op.path \in Paths
      /\ Op.kind = "save" => Op.revision \in Nat /\ Op.n \in Nat
  BY <1>6 DEF Loads, Saves
<1> QED
  BY <1>1, <1>2, <1>3, <1>4, <1>5, <1>6, <1>7 DEF IsLoad, IsSave

(* What process_one comes to for a load, a stale save, a failed or a good one. *)
Ends(c, A, obs, kind, rev) ==
  /\ A \in SUBSET (Nat \X Paths) /\ obs \in Nat \cup {None}
  /\ kind \in {"loaded", "saved", "failed"} /\ rev \in Nat \cup {None}
  /\ kind # "failed" => rev \in Nat
  /\ Finishes(c, A, obs, kind, rev)

(* What the end of process_one does to the lane and to the events. *)
LEMMA FinishesLemma ==
  ASSUME BaseInv, NEW c \in Clients, c = last, pc = "work", Op.kind \in {"load", "save"},
         NEW A, NEW obs, NEW kind, NEW rev, Ends(c, A, obs, kind, rev)
  PROVE  /\ (/\ tried' \in [Clients -> Nat]
             /\ disk' \in [Paths -> [revision : Nat, author : Clients \cup {None, Foreign}]])
              => BaseInv'
         /\ lane'[c] = Lane(lane[c].status, Tail(lane[c].ops), A, obs)
         /\ lane'[c].status = lane[c].status /\ lane'[c].ops = Tail(lane[c].ops)
         /\ lane'[c].active = A /\ lane'[c].observed = obs
         /\ \A k \in Clients \ {c} : lane'[k] = lane[k]
         /\ Tail(lane[c].ops) \in Seq(Ops)
         /\ LET e == [kind |-> kind, gen |-> Op.gen, revision |-> rev, n |-> done[c] + 1]
            IN  e \in Events /\ Emit(c, e)
<1> DEFINE ops == lane[c].ops
           t == Tail(ops)
           l == Lane(lane[c].status, t, A, obs)
           e == [kind |-> kind, gen |-> Op.gen, revision |-> rev, n |-> done[c] + 1]
<1>1. /\ TypeOK /\ TurnInv /\ LaneInv
      /\ ready \in Seq(Clients) /\ IsInjective(ready) /\ c \notin ToSet(ready)
      /\ done \in [Clients -> Nat]
  BY DEF BaseInv, TurnInv, TypeOK
<1>0. /\ A \in SUBSET (Nat \X Paths) /\ obs \in Nat \cup {None}
      /\ kind \in {"loaded", "saved", "failed"} /\ rev \in Nat \cup {None}
      /\ kind # "failed" => rev \in Nat
      /\ Finishes(c, A, obs, kind, rev)
  BY DEF Ends
<1>2. /\ ops \in Seq(Ops) /\ ops # <<>> /\ Op = ops[1] /\ Op.gen \in Nat
  BY OpIs
<1>3. /\ lane' = [lane EXCEPT ![c] = l] /\ Emit(c, e) /\ Continues(c)
      /\ done' = [done EXCEPT ![c] = done[c] + 1] /\ pc' = "top"
      /\ UNCHANGED <<mailbox, outside, last, ingested, read>>
  BY <1>0 DEF Finishes
<1>4. e \in Events
  <2>1. done[c] + 1 \in Nat
    BY <1>1
  <2> QED
    BY <1>0, <1>2, <2>1 DEF Events
<1> HIDE DEF e
<1>5. /\ t \in Seq(Ops) /\ Len(ops) \in Nat \ {0} /\ Len(t) = Len(ops) - 1
      /\ \A i \in 1..Len(t) : i + 1 \in 1..Len(ops) /\ t[i] = ops[i + 1]
  BY <1>2, TailAt
<1> HIDE DEF t
<1>6. lane[c].status \in {"absent", "open", "closing"} /\ LaneInvOf(lane[c], c)
  BY <1>1, LaneParts DEF LaneInv
<1>7. l \in Lanes /\ l.status = lane[c].status /\ l.ops = t /\ l.active = A /\ l.observed = obs
  <2>1. t \in Seq(Ops) /\ lane[c].status \in {"absent", "open", "closing"}
    BY <1>5, <1>6
  <2>2. l \in Lanes
    BY <1>0, <2>1, LaneType
  <2>3. l.status = lane[c].status /\ l.ops = t /\ l.active = A /\ l.observed = obs
    BY DEF Lane
  <2> QED
    BY <2>2, <2>3
<1> HIDE DEF l
<1>8. LaneInvOf(l, c)
  <2>1. lane[c].status # "absent"
    <3>1. NoLane.ops = <<>>
      BY NoLaneIs
    <3> QED
      BY <1>2, <1>6, <3>1 DEF LaneInvOf
  <2>2. Op.kind # "detach"
    OBVIOUS
  <2>3. lane[c].status = "closing" => t # <<>> /\ t[Len(t)].kind = "detach"
    <3> SUFFICES ASSUME lane[c].status = "closing"
                 PROVE  t # <<>> /\ t[Len(t)].kind = "detach"
      OBVIOUS
    <3>1. ops[Len(ops)].kind = "detach"
      BY <1>6 DEF LaneInvOf
    <3>2. Len(ops) # 1
      BY <1>2, <2>2, <3>1
    <3>3. Len(t) \in Nat /\ Len(t) > 0 /\ Len(t) + 1 = Len(ops)
      <4> DEFINE n == Len(ops)
                 j == Len(t)
      <4>1. n \in Nat \ {0} /\ n # 1 /\ j = n - 1
        BY <1>5, <3>2
      <4> HIDE DEF n, j
      <4>2. j \in Nat /\ j > 0 /\ j + 1 = n
        BY <4>1
      <4> QED
        BY <4>2 DEF n, j
    <3>4. Len(t) \in 1..Len(t) /\ t[Len(t)] = ops[Len(t) + 1]
      BY <1>5, <3>3
    <3>5. t # <<>>
      <4>1. t \in Seq(Ops) /\ Len(t) # 0
        BY <1>5, <3>3
      <4> QED
        BY <4>1, EmptySeq
    <3> QED
      BY <3>1, <3>3, <3>4, <3>5
  <2>4. ASSUME NEW i \in 1..Len(t)
        PROVE  /\ t[i].kind = "detach" => i = Len(t) /\ lane[c].status = "closing"
               /\ t[i].kind # "detach" => t[i].client = c
    <3>1. i + 1 \in 1..Len(ops) /\ t[i] = ops[i + 1] /\ Len(t) = Len(ops) - 1
      BY <1>5
    <3>2. /\ t[i].kind = "detach" => i + 1 = Len(ops) /\ lane[c].status = "closing"
          /\ t[i].kind # "detach" => t[i].client = c
      BY <1>6, <3>1 DEF LaneInvOf
    <3> QED
      BY <1>5, <3>1, <3>2
  <2> QED
    BY <1>7, <2>1, <2>3, <2>4 DEF LaneInvOf
<1>9. /\ lane' \in [Clients -> Lanes] /\ lane'[c] = l /\ LaneInv'
      /\ \A k \in Clients \ {c} : lane'[k] = lane[k]
  BY <1>3, <1>7, <1>8, OneLane
<1>10. /\ inbox' \in [Clients -> Seq(Events)]
       /\ sink' \in [Clients -> [open : BOOLEAN, pending : Seq(Events)]]
       /\ \A k \in Clients : Len(inbox'[k]) <= EVENT_CAPACITY
  BY <1>1, <1>3, <1>4, EmitLemma
<1>11. ready' \in Seq(Clients) /\ TurnInv'
  <2>1. \A k \in Clients \ {c} : lane[k].ops # <<>> <=> k \in ToSet(ready)
    BY <1>1 DEF TurnInv
  <2>2. CASE Len(ops) > 1
    <3>1. ready' = Scheduled(ready, c)
      BY <1>3, <2>2 DEF Continues
    <3>2. /\ ready' \in Seq(Clients) /\ IsInjective(ready')
          /\ ToSet(ready') = ToSet(ready) \cup {c}
      BY <1>1, <3>1, ScheduledLemma
    <3>3. lane'[c].ops # <<>>
      BY <1>2, <1>7, <1>9, <2>2, TailNonempty DEF t
    <3>4. \A k \in Clients : lane'[k].ops # <<>> <=> k \in ToSet(ready')
      BY <1>9, <2>1, <3>2, <3>3
    <3> QED
      BY <1>3, <3>2, <3>4 DEF TurnInv
  <2>3. CASE ~(Len(ops) > 1)
    <3>1. ready' = ready
      BY <1>3, <2>3 DEF Continues
    <3>2. lane'[c].ops = <<>>
      <4>1. Len(t) = 0 /\ t \in Seq(Ops)
        <5> DEFINE n == Len(ops)
                   j == Len(t)
        <5>1. n \in Nat \ {0} /\ ~(n > 1) /\ j = n - 1
          BY <1>5, <2>3
        <5> HIDE DEF n, j
        <5>2. j = 0
          BY <5>1
        <5> QED
          BY <1>5, <5>2 DEF j
      <4>2. t = <<>>
        BY <4>1, EmptySeq
      <4> QED
        BY <1>7, <1>9, <4>2
    <3>3. \A k \in Clients : lane'[k].ops # <<>> <=> k \in ToSet(ready')
      BY <1>1, <1>9, <2>1, <3>1, <3>2
    <3> QED
      BY <1>1, <1>3, <3>1, <3>3 DEF TurnInv
  <2> QED
    BY <2>2, <2>3
<1>12. done' \in [Clients -> Nat]
  BY <1>1, <1>3
<1>13. (/\ tried' \in [Clients -> Nat]
        /\ disk' \in [Paths -> [revision : Nat, author : Clients \cup {None, Foreign}]])
         => TypeOK'
  BY <1>1, <1>3, <1>9, <1>10, <1>11, <1>12 DEF TypeOK, outside
<1> QED
  BY <1>3, <1>4, <1>5, <1>7, <1>9, <1>11, <1>13 DEF BaseInv, e, t, l

LEMMA OpActive ==
  ASSUME BaseInv, pc = "work", Op.kind \in {"load", "save"}
  PROVE  {<<Op.gen, Op.path>>} \in SUBSET (Nat \X Paths)
BY OpIs

LEMMA DiskType ==
  ASSUME BaseInv, NEW p \in Paths
  PROVE  /\ disk[p] \in [revision : Nat, author : Clients \cup {None, Foreign}]
         /\ disk[p].revision \in Nat /\ disk[p].author \in Clients \cup {None, Foreign}
BY DEF BaseInv, TypeOK

LEMMA LoadEnds ==
  ASSUME BaseInv, NEW c \in Clients, ProcessLoad(c)
  PROVE  /\ pc = "work" /\ c = last /\ Op.kind = "load" /\ UNCHANGED <<disk, tried>>
         /\ \/ Ends(c, {<<Op.gen, Op.path>>}, disk[Op.path].revision, "loaded", disk[Op.path].revision)
            \/ Ends(c, {<<Op.gen, Op.path>>}, None, "failed", None)
<1>1. /\ pc = "work" /\ c = last /\ Op.kind = "load" /\ UNCHANGED <<disk, tried>>
      /\ \/ Finishes(c, {<<Op.gen, Op.path>>}, disk[Op.path].revision, "loaded", disk[Op.path].revision)
         \/ Finishes(c, {<<Op.gen, Op.path>>}, None, "failed", None)
  BY DEF ProcessLoad
<1>2. {<<Op.gen, Op.path>>} \in SUBSET (Nat \X Paths)
  BY <1>1, OpActive
<1>3. disk[Op.path].revision \in Nat
  BY <1>1, OpIs, DiskType
<1> QED
  BY <1>1, <1>2, <1>3 DEF Ends

LEMMA StaleSaveEnds ==
  ASSUME BaseInv, NEW c \in Clients, ProcessStaleSave(c)
  PROVE  /\ pc = "work" /\ c = last /\ Op.kind = "save" /\ UNCHANGED disk
         /\ Stale(c) /\ tried' = [tried EXCEPT ![c] = Op.n]
         /\ Ends(c, lane[c].active, lane[c].observed, "failed", Op.revision)
<1>1. /\ pc = "work" /\ c = last /\ Op.kind = "save" /\ UNCHANGED disk
      /\ Stale(c) /\ tried' = [tried EXCEPT ![c] = Op.n]
      /\ Finishes(c, lane[c].active, lane[c].observed, "failed", Op.revision)
  BY DEF ProcessStaleSave, Tries
<1>2. lane[c].active \in SUBSET (Nat \X Paths) /\ lane[c].observed \in Nat \cup {None}
  BY LaneParts DEF BaseInv
<1>3. Op.revision \in Nat
  BY <1>1, OpIs
<1> QED
  BY <1>1, <1>2, <1>3 DEF Ends

LEMMA FailedSaveEnds ==
  ASSUME BaseInv, NEW c \in Clients, ProcessFailedSave(c)
  PROVE  /\ pc = "work" /\ c = last /\ Op.kind = "save" /\ UNCHANGED disk
         /\ ~Stale(c) /\ tried' = [tried EXCEPT ![c] = Op.n]
         /\ Ends(c, {<<Op.gen, Op.path>>}, lane[c].observed, "failed", Op.revision)
<1>1. /\ pc = "work" /\ c = last /\ Op.kind = "save" /\ UNCHANGED disk
      /\ ~Stale(c) /\ tried' = [tried EXCEPT ![c] = Op.n]
      /\ Finishes(c, {<<Op.gen, Op.path>>}, lane[c].observed, "failed", Op.revision)
  BY DEF ProcessFailedSave, Tries
<1>2. lane[c].observed \in Nat \cup {None}
  BY LaneParts DEF BaseInv
<1>3. Op.revision \in Nat /\ {<<Op.gen, Op.path>>} \in SUBSET (Nat \X Paths)
  BY <1>1, OpIs, OpActive
<1> QED
  BY <1>1, <1>2, <1>3 DEF Ends

LEMMA SaveEnds ==
  ASSUME BaseInv, NEW c \in Clients, ProcessSave(c)
  PROVE  /\ pc = "work" /\ c = last /\ Op.kind = "save"
         /\ disk' = [disk EXCEPT ![Op.path] = [revision |-> Op.revision, author |-> c]]
         /\ ~Stale(c) /\ MaySave(c) /\ tried' = [tried EXCEPT ![c] = Op.n]
         /\ Ends(c, {<<Op.gen, Op.path>>}, Op.revision, "saved", Op.revision)
<1>1. /\ pc = "work" /\ c = last /\ Op.kind = "save"
      /\ disk' = [disk EXCEPT ![Op.path] = [revision |-> Op.revision, author |-> c]]
      /\ ~Stale(c) /\ MaySave(c) /\ tried' = [tried EXCEPT ![c] = Op.n]
      /\ Finishes(c, {<<Op.gen, Op.path>>}, Op.revision, "saved", Op.revision)
  BY DEF ProcessSave, Tries
<1>2. Op.revision \in Nat /\ {<<Op.gen, Op.path>>} \in SUBSET (Nat \X Paths)
  BY <1>1, OpIs, OpActive
<1> QED
  BY <1>1, <1>2 DEF Ends

(* An operation other than detach is over. *)
Works(c) == ProcessLoad(c) \/ ProcessStaleSave(c) \/ ProcessFailedSave(c) \/ ProcessSave(c)

LEMMA WorksEnds ==
  ASSUME BaseInv, NEW c \in Clients, Works(c)
  PROVE  /\ pc = "work" /\ c = last /\ Op.kind \in {"load", "save"}
         /\ Op.kind = "load" => tried' = tried
         /\ Op.kind = "save" => tried' = [tried EXCEPT ![c] = Op.n]
         /\ disk' \in [Paths -> [revision : Nat, author : Clients \cup {None, Foreign}]]
         /\ \E A, obs, kind, rev : Ends(c, A, obs, kind, rev)
<1>1. disk \in [Paths -> [revision : Nat, author : Clients \cup {None, Foreign}]]
  BY DEF BaseInv, TypeOK
<1>2. CASE ProcessLoad(c)
  BY <1>1, <1>2, LoadEnds
<1>3. CASE ProcessStaleSave(c)
  BY <1>1, <1>3, StaleSaveEnds
<1>4. CASE ProcessFailedSave(c)
  BY <1>1, <1>4, FailedSaveEnds
<1>5. CASE ProcessSave(c)
  <2>1. /\ pc = "work" /\ c = last /\ Op.kind = "save"
        /\ disk' = [disk EXCEPT ![Op.path] = [revision |-> Op.revision, author |-> c]]
        /\ tried' = [tried EXCEPT ![c] = Op.n]
        /\ Ends(c, {<<Op.gen, Op.path>>}, Op.revision, "saved", Op.revision)
    BY <1>5, SaveEnds
  <2>2. Op.revision \in Nat
    BY <2>1, OpIs
  <2>3. [revision |-> Op.revision, author |-> c]
          \in [revision : Nat, author : Clients \cup {None, Foreign}]
    BY <2>2
  <2>4. disk' \in [Paths -> [revision : Nat, author : Clients \cup {None, Foreign}]]
    BY <1>1, <2>1, <2>3
  <2> QED
    BY <2>1, <2>4
<1> QED
  BY <1>2, <1>3, <1>4, <1>5 DEF Works

LEMMA WorksBase ==
  ASSUME BaseInv, NEW c \in Clients, Works(c)
  PROVE  BaseInv'
<1>1. /\ pc = "work" /\ c = last /\ Op.kind \in {"load", "save"}
      /\ Op.kind = "load" => tried' = tried
      /\ Op.kind = "save" => tried' = [tried EXCEPT ![c] = Op.n]
      /\ disk' \in [Paths -> [revision : Nat, author : Clients \cup {None, Foreign}]]
  BY WorksEnds
<1>2. PICK A, obs, kind, rev : Ends(c, A, obs, kind, rev)
  BY WorksEnds
<1>4. (/\ tried' \in [Clients -> Nat]
       /\ disk' \in [Paths -> [revision : Nat, author : Clients \cup {None, Foreign}]])
        => BaseInv'
  BY <1>1, <1>2, FinishesLemma
<1>5. tried' \in [Clients -> Nat]
  <2>1. tried \in [Clients -> Nat]
    BY DEF BaseInv, TypeOK
  <2>2. Op.kind = "save" => Op.n \in Nat
    BY <1>1, OpIs
  <2> QED
    BY <1>1, <2>1, <2>2
<1> QED
  BY <1>1, <1>4, <1>5

(* The last operation of a lane takes the lane with it. *)
LEMMA DetachEmpties ==
  ASSUME BaseInv, NEW c \in Clients, ProcessDetach(c)
  PROVE  /\ pc = "work" /\ c = last /\ Len(lane[c].ops) = 1 /\ lane[c].ops[1].kind = "detach"
         /\ lane[c].status = "closing"
<1>1. pc = "work" /\ c = last /\ Op.kind = "detach"
  BY DEF ProcessDetach
<1>2. Op = lane[c].ops[1] /\ 1 \in 1..Len(lane[c].ops)
  BY <1>1, OpIs
<1> QED
  BY <1>1, <1>2 DEF BaseInv, LaneInv, LaneInvOf

LEMMA DetachBase ==
  ASSUME BaseInv, NEW c \in Clients, ProcessDetach(c) PROVE BaseInv'
<1>1. TypeOK /\ TurnInv /\ LaneInv
  BY DEF BaseInv
<1>2. /\ pc = "work" /\ c = last /\ pc' = "top"
      /\ lane' = [lane EXCEPT ![c] = NoLane] /\ sink' = [sink EXCEPT ![c] = NoSink]
      /\ UNCHANGED <<mailbox, outside, inbox, ready, last, disk, history>>
  BY DEF ProcessDetach
<1>3. NoLane \in Lanes /\ NoLane.ops = <<>> /\ NoLane.status = "absent"
  BY NoLaneIs
<1>4. LaneInvOf(NoLane, c)
  BY <1>3 DEF LaneInvOf
<1>5. /\ lane' \in [Clients -> Lanes] /\ lane'[c] = NoLane /\ LaneInv'
      /\ \A k \in Clients \ {c} : lane'[k] = lane[k]
  BY <1>2, <1>3, <1>4, OneLane
<1>6. TurnInv'
  <2>1. \A k \in Clients : lane'[k].ops # <<>> <=> k \in ToSet(ready)
    BY <1>1, <1>2, <1>3, <1>5 DEF TurnInv
  <2> QED
    BY <1>1, <1>2, <2>1 DEF TurnInv
<1>7. sink' \in [Clients -> [open : BOOLEAN, pending : Seq(Events)]]
  BY <1>1, <1>2, NoSinkIs DEF TypeOK
<1>8. TypeOK'
  BY <1>1, <1>2, <1>5, <1>7 DEF TypeOK, outside, history
<1> QED
  BY <1>5, <1>6, <1>8 DEF BaseInv

-----------------------------------------------------------------------------
(* Clients that have not come yet, and the shutdown *)

CastInv == AttachInv /\ StopInv

LEMMA InitCast == Init => CastInv
<1> SUFFICES ASSUME Init PROVE CastInv
  OBVIOUS
<1>1. mailbox = <<>> /\ ~stopping /\ pc = "top" /\ Len(mailbox) = 0
  BY DEF Init
<1>2. \A c \in Clients : Fresh(c)
  <2>1. \A c \in Clients :
          ~view[c].shown.loaded /\ ~view[c].left.loaded
    BY DEF Init, View, NoDocument, Document
  <2> QED
    BY <1>1, <2>1 DEF Init, Fresh
<1>3. AttachInv
  BY <1>1, <1>2 DEF AttachInv, AttachOf
<1>4. StopInv
  BY <1>1 DEF StopInv
<1> QED
  BY <1>3, <1>4 DEF CastInv

(* What the actor knows of client c, and what c has been told, stays. *)
SameFor(c) ==
  /\ lane'[c] = lane[c] /\ sink'[c] = sink[c] /\ inbox'[c] = inbox[c]
  /\ done'[c] = done[c] /\ read'[c] = read[c]

SameView(c) ==
  (view'[c].shown.loaded \/ view'[c].left.loaded) => (view[c].shown.loaded \/ view[c].left.loaded)

LEMMA FreshAppend ==
  ASSUME TypeOK, NEW c \in Clients, AttachOf(c), Fresh(c) => SameFor(c) /\ SameView(c),
         NEW m \in Commands, mailbox' = Append(mailbox, m),
         handle'[c] = "none" => handle[c] = "none" /\ ~IsOf(m, c),
         IsAttach(m, c) => handle[c] = "none",
         Fresh(c) => ~IsSave(m, c)
  PROVE  AttachOf(c)'
<1> DEFINE q == mailbox
           r == mailbox'
<1>1. /\ Len(q) \in Nat /\ Len(r) = Len(q) + 1
      /\ \A i \in 1..Len(q) : r[i] = q[i]
      /\ r[Len(q) + 1] = m
  BY AppendAt DEF TypeOK
<1>2. ASSUME NEW i \in 1..Len(r)
      PROVE  \/ i \in 1..Len(q) /\ r[i] = q[i]
             \/ i = Len(q) + 1 /\ r[i] = m
  BY <1>1
<1>3. Fresh(c) => Fresh(c)'
  BY <1>2 DEF Fresh, SameFor, SameView
<1>4. handle'[c] = "none" => Fresh(c)' /\ \A i \in 1..Len(r) : ~IsOf(r[i], c)
  BY <1>2, <1>3 DEF AttachOf
<1>5. ASSUME NEW i \in 1..Len(r), IsAttach(r[i], c)
      PROVE  Fresh(c)' /\ \A j \in 1..Len(r) : IsAttach(r[j], c) => i = j
  <2>1. CASE IsAttach(m, c)
    <3>1. Fresh(c) /\ \A j \in 1..Len(q) : ~IsAttach(q[j], c)
      BY <2>1 DEF AttachOf, IsOf, IsAttach
    <3> QED
      BY <1>2, <1>3, <1>5, <3>1
  <2>2. CASE ~IsAttach(m, c)
    <3>1. i \in 1..Len(q) /\ IsAttach(q[i], c)
      BY <1>2, <1>5, <2>2
    <3>2. Fresh(c) /\ \A j \in 1..Len(q) : IsAttach(q[j], c) => i = j
      BY <3>1 DEF AttachOf
    <3> QED
      BY <1>2, <1>3, <2>2, <3>2
  <2> QED
    BY <2>1, <2>2
<1> QED
  BY <1>4, <1>5 DEF AttachOf

LEMMA FreshKept ==
  ASSUME NEW c \in Clients, AttachOf(c), Fresh(c) => SameFor(c) /\ SameView(c),
         mailbox' = mailbox, handle'[c] = "none" => handle[c] = "none"
  PROVE  AttachOf(c)'
<1>1. Fresh(c) => Fresh(c)'
  BY DEF Fresh, SameFor, SameView
<1> QED
  BY <1>1 DEF AttachOf

LEMMA FreshTail ==
  ASSUME TypeOK, NEW c \in Clients, AttachOf(c), mailbox # <<>>, mailbox' = Tail(mailbox),
         Fresh(c) => \/ SameFor(c) /\ SameView(c)
                     \/ IsAttach(mailbox[1], c) /\ handle[c] # "none",
         handle'[c] = handle[c]
  PROVE  AttachOf(c)'
<1> DEFINE q == mailbox
           r == mailbox'
<1>1. /\ Len(q) \in Nat \ {0} /\ Len(r) = Len(q) - 1
      /\ \A i \in 1..Len(r) : i + 1 \in 1..Len(q) /\ r[i] = q[i + 1]
  BY TailAt DEF TypeOK
<1>2. 1 \in 1..Len(q) /\ Len(r) \in Nat
  BY <1>1
<1>3. CASE SameFor(c) /\ SameView(c)
  <2>1. Fresh(c) => Fresh(c)'
    BY <1>1, <1>3 DEF Fresh, SameFor, SameView
  <2>2. ASSUME NEW i \in 1..Len(r), IsAttach(r[i], c)
        PROVE  Fresh(c)' /\ \A j \in 1..Len(r) : IsAttach(r[j], c) => i = j
    <3>1. Fresh(c) /\ \A j \in 1..Len(q) : IsAttach(q[j], c) => i + 1 = j
      BY <1>1, <2>2 DEF AttachOf
    <3>2. ASSUME NEW j \in 1..Len(r), IsAttach(r[j], c) PROVE i = j
      <4>1. i + 1 = j + 1
        BY <1>1, <3>1, <3>2
      <4> QED
        BY <1>2, <4>1
    <3> QED
      BY <2>1, <3>1, <3>2
  <2> QED
    BY <1>1, <2>1, <2>2 DEF AttachOf
<1>4. CASE IsAttach(q[1], c) /\ handle[c] # "none"
  <2>1. ASSUME NEW i \in 1..Len(r), IsAttach(r[i], c) PROVE FALSE
    <3>1. i + 1 \in 1..Len(q) /\ IsAttach(q[i + 1], c)
      BY <1>1, <2>1
    <3>2. i + 1 = 1
      BY <1>2, <1>4, <3>1 DEF AttachOf
    <3> QED
      BY <1>2, <3>2
  <2> QED
    BY <1>4, <2>1 DEF AttachOf
<1>5. CASE ~Fresh(c)
  BY <1>1, <1>5 DEF AttachOf
<1> QED
  BY <1>3, <1>4, <1>5

(* What the clients and the owner of the service do. *)
LEMMA ClientAttachInv ==
  ASSUME BaseInv, FlowInv, AttachInv, NEW c \in Clients
  PROVE  /\ Attach(c) => AttachInv'
         /\ \A p \in Paths : (SubmitLoad(c, p) \/ RefusedLoad(c, p)) => AttachInv'
         /\ \A w \in {"shown", "left"}, r \in 1..MaxRevision : SubmitSave(c, w, r) => AttachInv'
         /\ (Receive(c) \/ StopListening(c) \/ MarkDetached(c) \/ Nudge(c)) => AttachInv'
<1>0. /\ TypeOK
      /\ \A k \in Clients : AttachOf(k)
      /\ handle \in [Clients -> {"none", "open", "dropping", "gone"}]
  BY DEF BaseInv, AttachInv, TypeOK
<1>1. ASSUME Attach(c) PROVE AttachInv'
  <2> DEFINE m == [kind |-> "attach", client |-> c]
  <2>1. /\ handle[c] = "none" /\ handle' = [handle EXCEPT ![c] = "open"]
        /\ mailbox' = Append(mailbox, m)
        /\ UNCHANGED <<view, inbox, lane, sink, done, read>>
    BY <1>1 DEF Attach, Posts, actor, history
  <2>2. m \in Commands
    BY DEF Commands
  <2>3. ASSUME NEW k \in Clients PROVE AttachOf(k)'
    <3>1. SameFor(k) /\ SameView(k)
      BY <2>1 DEF SameFor, SameView
    <3>2. /\ handle'[k] = "none" => handle[k] = "none" /\ ~IsOf(m, k)
          /\ IsAttach(m, k) => handle[k] = "none"
          /\ ~IsSave(m, k)
      BY <1>0, <2>1 DEF IsOf, IsAttach, IsSave
    <3> HIDE DEF m
    <3> QED
      BY <1>0, <2>1, <2>2, <3>1, <3>2, FreshAppend
  <2> QED
    BY <2>3 DEF AttachInv
<1>2. ASSUME NEW p \in Paths, SubmitLoad(c, p) PROVE AttachInv'
  <2> DEFINE m == [kind |-> "load", client |-> c, gen |-> view[c].shown.gen + 1, path |-> p]
  <2>1. /\ handle[c] = "open" /\ handle' = handle /\ mailbox' = Append(mailbox, m)
        /\ UNCHANGED <<inbox, lane, sink, done, read>> /\ Shows(c, p)
    BY <1>2 DEF SubmitLoad, Shows, Posts, actor, history
  <2>2. m \in Commands
    BY <1>0, ViewParts DEF Commands, Loads
  <2>3. ASSUME NEW k \in Clients PROVE AttachOf(k)'
    <3>1. SameFor(k)
      BY <2>1 DEF SameFor
    <3>2. /\ handle'[k] = "none" => handle[k] = "none" /\ ~IsOf(m, k)
          /\ IsAttach(m, k) => handle[k] = "none"
          /\ ~IsSave(m, k)
      BY <1>0, <2>1 DEF IsOf, IsAttach, IsSave
    <3>3. SameView(k)
      BY <1>0, <2>1, ShowsView DEF SameView
    <3> HIDE DEF m
    <3> QED
      BY <1>0, <2>1, <2>2, <3>1, <3>2, <3>3, FreshAppend
  <2> QED
    BY <2>3 DEF AttachInv
<1>3. ASSUME NEW p \in Paths, RefusedLoad(c, p) PROVE AttachInv'
  <2>1. /\ handle' = handle /\ mailbox' = mailbox
        /\ UNCHANGED <<inbox, lane, sink, done, read>> /\ Shows(c, p)
    BY <1>3 DEF RefusedLoad, actor, history
  <2>2. ASSUME NEW k \in Clients PROVE AttachOf(k)'
    <3>1. SameFor(k) /\ SameView(k)
      BY <1>0, <2>1, ShowsView DEF SameFor, SameView
    <3> QED
      BY <1>0, <2>1, <3>1, FreshKept
  <2> QED
    BY <2>2 DEF AttachInv
<1>4. ASSUME NEW w \in {"shown", "left"}, NEW r \in 1..MaxRevision, SubmitSave(c, w, r)
      PROVE  AttachInv'
  <2>1. PICK d, s, m :
           /\ d = IF w = "shown" THEN view[c].shown ELSE view[c].left
           /\ d.loaded /\ d.revision <= r /\ d.gen \in Nat /\ d.path \in Paths
           /\ s \in Documents /\ s.gen = d.gen /\ s.path = d.path /\ s.revision = r /\ s.loaded
           /\ m \in Saves /\ m.kind = "save" /\ m.client = c /\ m.gen = d.gen /\ m.path = d.path
           /\ m.revision = r
           /\ mailbox' = Append(mailbox, m)
           /\ view' \in [Clients -> [shown : Documents, left : Documents, saves : Nat]]
           /\ \A k \in Clients \ {c} : view'[k] = view[k]
           /\ view'[c].shown = IF w = "shown" THEN s ELSE view[c].shown
           /\ view'[c].left = IF w = "shown" THEN view[c].left ELSE s
    BY <1>0, <1>4, SubmitSaveView
  <2>2. /\ handle[c] = "open" /\ handle' = handle
        /\ UNCHANGED <<inbox, lane, sink, done, read>>
    BY <1>4 DEF SubmitSave, actor, history
  <2>3. m \in Commands
    BY <2>1 DEF Commands
  <2>4. ~Fresh(c)
    BY <2>1 DEF Fresh
  <2>5. ASSUME NEW k \in Clients PROVE AttachOf(k)'
    <3>1. SameFor(k)
      BY <2>2 DEF SameFor
    <3>2. /\ handle'[k] = "none" => handle[k] = "none" /\ ~IsOf(m, k)
          /\ IsAttach(m, k) => handle[k] = "none"
          /\ Fresh(k) => ~IsSave(m, k)
      BY <1>0, <2>1, <2>2, <2>4 DEF IsOf, IsAttach, IsSave
    <3>3. Fresh(k) => SameView(k)
      BY <2>1, <2>4 DEF SameView
    <3> QED
      BY <1>0, <2>1, <2>3, <3>1, <3>2, <3>3, FreshAppend
  <2> QED
    BY <2>5 DEF AttachInv
<1>5. ASSUME Receive(c) PROVE AttachInv'
  <2>1. /\ handle' = handle /\ mailbox' = mailbox /\ UNCHANGED <<lane, sink, done>>
        /\ inbox[c] # <<>> /\ read' = [read EXCEPT ![c] = read[c] + 1]
    BY <1>5 DEF Receive, actor
  <2>2. \A k \in Clients \ {c} : inbox'[k] = inbox[k] /\ view'[k] = view[k]
    BY <1>0, <1>5, ReceiveView
  <2>3. ASSUME NEW k \in Clients PROVE AttachOf(k)'
    <3>1. Fresh(k) => k # c
      BY <2>1 DEF Fresh
    <3>2. Fresh(k) => SameFor(k) /\ SameView(k)
      <4>1. k # c => read'[k] = read[k]
        BY <1>0, <2>1 DEF TypeOK
      <4> QED
        BY <2>1, <2>2, <3>1, <4>1 DEF SameFor, SameView
    <3> QED
      BY <1>0, <2>1, <3>2, FreshKept
  <2> QED
    BY <2>3 DEF AttachInv
<1>6. ASSUME StopListening(c) PROVE AttachInv'
  <2>1. /\ handle' = handle /\ mailbox' = mailbox
        /\ UNCHANGED <<lane, sink, done, read, view>> /\ inbox' = [inbox EXCEPT ![c] = <<>>]
    BY <1>6 DEF StopListening, actor, history
  <2>2. ASSUME NEW k \in Clients PROVE AttachOf(k)'
    <3>1. Fresh(k) => inbox'[k] = inbox[k]
      BY <1>0, <2>1 DEF Fresh, TypeOK
    <3>2. Fresh(k) => SameFor(k) /\ SameView(k)
      BY <2>1, <3>1 DEF SameFor, SameView
    <3> QED
      BY <1>0, <2>1, <3>2, FreshKept
  <2> QED
    BY <2>2 DEF AttachInv
<1>7. ASSUME MarkDetached(c) PROVE AttachInv'
  <2>1. /\ handle' = [handle EXCEPT ![c] = "dropping"] /\ mailbox' = mailbox
        /\ UNCHANGED <<lane, sink, done, read, view, inbox>>
    BY <1>7 DEF MarkDetached, actor, history
  <2>2. ASSUME NEW k \in Clients PROVE AttachOf(k)'
    <3>1. SameFor(k) /\ SameView(k)
      BY <2>1 DEF SameFor, SameView
    <3>2. handle'[k] = "none" => handle[k] = "none"
      BY <1>0, <2>1
    <3> QED
      BY <1>0, <2>1, <3>1, <3>2, FreshKept
  <2> QED
    BY <2>2 DEF AttachInv
<1>8. ASSUME Nudge(c) PROVE AttachInv'
  <2> DEFINE m == [kind |-> "wake"]
  <2>1. /\ handle' = [handle EXCEPT ![c] = "gone"]
        /\ mailbox' = mailbox \/ mailbox' = Append(mailbox, m)
        /\ UNCHANGED <<lane, sink, done, read, view, inbox>>
    BY <1>8 DEF Nudge, actor, history
  <2>2. m \in Commands
    BY DEF Commands
  <2>3. ASSUME NEW k \in Clients PROVE AttachOf(k)'
    <3>1. SameFor(k) /\ SameView(k)
      BY <2>1 DEF SameFor, SameView
    <3>2. handle'[k] = "none" => handle[k] = "none"
      BY <1>0, <2>1
    <3>3. ~IsOf(m, k) /\ ~IsAttach(m, k) /\ ~IsSave(m, k)
      BY DEF IsOf, IsAttach, IsSave
    <3> HIDE DEF m
    <3>4. CASE mailbox' = mailbox
      BY <1>0, <3>1, <3>2, <3>4, FreshKept
    <3>5. CASE mailbox' = Append(mailbox, m)
      BY <1>0, <2>2, <3>1, <3>2, <3>3, <3>5, FreshAppend
    <3> QED
      BY <2>1, <3>4, <3>5
  <2> QED
    BY <2>3 DEF AttachInv
<1> QED
  BY <1>1, <1>2, <1>3, <1>4, <1>5, <1>6, <1>7, <1>8

(* A client that is not attached has nothing to flush. *)
LEMMA FlushIdle ==
  ASSUME TypeOK, NEW c \in Clients, sink[c] = NoSink
  PROVE  FlushedSink(c) = NoSink /\ FlushedInbox(c) = inbox[c]
<1>1. /\ sink[c].pending = <<>> /\ sink[c].open = FALSE
      /\ inbox[c] \in Seq(Events)
  BY NoSinkIs, SinkParts
<1>2. Len(inbox[c]) \in Nat /\ Len(inbox[c]) <= EVENT_CAPACITY /\ EVENT_CAPACITY \in Nat
  BY <1>1, ServiceAssumption DEF TypeOK
<1>3. Moved(c) = 0
  <2> DEFINE n == Len(inbox[c])
  <2>1. Moved(c) = IF 0 < EVENT_CAPACITY - n THEN 0 ELSE EVENT_CAPACITY - n
    <3>1. Len(sink[c].pending) = 0
      BY <1>1
    <3> QED
      BY <3>1 DEF Moved
  <2>2. n \in Nat /\ n <= EVENT_CAPACITY /\ EVENT_CAPACITY \in Nat
    BY <1>2
  <2> HIDE DEF n
  <2> QED
    BY <2>1, <2>2
<1>4. SubSeq(<<>>, 0 + 1, 0) = <<>> /\ SubSeq(<<>>, 1, 0) = <<>>
  OBVIOUS
<1>5. Len(<<>>) = 0
  OBVIOUS
<1>6. FlushedSink(c) = NoSink
  BY <1>1, <1>3, <1>4, <1>5 DEF FlushedSink, NoSink
<1>7. inbox[c] \o <<>> = inbox[c]
  BY <1>1, CatEmpty
<1>8. FlushedInbox(c) = inbox[c]
  BY <1>1, <1>3, <1>4, <1>7 DEF FlushedInbox
<1> QED
  BY <1>6, <1>8

(* What everybody but the clients does. *)
LEMMA OthersAttachInv ==
  ASSUME BaseInv, AttachInv
  PROVE  /\ (Inspect \/ Shutdown) => AttachInv'
         /\ (Joins \/ Drained \/ TimesOut \/ Rests) => AttachInv'
         /\ \A p \in Paths : ForeignSave(p) => AttachInv'
<1>0. TypeOK /\ \A k \in Clients : AttachOf(k)
  BY DEF BaseInv, AttachInv
<1>1. ASSUME NEW m \in Commands, m.kind \in {"inspect", "shutdown"},
             mailbox' = Append(mailbox, m),
             UNCHANGED <<handle, view, lane, sink, inbox, done, read>>
      PROVE  AttachInv'
  <2>1. ASSUME NEW k \in Clients PROVE AttachOf(k)'
    <3>1. SameFor(k) /\ SameView(k)
      BY <1>1 DEF SameFor, SameView
    <3>2. ~IsOf(m, k) /\ ~IsAttach(m, k) /\ ~IsSave(m, k)
      BY <1>1 DEF IsOf, IsAttach, IsSave
    <3> QED
      BY <1>0, <1>1, <3>1, <3>2, FreshAppend
  <2> QED
    BY <2>1 DEF AttachInv
<1>2. ASSUME UNCHANGED <<mailbox, handle, view, lane, sink, inbox, done, read>>
      PROVE  AttachInv'
  <2>1. ASSUME NEW k \in Clients PROVE AttachOf(k)'
    <3>1. SameFor(k) /\ SameView(k)
      BY <1>2 DEF SameFor, SameView
    <3> QED
      BY <1>0, <1>2, <3>1, FreshKept
  <2> QED
    BY <2>1 DEF AttachInv
<1>3. ASSUME Inspect \/ Shutdown PROVE AttachInv'
  <2>1. PICK k \in {"inspect", "shutdown"} : mailbox' = Append(mailbox, [kind |-> k])
    BY <1>3 DEF Inspect, Shutdown, Posts
  <2>2. [kind |-> k] \in Commands /\ [kind |-> k].kind \in {"inspect", "shutdown"}
    BY DEF Commands
  <2>3. UNCHANGED <<handle, view, lane, sink, inbox, done, read>>
    BY <1>3 DEF Inspect, Shutdown, outside, actor, history
  <2> QED
    BY <1>1, <2>1, <2>2, <2>3
<1>4. ASSUME Joins \/ Drained \/ TimesOut \/ Rests PROVE AttachInv'
  BY <1>2, <1>4 DEF Joins, Drained, TimesOut, Rests, outside, actor, history
<1>5. ASSUME NEW p \in Paths, ForeignSave(p) PROVE AttachInv'
  BY <1>2, <1>5 DEF ForeignSave, outside, actor, history
<1> QED
  BY <1>3, <1>4, <1>5

LEMMA ReceivesAttachInv ==
  ASSUME BaseInv, AttachInv, Receives PROVE AttachInv'
<1> DEFINE m == Head(mailbox)
<1>0. TypeOK /\ \A k \in Clients : AttachOf(k)
  BY DEF BaseInv, AttachInv
<1>1. /\ mailbox # <<>> /\ mailbox' = Tail(mailbox) /\ Ingest(m)
      /\ UNCHANGED <<handle, view, inbox>>
  BY DEF Receives, outside
<1>2. m \in Commands /\ m = mailbox[1] /\ 1 \in 1..Len(mailbox)
  BY <1>0, <1>1, HeadIs
<1>3. /\ lane \in [Clients -> Lanes]
      /\ sink \in [Clients -> [open : BOOLEAN, pending : Seq(Events)]]
  BY <1>0 DEF TypeOK
<1> HIDE DEF m
<1>4. ASSUME NEW k \in Clients, Fresh(k)
      PROVE  \/ SameFor(k) /\ SameView(k)
             \/ IsAttach(m, k) /\ handle[k] # "none"
  <2>1. SameView(k) /\ inbox'[k] = inbox[k]
    BY <1>1 DEF SameView
  <2>2. lane[k] = NoLane /\ lane[k].status = "absent" /\ sink[k] = NoSink
    BY <1>4, NoLaneIs DEF Fresh
  <2>3. CASE IngestAttach(m)
    <3>1. m.kind = "attach"
      BY <2>3 DEF IngestAttach
    <3>2. CASE m.client = k
      BY <1>0, <1>2, <3>1, <3>2 DEF AttachOf, IsAttach, IsOf
    <3>3. CASE m.client # k
      <4>1. lane'[k] = lane[k] /\ sink'[k] = sink[k] /\ done' = done /\ read' = read
        BY <1>3, <2>3, <3>3 DEF IngestAttach, history
      <4> QED
        BY <2>1, <4>1 DEF SameFor
    <3> QED
      BY <3>2, <3>3
  <2>4. CASE IngestLoad(m) \/ IngestSave(m)
    <3>1. m.client # k
      BY <2>2, <2>4 DEF IngestLoad, IngestSave
    <3>2. lane'[k] = lane[k]
      <4>1. PICK l : lane' = [lane EXCEPT ![m.client] = l]
        BY <2>4 DEF IngestLoad, IngestSave
      <4> QED
        BY <1>3, <3>1, <4>1
    <3>3. UNCHANGED <<sink, done, read>>
      BY <2>4 DEF IngestLoad, IngestSave, history
    <3> QED
      BY <2>1, <3>2, <3>3 DEF SameFor
  <2>5. CASE IngestLate(m) \/ IngestInspect(m) \/ IngestWake(m)
    <3>1. UNCHANGED <<lane, sink, done, read>>
      BY <2>5 DEF IngestLate, IngestInspect, IngestWake, history
    <3> QED
      BY <2>1, <3>1 DEF SameFor
  <2>6. CASE IngestShutdown(m)
    <3>1. /\ sink' = [c \in Clients |-> NoSink]
          /\ lane' = [c \in Clients |-> IF c \in OpenLanes THEN Closed(lane[c]) ELSE lane[c]]
          /\ UNCHANGED <<done, read>>
      BY <2>6 DEF IngestShutdown, Closes, history
    <3>2. k \notin OpenLanes
      BY <2>2 DEF OpenLanes
    <3>3. lane'[k] = lane[k] /\ sink'[k] = sink[k]
      BY <2>2, <3>1, <3>2
    <3> QED
      BY <2>1, <3>1, <3>3 DEF SameFor
  <2> QED
    BY <1>1, <2>3, <2>4, <2>5, <2>6 DEF Ingest
<1>5. ASSUME NEW k \in Clients PROVE AttachOf(k)'
  <2>1. Fresh(k) => \/ SameFor(k) /\ SameView(k)
                    \/ IsAttach(mailbox[1], k) /\ handle[k] # "none"
    BY <1>2, <1>4
  <2>2. handle'[k] = handle[k]
    BY <1>1
  <2> QED
    BY <1>0, <1>1, <2>1, <2>2, FreshTail
<1> QED
  BY <1>5 DEF AttachInv

(* The lane that is taken in turn or worked on is none of a fresh client. *)
LEMMA ActorAttachInv ==
  ASSUME BaseInv, AttachInv
  PROVE  /\ Reaps => AttachInv'
         /\ \A c \in Clients : (Selects(c) \/ Works(c) \/ ProcessDetach(c)) => AttachInv'
<1>0. /\ TypeOK /\ TurnInv /\ \A k \in Clients : AttachOf(k)
      /\ inbox \in [Clients -> Seq(Events)]
      /\ lane \in [Clients -> Lanes]
      /\ sink \in [Clients -> [open : BOOLEAN, pending : Seq(Events)]]
      /\ done \in [Clients -> Nat]
  BY DEF BaseInv, AttachInv, TypeOK
<1>1. ASSUME UNCHANGED <<mailbox, handle, view>>, \A k \in Clients : Fresh(k) => SameFor(k)
      PROVE  AttachInv'
  <2>1. ASSUME NEW k \in Clients PROVE AttachOf(k)'
    <3>1. Fresh(k) => SameFor(k) /\ SameView(k)
      BY <1>1 DEF SameView
    <3> QED
      BY <1>0, <1>1, <3>1, FreshKept
  <2> QED
    BY <2>1 DEF AttachInv
<1>2. \A k \in Clients : Fresh(k) => lane[k].status = "absent" /\ lane[k].ops = <<>> /\ sink[k] = NoSink
  BY NoLaneIs DEF Fresh
<1>3. ASSUME Reaps PROVE AttachInv'
  <2> DEFINE L == {c \in OpenLanes : Detached(c)}
  <2>1. /\ lane' = [c \in Clients |-> IF c \in L THEN Closed(lane[c]) ELSE lane[c]]
        /\ sink' = [c \in Clients |-> IF c \in L THEN NoSink ELSE FlushedSink(c)]
        /\ inbox' = [c \in Clients |-> IF c \in L THEN inbox[c] ELSE FlushedInbox(c)]
        /\ UNCHANGED <<mailbox, handle, view, done, read>>
    BY <1>3 DEF Reaps, Closes, outside, history
  <2>2. ASSUME NEW k \in Clients, Fresh(k) PROVE SameFor(k)
    <3>1. k \notin L
      BY <1>2, <2>2 DEF OpenLanes
    <3>2. FlushedSink(k) = NoSink /\ FlushedInbox(k) = inbox[k] /\ sink[k] = NoSink
      BY <1>0, <1>2, <2>2, FlushIdle
    <3> HIDE DEF L
    <3> QED
      BY <2>1, <3>1, <3>2 DEF SameFor
  <2> QED
    BY <1>1, <2>1, <2>2
<1>4. ASSUME NEW c \in Clients, Selects(c) PROVE AttachInv'
  <2>1. /\ sink' = [sink EXCEPT ![c] = FlushedSink(c)]
        /\ inbox' = [inbox EXCEPT ![c] = FlushedInbox(c)]
        /\ UNCHANGED <<mailbox, handle, view, lane, done, read>>
    BY <1>4 DEF Selects, outside, history
  <2>2. ~Fresh(c)
    <3>1. PICK i \in EligibleTurns : c = ready[i]
      BY <1>4 DEF Selects
    <3>2. i \in 1..Len(ready) /\ ready \in Seq(Clients)
      BY <1>0 DEF EligibleTurns, TypeOK
    <3>3. c \in ToSet(ready)
      BY <3>1, <3>2, ToSetIs
    <3> QED
      BY <1>0, <1>2, <3>3 DEF TurnInv
  <2>3. \A k \in Clients : Fresh(k) => SameFor(k)
    BY <1>0, <2>1, <2>2 DEF SameFor
  <2> QED
    BY <1>1, <2>1, <2>3
<1>5. ASSUME NEW c \in Clients, Works(c) PROVE AttachInv'
  <2>1. pc = "work" /\ c = last /\ Op.kind \in {"load", "save"}
    BY <1>5, WorksEnds
  <2>2. PICK A, obs, kind, rev : Ends(c, A, obs, kind, rev)
    BY <1>5, WorksEnds
  <2>3. /\ \A k \in Clients \ {c} : lane'[k] = lane[k]
        /\ LET e == [kind |-> kind, gen |-> Op.gen, revision |-> rev, n |-> done[c] + 1]
           IN  e \in Events /\ Emit(c, e)
    BY <2>1, <2>2, FinishesLemma
  <2>4. \A k \in Clients \ {c} : inbox'[k] = inbox[k] /\ sink'[k] = sink[k]
    BY <1>0, <2>3, EmitLemma
  <2>5. /\ UNCHANGED <<mailbox, handle, view, read>>
        /\ done' = [done EXCEPT ![c] = done[c] + 1]
    BY <2>2 DEF Ends, Finishes, outside
  <2>6. ~Fresh(c)
    BY <1>2, <2>1, OpIs
  <2>7. \A k \in Clients : Fresh(k) => SameFor(k)
    BY <1>0, <2>3, <2>4, <2>5, <2>6 DEF SameFor
  <2> QED
    BY <1>1, <2>5, <2>7
<1>6. ASSUME NEW c \in Clients, ProcessDetach(c) PROVE AttachInv'
  <2>1. /\ pc = "work" /\ c = last
        /\ lane' = [lane EXCEPT ![c] = NoLane] /\ sink' = [sink EXCEPT ![c] = NoSink]
        /\ UNCHANGED <<mailbox, handle, view, inbox, done, read>>
    BY <1>6 DEF ProcessDetach, outside, history
  <2>2. ~Fresh(c)
    BY <1>2, <2>1, OpIs
  <2>3. \A k \in Clients : Fresh(k) => SameFor(k)
    BY <1>0, <2>1, <2>2 DEF SameFor
  <2> QED
    BY <1>1, <2>1, <2>3
<1> QED
  BY <1>3, <1>4, <1>5, <1>6

LEMMA StopAppend ==
  ASSUME TypeOK, StopInv, service = "open", NEW m \in Commands, mailbox' = Append(mailbox, m),
         m.kind = "shutdown" => service' # "open",
         UNCHANGED <<lane, stopping, pc, ready>>
  PROVE  StopInv'
<1> DEFINE q == mailbox
           r == mailbox'
<1>1. /\ Len(q) \in Nat /\ Len(r) = Len(q) + 1
      /\ \A i \in 1..Len(q) : r[i] = q[i]
      /\ r[Len(q) + 1] = m
  BY AppendAt DEF TypeOK
<1>2. ASSUME NEW i \in 1..Len(r), r[i].kind = "shutdown" PROVE i = Len(r) /\ service' # "open"
  <2>1. CASE i = Len(q) + 1
    BY <1>1, <1>2, <2>1
  <2>2. CASE i # Len(q) + 1
    BY <1>1, <1>2, <2>2 DEF StopInv
  <2> QED
    BY <2>1, <2>2
<1>3. ~stopping' /\ pc' # "stopped"
  BY DEF StopInv
<1> QED
  BY <1>2, <1>3 DEF StopInv

LEMMA StopKept ==
  ASSUME StopInv, mailbox' = mailbox, service' = "open" => service = "open",
         stopping' = stopping,
         \A c \in Clients : lane'[c].status = "open" => lane[c].status = "open",
         pc' = "stopped" => stopping /\ ready' = <<>>
  PROVE  StopInv'
BY DEF StopInv

LEMMA OutsideStopInv ==
  ASSUME BaseInv, FlowInv, StopInv, NEW c \in Clients
  PROVE  /\ Attach(c) => StopInv'
         /\ \A p \in Paths : (SubmitLoad(c, p) \/ RefusedLoad(c, p)) => StopInv'
         /\ \A w \in {"shown", "left"}, r \in 1..MaxRevision : SubmitSave(c, w, r) => StopInv'
         /\ (Receive(c) \/ StopListening(c) \/ MarkDetached(c) \/ Nudge(c)) => StopInv'
<1>0. TypeOK /\ (pc = "stopped" => stopping /\ ready = <<>>)
  BY DEF BaseInv, StopInv
<1>1. ASSUME Attach(c) PROVE StopInv'
  <2> DEFINE m == [kind |-> "attach", client |-> c]
  <2>1. m \in Commands /\ m.kind # "shutdown"
    BY DEF Commands
  <2>2. /\ service = "open" /\ mailbox' = Append(mailbox, m)
        /\ UNCHANGED <<lane, stopping, pc, ready>>
    BY <1>1 DEF Attach, Posts, actor
  <2> HIDE DEF m
  <2> QED
    BY <1>0, <2>1, <2>2, StopAppend
<1>2. ASSUME NEW p \in Paths, SubmitLoad(c, p) PROVE StopInv'
  <2> DEFINE m == [kind |-> "load", client |-> c, gen |-> view[c].shown.gen + 1, path |-> p]
  <2>1. m \in Commands /\ m.kind # "shutdown"
    BY <1>0, ViewParts DEF Commands, Loads
  <2>2. /\ service = "open" /\ mailbox' = Append(mailbox, m)
        /\ UNCHANGED <<lane, stopping, pc, ready>>
    BY <1>2 DEF SubmitLoad, Shows, Posts, actor
  <2> HIDE DEF m
  <2> QED
    BY <1>0, <2>1, <2>2, StopAppend
<1>3. ASSUME NEW p \in Paths, RefusedLoad(c, p) PROVE StopInv'
  <2>1. UNCHANGED <<mailbox, service, lane, stopping, pc, ready>>
    BY <1>3 DEF RefusedLoad, actor
  <2> QED
    BY <1>0, <2>1, StopKept
<1>4. ASSUME NEW w \in {"shown", "left"}, NEW r \in 1..MaxRevision, SubmitSave(c, w, r)
      PROVE  StopInv'
  <2>1. PICK m \in Saves : m.kind = "save" /\ mailbox' = Append(mailbox, m)
    BY <1>0, <1>4, SubmitSaveView
  <2>2. m \in Commands /\ m.kind # "shutdown"
    BY <2>1 DEF Commands
  <2>3. service = "open" /\ UNCHANGED <<lane, stopping, pc, ready>>
    BY <1>4 DEF SubmitSave, actor
  <2> QED
    BY <1>0, <2>1, <2>2, <2>3, StopAppend
<1>5. ASSUME Receive(c) \/ StopListening(c) \/ MarkDetached(c) PROVE StopInv'
  <2>1. UNCHANGED <<mailbox, service, lane, stopping, pc, ready>>
    BY <1>5 DEF Receive, StopListening, MarkDetached, actor
  <2> QED
    BY <1>0, <2>1, StopKept
<1>6. ASSUME Nudge(c) PROVE StopInv'
  <2> DEFINE m == [kind |-> "wake"]
  <2>1. m \in Commands /\ m.kind # "shutdown"
    BY DEF Commands
  <2>2. /\ \/ service = "open" /\ mailbox' = Append(mailbox, m)
           \/ mailbox' = mailbox
        /\ UNCHANGED <<service, lane, stopping, pc, ready>>
    BY <1>6 DEF Nudge, actor
  <2> HIDE DEF m
  <2>3. CASE service = "open" /\ mailbox' = Append(mailbox, m)
    BY <1>0, <2>1, <2>2, <2>3, StopAppend
  <2>4. CASE mailbox' = mailbox
    BY <1>0, <2>2, <2>4, StopKept
  <2> QED
    BY <2>2, <2>3, <2>4
<1> QED
  BY <1>1, <1>2, <1>3, <1>4, <1>5, <1>6

LEMMA OthersStopInv ==
  ASSUME BaseInv, StopInv
  PROVE  /\ (Inspect \/ Shutdown \/ Joins) => StopInv'
         /\ \A p \in Paths : ForeignSave(p) => StopInv'
         /\ (Drained \/ TimesOut \/ Reaps \/ Rests) => StopInv'
         /\ \A c \in Clients : (Selects(c) \/ Works(c) \/ ProcessDetach(c)) => StopInv'
<1>0. TypeOK /\ TurnInv /\ LaneInv /\ (pc = "stopped" => stopping /\ ready = <<>>)
  BY DEF BaseInv, StopInv
<1>1. ASSUME Inspect PROVE StopInv'
  <2> DEFINE m == [kind |-> "inspect"]
  <2>1. m \in Commands /\ m.kind # "shutdown"
    BY DEF Commands
  <2>2. /\ service = "open" /\ mailbox' = Append(mailbox, m)
        /\ UNCHANGED <<lane, stopping, pc, ready>>
    BY <1>1 DEF Inspect, Posts, actor
  <2> HIDE DEF m
  <2> QED
    BY <1>0, <2>1, <2>2, StopAppend
<1>2. ASSUME Shutdown PROVE StopInv'
  <2> DEFINE m == [kind |-> "shutdown"]
  <2>1. m \in Commands
    BY DEF Commands
  <2>2. /\ service = "open" /\ service' # "open" /\ mailbox' = Append(mailbox, m)
        /\ UNCHANGED <<lane, stopping, pc, ready>>
    BY <1>2 DEF Shutdown, Posts, actor
  <2> HIDE DEF m
  <2> QED
    BY <1>0, <2>1, <2>2, StopAppend
<1>3. ASSUME Joins PROVE StopInv'
  <2>1. service' = "down" /\ UNCHANGED <<mailbox, lane, stopping, pc, ready>>
    BY <1>3 DEF Joins, actor
  <2> QED
    BY <1>0, <2>1, StopKept
<1>4. ASSUME NEW p \in Paths, ForeignSave(p) PROVE StopInv'
  <2>1. UNCHANGED <<mailbox, service, lane, stopping, pc, ready>>
    BY <1>4 DEF ForeignSave, actor, outside
  <2> QED
    BY <1>0, <2>1, StopKept
<1>5. ASSUME Drained \/ TimesOut PROVE StopInv'
  <2>1. pc' # "stopped" /\ UNCHANGED <<mailbox, service, lane, stopping>>
    BY <1>5 DEF Drained, TimesOut, outside
  <2> QED
    BY <1>0, <2>1, StopKept
<1>6. ASSUME Reaps PROVE StopInv'
  <2> DEFINE L == {c \in OpenLanes : Detached(c)}
  <2>1. pc' # "stopped" /\ UNCHANGED <<mailbox, service, stopping>> /\ Closes(L)
    BY <1>6 DEF Reaps, outside
  <2>2. L \in SUBSET OpenLanes
    OBVIOUS
  <2>3. \A c \in Clients : lane'[c].status = "open" => lane[c].status = "open"
    <3>1. \A c \in Clients \ L : lane'[c] = lane[c]
      BY <1>0, <2>1, <2>2, ClosesLemma
    <3>2. \A c \in L : lane[c].status = "open"
      BY DEF OpenLanes
    <3> QED
      BY <3>1, <3>2
  <2> QED
    BY <1>0, <2>1, <2>3, StopKept
<1>7. ASSUME Rests PROVE StopInv'
  <2>1. /\ pc' = "stopped" => stopping
        /\ EligibleTurns = {}
        /\ UNCHANGED <<mailbox, service, lane, stopping, ready>>
    BY <1>7 DEF Rests, outside
  <2>2. pc = "serve"
    BY <1>7 DEF Rests
  <2>3. ASSUME stopping, ready # <<>> PROVE FALSE
    <3>1. ready \in Seq(Clients)
      BY <1>0 DEF TypeOK
    <3>2. 1 \in 1..Len(ready) /\ ready[1] \in Clients
      <4>1. Len(ready) \in Nat \ {0} /\ Head(ready) \in Clients /\ Head(ready) = ready[1]
        BY <2>3, <3>1, TailAt
      <4> QED
        BY <4>1
    <3>3. ready[1] \in ToSet(ready)
      BY <3>1, <3>2, ToSetIs
    <3>4. lane[ready[1]].ops # <<>>
      BY <1>0, <3>2, <3>3 DEF TurnInv
    <3>5. lane[ready[1]].status \in {"open", "closing"}
      <4>1. lane[ready[1]].status \in {"absent", "open", "closing"}
        BY <1>0, <3>2, LaneParts
      <4>2. lane[ready[1]].status # "absent"
        BY <1>0, <3>2, <3>4, NoLaneIs DEF LaneInv, LaneInvOf
      <4> QED
        BY <4>1, <4>2
    <3>6. lane[ready[1]].status = "closing"
      BY <2>3, <3>2, <3>5 DEF StopInv
    <3>7. Eligible(ready[1])
      BY <3>6 DEF Eligible
    <3> QED
      BY <2>1, <3>2, <3>7 DEF EligibleTurns
  <2> QED
    BY <1>0, <2>1, <2>3, StopKept
<1>8. ASSUME NEW c \in Clients, Selects(c) PROVE StopInv'
  <2>1. pc' # "stopped" /\ UNCHANGED <<mailbox, service, lane, stopping>>
    BY <1>8 DEF Selects, outside
  <2> QED
    BY <1>0, <2>1, StopKept
<1>9. ASSUME NEW c \in Clients, Works(c) PROVE StopInv'
  <2>1. pc = "work" /\ c = last /\ Op.kind \in {"load", "save"}
    BY <1>9, WorksEnds
  <2>2. PICK A, obs, kind, rev : Ends(c, A, obs, kind, rev)
    BY <1>9, WorksEnds
  <2>3. /\ lane'[c].status = lane[c].status
        /\ \A k \in Clients \ {c} : lane'[k] = lane[k]
    BY <2>1, <2>2, FinishesLemma
  <2>4. pc' # "stopped" /\ UNCHANGED <<mailbox, service, stopping>>
    BY <2>2 DEF Ends, Finishes, outside
  <2>5. \A k \in Clients : lane'[k].status = "open" => lane[k].status = "open"
    BY <2>3
  <2> QED
    BY <1>0, <2>4, <2>5, StopKept
<1>10. ASSUME NEW c \in Clients, ProcessDetach(c) PROVE StopInv'
  <2>1. /\ pc' # "stopped" /\ UNCHANGED <<mailbox, service, stopping>>
        /\ lane' = [lane EXCEPT ![c] = NoLane]
    BY <1>10 DEF ProcessDetach, outside
  <2>2. \A k \in Clients : lane'[k] = IF k = c THEN NoLane ELSE lane[k]
    BY <1>0, <2>1 DEF TypeOK
  <2>3. \A k \in Clients : lane'[k].status = "open" => lane[k].status = "open"
    BY <2>2, NoLaneIs
  <2> QED
    BY <1>0, <2>1, <2>3, StopKept
<1> QED
  BY <1>1, <1>2, <1>3, <1>4, <1>5, <1>6, <1>7, <1>8, <1>9, <1>10

LEMMA ReceivesStopInv ==
  ASSUME BaseInv, StopInv, Receives PROVE StopInv'
<1> DEFINE m == Head(mailbox)
           q == mailbox
           r == mailbox'
<1>0. TypeOK /\ LaneInv
  BY DEF BaseInv
<1>1. /\ q # <<>> /\ r = Tail(q) /\ Ingest(m) /\ pc' # "stopped" /\ service' = service
  BY DEF Receives, outside
<1>2. /\ Len(q) \in Nat \ {0} /\ Len(r) = Len(q) - 1 /\ m = q[1]
      /\ r \in Seq(Commands)
      /\ \A i \in 1..Len(r) : i + 1 \in 1..Len(q) /\ r[i] = q[i + 1]
  BY <1>0, <1>1, TailAt DEF TypeOK
<1>3. ~stopping
  BY <1>1 DEF StopInv
<1>4. ASSUME NEW i \in 1..Len(r), r[i].kind = "shutdown" PROVE i = Len(r) /\ service' # "open"
  <2>1. i + 1 = Len(q) /\ service # "open"
    BY <1>2, <1>4 DEF StopInv
  <2> DEFINE n == Len(q)
             k == Len(r)
  <2>2. n \in Nat /\ k = n - 1 /\ i + 1 = n /\ i \in 1..k
    BY <1>2, <2>1
  <2> HIDE DEF n, k
  <2>3. i = k
    BY <2>2
  <2> QED
    BY <1>1, <2>1, <2>3 DEF k
<1> HIDE DEF m
<1>5. CASE IngestShutdown(m)
  <2>1. m.kind = "shutdown" /\ Closes(OpenLanes)
    BY <1>5 DEF IngestShutdown
  <2>2. Len(q) = 1 /\ service # "open"
    <3>1. 1 \in 1..Len(q)
      BY <1>2
    <3> QED
      BY <1>2, <2>1, <3>1 DEF StopInv
  <2>3. r = <<>>
    <3>1. Len(r) = 0
      BY <1>2, <2>2
    <3> QED
      BY <1>2, <3>1, EmptySeq
  <2>4. \A c \in Clients : lane'[c].status # "open"
    <3>1. OpenLanes \in SUBSET OpenLanes
      OBVIOUS
    <3>2. /\ \A c \in Clients \ OpenLanes : lane'[c] = lane[c]
          /\ \A c \in OpenLanes : lane'[c] = Closed(lane[c])
      BY <1>0, <2>1, <3>1, ClosesLemma
    <3>3. \A c \in OpenLanes : Closed(lane[c]).status = "closing"
      BY DEF Closed, Lane
    <3> QED
      BY <3>2, <3>3 DEF OpenLanes
  <2> QED
    BY <1>1, <1>4, <2>2, <2>3, <2>4 DEF StopInv
<1>6. CASE ~IngestShutdown(m)
  <2>1. stopping' = stopping
    BY <1>1, <1>6 DEF Ingest, IngestAttach, IngestLoad, IngestSave, IngestLate, IngestInspect,
                      IngestWake
  <2> QED
    BY <1>1, <1>3, <1>4, <2>1 DEF StopInv
<1> QED
  BY <1>5, <1>6

-----------------------------------------------------------------------------
(* The newest snapshot *)

LEMMA SnapshotOther ==
  ASSUME NEW ops \in Seq(Ops), NEW n, NEW t, NEW d \in Ops, d.kind # "save", SnapshotOf(ops, n, t)
  PROVE  SnapshotOf(Append(ops, d), n, t)
<1> DEFINE q == Append(ops, d)
           k == Len(ops)
<1>1. /\ k \in Nat /\ Len(q) = k + 1
      /\ \A i \in 1..k : q[i] = ops[i]
      /\ q[k + 1] = d
  BY AppendAt
<1>2. /\ \/ \E i \in 1..k : /\ ops[i].kind = "save" /\ ops[i].n = n
                            /\ \A j \in (i + 1)..k : ops[j].kind # "save"
         \/ t = n /\ \A j \in 1..k : ops[j].kind # "save"
  BY DEF SnapshotOf
<1> HIDE DEF q, k
<1>3. \A i \in 1..(k + 1) : i \in 1..k \/ i = k + 1
  BY <1>1
<1>4. CASE \E i \in 1..k : /\ ops[i].kind = "save" /\ ops[i].n = n
                           /\ \A j \in (i + 1)..k : ops[j].kind # "save"
  <2>1. PICK i \in 1..k : /\ ops[i].kind = "save" /\ ops[i].n = n
                          /\ \A j \in (i + 1)..k : ops[j].kind # "save"
    BY <1>4
  <2>2. i \in 1..Len(q) /\ q[i].kind = "save" /\ q[i].n = n
    BY <1>1, <2>1
  <2>3. ASSUME NEW j \in (i + 1)..Len(q) PROVE q[j].kind # "save"
    <3>1. CASE j = k + 1
      BY <1>1, <3>1
    <3>2. CASE j # k + 1
      <4>1. j \in (i + 1)..k /\ j \in 1..k
        BY <1>1, <2>1, <3>2
      <4> QED
        BY <1>1, <2>1, <4>1
    <3> QED
      BY <3>1, <3>2
  <2> QED
    BY <2>2, <2>3 DEF SnapshotOf, q
<1>5. CASE t = n /\ \A j \in 1..k : ops[j].kind # "save"
  <2>1. \A j \in 1..Len(q) : q[j].kind # "save"
    BY <1>1, <1>3, <1>5
  <2> QED
    BY <1>5, <2>1 DEF SnapshotOf, q
<1> QED
  BY <1>2, <1>4, <1>5

LEMMA SnapshotNew ==
  ASSUME NEW keep \in Seq(Ops), NEW e \in Ops, e.kind = "save", NEW t
  PROVE  SnapshotOf(Append(keep, e), e.n, t)
<1> DEFINE q == Append(keep, e)
<1>1. /\ Len(keep) \in Nat /\ Len(q) = Len(keep) + 1 /\ q[Len(keep) + 1] = e
  BY AppendAt
<1> HIDE DEF q
<1>2. Len(q) \in 1..Len(q) /\ q[Len(q)] = e
  BY <1>1
<1>3. \A j \in (Len(q) + 1)..Len(q) : FALSE
  BY <1>1
<1> QED
  BY <1>2, <1>3 DEF SnapshotOf, q

LEMMA SnapshotTail ==
  ASSUME NEW ops \in Seq(Ops), ops # <<>>, NEW n, NEW t, NEW u, SnapshotOf(ops, n, t),
         ops[1].kind = "save" => u = ops[1].n, ops[1].kind # "save" => u = t
  PROVE  SnapshotOf(Tail(ops), n, u)
<1> DEFINE q == Tail(ops)
           k == Len(ops)
<1>1. /\ k \in Nat \ {0} /\ Len(q) = k - 1
      /\ \A i \in 1..Len(q) : i + 1 \in 1..k /\ q[i] = ops[i + 1]
  BY TailAt
<1>2. /\ \/ \E i \in 1..k : /\ ops[i].kind = "save" /\ ops[i].n = n
                            /\ \A j \in (i + 1)..k : ops[j].kind # "save"
         \/ t = n /\ \A j \in 1..k : ops[j].kind # "save"
  BY DEF SnapshotOf
<1> HIDE DEF q, k
<1>3. CASE \E i \in 1..k : /\ ops[i].kind = "save" /\ ops[i].n = n
                           /\ \A j \in (i + 1)..k : ops[j].kind # "save"
  <2>1. PICK i \in 1..k : /\ ops[i].kind = "save" /\ ops[i].n = n
                          /\ \A j \in (i + 1)..k : ops[j].kind # "save"
    BY <1>3
  <2>2. CASE i = 1
    <3>1. u = n
      BY <2>1, <2>2
    <3>2. ASSUME NEW j \in 1..Len(q) PROVE q[j].kind # "save"
      <4>1. j + 1 \in (i + 1)..k /\ q[j] = ops[j + 1]
        BY <1>1, <2>2
      <4> QED
        BY <2>1, <4>1
    <3> QED
      BY <3>1, <3>2 DEF SnapshotOf, q
  <2>3. CASE i # 1
    <3>1. i - 1 \in 1..Len(q) /\ (i - 1) + 1 = i
      BY <1>1, <2>1, <2>3
    <3>2. q[i - 1].kind = "save" /\ q[i - 1].n = n
      BY <1>1, <2>1, <3>1
    <3>3. ASSUME NEW j \in ((i - 1) + 1)..Len(q) PROVE q[j].kind # "save"
      <4>1. j \in 1..Len(q) /\ j + 1 \in (i + 1)..k
        BY <1>1, <2>1, <2>3
      <4> QED
        BY <1>1, <2>1, <4>1
    <3> QED
      BY <3>1, <3>2, <3>3 DEF SnapshotOf, q
  <2> QED
    BY <2>2, <2>3
<1>4. CASE t = n /\ \A j \in 1..k : ops[j].kind # "save"
  <2>1. 1 \in 1..k
    BY <1>1
  <2>2. u = n
    BY <1>4, <2>1
  <2>3. \A j \in 1..Len(q) : q[j].kind # "save"
    BY <1>1, <1>4
  <2> QED
    BY <2>2, <2>3 DEF SnapshotOf, q
<1> QED
  BY <1>2, <1>3, <1>4

LEMMA InitSnapshot == Init => SnapshotInv
<1> SUFFICES ASSUME Init, NEW c \in Clients PROVE SnapshotOf(lane[c].ops, ingested[c], tried[c])
  BY DEF SnapshotInv
<1>1. lane[c].ops = <<>> /\ ingested[c] = tried[c]
  BY NoLaneIs DEF Init
<1>2. \A j \in 1..Len(<<>>) : FALSE
  OBVIOUS
<1> QED
  BY <1>1, <1>2 DEF SnapshotOf

(* Steps that leave the lanes alone. *)
LEMMA LanesKept ==
  ASSUME NEW c \in Clients
  PROVE  /\ (Attach(c) \/ Receive(c) \/ StopListening(c) \/ MarkDetached(c) \/ Nudge(c))
              => UNCHANGED <<lane, ingested, tried>>
         /\ \A p \in Paths : (SubmitLoad(c, p) \/ RefusedLoad(c, p))
              => UNCHANGED <<lane, ingested, tried>>
         /\ \A w \in {"shown", "left"}, r \in 1..MaxRevision :
              SubmitSave(c, w, r) => UNCHANGED <<lane, ingested, tried>>
         /\ Selects(c) => UNCHANGED <<lane, ingested, tried>>
BY DEF Attach, Receive, StopListening, MarkDetached, Nudge, SubmitLoad, RefusedLoad, SubmitSave,
       Selects, actor, history

LEMMA LanesKeptToo ==
  /\ (Inspect \/ Shutdown \/ Joins \/ Drained \/ TimesOut \/ Rests)
       => UNCHANGED <<lane, ingested, tried>>
  /\ \A p \in Paths : ForeignSave(p) => UNCHANGED <<lane, ingested, tried>>
BY DEF Inspect, Shutdown, Joins, Drained, TimesOut, Rests, ForeignSave, actor, history

LEMMA SnapshotFrame ==
  ASSUME SnapshotInv, UNCHANGED <<lane, ingested, tried>> PROVE SnapshotInv'
BY DEF SnapshotInv

LEMMA ClosesSnapshot ==
  ASSUME BaseInv, SnapshotInv, NEW L \in SUBSET OpenLanes, Closes(L), UNCHANGED <<ingested, tried>>
  PROVE  SnapshotInv'
<1>1. TypeOK /\ LaneInv
  BY DEF BaseInv
<1>2. /\ \A c \in Clients \ L : lane'[c] = lane[c]
      /\ \A c \in L : lane'[c] = Closed(lane[c])
  BY <1>1, ClosesLemma
<1>3. ASSUME NEW c \in L PROVE SnapshotOf(lane'[c].ops, ingested[c], tried[c])
  <2>1. c \in Clients /\ lane[c].status = "open"
    BY DEF OpenLanes
  <2>2. lane[c] \in Lanes /\ lane[c].ops \in Seq(Ops) /\ LaneInvOf(lane[c], c)
    BY <1>1, <2>1, LaneParts DEF LaneInv
  <2>3. PICK d \in Ops : d.kind = "detach" /\ Closed(lane[c]).ops = Append(lane[c].ops, d)
    BY <2>1, <2>2, ClosedLemma
  <2>4. SnapshotOf(lane[c].ops, ingested[c], tried[c])
    BY <2>1 DEF SnapshotInv
  <2>5. SnapshotOf(Append(lane[c].ops, d), ingested[c], tried[c])
    <3> DEFINE ops == lane[c].ops
    <3>1. ops \in Seq(Ops) /\ d \in Ops /\ d.kind # "save" /\ SnapshotOf(ops, ingested[c], tried[c])
      BY <2>2, <2>3, <2>4
    <3> HIDE DEF ops
    <3>2. SnapshotOf(Append(ops, d), ingested[c], tried[c])
      BY ONLY <3>1, SnapshotOther
    <3> QED
      BY <3>2 DEF ops
  <2> QED
    BY <1>2, <2>3, <2>5
<1> QED
  BY <1>2, <1>3 DEF SnapshotInv

LEMMA ReceivesSnapshot ==
  ASSUME BaseInv, AttachInv, SnapshotInv, Receives PROVE SnapshotInv'
<1> DEFINE m == Head(mailbox)
<1>0. TypeOK /\ LaneInv /\ lane \in [Clients -> Lanes] /\ ingested \in [Clients -> Nat]
  BY DEF BaseInv, TypeOK
<1>1. mailbox # <<>> /\ Ingest(m)
  BY DEF Receives
<1>2. m \in Commands /\ m = mailbox[1] /\ 1 \in 1..Len(mailbox)
  BY <1>0, <1>1, HeadIs
<1> HIDE DEF m
<1>3. CASE IngestAttach(m)
  <2> DEFINE c == m.client
             l == Lane("open", <<>>, {}, None)
  <2>1. m.kind = "attach" /\ c \in Clients
    BY <1>2, <1>3, CommandKinds DEF IngestAttach
  <2>2. lane[c] = NoLane
    BY <1>2, <2>1 DEF AttachInv, AttachOf, IsAttach, Fresh
  <2>3. lane' = [lane EXCEPT ![c] = l] /\ UNCHANGED <<ingested, tried>>
    BY <1>3 DEF IngestAttach, history
  <2>4. l.ops = <<>> /\ NoLane.ops = <<>>
    BY LaneIs, NoLaneIs
  <2> HIDE DEF l, c
  <2>5. \A k \in Clients : lane'[k].ops = lane[k].ops
    <3>1. \A k \in Clients : lane'[k] = IF k = c THEN l ELSE lane[k]
      BY <1>0, <2>3
    <3> QED
      BY <2>2, <2>4, <3>1
  <2> QED
    BY <2>3, <2>5 DEF SnapshotInv
<1>4. CASE IngestLoad(m)
  <2> DEFINE c == m.client
             ops == lane[c].ops
             l == Lane("open", Append(ops, m), lane[c].active, lane[c].observed)
  <2>1. m.kind = "load" /\ c \in Clients /\ m \in Ops
    <3>1. m \in Loads
      BY <1>2, <1>4, CommandKinds DEF IngestLoad
    <3> QED
      BY <1>4, <3>1 DEF IngestLoad, Ops, Loads
  <2>2. lane' = [lane EXCEPT ![c] = l] /\ UNCHANGED <<ingested, tried>>
    BY <1>4 DEF IngestLoad, history
  <2>3. l.ops = Append(ops, m)
    BY DEF Lane
  <2>4. ops \in Seq(Ops) /\ SnapshotOf(ops, ingested[c], tried[c])
    BY <1>0, <2>1, LaneParts DEF SnapshotInv
  <2> HIDE DEF l, c
  <2>5. \A k \in Clients : lane'[k] = IF k = c THEN l ELSE lane[k]
    BY <1>0, <2>2
  <2>6. SnapshotOf(Append(ops, m), ingested[c], tried[c])
    <3> HIDE DEF ops
    <3>1. m \in Ops /\ m.kind # "save"
      BY <2>1
    <3> QED
      BY ONLY <2>4, <3>1, SnapshotOther
  <2> QED
    BY <2>2, <2>3, <2>5, <2>6 DEF SnapshotInv
<1>5. CASE IngestSave(m)
  <2> DEFINE c == m.client
             ops == lane[c].ops
             l == Lane("open", WithSave(ops, m), lane[c].active, lane[c].observed)
  <2>1. m.kind = "save" /\ c \in Clients /\ m \in Saves
    <3>1. m \in Saves
      BY <1>2, <1>5, CommandKinds DEF IngestSave
    <3> QED
      BY <1>5, <3>1 DEF IngestSave, Saves
  <2>2. /\ lane' = [lane EXCEPT ![c] = l] /\ tried' = tried
        /\ ingested' = [ingested EXCEPT ![c] = m.n]
    BY <1>5 DEF IngestSave
  <2>3. l.ops = WithSave(ops, m)
    BY LaneIs
  <2>4. ops \in Seq(Ops)
    BY <1>0, <2>1, LaneParts
  <2> HIDE DEF l, c
  <2>5. /\ \A k \in Clients : lane'[k] = IF k = c THEN l ELSE lane[k]
        /\ \A k \in Clients : ingested'[k] = IF k = c THEN m.n ELSE ingested[k]
    BY <1>0, <2>2
  <2>6. SnapshotOf(WithSave(ops, m), m.n, tried[c])
    <3> HIDE DEF ops
    <3>1. \E keep, e :
             /\ keep \in Seq(Ops)
             /\ e \in Saves /\ e.kind = "save" /\ e.client = m.client /\ e.gen = m.gen
             /\ e.path = m.path /\ e.revision = m.revision /\ e.n = m.n
             /\ WithSave(ops, m) = Append(keep, e)
             /\ Len(keep) <= Len(ops) /\ \A i \in 1..Len(keep) : keep[i] = ops[i]
             /\ \/ keep = ops
                \/ Len(ops) = Len(keep) + 1 /\ ops[Len(ops)].kind = "save"
      <4>1. m \in Saves
        BY <2>1
      <4> QED
        BY ONLY <2>4, <4>1, WithSaveLemma
    <3>2. PICK keep, e : /\ keep \in Seq(Ops) /\ e \in Saves /\ e.kind = "save" /\ e.n = m.n
                         /\ WithSave(ops, m) = Append(keep, e)
      BY <3>1
    <3>3. keep \in Seq(Ops) /\ e \in Ops /\ e.kind = "save"
      BY <3>2 DEF Ops
    <3>4. SnapshotOf(Append(keep, e), e.n, tried[c])
      BY ONLY <3>3, SnapshotNew
    <3> QED
      BY <3>2, <3>4
  <2> QED
    BY <2>2, <2>3, <2>5, <2>6 DEF SnapshotInv
<1>6. CASE IngestLate(m) \/ IngestInspect(m) \/ IngestWake(m)
  <2>1. UNCHANGED <<lane, ingested, tried>>
    BY <1>6 DEF IngestLate, IngestInspect, IngestWake, history
  <2> QED
    BY <2>1, SnapshotFrame
<1>7. CASE IngestShutdown(m)
  <2>1. Closes(OpenLanes) /\ UNCHANGED <<ingested, tried>> /\ OpenLanes \in SUBSET OpenLanes
    BY <1>7 DEF IngestShutdown, history
  <2> QED
    BY <2>1, ClosesSnapshot
<1> QED
  BY <1>1, <1>3, <1>4, <1>5, <1>6, <1>7 DEF Ingest

LEMMA ActorSnapshot ==
  ASSUME BaseInv, SnapshotInv
  PROVE  /\ Reaps => SnapshotInv'
         /\ \A c \in Clients : (Works(c) \/ ProcessDetach(c)) => SnapshotInv'
<1>0. /\ lane \in [Clients -> Lanes] /\ tried \in [Clients -> Nat]
      /\ \A c \in Clients : SnapshotOf(lane[c].ops, ingested[c], tried[c])
  BY DEF BaseInv, TypeOK, SnapshotInv
<1>1. ASSUME Reaps PROVE SnapshotInv'
  <2> DEFINE L == {c \in OpenLanes : Detached(c)}
  <2>1. Closes(L) /\ L \in SUBSET OpenLanes /\ UNCHANGED <<ingested, tried>>
    BY <1>1 DEF Reaps, history
  <2> HIDE DEF L
  <2> QED
    BY <2>1, ClosesSnapshot
<1>2. ASSUME NEW c \in Clients, Works(c) PROVE SnapshotInv'
  <2> DEFINE ops == lane[c].ops
  <2>1. /\ pc = "work" /\ c = last /\ Op.kind \in {"load", "save"}
        /\ Op.kind = "load" => tried' = tried
        /\ Op.kind = "save" => tried' = [tried EXCEPT ![c] = Op.n]
    BY <1>2, WorksEnds
  <2>2. PICK A, obs, kind, rev : Ends(c, A, obs, kind, rev)
    BY <1>2, WorksEnds
  <2>3. /\ lane'[c].ops = Tail(ops)
        /\ \A k \in Clients \ {c} : lane'[k] = lane[k]
    BY <2>1, <2>2, FinishesLemma
  <2>4. ingested' = ingested
    BY <2>2 DEF Ends, Finishes
  <2>5. ops \in Seq(Ops) /\ ops # <<>> /\ Op = ops[1]
    BY <2>1, OpIs
  <2>6. /\ \A k \in Clients \ {c} : tried'[k] = tried[k]
        /\ ops[1].kind = "save" => tried'[c] = ops[1].n
        /\ ops[1].kind # "save" => tried'[c] = tried[c]
    BY <1>0, <2>1, <2>5
  <2>7. SnapshotOf(Tail(ops), ingested[c], tried'[c])
    <3>1. SnapshotOf(ops, ingested[c], tried[c])
      BY <1>0
    <3> HIDE DEF ops
    <3> QED
      BY ONLY <2>5, <2>6, <3>1, SnapshotTail
  <2> QED
    BY <1>0, <2>3, <2>4, <2>6, <2>7 DEF SnapshotInv
<1>3. ASSUME NEW c \in Clients, ProcessDetach(c) PROVE SnapshotInv'
  <2>1. Len(lane[c].ops) = 1 /\ lane[c].ops[1].kind = "detach"
    BY <1>3, DetachEmpties
  <2>2. lane' = [lane EXCEPT ![c] = NoLane] /\ UNCHANGED <<ingested, tried>>
    BY <1>3 DEF ProcessDetach, history
  <2>3. tried[c] = ingested[c]
    <3>1. SnapshotOf(lane[c].ops, ingested[c], tried[c])
      BY <1>0
    <3>2. \A i \in 1..Len(lane[c].ops) : lane[c].ops[i].kind # "save"
      <4>1. \A i \in 1..1 : i = 1
        OBVIOUS
      <4> QED
        BY <2>1, <4>1
    <3> QED
      BY <3>1, <3>2 DEF SnapshotOf
  <2>4. \A k \in Clients : lane'[k] = IF k = c THEN NoLane ELSE lane[k]
    BY <1>0, <2>2
  <2>5. SnapshotOf(NoLane.ops, ingested[c], tried[c])
    <3>1. \A i \in 1..Len(<<>>) : FALSE
      OBVIOUS
    <3> QED
      BY <2>3, <3>1, NoLaneIs DEF SnapshotOf
  <2> QED
    BY <1>0, <2>2, <2>4, <2>5 DEF SnapshotInv
<1> QED
  BY <1>1, <1>2, <1>3

-----------------------------------------------------------------------------
(* The order of events *)

LEMMA OrderAppend ==
  ASSUME NEW w \in Seq(Events), NEW e \in Events, NEW from \in Nat, NEW to \in Nat,
         InOrder(w, from, to), e.n = to + 1
  PROVE  InOrder(Append(w, e), from, to + 1)
<1> DEFINE q == Append(w, e)
           k == Len(w)
<1>1. /\ k \in Nat /\ Len(q) = k + 1
      /\ \A i \in 1..k : q[i] = w[i]
      /\ q[k + 1] = e
  BY AppendAt
<1>2. k = to - from /\ \A i \in 1..k : w[i].n = from + i
  BY DEF InOrder
<1> HIDE DEF q, k
<1>3. Len(q) = (to + 1) - from
  BY <1>1, <1>2
<1>4. ASSUME NEW i \in 1..Len(q) PROVE q[i].n = from + i
  <2>1. CASE i = k + 1
    BY <1>1, <1>2, <2>1
  <2>2. CASE i # k + 1
    <3>1. i \in 1..k
      BY <1>1, <2>2
    <3> QED
      BY <1>1, <1>2, <3>1
  <2> QED
    BY <2>1, <2>2
<1> QED
  BY <1>3, <1>4 DEF InOrder, q

LEMMA OrderTail ==
  ASSUME NEW w \in Seq(Events), w # <<>>, NEW from \in Nat, NEW to \in Nat, InOrder(w, from, to)
  PROVE  InOrder(Tail(w), from + 1, to)
<1> DEFINE q == Tail(w)
           k == Len(w)
<1>1. /\ k \in Nat \ {0} /\ Len(q) = k - 1
      /\ \A i \in 1..Len(q) : i + 1 \in 1..k /\ q[i] = w[i + 1]
  BY TailAt
<1>2. k = to - from /\ \A i \in 1..k : w[i].n = from + i
  BY DEF InOrder
<1> HIDE DEF q, k
<1>3. Len(q) = to - (from + 1)
  BY <1>1, <1>2
<1>4. ASSUME NEW i \in 1..Len(q) PROVE q[i].n = (from + 1) + i
  <2>1. i + 1 \in 1..k /\ q[i] = w[i + 1] /\ from + (i + 1) = (from + 1) + i
    BY <1>1
  <2>2. w[i + 1].n = from + (i + 1)
    BY <1>2, <2>1
  <2> QED
    BY <2>1, <2>2
<1> QED
  BY <1>3, <1>4 DEF InOrder, q

LEMMA InitEvents == Init => EventInv
<1> SUFFICES ASSUME Init PROVE EventInv
  OBVIOUS
<1>1. \A c \in Clients : ~sink[c].open
  BY NoSinkIs DEF Init
<1> QED
  BY <1>1 DEF EventInv

LEMMA EventsFrame ==
  ASSUME EventInv, UNCHANGED <<sink, inbox, listening, read, done>> PROVE EventInv'
BY DEF EventInv, Waiting

LEMMA EventsKept ==
  ASSUME NEW c \in Clients
  PROVE  /\ (Attach(c) \/ MarkDetached(c) \/ Nudge(c))
              => UNCHANGED <<sink, inbox, listening, read, done>>
         /\ \A p \in Paths : (SubmitLoad(c, p) \/ RefusedLoad(c, p))
              => UNCHANGED <<sink, inbox, listening, read, done>>
         /\ \A w \in {"shown", "left"}, r \in 1..MaxRevision :
              SubmitSave(c, w, r) => UNCHANGED <<sink, inbox, listening, read, done>>
BY DEF Attach, MarkDetached, Nudge, SubmitLoad, RefusedLoad, SubmitSave, actor, history

LEMMA EventsKeptToo ==
  /\ (Inspect \/ Shutdown \/ Joins \/ Drained \/ TimesOut \/ Rests)
       => UNCHANGED <<sink, inbox, listening, read, done>>
  /\ \A p \in Paths : ForeignSave(p) => UNCHANGED <<sink, inbox, listening, read, done>>
BY DEF Inspect, Shutdown, Joins, Drained, TimesOut, Rests, ForeignSave, outside, actor, history

LEMMA ReceivesEvents ==
  ASSUME BaseInv, AttachInv, EventInv, Receives PROVE EventInv'
<1> DEFINE m == Head(mailbox)
<1>0. /\ TypeOK /\ sink \in [Clients -> [open : BOOLEAN, pending : Seq(Events)]]
  BY DEF BaseInv, TypeOK
<1>1. mailbox # <<>> /\ Ingest(m) /\ UNCHANGED <<inbox, listening>>
  BY DEF Receives, outside
<1>2. m \in Commands /\ m = mailbox[1] /\ 1 \in 1..Len(mailbox)
  BY <1>0, <1>1, HeadIs
<1> HIDE DEF m
<1>3. CASE IngestAttach(m)
  <2>1. PICK c \in Clients : m.kind = "attach" /\ c = m.client
    BY <1>2, <1>3, CommandKinds DEF IngestAttach
  <2>2. Fresh(c)
    BY <1>2, <2>1 DEF AttachInv, AttachOf, IsAttach
  <2>3. /\ sink' = [sink EXCEPT ![c] = Sink(TRUE, <<>>)]
        /\ UNCHANGED <<read, done>>
    BY <1>3, <2>1 DEF IngestAttach, history
  <2>4. \A k \in Clients : sink'[k] = IF k = c THEN Sink(TRUE, <<>>) ELSE sink[k]
    BY <1>0, <2>3
  <2>5. Waiting(c)' = <<>>
    <3>1. inbox[c] = <<>> /\ Sink(TRUE, <<>>).pending = <<>>
      BY <2>2, SinkIs DEF Fresh
    <3>2. <<>> \o <<>> = <<>>
      OBVIOUS
    <3> QED
      BY <1>1, <2>1, <2>4, <3>1, <3>2 DEF Waiting
  <2>6. InOrder(<<>>, read[c], done[c])
    <3>1. Len(<<>>) = 0 /\ read[c] = 0 /\ done[c] = 0 /\ \A i \in 1..0 : FALSE
      BY <2>2 DEF Fresh
    <3> QED
      BY <3>1 DEF InOrder
  <2>7. ASSUME NEW k \in Clients, sink'[k].open, listening'[k]
        PROVE  InOrder(Waiting(k)', read'[k], done'[k])
    <3>1. CASE k = c
      BY <2>3, <2>5, <2>6, <3>1
    <3>2. CASE k # c
      <4>1. sink'[k] = sink[k]
        BY <2>4, <3>2
      <4> QED
        BY <1>1, <2>3, <2>7, <4>1 DEF EventInv, Waiting
    <3> QED
      BY <3>1, <3>2
  <2> QED
    BY <2>7 DEF EventInv
<1>4. CASE IngestLoad(m) \/ IngestSave(m) \/ IngestLate(m) \/ IngestInspect(m) \/ IngestWake(m)
  <2>1. UNCHANGED <<sink, read, done>>
    BY <1>4 DEF IngestLoad, IngestSave, IngestLate, IngestInspect, IngestWake, history
  <2> QED
    BY <1>1, <2>1, EventsFrame
<1>5. CASE IngestShutdown(m)
  <2>1. sink' = [c \in Clients |-> NoSink]
    BY <1>5 DEF IngestShutdown
  <2>2. \A c \in Clients : ~sink'[c].open
    BY <2>1, NoSinkIs
  <2> QED
    BY <2>2 DEF EventInv
<1> QED
  BY <1>1, <1>3, <1>4, <1>5 DEF Ingest

LEMMA ActorEvents ==
  ASSUME BaseInv, EventInv
  PROVE  /\ Reaps => EventInv'
         /\ \A c \in Clients : (Selects(c) \/ Works(c) \/ ProcessDetach(c)) => EventInv'
<1>0. /\ TypeOK /\ inbox \in [Clients -> Seq(Events)]
      /\ sink \in [Clients -> [open : BOOLEAN, pending : Seq(Events)]]
      /\ done \in [Clients -> Nat] /\ read \in [Clients -> Nat]
  BY DEF BaseInv, TypeOK
<1>1. ASSUME Reaps PROVE EventInv'
  <2> DEFINE L == {c \in OpenLanes : Detached(c)}
  <2>1. /\ sink' = [c \in Clients |-> IF c \in L THEN NoSink ELSE FlushedSink(c)]
        /\ inbox' = [c \in Clients |-> IF c \in L THEN inbox[c] ELSE FlushedInbox(c)]
        /\ UNCHANGED <<listening, read, done>>
    BY <1>1 DEF Reaps, outside, history
  <2> HIDE DEF L
  <2>2. ASSUME NEW k \in Clients, sink'[k].open, listening'[k]
        PROVE  InOrder(Waiting(k)', read'[k], done'[k])
    <3>1. k \notin L
      BY <2>1, <2>2, NoSinkIs
    <3>2. sink'[k] = FlushedSink(k) /\ inbox'[k] = FlushedInbox(k)
      BY <2>1, <3>1
    <3>3. sink[k].open /\ Waiting(k)' = Waiting(k)
      BY <1>0, <2>1, <2>2, <3>2, FlushLemma DEF Waiting
    <3> QED
      BY <2>1, <2>2, <3>3 DEF EventInv
  <2> QED
    BY <2>2 DEF EventInv
<1>2. ASSUME NEW c \in Clients, Selects(c) PROVE EventInv'
  <2>1. /\ sink' = [sink EXCEPT ![c] = FlushedSink(c)]
        /\ inbox' = [inbox EXCEPT ![c] = FlushedInbox(c)]
        /\ UNCHANGED <<listening, read, done>>
    BY <1>2 DEF Selects, outside, history
  <2>2. ASSUME NEW k \in Clients, sink'[k].open, listening'[k]
        PROVE  InOrder(Waiting(k)', read'[k], done'[k])
    <3>1. sink[k].open /\ Waiting(k)' = Waiting(k)
      <4>1. CASE k = c
        <5>1. sink'[k] = FlushedSink(k) /\ inbox'[k] = FlushedInbox(k)
          BY <1>0, <2>1, <4>1
        <5> QED
          BY <1>0, <2>1, <2>2, <5>1, FlushLemma DEF Waiting
      <4>2. CASE k # c
        <5>1. sink'[k] = sink[k] /\ inbox'[k] = inbox[k]
          BY <1>0, <2>1, <4>2
        <5> QED
          BY <2>2, <5>1 DEF Waiting
      <4> QED
        BY <4>1, <4>2
    <3> QED
      BY <2>1, <2>2, <3>1 DEF EventInv
  <2> QED
    BY <2>2 DEF EventInv
<1>3. ASSUME NEW c \in Clients, Works(c) PROVE EventInv'
  <2>1. pc = "work" /\ c = last /\ Op.kind \in {"load", "save"}
    BY <1>3, WorksEnds
  <2>2. PICK A, obs, kind, rev : Ends(c, A, obs, kind, rev)
    BY <1>3, WorksEnds
  <2> DEFINE e == [kind |-> kind, gen |-> Op.gen, revision |-> rev, n |-> done[c] + 1]
  <2>3. e \in Events /\ Emit(c, e) /\ e.n = done[c] + 1
    BY <2>1, <2>2, FinishesLemma
  <2>4. /\ done' = [done EXCEPT ![c] = done[c] + 1] /\ UNCHANGED <<read, listening>>
    BY <2>2 DEF Ends, Finishes, outside
  <2> HIDE DEF e
  <2>5. /\ \A k \in Clients \ {c} : inbox'[k] = inbox[k] /\ sink'[k] = sink[k]
        /\ sink'[c].open => sink[c].open
        /\ \/ inbox'[c] \o sink'[c].pending = Waiting(c) /\ ~(sink[c].open /\ listening[c])
           \/ inbox'[c] \o sink'[c].pending = Append(Waiting(c), e)
    BY <1>0, <2>3, EmitLemma
  <2>6. \A k \in Clients : done'[k] = IF k = c THEN done[c] + 1 ELSE done[k]
    BY <1>0, <2>4
  <2>7. ASSUME NEW k \in Clients, sink'[k].open, listening'[k]
        PROVE  InOrder(Waiting(k)', read'[k], done'[k])
    <3>1. CASE k = c
      <4>1. sink[c].open /\ listening[c]
        BY <2>4, <2>5, <2>7, <3>1
      <4>2. Waiting(c)' = Append(Waiting(c), e)
        BY <2>5, <4>1 DEF Waiting
      <4>3. InOrder(Waiting(c), read[c], done[c])
        BY <4>1 DEF EventInv
      <4>4. /\ Waiting(c) \in Seq(Events) /\ read[c] \in Nat /\ done[c] \in Nat
            /\ e \in Events /\ e.n = done[c] + 1
        <5>1. inbox[c] \in Seq(Events) /\ sink[c].pending \in Seq(Events)
          BY <1>0, SinkParts
        <5>2. inbox[c] \o sink[c].pending \in Seq(Events)
          BY <5>1, CatAt
        <5> QED
          BY <1>0, <2>3, <5>2 DEF Waiting
      <4>5. InOrder(Append(Waiting(c), e), read[c], done[c] + 1)
        BY ONLY <4>3, <4>4, OrderAppend
      <4> QED
        BY <2>4, <2>6, <3>1, <4>2, <4>5
    <3>2. CASE k # c
      <4>1. sink'[k] = sink[k] /\ Waiting(k)' = Waiting(k) /\ done'[k] = done[k]
        BY <2>5, <2>6, <3>2 DEF Waiting
      <4> QED
        BY <2>4, <2>7, <4>1 DEF EventInv
    <3> QED
      BY <3>1, <3>2
  <2> QED
    BY <2>7 DEF EventInv
<1>4. ASSUME NEW c \in Clients, ProcessDetach(c) PROVE EventInv'
  <2>1. sink' = [sink EXCEPT ![c] = NoSink] /\ UNCHANGED <<inbox, listening, read, done>>
    BY <1>4 DEF ProcessDetach, outside, history
  <2>2. ASSUME NEW k \in Clients, sink'[k].open, listening'[k]
        PROVE  InOrder(Waiting(k)', read'[k], done'[k])
    <3>1. sink'[k] = IF k = c THEN NoSink ELSE sink[k]
      BY <1>0, <2>1
    <3>2. k # c /\ sink'[k] = sink[k]
      BY <2>2, <3>1, NoSinkIs
    <3> QED
      BY <2>1, <2>2, <3>2 DEF EventInv, Waiting
  <2> QED
    BY <2>2 DEF EventInv
<1> QED
  BY <1>1, <1>2, <1>3, <1>4

LEMMA ClientEvents ==
  ASSUME BaseInv, EventInv, NEW c \in Clients
  PROVE  (Receive(c) \/ StopListening(c)) => EventInv'
<1>0. /\ TypeOK /\ inbox \in [Clients -> Seq(Events)] /\ listening \in [Clients -> BOOLEAN]
      /\ done \in [Clients -> Nat] /\ read \in [Clients -> Nat]
  BY DEF BaseInv, TypeOK
<1>1. ASSUME Receive(c) PROVE EventInv'
  <2>1. read' = [read EXCEPT ![c] = read[c] + 1] /\ UNCHANGED <<sink, listening, done>>
    BY <1>1 DEF Receive, actor
  <2>2. /\ \A k \in Clients \ {c} : inbox'[k] = inbox[k]
        /\ Waiting(c) \in Seq(Events) /\ Waiting(c) # <<>>
        /\ inbox'[c] \o sink[c].pending = Tail(Waiting(c))
    BY <1>0, <1>1, ReceiveView
  <2>3. \A k \in Clients : read'[k] = IF k = c THEN read[c] + 1 ELSE read[k]
    BY <1>0, <2>1
  <2>4. ASSUME NEW k \in Clients, sink'[k].open, listening'[k]
        PROVE  InOrder(Waiting(k)', read'[k], done'[k])
    <3>1. CASE k = c
      <4>1. InOrder(Waiting(c), read[c], done[c])
        BY <2>1, <2>4, <3>1 DEF EventInv
      <4>2. read[c] \in Nat /\ done[c] \in Nat
        BY <1>0
      <4>3. InOrder(Tail(Waiting(c)), read[c] + 1, done[c])
        BY ONLY <2>2, <4>1, <4>2, OrderTail
      <4>4. Waiting(c)' = Tail(Waiting(c))
        BY <2>1, <2>2 DEF Waiting
      <4> QED
        BY <2>1, <2>3, <3>1, <4>3, <4>4
    <3>2. CASE k # c
      BY <2>1, <2>2, <2>3, <2>4, <3>2 DEF EventInv, Waiting
    <3> QED
      BY <3>1, <3>2
  <2> QED
    BY <2>4 DEF EventInv
<1>2. ASSUME StopListening(c) PROVE EventInv'
  <2>1. /\ listening' = [listening EXCEPT ![c] = FALSE] /\ inbox' = [inbox EXCEPT ![c] = <<>>]
        /\ UNCHANGED <<sink, read, done>>
    BY <1>2 DEF StopListening, actor, history
  <2>2. \A k \in Clients : listening'[k] => k # c /\ listening[k] /\ inbox'[k] = inbox[k]
    BY <1>0, <2>1
  <2> QED
    BY <2>1, <2>2 DEF EventInv, Waiting
<1> QED
  BY <1>1, <1>2

-----------------------------------------------------------------------------
(* From the mailbox through the lane to the events *)

(* q is what another queue holds of the loads and saves of client c, or less. *)
Thin(q, r, c) ==
  \E n \in Nat : \A i \in 1..Len(q) :
    (IsLoad(q[i], c) \/ IsSave(q[i], c)) => n + i \in 1..Len(r) /\ q[i] = r[n + i]

LEMMA PartThin == ASSUME NEW q, NEW r, NEW c, PartOf(q, r) PROVE Thin(q, r, c)
BY DEF PartOf, Thin

LEMMA AppendThin ==
  ASSUME NEW S, NEW q \in Seq(S), NEW m \in S, NEW c, ~IsLoad(m, c), ~IsSave(m, c)
  PROVE  Thin(Append(q, m), q, c)
<1> DEFINE r == Append(q, m)
<1>1. /\ Len(q) \in Nat /\ Len(r) = Len(q) + 1
      /\ \A i \in 1..Len(q) : r[i] = q[i]
      /\ r[Len(q) + 1] = m
  BY AppendAt
<1> HIDE DEF r
<1>2. \A i \in 1..Len(r) : (IsLoad(r[i], c) \/ IsSave(r[i], c))
                             => 0 + i \in 1..Len(q) /\ r[i] = q[0 + i]
  BY <1>1
<1> QED
  BY <1>2 DEF Thin, r

LEMMA OrdersThin ==
  ASSUME NEW c, NEW mail, NEW ops, NEW ev, NEW mail2, NEW ops2, NEW ev2,
         Orders(c, mail, ops, ev),
         Thin(mail2, mail, c), Thin(ops2, ops, c), PartOf(ev2, ev),
         Len(mail2) \in Nat, Len(ops2) \in Nat, Len(ev2) \in Nat
  PROVE  Orders(c, mail2, ops2, ev2)
<1>1. PICK n \in Nat : \A i \in 1..Len(mail2) :
        (IsLoad(mail2[i], c) \/ IsSave(mail2[i], c))
          => n + i \in 1..Len(mail) /\ mail2[i] = mail[n + i]
  BY DEF Thin
<1>2. PICK k \in Nat : \A i \in 1..Len(ops2) :
        (IsLoad(ops2[i], c) \/ IsSave(ops2[i], c))
          => k + i \in 1..Len(ops) /\ ops2[i] = ops[k + i]
  BY DEF Thin
<1>3. PICK u \in Nat : \A i \in 1..Len(ev2) : u + i \in 1..Len(ev) /\ ev2[i] = ev[u + i]
  BY DEF PartOf
<1>4. Within(mail2, c)
  <2> SUFFICES ASSUME NEW i \in 1..Len(mail2), NEW j \in 1..Len(mail2), i < j
               PROVE  Before(mail2[i], mail2[j], c)
    BY DEF Within
  <2>1. CASE (IsLoad(mail2[i], c) \/ IsSave(mail2[i], c)) /\ (IsLoad(mail2[j], c) \/ IsSave(mail2[j], c))
    <3>1. /\ n + i \in 1..Len(mail) /\ mail2[i] = mail[n + i]
          /\ n + j \in 1..Len(mail) /\ mail2[j] = mail[n + j] /\ n + i < n + j
      BY <1>1, <2>1, SMTT(30)
    <3> QED
      BY <3>1 DEF Orders, Within
  <2> QED
    BY <2>1 DEF Before
<1>5. Within(ops2, c)
  <2> SUFFICES ASSUME NEW i \in 1..Len(ops2), NEW j \in 1..Len(ops2), i < j
               PROVE  Before(ops2[i], ops2[j], c)
    BY DEF Within
  <2>1. CASE (IsLoad(ops2[i], c) \/ IsSave(ops2[i], c)) /\ (IsLoad(ops2[j], c) \/ IsSave(ops2[j], c))
    <3>1. /\ k + i \in 1..Len(ops) /\ ops2[i] = ops[k + i]
          /\ k + j \in 1..Len(ops) /\ ops2[j] = ops[k + j] /\ k + i < k + j
      BY <1>2, <2>1, SMTT(30)
    <3> QED
      BY <3>1 DEF Orders, Within
  <2> QED
    BY <2>1 DEF Before
<1>6. Across(ops2, mail2, c)
  <2> SUFFICES ASSUME NEW i \in 1..Len(ops2), NEW j \in 1..Len(mail2)
               PROVE  Before(ops2[i], mail2[j], c)
    BY DEF Across
  <2>1. CASE (IsLoad(ops2[i], c) \/ IsSave(ops2[i], c)) /\ (IsLoad(mail2[j], c) \/ IsSave(mail2[j], c))
    <3>1. /\ k + i \in 1..Len(ops) /\ ops2[i] = ops[k + i]
          /\ n + j \in 1..Len(mail) /\ mail2[j] = mail[n + j]
      BY <1>1, <1>2, <2>1
    <3> QED
      BY <3>1 DEF Orders, Across
  <2> QED
    BY <2>1 DEF Before
<1>7. ToldInOrder(ev2)
  <2> SUFFICES ASSUME NEW i \in 1..Len(ev2), NEW j \in 1..Len(ev2), i < j,
                      ev2[i].kind = "loaded", ev2[j].kind = "loaded"
               PROVE  ev2[i].gen < ev2[j].gen
    BY DEF ToldInOrder
  <2>1. /\ u + i \in 1..Len(ev) /\ ev2[i] = ev[u + i]
        /\ u + j \in 1..Len(ev) /\ ev2[j] = ev[u + j] /\ u + i < u + j
    BY <1>3
  <2> QED
    BY <2>1 DEF Orders, ToldInOrder
<1>8. ToldAll(ev2, mail2, c)
  <2> SUFFICES ASSUME NEW i \in 1..Len(ev2), NEW j \in 1..Len(mail2)
               PROVE  Told(ev2[i], mail2[j], c)
    BY DEF ToldAll
  <2>1. CASE IsLoad(mail2[j], c) \/ IsSave(mail2[j], c)
    <3>1. /\ u + i \in 1..Len(ev) /\ ev2[i] = ev[u + i]
          /\ n + j \in 1..Len(mail) /\ mail2[j] = mail[n + j]
      BY <1>1, <1>3, <2>1
    <3> QED
      BY <3>1 DEF Orders, ToldAll
  <2> QED
    BY <2>1 DEF Told
<1>9. ToldAll(ev2, ops2, c)
  <2> SUFFICES ASSUME NEW i \in 1..Len(ev2), NEW j \in 1..Len(ops2)
               PROVE  Told(ev2[i], ops2[j], c)
    BY DEF ToldAll
  <2>1. CASE IsLoad(ops2[j], c) \/ IsSave(ops2[j], c)
    <3>1. /\ u + i \in 1..Len(ev) /\ ev2[i] = ev[u + i]
          /\ k + j \in 1..Len(ops) /\ ops2[j] = ops[k + j]
      BY <1>2, <1>3, <2>1
    <3> QED
      BY <3>1 DEF Orders, ToldAll
  <2> QED
    BY <2>1 DEF Told
<1> QED
  BY <1>4, <1>5, <1>6, <1>7, <1>8, <1>9 DEF Orders

LEMMA ItemsThin ==
  ASSUME NEW c, NEW q, NEW r, NEW v, NEW l, Thin(q, r, c),
         \A i \in 1..Len(r) : ItemOK(r[i], v, l, c)
  PROVE  \A i \in 1..Len(q) : ItemOK(q[i], v, l, c)
<1>1. PICK n \in Nat : \A i \in 1..Len(q) :
        (IsLoad(q[i], c) \/ IsSave(q[i], c)) => n + i \in 1..Len(r) /\ q[i] = r[n + i]
  BY DEF Thin
<1> SUFFICES ASSUME NEW i \in 1..Len(q) PROVE ItemOK(q[i], v, l, c)
  OBVIOUS
<1>2. CASE IsLoad(q[i], c) \/ IsSave(q[i], c)
  BY <1>1, <1>2
<1>3. CASE ~(IsLoad(q[i], c) \/ IsSave(q[i], c))
  BY <1>3 DEF ItemOK
<1> QED
  BY <1>2, <1>3

(* Of a lane with which everything is as with another one. *)
AsGoodAs(l, k, c) ==
  /\ \A g, r : Seen(k, g, r) => Seen(l, g, r)
  /\ \A h : Serves(l, h) => Serves(k, h)
  /\ ActiveOK(l, c)

LEMMA FlowThin ==
  ASSUME NEW c, NEW mail, NEW ops, NEW ev, NEW mail2, NEW ops2, NEW ev2, NEW v, NEW l, NEW k,
         FlowOf(c, mail, ops, ev, v, k),
         Thin(mail2, mail, c), Thin(ops2, ops, c), PartOf(ev2, ev), AsGoodAs(l, k, c),
         Len(mail2) \in Nat, Len(ops2) \in Nat, Len(ev2) \in Nat
  PROVE  FlowOf(c, mail2, ops2, ev2, v, l)
<1>1. Orders(c, mail2, ops2, ev2)
  BY OrdersThin DEF FlowOf
<1>2. /\ \A i \in 1..Len(mail2) : ItemOK(mail2[i], v, k, c)
      /\ \A i \in 1..Len(ops2) : ItemOK(ops2[i], v, k, c)
  BY ItemsThin DEF FlowOf
<1>3. \A i \in 1..Len(ev2) : EventOK(ev2[i], v, k)
  BY DEF FlowOf, PartOf
<1>4. \A m : ItemOK(m, v, k, c) => ItemOK(m, v, l, c)
  BY DEF AsGoodAs, ItemOK, LoadOK, SaveOK
<1>5. \A e : EventOK(e, v, k) => EventOK(e, v, l)
  BY DEF AsGoodAs, EventOK
<1>6. LaneOK(v, l, c)
  BY DEF FlowOf, LaneOK, AsGoodAs, DocumentOK
<1> QED
  BY <1>1, <1>2, <1>3, <1>4, <1>5, <1>6 DEF FlowOf

LEMMA SameLane ==
  ASSUME NEW c, NEW l, NEW k, ActiveOK(k, c), l.active = k.active, l.observed = k.observed,
         l.status # "absent" => k.status # "absent"
  PROVE  AsGoodAs(l, k, c)
BY DEF AsGoodAs, Seen, Serves, ActiveOK

LEMMA GoneLane == ASSUME NEW c, NEW k PROVE AsGoodAs(NoLane, k, c)
<1>1. NoLane.status = "absent" /\ NoLane.active = {} /\ NoLane.observed = None
  BY NoLaneIs
<1>2. \A h : ~Serves(NoLane, h)
  BY <1>1 DEF Serves
<1> QED
  BY <1>1, <1>2 DEF AsGoodAs, Seen, ActiveOK

(* A load or a save is handed in. *)
LEMMA FlowPost ==
  ASSUME NEW c, NEW mail \in Seq(Commands), NEW ops, NEW ev, NEW v, NEW l, NEW m \in Commands,
         FlowOf(c, mail, ops, ev, v, l), Len(ops) \in Nat, Len(ev) \in Nat,
         \A i \in 1..Len(mail) : Before(mail[i], m, c),
         \A i \in 1..Len(ops) : Before(ops[i], m, c),
         \A i \in 1..Len(ev) : Told(ev[i], m, c),
         ItemOK(m, v, l, c)
  PROVE  FlowOf(c, Append(mail, m), ops, ev, v, l)
<1> DEFINE q == Append(mail, m)
           n == Len(mail)
<1>1. /\ n \in Nat /\ Len(q) = n + 1
      /\ \A i \in 1..n : q[i] = mail[i]
      /\ q[n + 1] = m
  BY AppendAt
<1>2. /\ \A i \in 1..n : Before(mail[i], m, c)
      /\ \A i, j \in 1..n : i < j => Before(mail[i], mail[j], c)
      /\ \A i \in 1..Len(ops), j \in 1..n : Before(ops[i], mail[j], c)
      /\ \A i \in 1..Len(ev), j \in 1..n : Told(ev[i], mail[j], c)
      /\ \A i \in 1..n : ItemOK(mail[i], v, l, c)
  BY DEF FlowOf, Orders, Within, Across, ToldAll
<1> HIDE DEF q, n
<1>4. Within(q, c)
  <2> SUFFICES ASSUME NEW i \in 1..Len(q), NEW j \in 1..Len(q), i < j
               PROVE  Before(q[i], q[j], c)
    BY DEF Within
  <2>1. i \in 1..n /\ q[i] = mail[i]
    BY <1>1
  <2>2. CASE j = n + 1
    BY <1>1, <1>2, <2>1, <2>2
  <2>3. CASE j # n + 1
    <3>1. j \in 1..n /\ q[j] = mail[j]
      BY <1>1, <2>3
    <3> QED
      BY <1>2, <2>1, <3>1
  <2> QED
    BY <2>2, <2>3
<1>5. ASSUME NEW j \in 1..Len(q)
      PROVE  /\ \A i \in 1..Len(ops) : Before(ops[i], q[j], c)
             /\ \A i \in 1..Len(ev) : Told(ev[i], q[j], c)
             /\ ItemOK(q[j], v, l, c)
  <2>1. CASE j = n + 1
    BY <1>1, <2>1
  <2>2. CASE j # n + 1
    <3>1. j \in 1..n /\ q[j] = mail[j]
      BY <1>1, <2>2
    <3> QED
      BY <1>2, <3>1
  <2> QED
    BY <2>1, <2>2
<1>6. Across(ops, q, c) /\ ToldAll(ev, q, c) /\ \A j \in 1..Len(q) : ItemOK(q[j], v, l, c)
  BY <1>5 DEF Across, ToldAll
<1>7. FlowOf(c, q, ops, ev, v, l)
  BY <1>4, <1>6 DEF FlowOf, Orders
<1> QED
  BY <1>7 DEF q

(* Two of a kind, as far as the order of loads and saves goes. *)
Alike(e, m) ==
  /\ e.kind = m.kind /\ e.client = m.client /\ e.gen = m.gen
  /\ m.kind = "save" => e.revision = m.revision

LEMMA AlikeLemma ==
  ASSUME NEW c, NEW e, NEW m, Alike(e, m)
  PROVE  /\ \A x : Before(x, m, c) => Before(x, e, c)
         /\ \A x : Before(m, x, c) => Before(e, x, c)
         /\ \A x : Told(x, m, c) => Told(x, e, c)
         /\ \A v, l : ItemOK(m, v, l, c) => ItemOK(e, v, l, c)
<1>1. IsLoad(e, c) <=> IsLoad(m, c)
  BY DEF Alike, IsLoad
<1>2. IsSave(e, c) <=> IsSave(m, c)
  BY DEF Alike, IsSave
<1>3. e.gen = m.gen /\ (IsSave(m, c) => e.revision = m.revision)
  BY DEF Alike, IsSave
<1>4. \A x : Before(x, m, c) => Before(x, e, c)
  BY <1>1, <1>2, <1>3 DEF Before
<1>5. \A x : Before(m, x, c) => Before(e, x, c)
  BY <1>1, <1>2, <1>3 DEF Before
<1>6. \A x : Told(x, m, c) => Told(x, e, c)
  BY <1>1, <1>2, <1>3 DEF Told
<1>7. \A v, l : ItemOK(m, v, l, c) => ItemOK(e, v, l, c)
  BY <1>1, <1>2, <1>3 DEF ItemOK, SaveOK, KnownAs
<1> QED
  BY <1>4, <1>5, <1>6, <1>7

(* The first command of the mailbox enters the lane, possibly in the place of *)
(* its last operation.                                                        *)
LEMMA FlowEnter ==
  ASSUME NEW c, NEW mail \in Seq(Commands), mail # <<>>, NEW ops \in Seq(Ops), NEW ev, NEW v,
         NEW l, NEW keep \in Seq(Ops), NEW e \in Ops,
         FlowOf(c, mail, ops, ev, v, l), Len(ev) \in Nat, Alike(e, mail[1]),
         Len(keep) <= Len(ops), \A i \in 1..Len(keep) : keep[i] = ops[i]
  PROVE  FlowOf(c, Tail(mail), Append(keep, e), ev, v, l)
<1> DEFINE q == Append(keep, e)
           n == Len(keep)
           t == Tail(mail)
<1>1. /\ n \in Nat /\ Len(q) = n + 1
      /\ \A i \in 1..n : q[i] = keep[i]
      /\ q[n + 1] = e
  BY AppendAt
<1>2. /\ Len(mail) \in Nat \ {0} /\ Len(t) \in Nat /\ Len(t) = Len(mail) - 1
      /\ \A i \in 1..Len(t) : i + 1 \in 1..Len(mail) /\ t[i] = mail[i + 1]
  BY TailAt
<1>3. Len(ops) \in Nat /\ n <= Len(ops) /\ \A i \in 1..n : i \in 1..Len(ops) /\ q[i] = ops[i]
  BY <1>1
<1> HIDE DEF q, n, t
<1>4. 1 \in 1..Len(mail) /\ \A i \in 1..Len(t) : 1 < i + 1
  BY <1>2
<1>5. /\ \A i, j \in 1..Len(ops) : i < j => Before(ops[i], ops[j], c)
      /\ \A i, j \in 1..Len(mail) : i < j => Before(mail[i], mail[j], c)
      /\ \A i \in 1..Len(ops), j \in 1..Len(mail) : Before(ops[i], mail[j], c)
      /\ \A i \in 1..Len(ev), j \in 1..Len(mail) : Told(ev[i], mail[j], c)
      /\ \A i \in 1..Len(ev), j \in 1..Len(ops) : Told(ev[i], ops[j], c)
      /\ \A i \in 1..Len(mail) : ItemOK(mail[i], v, l, c)
      /\ \A i \in 1..Len(ops) : ItemOK(ops[i], v, l, c)
  BY DEF FlowOf, Orders, Within, Across, ToldAll
<1>6. /\ \A i \in 1..Len(ops) : Before(ops[i], e, c)
      /\ \A i \in 1..Len(t) : Before(e, t[i], c)
      /\ \A i \in 1..Len(ev) : Told(ev[i], e, c)
      /\ ItemOK(e, v, l, c)
  <2>1. \A i \in 1..Len(t) : Before(mail[1], t[i], c)
    BY <1>2, <1>4, <1>5
  <2> QED
    BY <1>4, <1>5, <2>1, AlikeLemma
<1>7. Within(t, c) /\ ToldAll(ev, t, c) /\ \A i \in 1..Len(t) : ItemOK(t[i], v, l, c)
  <2>1. ASSUME NEW i \in 1..Len(t), NEW j \in 1..Len(t), i < j PROVE Before(t[i], t[j], c)
    <3>1. /\ i + 1 \in 1..Len(mail) /\ j + 1 \in 1..Len(mail) /\ i + 1 < j + 1
          /\ t[i] = mail[i + 1] /\ t[j] = mail[j + 1]
      BY <1>2, <2>1
    <3> QED
      BY <1>5, <3>1
  <2> QED
    BY <1>2, <1>5, <2>1 DEF Within, ToldAll
<1>8. Within(q, c)
  <2> SUFFICES ASSUME NEW i \in 1..Len(q), NEW j \in 1..Len(q), i < j
               PROVE  Before(q[i], q[j], c)
    BY DEF Within
  <2>1. i \in 1..n
    BY <1>1
  <2>2. CASE j = n + 1
    BY <1>1, <1>3, <1>6, <2>1, <2>2
  <2>3. CASE j # n + 1
    <3>1. j \in 1..n
      BY <1>1, <2>3
    <3> QED
      BY <1>3, <1>5, <2>1, <3>1
  <2> QED
    BY <2>2, <2>3
<1>9. ASSUME NEW j \in 1..Len(q)
      PROVE  /\ \A i \in 1..Len(t) : Before(q[j], t[i], c)
             /\ \A i \in 1..Len(ev) : Told(ev[i], q[j], c)
             /\ ItemOK(q[j], v, l, c)
  <2>1. CASE j = n + 1
    BY <1>1, <1>6, <2>1
  <2>2. CASE j # n + 1
    <3>1. j \in 1..n
      BY <1>1, <2>2
    <3> QED
      BY <1>2, <1>3, <1>5, <3>1
  <2> QED
    BY <2>1, <2>2
<1>10. Across(q, t, c) /\ ToldAll(ev, q, c) /\ \A j \in 1..Len(q) : ItemOK(q[j], v, l, c)
  BY <1>9 DEF Across, ToldAll
<1>11. FlowOf(c, t, q, ev, v, l)
  BY <1>7, <1>8, <1>10 DEF FlowOf, Orders
<1> QED
  BY <1>11 DEF q, t

(* What an element of the three queues is, as far as numbers go. *)
Typed(m, c) ==
  /\ IsLoad(m, c) => m.gen \in Nat
  /\ IsSave(m, c) => m.gen \in Nat /\ m.revision \in Nat

TypedEvent(e) == e.kind = "loaded" => e.gen \in Nat /\ e.revision \in Nat

TypedView(v) ==
  /\ v.shown.gen \in Nat /\ v.shown.revision \in Nat
  /\ v.left.gen \in Nat /\ v.left.revision \in Nat

LEMMA TypedLemma ==
  ASSUME NEW c, NEW mail \in Seq(Commands), NEW ops \in Seq(Ops), NEW ev \in Seq(Events)
  PROVE  /\ \A i \in 1..Len(mail) : Typed(mail[i], c)
         /\ \A i \in 1..Len(ops) : Typed(ops[i], c)
         /\ \A i \in 1..Len(ev) : TypedEvent(ev[i])
         /\ Len(mail) \in Nat /\ Len(ops) \in Nat /\ Len(ev) \in Nat
<1>1. ASSUME NEW m \in Commands PROVE Typed(m, c)
  <2>1. (m.kind = "load" => m \in Loads) /\ (m.kind = "save" => m \in Saves)
    BY CommandKinds
  <2> QED
    BY <2>1 DEF Typed, IsLoad, IsSave, Loads, Saves
<1>2. ASSUME NEW m \in Ops PROVE Typed(m, c)
  <2>1. (m.kind = "load" => m \in Loads) /\ (m.kind = "save" => m \in Saves)
    BY OpKinds
  <2> QED
    BY <2>1 DEF Typed, IsLoad, IsSave, Loads, Saves
<1>3. ASSUME NEW e \in Events PROVE TypedEvent(e)
  BY DEF Events, TypedEvent
<1>4. /\ \A i \in 1..Len(mail) : mail[i] \in Commands
      /\ \A i \in 1..Len(ops) : ops[i] \in Ops
      /\ \A i \in 1..Len(ev) : ev[i] \in Events
      /\ Len(mail) \in Nat /\ Len(ops) \in Nat /\ Len(ev) \in Nat
  OBVIOUS
<1> QED
  BY <1>1, <1>2, <1>3, <1>4

(* A document is opened. *)
Opened(v2, v, p) ==
  /\ v2.shown.gen = v.shown.gen + 1 /\ v2.shown.path = p /\ ~v2.shown.loaded
  /\ v2.left = v.shown

LEMMA FlowShows ==
  ASSUME NEW c \in Clients, NEW mail \in Seq(Commands), NEW ops \in Seq(Ops),
         NEW ev \in Seq(Events), NEW v, NEW l, NEW v2, NEW p \in Paths,
         FlowOf(c, mail, ops, ev, v, l), TypedView(v), Opened(v2, v, p),
         v.shown.gen < MaxGeneration[c]
  PROVE  /\ FlowOf(c, mail, ops, ev, v2, l)
         /\ \A m : (IsLoad(m, c) /\ m.gen = v.shown.gen + 1) =>
              /\ \A i \in 1..Len(mail) : Before(mail[i], m, c)
              /\ \A i \in 1..Len(ops) : Before(ops[i], m, c)
              /\ \A i \in 1..Len(ev) : Told(ev[i], m, c)
              /\ ItemOK(m, v2, l, c)
<1>1. MaxGeneration[c] \in Nat
  BY ServiceAssumption
<1>2. /\ v.shown.gen \in Nat /\ v.left.gen \in Nat
      /\ v2.shown.gen = v.shown.gen + 1 /\ v2.shown.path = p /\ ~v2.shown.loaded
      /\ v2.left = v.shown
  BY DEF TypedView, Opened
<1>3. ASSUME NEW x, Typed(x, c), ItemOK(x, v, l, c)
      PROVE  /\ ItemOK(x, v2, l, c)
             /\ \A m : (IsLoad(m, c) /\ m.gen = v.shown.gen + 1) => Before(x, m, c)
  <2>1. CASE IsLoad(x, c)
    <3>1. x.gen \in Nat /\ LoadOK(x.gen, v, l, c) /\ ~IsSave(x, c)
      BY <1>3, <2>1 DEF Typed, ItemOK, IsLoad, IsSave
    <3>2. x.gen < v.shown.gen + 1
      BY <1>2, <3>1 DEF LoadOK
    <3>3. LoadOK(x.gen, v2, l, c)
      BY <1>1, <1>2, <3>1, <3>2 DEF LoadOK
    <3> QED
      BY <3>1, <3>2, <3>3 DEF ItemOK, Before, IsLoad, IsSave
  <2>2. CASE IsSave(x, c)
    <3>1. x.gen \in Nat /\ x.revision \in Nat /\ SaveOK(x, v, l) /\ ~IsLoad(x, c)
      BY <1>3, <2>2 DEF Typed, ItemOK, IsLoad, IsSave
    <3>2. x.gen < v.shown.gen + 1
      BY <1>2, <3>1 DEF SaveOK
    <3>3. SaveOK(x, v2, l)
      BY <1>2, <3>1, <3>2 DEF SaveOK, KnownAs
    <3> QED
      BY <3>1, <3>2, <3>3 DEF ItemOK, Before, IsLoad, IsSave
  <2>3. CASE ~IsLoad(x, c) /\ ~IsSave(x, c)
    BY <2>3 DEF ItemOK, Before
  <2> QED
    BY <2>1, <2>2, <2>3
<1>4. ASSUME NEW e, TypedEvent(e), EventOK(e, v, l)
      PROVE  /\ EventOK(e, v2, l)
             /\ \A m : (IsLoad(m, c) /\ m.gen = v.shown.gen + 1) => Told(e, m, c)
  <2>1. CASE e.kind = "loaded"
    <3>1. /\ e.gen \in Nat /\ 0 < e.gen /\ e.gen <= v.shown.gen
          /\ v.shown.loaded => v.shown.gen < e.gen
          /\ Seen(l, e.gen, e.revision)
      BY <1>4, <2>1 DEF TypedEvent, EventOK
    <3>2. e.gen < v.shown.gen + 1
      BY <1>2, <3>1
    <3>3. EventOK(e, v2, l)
      BY <1>2, <3>1, <3>2 DEF EventOK
    <3> QED
      BY <3>2, <3>3 DEF Told, IsLoad, IsSave
  <2>2. CASE e.kind # "loaded"
    BY <2>2 DEF EventOK, Told
  <2> QED
    BY <2>1, <2>2
<1>5. /\ \A i \in 1..Len(mail) : Typed(mail[i], c) /\ ItemOK(mail[i], v, l, c)
      /\ \A i \in 1..Len(ops) : Typed(ops[i], c) /\ ItemOK(ops[i], v, l, c)
      /\ \A i \in 1..Len(ev) : TypedEvent(ev[i]) /\ EventOK(ev[i], v, l)
  BY TypedLemma DEF FlowOf
<1>6. ViewOK(v2, c)
  <2>1. /\ v.shown.gen > 0 => v.shown.path \in Paths
    BY DEF FlowOf, ViewOK
  <2> QED
    BY <1>1, <1>2, <2>1 DEF ViewOK
<1>7. LaneOK(v2, l, c)
  BY <1>2 DEF FlowOf, LaneOK, DocumentOK
<1>8. FlowOf(c, mail, ops, ev, v2, l)
  BY <1>3, <1>4, <1>5, <1>6, <1>7 DEF FlowOf
<1>9. ASSUME NEW m, IsLoad(m, c), m.gen = v.shown.gen + 1 PROVE ItemOK(m, v2, l, c)
  <2>1. m.gen \in 1..MaxGeneration[c] /\ m.gen <= v2.shown.gen /\ v.shown.gen < m.gen
    BY <1>1, <1>2, <1>9
  <2>2. ASSUME NEW h \in Nat, Serves(l, h) PROVE h < m.gen
    <3>1. h <= v.shown.gen
      BY <2>2 DEF FlowOf, LaneOK
    <3> QED
      BY <1>2, <1>9, <3>1
  <2>3. LoadOK(m.gen, v2, l, c)
    BY <1>2, <2>1, <2>2 DEF LoadOK
  <2> QED
    BY <1>9, <2>3 DEF ItemOK, IsLoad, IsSave
<1> QED
  BY <1>3, <1>4, <1>5, <1>8, <1>9

(* The snapshot of a document is handed in. *)
HandedIn(v2, v, w, s, d, r) ==
  /\ d = IF w = "shown" THEN v.shown ELSE v.left
  /\ d.loaded /\ d.revision <= r
  /\ s.gen = d.gen /\ s.path = d.path /\ s.revision = r /\ s.loaded
  /\ v2.shown = IF w = "shown" THEN s ELSE v.shown
  /\ v2.left = IF w = "shown" THEN v.left ELSE s

LEMMA SeenLater ==
  ASSUME NEW l, l.observed \in Nat \cup {None}, NEW g, NEW r \in Nat, NEW t \in Nat, r <= t,
         Seen(l, g, r)
  PROVE  Seen(l, g, t)
BY DEF Seen, None

LEMMA FlowHandsIn ==
  ASSUME NEW c \in Clients, NEW mail \in Seq(Commands), NEW ops \in Seq(Ops),
         NEW ev \in Seq(Events), NEW v, NEW l, NEW v2, NEW w \in {"shown", "left"},
         NEW s, NEW d, NEW r \in Nat, r > 0, l.observed \in Nat \cup {None},
         FlowOf(c, mail, ops, ev, v, l), TypedView(v), HandedIn(v2, v, w, s, d, r)
  PROVE  /\ FlowOf(c, mail, ops, ev, v2, l)
         /\ \A m : (IsSave(m, c) /\ m.gen = d.gen /\ m.revision = r) =>
              /\ \A i \in 1..Len(mail) : Before(mail[i], m, c)
              /\ \A i \in 1..Len(ops) : Before(ops[i], m, c)
              /\ \A i \in 1..Len(ev) : Told(ev[i], m, c)
              /\ ItemOK(m, v2, l, c)
<1>1. /\ v.shown.gen \in Nat /\ v.left.gen \in Nat
      /\ v.shown.revision \in Nat /\ v.left.revision \in Nat
  BY DEF TypedView
<1>2. /\ d = IF w = "shown" THEN v.shown ELSE v.left
      /\ d.loaded /\ d.revision <= r
      /\ s.gen = d.gen /\ s.path = d.path /\ s.revision = r /\ s.loaded
      /\ v2.shown = IF w = "shown" THEN s ELSE v.shown
      /\ v2.left = IF w = "shown" THEN v.left ELSE s
  BY DEF HandedIn
<1>3. ViewOK(v, c) /\ LaneOK(v, l, c) /\ DocumentOK(v.shown, l) /\ DocumentOK(v.left, l)
  BY DEF FlowOf, LaneOK
<1>4. /\ d.gen \in Nat /\ d.gen > 0 /\ d.revision \in Nat /\ Seen(l, d.gen, d.revision)
  BY <1>1, <1>2, <1>3 DEF DocumentOK
<1>5. Seen(l, d.gen, r)
  BY <1>2, <1>4, SeenLater
<1>6. /\ v2.shown.gen = v.shown.gen /\ v2.left.gen = v.left.gen
      /\ v2.shown.path = v.shown.path /\ v2.left.path = v.left.path
      /\ v2.shown.loaded => v.shown.loaded
      /\ v2.left.loaded => v.left.loaded
      /\ v.shown.loaded => v2.shown.loaded /\ v2.shown.revision \in Nat /\ v.shown.revision <= v2.shown.revision
      /\ v.left.loaded => v2.left.loaded /\ v2.left.revision \in Nat /\ v.left.revision <= v2.left.revision
  <2>1. CASE w = "shown"
    BY <1>1, <1>2, <2>1
  <2>2. CASE w = "left"
    BY <1>1, <1>2, <2>2
  <2> QED
    BY <2>1, <2>2
<1>7. v.left.gen < v.shown.gen
  BY <1>1, <1>2, <1>3, <1>4 DEF ViewOK
<1>8. (v.shown.loaded /\ d.gen <= v.shown.gen) \/ (v.left.loaded /\ d.gen = v.left.gen)
  BY <1>1, <1>2
<1>9. d.gen <= v.shown.gen
  BY <1>1, <1>2, <1>7
<1>10. ASSUME NEW x, Typed(x, c), ItemOK(x, v, l, c)
      PROVE  /\ ItemOK(x, v2, l, c)
             /\ \A m : (IsSave(m, c) /\ m.gen = d.gen /\ m.revision = r) => Before(x, m, c)
  <2>1. CASE IsLoad(x, c)
    <3>1. x.gen \in Nat /\ LoadOK(x.gen, v, l, c) /\ ~IsSave(x, c)
      BY <1>10, <2>1 DEF Typed, ItemOK, IsLoad, IsSave
    <3>2. LoadOK(x.gen, v2, l, c)
      BY <1>6, <3>1 DEF LoadOK
    <3>3. d.gen < x.gen
      BY <1>2, <3>1 DEF LoadOK
    <3> QED
      BY <3>1, <3>2, <3>3 DEF ItemOK, Before, IsLoad, IsSave
  <2>2. CASE IsSave(x, c)
    <3>1. x.gen \in Nat /\ x.revision \in Nat /\ SaveOK(x, v, l) /\ ~IsLoad(x, c)
      BY <1>10, <2>2 DEF Typed, ItemOK, IsLoad, IsSave
    <3>2. KnownAs(x, v2.shown) /\ KnownAs(x, v2.left)
      BY <1>1, <1>6, <3>1 DEF SaveOK, KnownAs
    <3>3. SaveOK(x, v2, l)
      BY <1>6, <3>1, <3>2 DEF SaveOK
    <3>4. x.gen = d.gen => x.revision <= r
      <4>1. x.gen = d.gen => x.revision <= d.revision
        BY <1>2, <3>1 DEF SaveOK, KnownAs
      <4> QED
        BY <1>2, <1>4, <3>1, <4>1
    <3> QED
      BY <3>1, <3>3, <3>4 DEF ItemOK, Before, IsLoad, IsSave
  <2>3. CASE ~IsLoad(x, c) /\ ~IsSave(x, c)
    BY <2>3 DEF ItemOK, Before
  <2> QED
    BY <2>1, <2>2, <2>3
<1>11. ASSUME NEW e, TypedEvent(e), EventOK(e, v, l)
      PROVE  /\ EventOK(e, v2, l)
             /\ \A m : (IsSave(m, c) /\ m.gen = d.gen /\ m.revision = r) => Told(e, m, c)
  <2>1. CASE e.kind = "loaded"
    <3>1. EventOK(e, v2, l)
      BY <1>6, <1>11 DEF EventOK
    <3>2. d.gen < e.gen
      BY <1>2, <1>11, <2>1 DEF EventOK
    <3> QED
      BY <3>1, <3>2 DEF Told, IsLoad, IsSave
  <2>2. CASE e.kind # "loaded"
    BY <2>2 DEF EventOK, Told
  <2> QED
    BY <2>1, <2>2
<1>12. /\ \A i \in 1..Len(mail) : Typed(mail[i], c) /\ ItemOK(mail[i], v, l, c)
       /\ \A i \in 1..Len(ops) : Typed(ops[i], c) /\ ItemOK(ops[i], v, l, c)
       /\ \A i \in 1..Len(ev) : TypedEvent(ev[i]) /\ EventOK(ev[i], v, l)
  BY TypedLemma DEF FlowOf
<1>13. ViewOK(v2, c)
  BY <1>3, <1>6 DEF ViewOK
<1>14. LaneOK(v2, l, c)
  <2>1. DocumentOK(s, l)
    BY <1>2, <1>4, <1>5 DEF DocumentOK
  <2>2. DocumentOK(v2.shown, l) /\ DocumentOK(v2.left, l)
    BY <1>2, <1>3, <2>1
  <2> QED
    BY <1>3, <1>6, <2>2 DEF LaneOK
<1>15. FlowOf(c, mail, ops, ev, v2, l)
  BY <1>10, <1>11, <1>12, <1>13, <1>14 DEF FlowOf
<1>16. ASSUME NEW m, IsSave(m, c), m.gen = d.gen, m.revision = r PROVE ItemOK(m, v2, l, c)
  <2>1. KnownAs(m, v2.shown)
    <3>1. CASE w = "shown"
      BY <1>2, <1>16, <3>1 DEF KnownAs
    <3>2. CASE w = "left"
      BY <1>1, <1>2, <1>7, <1>16, <3>2 DEF KnownAs
    <3> QED
      BY <3>1, <3>2
  <2>2. KnownAs(m, v2.left)
    <3>1. CASE w = "shown"
      BY <1>1, <1>2, <1>7, <1>16, <3>1 DEF KnownAs
    <3>2. CASE w = "left"
      BY <1>2, <1>16, <3>2 DEF KnownAs
    <3> QED
      BY <3>1, <3>2
  <2>3. SaveOK(m, v2, l)
    BY <1>5, <1>6, <1>9, <1>16, <2>1, <2>2 DEF SaveOK
  <2> QED
    BY <1>16, <2>3 DEF ItemOK, IsLoad, IsSave
<1> QED
  BY <1>10, <1>11, <1>12, <1>15, <1>16

(* An event is taken from the channel. *)
Heard(v2, v, e) ==
  /\ v2.left = v.left /\ v2.shown.gen = v.shown.gen /\ v2.shown.path = v.shown.path
  /\ (e.kind = "loaded" /\ e.gen = v.shown.gen)
       => v2.shown.loaded /\ v2.shown.revision = e.revision
  /\ ~(e.kind = "loaded" /\ e.gen = v.shown.gen)
       => v2.shown.loaded = v.shown.loaded /\ v2.shown.revision = v.shown.revision

LEMMA FlowHears ==
  ASSUME NEW c \in Clients, NEW mail \in Seq(Commands), NEW ops \in Seq(Ops),
         NEW ev \in Seq(Events), ev # <<>>, NEW v, NEW l, NEW v2,
         FlowOf(c, mail, ops, ev, v, l), TypedView(v), Heard(v2, v, ev[1])
  PROVE  FlowOf(c, mail, ops, Tail(ev), v2, l)
<1> DEFINE t == Tail(ev)
           e == ev[1]
<1>1. /\ Len(ev) \in Nat \ {0} /\ Len(t) \in Nat /\ Len(t) = Len(ev) - 1
      /\ \A i \in 1..Len(t) : i + 1 \in 1..Len(ev) /\ t[i] = ev[i + 1]
  BY TailAt
<1>2. 1 \in 1..Len(ev) /\ \A i \in 1..Len(t) : 1 < i + 1
  BY <1>1
<1>3. PartOf(t, ev)
  BY PartTail
<1>4. Orders(c, mail, ops, t)
  <2>1. Thin(mail, mail, c) /\ Thin(ops, ops, c)
    BY PartSelf, PartThin
  <2>2. Len(mail) \in Nat /\ Len(ops) \in Nat /\ Len(t) \in Nat
    BY <1>1
  <2>3. Orders(c, mail, ops, ev)
    BY DEF FlowOf
  <2> HIDE DEF t
  <2> QED
    BY ONLY <1>3, <2>1, <2>2, <2>3, OrdersThin
<1>5. /\ \A i \in 1..Len(mail) : Typed(mail[i], c) /\ ItemOK(mail[i], v, l, c) /\ Told(e, mail[i], c)
      /\ \A i \in 1..Len(ops) : Typed(ops[i], c) /\ ItemOK(ops[i], v, l, c) /\ Told(e, ops[i], c)
      /\ \A i \in 1..Len(ev) : TypedEvent(ev[i]) /\ EventOK(ev[i], v, l)
  BY <1>2, TypedLemma DEF FlowOf, Orders, ToldAll
<1>6. \A i \in 1..Len(t) : /\ TypedEvent(t[i]) /\ EventOK(t[i], v, l)
                           /\ (e.kind = "loaded" /\ t[i].kind = "loaded") => e.gen < t[i].gen
  BY <1>1, <1>2, <1>5 DEF FlowOf, Orders, ToldInOrder
<1>7. TypedEvent(e) /\ EventOK(e, v, l)
  BY <1>2, <1>5
<1>8. /\ v2.left = v.left /\ v2.shown.gen = v.shown.gen /\ v2.shown.path = v.shown.path
      /\ (e.kind = "loaded" /\ e.gen = v.shown.gen)
           => v2.shown.loaded /\ v2.shown.revision = e.revision
      /\ ~(e.kind = "loaded" /\ e.gen = v.shown.gen)
           => v2.shown.loaded = v.shown.loaded /\ v2.shown.revision = v.shown.revision
      /\ v.shown.gen \in Nat
  BY DEF Heard, TypedView
<1>9. ViewOK(v2, c)
  BY <1>8 DEF FlowOf, ViewOK
<1>10. DocumentOK(v.shown, l) /\ DocumentOK(v.left, l) /\ LaneOK(v, l, c)
  BY DEF FlowOf, LaneOK
<1> HIDE DEF t, e
<1>11. CASE e.kind = "loaded" /\ e.gen = v.shown.gen
  <2>1. v2.shown.loaded /\ v2.shown.revision = e.revision
    BY <1>8, <1>11
  <2>2. ASSUME NEW x, Typed(x, c), ItemOK(x, v, l, c), Told(e, x, c) PROVE ItemOK(x, v2, l, c)
    <3>1. IsLoad(x, c) => LoadOK(x.gen, v2, l, c)
      BY <1>8, <1>11, <2>2 DEF ItemOK, LoadOK, Told
    <3>2. IsSave(x, c) => SaveOK(x, v2, l)
      <4> SUFFICES ASSUME IsSave(x, c) PROVE SaveOK(x, v2, l)
        OBVIOUS
      <4>1. x.gen < v.shown.gen /\ x.gen \in Nat /\ SaveOK(x, v, l)
        BY <1>11, <2>2 DEF Told, Typed, ItemOK
      <4>2. KnownAs(x, v2.shown)
        BY <1>8, <4>1 DEF KnownAs
      <4> QED
        BY <1>8, <4>1, <4>2 DEF SaveOK
    <3> QED
      BY <3>1, <3>2 DEF ItemOK
  <2>3. \A i \in 1..Len(t) : EventOK(t[i], v2, l)
    BY <1>6, <1>8, <1>11 DEF EventOK
  <2>4. DocumentOK(v2.shown, l)
    BY <1>7, <1>8, <1>11, <2>1 DEF EventOK, DocumentOK
  <2>5. LaneOK(v2, l, c)
    BY <1>8, <1>10, <2>4 DEF LaneOK
  <2>6. /\ \A i \in 1..Len(mail) : ItemOK(mail[i], v2, l, c)
        /\ \A i \in 1..Len(ops) : ItemOK(ops[i], v2, l, c)
    BY <1>5, <2>2
  <2>7. FlowOf(c, mail, ops, t, v2, l)
    BY <1>4, <1>9, <2>3, <2>5, <2>6 DEF FlowOf
  <2> QED
    BY <2>7 DEF t
<1>12. CASE ~(e.kind = "loaded" /\ e.gen = v.shown.gen)
  <2>1. v2.shown.loaded = v.shown.loaded /\ v2.shown.revision = v.shown.revision
    BY <1>8, <1>12
  <2>2. \A x : ItemOK(x, v, l, c) => ItemOK(x, v2, l, c)
    BY <1>8, <2>1 DEF ItemOK, LoadOK, SaveOK, KnownAs
  <2>3. \A x : EventOK(x, v, l) => EventOK(x, v2, l)
    BY <1>8, <2>1 DEF EventOK
  <2>4. LaneOK(v2, l, c)
    BY <1>8, <1>10, <2>1 DEF LaneOK, DocumentOK
  <2>5. FlowOf(c, mail, ops, t, v2, l)
    BY <1>4, <1>5, <1>6, <1>9, <2>2, <2>3, <2>4 DEF FlowOf
  <2> QED
    BY <2>5 DEF t
<1> QED
  BY <1>11, <1>12

(* An event is sent. *)
LEMMA FlowTells ==
  ASSUME NEW c, NEW mail \in Seq(Commands), NEW ops \in Seq(Ops), NEW ev \in Seq(Events),
         NEW v, NEW l, NEW e \in Events, FlowOf(c, mail, ops, ev, v, l), EventOK(e, v, l),
         \A i \in 1..Len(ev) : (ev[i].kind = "loaded" /\ e.kind = "loaded") => ev[i].gen < e.gen,
         \A i \in 1..Len(mail) : Told(e, mail[i], c),
         \A i \in 1..Len(ops) : Told(e, ops[i], c)
  PROVE  FlowOf(c, mail, ops, Append(ev, e), v, l)
<1> DEFINE q == Append(ev, e)
           n == Len(ev)
<1>1. /\ n \in Nat /\ Len(q) = n + 1
      /\ \A i \in 1..n : q[i] = ev[i]
      /\ q[n + 1] = e
  BY AppendAt
<1>2. /\ \A i, j \in 1..n :
           (i < j /\ ev[i].kind = "loaded" /\ ev[j].kind = "loaded") => ev[i].gen < ev[j].gen
      /\ \A i \in 1..n, j \in 1..Len(mail) : Told(ev[i], mail[j], c)
      /\ \A i \in 1..n, j \in 1..Len(ops) : Told(ev[i], ops[j], c)
      /\ \A i \in 1..n : EventOK(ev[i], v, l)
      /\ \A i \in 1..n : (ev[i].kind = "loaded" /\ e.kind = "loaded") => ev[i].gen < e.gen
  BY DEF FlowOf, Orders, ToldInOrder, ToldAll
<1> HIDE DEF q, n
<1>3. ToldInOrder(q)
  <2> SUFFICES ASSUME NEW i \in 1..Len(q), NEW j \in 1..Len(q), i < j,
                      q[i].kind = "loaded", q[j].kind = "loaded"
               PROVE  q[i].gen < q[j].gen
    BY DEF ToldInOrder
  <2>1. i \in 1..n /\ q[i] = ev[i]
    BY <1>1, SMTT(30)
  <2>2. CASE j = n + 1
    BY <1>1, <1>2, <2>1, <2>2
  <2>3. CASE j # n + 1
    <3>1. j \in 1..n /\ q[j] = ev[j]
      BY <1>1, <2>3
    <3> QED
      BY <1>2, <2>1, <3>1
  <2> QED
    BY <2>2, <2>3
<1>4. ASSUME NEW i \in 1..Len(q)
      PROVE  /\ \A j \in 1..Len(mail) : Told(q[i], mail[j], c)
             /\ \A j \in 1..Len(ops) : Told(q[i], ops[j], c)
             /\ EventOK(q[i], v, l)
  <2>1. CASE i = n + 1
    BY <1>1, <2>1
  <2>2. CASE i # n + 1
    <3>1. i \in 1..n /\ q[i] = ev[i]
      BY <1>1, <2>2
    <3> QED
      BY <1>2, <3>1
  <2> QED
    BY <2>1, <2>2
<1>5. ToldAll(q, mail, c) /\ ToldAll(q, ops, c) /\ \A i \in 1..Len(q) : EventOK(q[i], v, l)
  BY <1>4 DEF ToldAll
<1>6. FlowOf(c, mail, ops, q, v, l)
  BY <1>3, <1>5 DEF FlowOf, Orders
<1> QED
  BY <1>6 DEF q

LEMMA FlowNotes ==
  ASSUME NEW c, NEW mail \in Seq(Commands), NEW ops \in Seq(Ops), NEW ev \in Seq(Events),
         NEW v, NEW l, NEW e \in Events, FlowOf(c, mail, ops, ev, v, l), e.kind # "loaded"
  PROVE  FlowOf(c, mail, ops, Append(ev, e), v, l)
<1>1. EventOK(e, v, l)
  BY DEF EventOK
<1>2. \A x : Told(e, x, c)
  BY DEF Told
<1> QED
  BY <1>1, <1>2, FlowTells

LEMMA ServesOnly ==
  ASSUME NEW l, NEW g, NEW p \in Paths, l.active = {<<g, p>>}
  PROVE  Serves(l, g) /\ \A h : Serves(l, h) => h = g
<1>1. ASSUME NEW h, Serves(l, h) PROVE h = g
  <2>1. PICK q \in Paths : l.active = {<<h, q>>}
    BY <1>1 DEF Serves
  <2>2. <<h, q>> = <<g, p>>
    BY <2>1
  <2> QED
    BY <2>2
<1> QED
  BY <1>1 DEF Serves

(* What is left when the first operation of the lane is over. *)
LEMMA RestOfLane ==
  ASSUME NEW c, NEW mail \in Seq(Commands), NEW ops \in Seq(Ops), ops # <<>>,
         NEW ev \in Seq(Events), NEW v, NEW k, FlowOf(c, mail, ops, ev, v, k)
  PROVE  /\ Orders(c, mail, Tail(ops), ev) /\ Tail(ops) \in Seq(Ops)
         /\ Typed(ops[1], c) /\ ItemOK(ops[1], v, k, c)
         /\ \A i \in 1..Len(mail) :
              Typed(mail[i], c) /\ ItemOK(mail[i], v, k, c) /\ Before(ops[1], mail[i], c)
         /\ \A i \in 1..Len(Tail(ops)) :
              /\ Typed(Tail(ops)[i], c) /\ ItemOK(Tail(ops)[i], v, k, c)
              /\ Before(ops[1], Tail(ops)[i], c)
         /\ \A i \in 1..Len(ev) : TypedEvent(ev[i]) /\ EventOK(ev[i], v, k) /\ Told(ev[i], ops[1], c)
<1> DEFINE t == Tail(ops)
<1>1. /\ t \in Seq(Ops) /\ Len(ops) \in Nat \ {0} /\ Len(t) \in Nat
      /\ \A i \in 1..Len(t) : i + 1 \in 1..Len(ops) /\ t[i] = ops[i + 1]
  BY TailAt
<1>2. PartOf(t, ops)
  BY PartTail
<1>3. Thin(t, ops, c)
  BY <1>2, PartThin
<1> HIDE DEF t
<1>4. Orders(c, mail, t, ev)
  <2>1. Thin(mail, mail, c) /\ PartOf(ev, ev)
    BY PartSelf, PartThin
  <2>2. Len(mail) \in Nat /\ Len(t) \in Nat /\ Len(ev) \in Nat
    BY <1>1
  <2>3. Orders(c, mail, ops, ev)
    BY DEF FlowOf
  <2> QED
    BY ONLY <1>3, <2>1, <2>2, <2>3, OrdersThin
<1>5. /\ \A i \in 1..Len(mail) : Typed(mail[i], c) /\ ItemOK(mail[i], v, k, c)
      /\ \A i \in 1..Len(ops) : Typed(ops[i], c) /\ ItemOK(ops[i], v, k, c)
      /\ \A i \in 1..Len(ev) : TypedEvent(ev[i]) /\ EventOK(ev[i], v, k)
  BY TypedLemma DEF FlowOf
<1>6. 1 \in 1..Len(ops) /\ \A i \in 1..Len(t) : 1 < i + 1
  BY <1>1
<1>7. /\ \A i \in 1..Len(mail) : Before(ops[1], mail[i], c)
      /\ \A i \in 1..Len(ev) : Told(ev[i], ops[1], c)
  BY <1>6 DEF FlowOf, Orders, Across, ToldAll
<1>8. \A i \in 1..Len(t) : Before(ops[1], t[i], c)
  BY <1>1, <1>6 DEF FlowOf, Orders, Within
<1>9. \A i \in 1..Len(t) : Typed(t[i], c) /\ ItemOK(t[i], v, k, c) /\ Before(ops[1], t[i], c)
  BY <1>1, <1>5, <1>8
<1> QED
  BY <1>1, <1>4, <1>5, <1>6, <1>7, <1>9 DEF t

(* A load was carried out: its document is the one that is served. *)
LEMMA FlowServes ==
  ASSUME NEW c \in Clients, NEW mail \in Seq(Commands), NEW ops \in Seq(Ops), ops # <<>>,
         NEW ev \in Seq(Events), NEW v, NEW k, FlowOf(c, mail, ops, ev, v, k),
         IsLoad(ops[1], c), NEW l, NEW p \in Paths, l.active = {<<ops[1].gen, p>>}, TypedView(v)
  PROVE  /\ FlowOf(c, mail, Tail(ops), ev, v, l)
         /\ \A e : (/\ e.kind = "loaded" /\ e.gen = ops[1].gen /\ l.observed = e.revision
                    /\ e.revision \in Nat) =>
              /\ EventOK(e, v, l)
              /\ \A i \in 1..Len(ev) : (ev[i].kind = "loaded" /\ e.kind = "loaded") => ev[i].gen < e.gen
              /\ \A i \in 1..Len(mail) : Told(e, mail[i], c)
              /\ \A i \in 1..Len(Tail(ops)) : Told(e, Tail(ops)[i], c)
<1> DEFINE t == Tail(ops)
           o == ops[1]
<1>1. /\ Orders(c, mail, t, ev) /\ t \in Seq(Ops) /\ Typed(o, c) /\ ItemOK(o, v, k, c)
      /\ \A i \in 1..Len(mail) : Typed(mail[i], c) /\ ItemOK(mail[i], v, k, c) /\ Before(o, mail[i], c)
      /\ \A i \in 1..Len(t) : Typed(t[i], c) /\ ItemOK(t[i], v, k, c) /\ Before(o, t[i], c)
      /\ \A i \in 1..Len(ev) : TypedEvent(ev[i]) /\ EventOK(ev[i], v, k) /\ Told(ev[i], o, c)
  BY RestOfLane
<1>2. IsLoad(o, c) /\ l.active = {<<o.gen, p>>}
  OBVIOUS
<1> HIDE DEF t, o
<1>3. o.gen \in Nat /\ LoadOK(o.gen, v, k, c)
  BY <1>1, <1>2 DEF Typed, ItemOK
<1>4. Serves(l, o.gen) /\ \A h : Serves(l, h) => h = o.gen
  BY <1>2, ServesOnly
<1>5. l.active # {}
  BY <1>2
<1>6. \A g, r : g # o.gen => Seen(l, g, r)
  BY <1>4, <1>5 DEF Seen
<1>7. ASSUME NEW x, Typed(x, c), ItemOK(x, v, k, c), Before(o, x, c)
      PROVE  /\ ItemOK(x, v, l, c)
             /\ \A e : (e.kind = "loaded" /\ e.gen = o.gen) => Told(e, x, c)
  <2>1. CASE IsLoad(x, c)
    <3>1. x.gen \in Nat /\ LoadOK(x.gen, v, k, c) /\ ~IsSave(x, c) /\ o.gen < x.gen
      BY <1>2, <1>7, <2>1 DEF Typed, ItemOK, Before, IsLoad, IsSave
    <3>2. LoadOK(x.gen, v, l, c)
      BY <1>4, <3>1 DEF LoadOK
    <3> QED
      BY <3>1, <3>2 DEF ItemOK, Told
  <2>2. CASE IsSave(x, c)
    <3>1. x.gen \in Nat /\ SaveOK(x, v, k) /\ ~IsLoad(x, c) /\ x.gen < o.gen
      BY <1>2, <1>7, <2>2 DEF Typed, ItemOK, Before, IsLoad, IsSave
    <3>2. Seen(l, x.gen, x.revision)
      BY <1>3, <1>6, <3>1
    <3>3. SaveOK(x, v, l)
      BY <3>1, <3>2 DEF SaveOK
    <3> QED
      BY <3>1, <3>3 DEF ItemOK, Told
  <2>3. CASE ~IsLoad(x, c) /\ ~IsSave(x, c)
    BY <2>3 DEF ItemOK, Told
  <2> QED
    BY <2>1, <2>2, <2>3
<1>8. ASSUME NEW x, TypedEvent(x), EventOK(x, v, k), Told(x, o, c)
      PROVE  EventOK(x, v, l) /\ (x.kind = "loaded" => x.gen < o.gen)
  <2>1. x.kind = "loaded" => x.gen \in Nat /\ x.gen < o.gen
    BY <1>2, <1>8 DEF TypedEvent, Told
  <2>2. x.kind = "loaded" => Seen(l, x.gen, x.revision)
    BY <1>3, <1>6, <2>1
  <2> QED
    BY <1>8, <2>1, <2>2 DEF EventOK
<1>9. LaneOK(v, l, c)
  <2>1. /\ v.shown.loaded => v.shown.gen \in Nat /\ v.shown.gen < o.gen
        /\ v.left.loaded => v.left.gen \in Nat /\ v.left.gen < o.gen
        /\ o.gen \in 1..MaxGeneration[c] /\ o.gen <= v.shown.gen
    BY <1>3 DEF LoadOK, TypedView
  <2>2. DocumentOK(v.shown, k) /\ DocumentOK(v.left, k)
    BY DEF FlowOf, LaneOK
  <2>3. DocumentOK(v.shown, l) /\ DocumentOK(v.left, l)
    BY <1>3, <1>6, <2>1, <2>2 DEF DocumentOK
  <2>4. ActiveOK(l, c)
    BY <1>2, <1>5, <2>1 DEF ActiveOK
  <2> QED
    BY <1>4, <2>1, <2>3, <2>4 DEF LaneOK
<1>10. FlowOf(c, mail, t, ev, v, l)
  <2>1. ViewOK(v, c)
    BY DEF FlowOf
  <2> QED
    BY <1>1, <1>7, <1>8, <1>9, <2>1 DEF FlowOf
<1>11. ASSUME NEW e, e.kind = "loaded", e.gen = o.gen, l.observed = e.revision, e.revision \in Nat
       PROVE  EventOK(e, v, l)
  <2>1. Seen(l, e.gen, e.revision)
    BY <1>5, <1>11 DEF Seen, None
  <2>2. 0 < o.gen
    BY <1>3 DEF LoadOK
  <2> QED
    BY <1>3, <1>11, <2>1, <2>2 DEF EventOK, LoadOK
<1> QED
  BY <1>1, <1>7, <1>8, <1>10, <1>11 DEF t, o

(* A save was carried out: what it stored is what the lane has seen. *)
LEMMA FlowSaved ==
  ASSUME NEW c \in Clients, NEW mail \in Seq(Commands), NEW ops \in Seq(Ops), ops # <<>>,
         NEW ev \in Seq(Events), NEW v, NEW k, FlowOf(c, mail, ops, ev, v, k),
         IsSave(ops[1], c), NEW l, NEW p \in Paths, k.active = {<<ops[1].gen, p>>},
         l.active = k.active, l.observed = ops[1].revision, TypedView(v)
  PROVE  FlowOf(c, mail, Tail(ops), ev, v, l)
<1> DEFINE t == Tail(ops)
           o == ops[1]
<1>1. /\ Orders(c, mail, t, ev) /\ t \in Seq(Ops) /\ Typed(o, c) /\ ItemOK(o, v, k, c)
      /\ \A i \in 1..Len(mail) : Typed(mail[i], c) /\ ItemOK(mail[i], v, k, c) /\ Before(o, mail[i], c)
      /\ \A i \in 1..Len(t) : Typed(t[i], c) /\ ItemOK(t[i], v, k, c) /\ Before(o, t[i], c)
      /\ \A i \in 1..Len(ev) : TypedEvent(ev[i]) /\ EventOK(ev[i], v, k) /\ Told(ev[i], o, c)
  BY RestOfLane
<1>2. IsSave(o, c) /\ l.active = {<<o.gen, p>>} /\ k.active = l.active /\ l.observed = o.revision
  OBVIOUS
<1> HIDE DEF t, o
<1>3. o.gen \in Nat /\ o.revision \in Nat /\ SaveOK(o, v, k)
  BY <1>1, <1>2 DEF Typed, ItemOK
<1>4. \A h : /\ Serves(l, h) => h = o.gen
             /\ Serves(l, h) => Serves(k, h)
  <2>1. \A h : Serves(l, h) => h = o.gen
    BY <1>2, ServesOnly
  <2>2. \A h : Serves(l, h) => Serves(k, h)
    BY <1>2 DEF Serves
  <2> QED
    BY <2>1, <2>2
<1>5. l.active # {}
  BY <1>2
<1>6. \A g, r : (g = o.gen => o.revision <= r) => Seen(l, g, r)
  <2>1. l.observed # None
    BY <1>2, <1>3 DEF None
  <2> QED
    BY <1>2, <1>4, <1>5, <2>1 DEF Seen
<1>7. ASSUME NEW x, Typed(x, c), ItemOK(x, v, k, c), Before(o, x, c)
      PROVE  ItemOK(x, v, l, c)
  <2>1. CASE IsLoad(x, c)
    <3>1. LoadOK(x.gen, v, k, c) /\ ~IsSave(x, c)
      BY <1>7, <2>1 DEF ItemOK, IsLoad, IsSave
    <3>2. LoadOK(x.gen, v, l, c)
      BY <1>4, <3>1 DEF LoadOK
    <3> QED
      BY <3>1, <3>2 DEF ItemOK
  <2>2. CASE IsSave(x, c)
    <3>1. SaveOK(x, v, k) /\ ~IsLoad(x, c) /\ (x.gen = o.gen => o.revision <= x.revision)
      BY <1>2, <1>7, <2>2 DEF ItemOK, Before, IsLoad, IsSave
    <3>2. Seen(l, x.gen, x.revision)
      BY <1>6, <3>1
    <3>3. SaveOK(x, v, l)
      BY <3>1, <3>2 DEF SaveOK
    <3> QED
      BY <3>1, <3>3 DEF ItemOK
  <2>3. CASE ~IsLoad(x, c) /\ ~IsSave(x, c)
    BY <2>3 DEF ItemOK
  <2> QED
    BY <2>1, <2>2, <2>3
<1>8. ASSUME NEW x, TypedEvent(x), EventOK(x, v, k), Told(x, o, c)
      PROVE  EventOK(x, v, l)
  <2>1. x.kind = "loaded" => x.gen # o.gen
    BY <1>2, <1>3, <1>8 DEF TypedEvent, Told
  <2>2. x.kind = "loaded" => Seen(l, x.gen, x.revision)
    BY <1>6, <2>1
  <2> QED
    BY <1>8, <2>2 DEF EventOK
<1>9. LaneOK(v, l, c)
  <2>1. DocumentOK(v.shown, k) /\ DocumentOK(v.left, k) /\ ActiveOK(k, c)
    BY DEF FlowOf, LaneOK
  <2>2. KnownAs(o, v.shown) /\ KnownAs(o, v.left)
    BY <1>3 DEF SaveOK
  <2>3. /\ Seen(l, v.shown.gen, v.shown.revision)
        /\ Seen(l, v.left.gen, v.left.revision)
    BY <1>6, <2>2 DEF KnownAs
  <2>4. DocumentOK(v.shown, l) /\ DocumentOK(v.left, l)
    BY <2>1, <2>3 DEF DocumentOK
  <2>5. ActiveOK(l, c)
    BY <1>2, <1>5, <2>1 DEF ActiveOK
  <2>6. \A h \in Nat : Serves(l, h) => h <= v.shown.gen
    BY <1>4 DEF FlowOf, LaneOK
  <2> QED
    BY <2>4, <2>5, <2>6 DEF LaneOK
<1>10. FlowOf(c, mail, t, ev, v, l)
  <2>1. ViewOK(v, c)
    BY DEF FlowOf
  <2> QED
    BY <1>1, <1>7, <1>8, <1>9, <2>1 DEF FlowOf
<1> QED
  BY <1>10 DEF t

-----------------------------------------------------------------------------
(* What each step does to the flow *)

FlowFor(c) == FlowOf(c, mailbox, lane[c].ops, Waiting(c), view[c], lane[c])

LEMMA FlowParts ==
  ASSUME TypeOK, NEW c \in Clients
  PROVE  /\ mailbox \in Seq(Commands) /\ lane[c].ops \in Seq(Ops) /\ Waiting(c) \in Seq(Events)
         /\ Len(mailbox) \in Nat /\ Len(lane[c].ops) \in Nat /\ Len(Waiting(c)) \in Nat
         /\ TypedView(view[c]) /\ lane[c].observed \in Nat \cup {None}
<1>1. mailbox \in Seq(Commands)
  BY DEF TypeOK
<1>2. lane[c].ops \in Seq(Ops) /\ lane[c].observed \in Nat \cup {None}
  BY LaneParts
<1>3. Waiting(c) \in Seq(Events)
  <2>1. inbox[c] \in Seq(Events) /\ sink[c].pending \in Seq(Events)
    BY SinkParts
  <2>2. inbox[c] \o sink[c].pending \in Seq(Events)
    BY <2>1, CatAt
  <2> QED
    BY <2>2 DEF Waiting
<1>4. TypedView(view[c])
  BY ViewParts DEF TypedView
<1> QED
  BY <1>1, <1>2, <1>3, <1>4

LEMMA InitFlow == Init => FlowInv
<1> SUFFICES ASSUME Init, NEW c \in Clients PROVE FlowFor(c)
  BY DEF FlowInv, FlowFor
<1> DEFINE v == View(NoDocument, NoDocument, 0)
<1>1. /\ mailbox = <<>> /\ lane[c] = NoLane /\ Waiting(c) = <<>> /\ view[c] = v
  <2>1. mailbox = <<>> /\ lane[c] = NoLane /\ view[c] = v /\ inbox[c] = <<>> /\ sink[c] = NoSink
    BY DEF Init
  <2>2. <<>> \o <<>> = <<>>
    OBVIOUS
  <2> QED
    BY <2>1, <2>2, NoSinkIs DEF Waiting
<1>2. /\ NoLane.status = "absent" /\ NoLane.ops = <<>>
      /\ NoLane.active = {} /\ NoLane.observed = None
  BY NoLaneIs
<1>3. /\ NoDocument.gen = 0 /\ ~NoDocument.loaded
  BY DEF NoDocument, Document
<1>4. v.shown = NoDocument /\ v.left = NoDocument
  BY ViewIs
<1> HIDE DEF v
<1>5. \A h : ~Serves(NoLane, h)
  BY <1>2 DEF Serves
<1>6. LaneOK(v, NoLane, c)
  BY <1>2, <1>3, <1>4, <1>5 DEF LaneOK, DocumentOK, ActiveOK
<1>7. ViewOK(v, c)
  <2>1. MaxGeneration[c] \in Nat
    BY ServiceAssumption
  <2> QED
    BY <1>3, <1>4, <2>1 DEF ViewOK
<1>8. Len(<<>>) = 0 /\ \A i \in 1..0 : FALSE
  OBVIOUS
<1>9. Orders(c, <<>>, <<>>, <<>>)
  BY <1>8 DEF Orders, Within, Across, ToldInOrder, ToldAll
<1>10. FlowOf(c, <<>>, <<>>, <<>>, v, NoLane)
  BY <1>6, <1>7, <1>8, <1>9 DEF FlowOf
<1> QED
  BY <1>1, <1>2, <1>10 DEF FlowFor

LEMMA FlowPartsNext ==
  ASSUME TypeOK', NEW c \in Clients
  PROVE  /\ mailbox' \in Seq(Commands) /\ lane'[c].ops \in Seq(Ops) /\ Waiting(c)' \in Seq(Events)
         /\ Len(mailbox') \in Nat /\ Len(lane'[c].ops) \in Nat /\ Len(Waiting(c)') \in Nat
<1>1. mailbox' \in Seq(Commands)
  BY DEF TypeOK
<1>2. lane'[c].ops \in Seq(Ops)
  <2>1. lane'[c] \in Lanes
    BY DEF TypeOK
  <2> QED
    BY <2>1 DEF Lanes
<1>3. Waiting(c)' \in Seq(Events)
  <2>1. inbox'[c] \in Seq(Events) /\ sink'[c].pending \in Seq(Events)
    BY DEF TypeOK
  <2>2. inbox'[c] \o sink'[c].pending \in Seq(Events)
    BY <2>1, CatAt
  <2> QED
    BY <2>2 DEF Waiting
<1> QED
  BY <1>1, <1>2, <1>3

(* A client for which nothing comes in addition. *)
LEMMA FlowKept ==
  ASSUME TypeOK', NEW k \in Clients, FlowFor(k), Thin(mailbox', mailbox, k),
         Thin(lane'[k].ops, lane[k].ops, k), PartOf(Waiting(k)', Waiting(k)),
         AsGoodAs(lane'[k], lane[k], k), view'[k] = view[k]
  PROVE  FlowFor(k)'
<1> DEFINE q == mailbox'
           o == lane'[k].ops
           w == Waiting(k)'
           l == lane'[k]
           u == Waiting(k)
<1>1. Len(q) \in Nat /\ Len(o) \in Nat /\ Len(w) \in Nat
  BY FlowPartsNext
<1>2. FlowOf(k, mailbox, lane[k].ops, u, view[k], lane[k])
  BY DEF FlowFor
<1>3. /\ Thin(q, mailbox, k) /\ Thin(o, lane[k].ops, k) /\ PartOf(w, u)
      /\ AsGoodAs(l, lane[k], k)
  OBVIOUS
<1> HIDE DEF q, o, w, l, u
<1>4. FlowOf(k, q, o, w, view[k], l)
  BY ONLY <1>1, <1>2, <1>3, FlowThin
<1> QED
  BY <1>4 DEF FlowFor, q, o, w, l

(* A client whose lane and events stay as they are. *)
LEMMA FlowUntouched ==
  ASSUME TypeOK, TypeOK', NEW k \in Clients, FlowFor(k), Thin(mailbox', mailbox, k),
         lane'[k] = lane[k], inbox'[k] = inbox[k], sink'[k] = sink[k], view'[k] = view[k]
  PROVE  FlowFor(k)'
<1>1. Waiting(k)' = Waiting(k)
  BY DEF Waiting
<1>2. /\ Thin(lane'[k].ops, lane[k].ops, k) /\ PartOf(Waiting(k)', Waiting(k))
  <2>1. lane[k].ops \in Seq(Ops) /\ Waiting(k) \in Seq(Events)
    BY FlowParts
  <2>2. PartOf(lane[k].ops, lane[k].ops) /\ PartOf(Waiting(k), Waiting(k))
    BY <2>1, PartSelf
  <2> QED
    BY <1>1, <2>2, PartThin
<1>3. AsGoodAs(lane'[k], lane[k], k)
  <2>1. ActiveOK(lane[k], k)
    BY DEF FlowFor, FlowOf, LaneOK
  <2> QED
    BY <2>1, SameLane
<1> QED
  BY <1>2, <1>3, FlowKept

LEMMA MailSame == ASSUME TypeOK, NEW k, mailbox' = mailbox PROVE Thin(mailbox', mailbox, k)
BY PartSelf, PartThin DEF TypeOK

LEMMA MailLonger ==
  ASSUME TypeOK, NEW k, NEW m \in Commands, mailbox' = Append(mailbox, m),
         ~IsLoad(m, k), ~IsSave(m, k)
  PROVE  Thin(mailbox', mailbox, k)
BY AppendThin DEF TypeOK

LEMMA MailShorter ==
  ASSUME TypeOK, NEW k, mailbox # <<>>, mailbox' = Tail(mailbox) PROVE Thin(mailbox', mailbox, k)
BY PartTail, PartThin DEF TypeOK

(* What changes neither lanes nor events nor views. *)
LEMMA FlowFrame ==
  ASSUME TypeOK, TypeOK', FlowInv, UNCHANGED <<lane, inbox, sink, view>>,
         \A k \in Clients : Thin(mailbox', mailbox, k)
  PROVE  FlowInv'
<1>1. ASSUME NEW k \in Clients PROVE FlowFor(k)'
  <2>1. FlowFor(k)
    BY DEF FlowInv, FlowFor
  <2>2. lane'[k] = lane[k] /\ inbox'[k] = inbox[k] /\ sink'[k] = sink[k] /\ view'[k] = view[k]
    OBVIOUS
  <2> QED
    BY <2>1, <2>2, FlowUntouched
<1> QED
  BY <1>1 DEF FlowInv, FlowFor

LEMMA FrameFlow ==
  ASSUME BaseInv, BaseInv', FlowInv
  PROVE  /\ \A c \in Clients : (Attach(c) \/ MarkDetached(c) \/ Nudge(c)) => FlowInv'
         /\ (Inspect \/ Shutdown \/ Joins \/ Drained \/ TimesOut \/ Rests) => FlowInv'
         /\ \A p \in Paths : ForeignSave(p) => FlowInv'
<1>0. TypeOK /\ TypeOK'
  BY DEF BaseInv
<1>1. ASSUME UNCHANGED <<lane, inbox, sink, view>>,
             \/ mailbox' = mailbox
             \/ \E m \in Commands : /\ mailbox' = Append(mailbox, m)
                                    /\ m.kind \notin {"load", "save"}
      PROVE  FlowInv'
  <2>1. ASSUME NEW k \in Clients PROVE Thin(mailbox', mailbox, k)
    <3>1. CASE mailbox' = mailbox
      BY <1>0, <3>1, MailSame
    <3>2. CASE mailbox' # mailbox
      <4>1. PICK m \in Commands : mailbox' = Append(mailbox, m) /\ m.kind \notin {"load", "save"}
        BY <1>1, <3>2
      <4>2. ~IsLoad(m, k) /\ ~IsSave(m, k)
        BY <4>1 DEF IsLoad, IsSave
      <4> QED
        BY <1>0, <4>1, <4>2, MailLonger
    <3> QED
      BY <3>1, <3>2
  <2> QED
    BY <1>0, <1>1, <2>1, FlowFrame
<1>2. /\ \A c \in Clients : [kind |-> "attach", client |-> c] \in Commands
      /\ \A c \in Clients : [kind |-> "attach", client |-> c].kind = "attach"
      /\ [kind |-> "wake"] \in Commands /\ [kind |-> "wake"].kind = "wake"
      /\ [kind |-> "inspect"] \in Commands /\ [kind |-> "inspect"].kind = "inspect"
      /\ [kind |-> "shutdown"] \in Commands /\ [kind |-> "shutdown"].kind = "shutdown"
  BY DEF Commands
<1>3. ASSUME NEW c \in Clients, Attach(c) PROVE FlowInv'
  <2>1. UNCHANGED <<lane, inbox, sink, view>>
    BY <1>3 DEF Attach, actor
  <2>2. mailbox' = Append(mailbox, [kind |-> "attach", client |-> c])
    BY <1>3 DEF Attach, Posts
  <2> QED
    BY <1>1, <1>2, <2>1, <2>2
<1>4. ASSUME NEW c \in Clients, MarkDetached(c) PROVE FlowInv'
  BY <1>1, <1>4 DEF MarkDetached, actor
<1>5. ASSUME NEW c \in Clients, Nudge(c) PROVE FlowInv'
  <2>1. UNCHANGED <<lane, inbox, sink, view>>
    BY <1>5 DEF Nudge, actor
  <2>2. mailbox' = mailbox \/ mailbox' = Append(mailbox, [kind |-> "wake"])
    BY <1>5 DEF Nudge
  <2> QED
    BY <1>1, <1>2, <2>1, <2>2
<1>6. ASSUME Inspect PROVE FlowInv'
  <2>1. UNCHANGED <<lane, inbox, sink, view>>
    BY <1>6 DEF Inspect, actor, outside
  <2>2. mailbox' = Append(mailbox, [kind |-> "inspect"])
    BY <1>6 DEF Inspect, Posts
  <2> QED
    BY <1>1, <1>2, <2>1, <2>2
<1>7. ASSUME Shutdown PROVE FlowInv'
  <2>1. UNCHANGED <<lane, inbox, sink, view>>
    BY <1>7 DEF Shutdown, actor
  <2>2. mailbox' = Append(mailbox, [kind |-> "shutdown"])
    BY <1>7 DEF Shutdown, Posts
  <2> QED
    BY <1>1, <1>2, <2>1, <2>2
<1>8. (Joins \/ Drained \/ TimesOut \/ Rests) => FlowInv'
  <2>1. (Joins \/ Drained \/ TimesOut \/ Rests)
          => UNCHANGED <<lane, inbox, sink, view>> /\ mailbox' = mailbox
    BY DEF Joins, Drained, TimesOut, Rests, actor, outside
  <2> QED
    BY <1>1, <2>1
<1>9. ASSUME NEW p \in Paths, ForeignSave(p) PROVE FlowInv'
  <2>1. UNCHANGED <<lane, inbox, sink, view>> /\ mailbox' = mailbox
    BY <1>9 DEF ForeignSave, actor, outside
  <2> QED
    BY <1>1, <2>1
<1> QED
  BY <1>3, <1>4, <1>5, <1>6, <1>7, <1>8, <1>9

(* A document is opened, its load posted or refused. *)
LEMMA ShowsFlow ==
  ASSUME BaseInv, BaseInv', FlowInv, NEW c \in Clients, NEW p \in Paths
  PROVE  (SubmitLoad(c, p) \/ RefusedLoad(c, p)) => FlowInv'
<1>0. TypeOK /\ TypeOK'
  BY DEF BaseInv
<1> SUFFICES ASSUME SubmitLoad(c, p) \/ RefusedLoad(c, p) PROVE FlowInv'
  OBVIOUS
<1> DEFINE m == [kind |-> "load", client |-> c, gen |-> view[c].shown.gen + 1, path |-> p]
<1>1. /\ Shows(c, p) /\ UNCHANGED <<lane, inbox, sink>>
      /\ mailbox' = mailbox \/ mailbox' = Append(mailbox, m)
  BY DEF SubmitLoad, RefusedLoad, Posts, actor
<1>2. m \in Commands /\ IsLoad(m, c) /\ m.gen = view[c].shown.gen + 1 /\ m.client = c /\ m.kind = "load"
  BY <1>0, ViewParts DEF Commands, Loads, IsLoad
<1> HIDE DEF m
<1>3. /\ \A k \in Clients \ {c} : view'[k] = view[k]
      /\ Opened(view'[c], view[c], p) /\ view[c].shown.gen < MaxGeneration[c]
  BY <1>0, <1>1, ShowsView DEF Opened
<1>4. ASSUME NEW k \in Clients, k # c PROVE FlowFor(k)'
  <2>1. FlowFor(k)
    BY DEF FlowInv, FlowFor
  <2>2. ~IsLoad(m, k) /\ ~IsSave(m, k)
    BY <1>2, <1>4 DEF IsLoad, IsSave
  <2>3. Thin(mailbox', mailbox, k)
    BY <1>0, <1>1, <1>2, <2>2, MailSame, MailLonger
  <2>4. lane'[k] = lane[k] /\ inbox'[k] = inbox[k] /\ sink'[k] = sink[k] /\ view'[k] = view[k]
    BY <1>1, <1>3, <1>4
  <2> QED
    BY <1>0, <2>1, <2>3, <2>4, FlowUntouched
<1>5. FlowFor(c)'
  <2> DEFINE ops == lane[c].ops
             ev == Waiting(c)
             v == view[c]
             v2 == view'[c]
             l == lane[c]
  <2>1. /\ mailbox \in Seq(Commands) /\ ops \in Seq(Ops) /\ ev \in Seq(Events)
        /\ Len(ops) \in Nat /\ Len(ev) \in Nat /\ TypedView(v)
    BY <1>0, FlowParts
  <2>2. FlowOf(c, mailbox, ops, ev, v, l)
    BY DEF FlowInv
  <2>3. lane'[c] = l /\ Waiting(c)' = ev /\ Opened(v2, v, p) /\ v.shown.gen < MaxGeneration[c]
    BY <1>1, <1>3 DEF Waiting
  <2>4. IsLoad(m, c) /\ m.gen = v.shown.gen + 1
    BY <1>2
  <2> HIDE DEF ops, ev, v, v2, l
  <2>5. /\ FlowOf(c, mailbox, ops, ev, v2, l)
        /\ \A x : (IsLoad(x, c) /\ x.gen = v.shown.gen + 1) =>
             /\ \A i \in 1..Len(mailbox) : Before(mailbox[i], x, c)
             /\ \A i \in 1..Len(ops) : Before(ops[i], x, c)
             /\ \A i \in 1..Len(ev) : Told(ev[i], x, c)
             /\ ItemOK(x, v2, l, c)
    BY <2>1, <2>2, <2>3, FlowShows
  <2>6. FlowOf(c, Append(mailbox, m), ops, ev, v2, l)
    <3>1. /\ \A i \in 1..Len(mailbox) : Before(mailbox[i], m, c)
          /\ \A i \in 1..Len(ops) : Before(ops[i], m, c)
          /\ \A i \in 1..Len(ev) : Told(ev[i], m, c)
          /\ ItemOK(m, v2, l, c)
      BY <2>4, <2>5
    <3>2. FlowOf(c, mailbox, ops, ev, v2, l)
      BY <2>5
    <3> QED
      BY ONLY <1>2, <2>1, <3>1, <3>2, FlowPost
  <2>7. FlowOf(c, mailbox', ops, ev, v2, l)
    BY <1>1, <2>5, <2>6
  <2> QED
    BY <2>3, <2>7 DEF FlowFor, ops, v2, l
<1> QED
  BY <1>4, <1>5 DEF FlowInv, FlowFor

LEMMA SaveFlow ==
  ASSUME BaseInv, BaseInv', FlowInv, NEW c \in Clients, NEW w \in {"shown", "left"},
         NEW r \in 1..MaxRevision, SubmitSave(c, w, r)
  PROVE  FlowInv'
<1>0. TypeOK /\ TypeOK' /\ r \in Nat /\ r > 0
  BY DEF BaseInv
<1>1. PICK d, s, m :
        /\ d = IF w = "shown" THEN view[c].shown ELSE view[c].left
        /\ d.loaded /\ d.revision <= r /\ d.gen \in Nat /\ d.path \in Paths
        /\ s \in Documents /\ s.gen = d.gen /\ s.path = d.path /\ s.revision = r /\ s.loaded
        /\ m \in Saves /\ m.kind = "save" /\ m.client = c /\ m.gen = d.gen /\ m.path = d.path
        /\ m.revision = r
        /\ mailbox' = Append(mailbox, m)
        /\ view' \in [Clients -> [shown : Documents, left : Documents, saves : Nat]]
        /\ \A k \in Clients \ {c} : view'[k] = view[k]
        /\ view'[c].shown = IF w = "shown" THEN s ELSE view[c].shown
        /\ view'[c].left = IF w = "shown" THEN view[c].left ELSE s
  BY <1>0, SubmitSaveView
<1>2. UNCHANGED <<lane, inbox, sink>>
  BY DEF SubmitSave, actor
<1>3. m \in Commands /\ IsSave(m, c) /\ \A k \in Clients \ {c} : ~IsLoad(m, k) /\ ~IsSave(m, k)
  BY <1>1 DEF Commands, IsLoad, IsSave
<1>4. ASSUME NEW k \in Clients, k # c PROVE FlowFor(k)'
  <2>1. FlowFor(k)
    BY DEF FlowInv, FlowFor
  <2>2. Thin(mailbox', mailbox, k)
    BY <1>0, <1>1, <1>3, <1>4, MailLonger
  <2>3. lane'[k] = lane[k] /\ inbox'[k] = inbox[k] /\ sink'[k] = sink[k] /\ view'[k] = view[k]
    BY <1>1, <1>2, <1>4
  <2> QED
    BY <1>0, <2>1, <2>2, <2>3, FlowUntouched
<1>5. FlowFor(c)'
  <2> DEFINE ops == lane[c].ops
             ev == Waiting(c)
             v == view[c]
             v2 == view'[c]
             l == lane[c]
  <2>1. /\ mailbox \in Seq(Commands) /\ ops \in Seq(Ops) /\ ev \in Seq(Events)
        /\ Len(ops) \in Nat /\ Len(ev) \in Nat /\ TypedView(v) /\ l.observed \in Nat \cup {None}
    BY <1>0, FlowParts
  <2>2. FlowOf(c, mailbox, ops, ev, v, l)
    BY DEF FlowInv
  <2>3. lane'[c] = l /\ Waiting(c)' = ev
    BY <1>2 DEF Waiting
  <2>4. HandedIn(v2, v, w, s, d, r)
    BY <1>1 DEF HandedIn
  <2> HIDE DEF ops, ev, v, v2, l
  <2>5. /\ FlowOf(c, mailbox, ops, ev, v2, l)
        /\ \A x : (IsSave(x, c) /\ x.gen = d.gen /\ x.revision = r) =>
             /\ \A i \in 1..Len(mailbox) : Before(mailbox[i], x, c)
             /\ \A i \in 1..Len(ops) : Before(ops[i], x, c)
             /\ \A i \in 1..Len(ev) : Told(ev[i], x, c)
             /\ ItemOK(x, v2, l, c)
    BY ONLY <1>0, <2>1, <2>2, <2>4, FlowHandsIn
  <2>6. FlowOf(c, Append(mailbox, m), ops, ev, v2, l)
    <3>1. /\ \A i \in 1..Len(mailbox) : Before(mailbox[i], m, c)
          /\ \A i \in 1..Len(ops) : Before(ops[i], m, c)
          /\ \A i \in 1..Len(ev) : Told(ev[i], m, c)
          /\ ItemOK(m, v2, l, c)
      BY <1>1, <1>3, <2>5
    <3>2. FlowOf(c, mailbox, ops, ev, v2, l)
      BY <2>5
    <3> QED
      BY ONLY <1>3, <2>1, <3>1, <3>2, FlowPost
  <2> QED
    BY <1>1, <2>3, <2>6 DEF FlowFor, ops, v2, l
<1> QED
  BY <1>4, <1>5 DEF FlowInv, FlowFor

LEMMA ReceiveFlow ==
  ASSUME BaseInv, BaseInv', FlowInv, NEW c \in Clients
  PROVE  (Receive(c) \/ StopListening(c)) => FlowInv'
<1>0. TypeOK /\ TypeOK'
  BY DEF BaseInv
<1>1. ASSUME Receive(c) PROVE FlowInv'
  <2> DEFINE ev == Waiting(c)
             v == view[c]
             v2 == view'[c]
             l == lane[c]
             ops == lane[c].ops
  <2>1. mailbox' = mailbox /\ UNCHANGED <<lane, sink>>
    BY <1>1 DEF Receive, actor
  <2>2. /\ \A k \in Clients \ {c} : inbox'[k] = inbox[k] /\ view'[k] = view[k]
        /\ ev \in Seq(Events) /\ ev # <<>> /\ inbox'[c] \o sink[c].pending = Tail(ev)
        /\ v2.shown = Informed(v.shown, Head(ev)) /\ v2.left = v.left
    BY <1>0, <1>1, ReceiveView
  <2>3. /\ mailbox \in Seq(Commands) /\ ops \in Seq(Ops) /\ TypedView(v)
    BY <1>0, FlowParts
  <2>4. FlowOf(c, mailbox, ops, ev, v, l)
    BY DEF FlowInv
  <2>5. v.shown \in Documents
    BY <1>0, ViewParts
  <2>6. Waiting(c)' = Tail(ev)
    BY <2>1, <2>2 DEF Waiting
  <2> HIDE DEF ev, v, v2, l, ops
  <2>7. Heard(v2, v, ev[1])
    <3>1. Head(ev) = ev[1] /\ Head(ev) \in Events
      BY <2>2, TailAt
    <3> QED
      BY <2>2, <2>5, <3>1, InformedLemma DEF Heard
  <2>8. FlowOf(c, mailbox, ops, Tail(ev), v2, l)
    BY <2>2, <2>3, <2>4, <2>7, FlowHears
  <2>9. FlowFor(c)'
    BY <2>1, <2>6, <2>8 DEF FlowFor, ops, v2, l
  <2>10. ASSUME NEW k \in Clients, k # c PROVE FlowFor(k)'
    <3>1. FlowFor(k)
      BY DEF FlowInv, FlowFor
    <3>2. Thin(mailbox', mailbox, k)
      BY <1>0, <2>1, MailSame
    <3>3. lane'[k] = lane[k] /\ inbox'[k] = inbox[k] /\ sink'[k] = sink[k] /\ view'[k] = view[k]
      BY <2>1, <2>2, <2>10
    <3> QED
      BY <1>0, <3>1, <3>2, <3>3, FlowUntouched
  <2> QED
    BY <2>9, <2>10 DEF FlowInv, FlowFor
<1>2. ASSUME StopListening(c) PROVE FlowInv'
  <2>1. /\ inbox' = [inbox EXCEPT ![c] = <<>>]
        /\ mailbox' = mailbox /\ UNCHANGED <<lane, sink, view>>
    BY <1>2 DEF StopListening, actor
  <2>2. \A k \in Clients : inbox'[k] = IF k = c THEN <<>> ELSE inbox[k]
    BY <1>0, <2>1 DEF TypeOK
  <2>3. ASSUME NEW k \in Clients PROVE FlowFor(k)'
    <3>1. FlowFor(k)
      BY DEF FlowInv, FlowFor
    <3>2. Thin(mailbox', mailbox, k)
      BY <1>0, <2>1, MailSame
    <3>3. CASE k # c
      <4>1. lane'[k] = lane[k] /\ inbox'[k] = inbox[k] /\ sink'[k] = sink[k] /\ view'[k] = view[k]
        BY <2>1, <2>2, <3>3
      <4> QED
        BY <1>0, <3>1, <3>2, <4>1, FlowUntouched
    <3>4. CASE k = c
      <4>1. inbox[k] \in Seq(Events) /\ sink[k].pending \in Seq(Events)
        BY <1>0, SinkParts
      <4>2. <<>> \o sink[k].pending = sink[k].pending
        BY <4>1, ConcatEmptySeq
      <4>3. Waiting(k)' = sink[k].pending
        BY <2>1, <2>2, <3>4, <4>2 DEF Waiting
      <4>4. PartOf(Waiting(k)', Waiting(k))
        BY <4>1, <4>3, PartSuffix DEF Waiting
      <4>5. Thin(lane'[k].ops, lane[k].ops, k)
        BY <1>0, <2>1, FlowParts, PartSelf, PartThin
      <4>6. AsGoodAs(lane'[k], lane[k], k)
        <5>1. ActiveOK(lane[k], k)
          BY <3>1 DEF FlowFor, FlowOf, LaneOK
        <5> QED
          BY <2>1, <5>1, SameLane
      <4> QED
        BY <1>0, <2>1, <3>1, <3>2, <4>4, <4>5, <4>6, FlowKept
    <3> QED
      BY <3>3, <3>4
  <2> QED
    BY <2>3 DEF FlowInv, FlowFor
<1> QED
  BY <1>1, <1>2

LEMMA FlowRelane ==
  ASSUME NEW c, NEW mail \in Seq(Commands), NEW ops \in Seq(Ops), NEW ev \in Seq(Events), NEW v,
         NEW k, NEW l, FlowOf(c, mail, ops, ev, v, k), AsGoodAs(l, k, c)
  PROVE  FlowOf(c, mail, ops, ev, v, l)
<1>1. Thin(mail, mail, c) /\ Thin(ops, ops, c) /\ PartOf(ev, ev)
  BY PartSelf, PartThin
<1>2. Len(mail) \in Nat /\ Len(ops) \in Nat /\ Len(ev) \in Nat
  OBVIOUS
<1> QED
  BY ONLY <1>1, <1>2, FlowOf(c, mail, ops, ev, v, k), AsGoodAs(l, k, c), FlowThin

(* A client is attached: nothing of it was known before. *)
LEMMA FlowArrives ==
  ASSUME NEW c, NEW mail \in Seq(Commands), mail # <<>>, NEW ops, NEW ev, NEW v, NEW k, NEW l,
         FlowOf(c, mail, ops, ev, v, k), ~v.shown.loaded, ~v.left.loaded,
         \A i \in 1..Len(mail) : ~IsSave(mail[i], c), l.active = {}, l.observed = None
  PROVE  FlowOf(c, Tail(mail), <<>>, <<>>, v, l)
<1> DEFINE t == Tail(mail)
<1>1. /\ t \in Seq(Commands) /\ Len(t) \in Nat
      /\ \A i \in 1..Len(t) : i + 1 \in 1..Len(mail) /\ t[i] = mail[i + 1]
  BY TailAt
<1>2. Thin(t, mail, c)
  BY PartTail, PartThin
<1> HIDE DEF t
<1>3. Len(<<>>) = 0 /\ \A i \in 1..0 : FALSE
  OBVIOUS
<1>4. Orders(c, t, <<>>, <<>>)
  <2>1. PartOf(<<>>, ev) /\ Thin(<<>>, ops, c)
    BY PartEmpty, PartThin
  <2>2. Len(t) \in Nat /\ Len(<<>>) \in Nat
    BY <1>1, <1>3
  <2>3. Orders(c, mail, ops, ev)
    BY DEF FlowOf
  <2> QED
    BY ONLY <1>2, <2>1, <2>2, <2>3, OrdersThin
<1>5. \A h : ~Serves(l, h)
  BY DEF Serves
<1>6. \A i \in 1..Len(t) : ItemOK(t[i], v, l, c)
  <2> SUFFICES ASSUME NEW i \in 1..Len(t) PROVE ItemOK(t[i], v, l, c)
    OBVIOUS
  <2>1. ItemOK(t[i], v, k, c) /\ ~IsSave(t[i], c)
    BY <1>1 DEF FlowOf
  <2> QED
    BY <1>5, <2>1 DEF ItemOK, LoadOK
<1>7. LaneOK(v, l, c)
  BY <1>5 DEF LaneOK, DocumentOK, ActiveOK
<1>8. FlowOf(c, t, <<>>, <<>>, v, l)
  BY <1>3, <1>4, <1>6, <1>7 DEF FlowOf
<1> QED
  BY <1>8 DEF t

(* Lanes are closed: a detach is put behind their operations, and at most  *)
(* their events are taken away.                                            *)
LEMMA ClosesFlow ==
  ASSUME BaseInv, TypeOK', NEW L \in SUBSET OpenLanes, Closes(L), NEW k \in Clients, FlowFor(k),
         Thin(mailbox', mailbox, k), PartOf(Waiting(k)', Waiting(k)), view'[k] = view[k]
  PROVE  FlowFor(k)'
<1>0. TypeOK /\ LaneInv
  BY DEF BaseInv
<1>1. /\ \A c \in Clients \ L : lane'[c] = lane[c]
      /\ \A c \in L : lane'[c] = Closed(lane[c])
  BY <1>0, ClosesLemma
<1>2. lane[k] \in Lanes /\ lane[k].ops \in Seq(Ops) /\ LaneInvOf(lane[k], k) /\ ActiveOK(lane[k], k)
  BY <1>0, LaneParts DEF LaneInv, FlowFor, FlowOf, LaneOK
<1>3. CASE k \in L
  <2>1. lane[k].status = "open" /\ lane'[k] = Closed(lane[k])
    BY <1>1, <1>3 DEF OpenLanes
  <2>2. /\ lane'[k].active = lane[k].active /\ lane'[k].observed = lane[k].observed
        /\ \E d \in Ops : d.kind = "detach" /\ lane'[k].ops = Append(lane[k].ops, d)
    BY <1>2, <2>1, ClosedLemma
  <2>3. PICK d \in Ops : d.kind = "detach" /\ lane'[k].ops = Append(lane[k].ops, d)
    BY <2>2
  <2>4. ~IsLoad(d, k) /\ ~IsSave(d, k)
    BY <2>3 DEF IsLoad, IsSave
  <2>5. Thin(lane'[k].ops, lane[k].ops, k)
    BY <1>2, <2>3, <2>4, AppendThin
  <2>6. AsGoodAs(lane'[k], lane[k], k)
    BY <1>2, <2>1, <2>2, SameLane
  <2> QED
    BY <2>5, <2>6, FlowKept
<1>4. CASE k \notin L
  <2>1. lane'[k] = lane[k]
    BY <1>1, <1>4
  <2>2. Thin(lane'[k].ops, lane[k].ops, k)
    BY <1>2, <2>1, PartSelf, PartThin
  <2>3. AsGoodAs(lane'[k], lane[k], k)
    BY <1>2, <2>1, SameLane
  <2> QED
    BY <2>2, <2>3, FlowKept
<1> QED
  BY <1>3, <1>4

(* A command enters a lane. *)
LEMMA EntersFlow ==
  ASSUME BaseInv, TypeOK', FlowInv, NEW c \in Clients, mailbox # <<>>, mailbox' = Tail(mailbox),
         NEW keep \in Seq(Ops), NEW e \in Ops, Alike(e, mailbox[1]),
         Len(keep) <= Len(lane[c].ops), \A i \in 1..Len(keep) : keep[i] = lane[c].ops[i],
         lane[c].status = "open",
         lane' = [lane EXCEPT ![c] = Lane("open", Append(keep, e), lane[c].active, lane[c].observed)],
         UNCHANGED <<inbox, sink, view>>
  PROVE  FlowInv'
<1>0. TypeOK /\ lane \in [Clients -> Lanes]
  BY DEF BaseInv, TypeOK
<1> DEFINE l2 == Lane("open", Append(keep, e), lane[c].active, lane[c].observed)
           l == lane[c]
           ops == lane[c].ops
           ev == Waiting(c)
           v == view[c]
           t == Tail(mailbox)
           q == Append(keep, e)
<1>1. \A k \in Clients : lane'[k] = IF k = c THEN l2 ELSE lane[k]
  BY <1>0
<1>2. l2.ops = q /\ l2.active = l.active /\ l2.observed = l.observed /\ l2.status = "open"
  BY DEF Lane
<1>3. ASSUME NEW k \in Clients, k # c PROVE FlowFor(k)'
  <2>1. FlowFor(k)
    BY DEF FlowInv, FlowFor
  <2>2. Thin(mailbox', mailbox, k)
    BY <1>0, MailShorter
  <2>3. lane'[k] = lane[k] /\ inbox'[k] = inbox[k] /\ sink'[k] = sink[k] /\ view'[k] = view[k]
    BY <1>1, <1>3
  <2> QED
    BY <1>0, <2>1, <2>2, <2>3, FlowUntouched
<1>4. FlowFor(c)'
  <2>1. /\ mailbox \in Seq(Commands) /\ ops \in Seq(Ops) /\ ev \in Seq(Events) /\ Len(ev) \in Nat
    BY <1>0, FlowParts
  <2>2. FlowOf(c, mailbox, ops, ev, v, l)
    BY DEF FlowInv
  <2>3. Waiting(c)' = ev /\ view'[c] = v /\ lane'[c] = l2 /\ mailbox' = t
    BY <1>1 DEF Waiting
  <2>4. t \in Seq(Commands) /\ q \in Seq(Ops)
    BY <1>0, HeadIs
  <2>5. Len(keep) <= Len(ops) /\ \A i \in 1..Len(keep) : keep[i] = ops[i]
    OBVIOUS
  <2>6. AsGoodAs(l2, l, c)
    <3>1. ActiveOK(l, c)
      BY <2>2 DEF FlowOf, LaneOK
    <3>2. l.status # "absent"
      OBVIOUS
    <3> HIDE DEF l2, l
    <3> QED
      BY <1>2, <3>1, <3>2, SameLane
  <2> HIDE DEF l2, l, ops, ev, v
  <2>7. FlowOf(c, Tail(mailbox), Append(keep, e), ev, v, l)
    BY <2>1, <2>2, <2>5, FlowEnter
  <2>8. FlowOf(c, t, q, ev, v, l)
    BY <2>7
  <2> HIDE DEF t, q
  <2>9. FlowOf(c, t, q, ev, v, l2)
    BY <2>1, <2>4, <2>6, <2>8, FlowRelane
  <2> QED
    BY <1>2, <2>3, <2>9 DEF FlowFor
<1> QED
  BY <1>3, <1>4 DEF FlowInv, FlowFor

LEMMA ReceivesFlow ==
  ASSUME BaseInv, BaseInv', AttachInv, FlowInv, Receives PROVE FlowInv'
<1> DEFINE m == Head(mailbox)
<1>0. TypeOK /\ TypeOK' /\ LaneInv
  BY DEF BaseInv
<1>1. /\ mailbox # <<>> /\ mailbox' = Tail(mailbox) /\ Ingest(m) /\ UNCHANGED <<inbox, view>>
  BY DEF Receives, outside
<1>2. m \in Commands /\ m = mailbox[1] /\ 1 \in 1..Len(mailbox)
  BY <1>0, <1>1, HeadIs
<1> HIDE DEF m
<1>3. \A k \in Clients : FlowFor(k) /\ Thin(mailbox', mailbox, k)
  BY <1>0, <1>1, MailShorter DEF FlowInv, FlowFor
<1>4. CASE IngestAttach(m)
  <2>1. PICK c \in Clients : m.kind = "attach" /\ c = m.client
    BY <1>2, <1>4, CommandKinds DEF IngestAttach
  <2> DEFINE l == Lane("open", <<>>, {}, None)
  <2>2. Fresh(c)
    BY <1>2, <2>1 DEF AttachInv, AttachOf, IsAttach
  <2>3. /\ lane' = [lane EXCEPT ![c] = l] /\ sink' = [sink EXCEPT ![c] = Sink(TRUE, <<>>)]
    BY <1>4, <2>1 DEF IngestAttach
  <2>4. l.ops = <<>> /\ l.active = {} /\ l.observed = None
    BY LaneIs
  <2> HIDE DEF l
  <2>5. \A k \in Clients : /\ sink'[k] = IF k = c THEN Sink(TRUE, <<>>) ELSE sink[k]
                           /\ lane'[k] = IF k = c THEN l ELSE lane[k]
    BY <1>0, <2>3 DEF TypeOK
  <2>6. Waiting(c)' = <<>>
    <3>1. inbox[c] = <<>> /\ Sink(TRUE, <<>>).pending = <<>>
      BY <2>2, SinkIs DEF Fresh
    <3>2. <<>> \o <<>> = <<>>
      OBVIOUS
    <3> QED
      BY <1>1, <2>1, <2>5, <3>1, <3>2 DEF Waiting
  <2>7. FlowFor(c)'
    <3> DEFINE ops == lane[c].ops
               ev == Waiting(c)
               v == view[c]
               k == lane[c]
    <3>1. mailbox \in Seq(Commands)
      BY <1>0 DEF TypeOK
    <3>2. FlowOf(c, mailbox, ops, ev, v, k)
      BY DEF FlowInv
    <3>3. /\ ~v.shown.loaded /\ ~v.left.loaded
          /\ \A i \in 1..Len(mailbox) : ~IsSave(mailbox[i], c)
      BY <2>2 DEF Fresh
    <3>4. view'[c] = v /\ lane'[c] = l
      BY <1>1, <2>5
    <3> HIDE DEF ops, ev, v, k
    <3>5. FlowOf(c, Tail(mailbox), <<>>, <<>>, v, l)
      BY <1>1, <2>4, <3>1, <3>2, <3>3, FlowArrives
    <3> QED
      BY <1>1, <2>4, <2>6, <3>4, <3>5 DEF FlowFor
  <2>8. ASSUME NEW k \in Clients, k # c PROVE FlowFor(k)'
    <3>1. lane'[k] = lane[k] /\ inbox'[k] = inbox[k] /\ sink'[k] = sink[k] /\ view'[k] = view[k]
      BY <1>1, <2>5, <2>8
    <3> QED
      BY <1>0, <1>3, <3>1, FlowUntouched
  <2> QED
    BY <2>7, <2>8 DEF FlowInv, FlowFor
<1>5. CASE IngestLoad(m)
  <2>1. m \in Loads
    BY <1>2, <1>5, CommandKinds DEF IngestLoad
  <2>2. PICK c \in Clients : c = m.client
    BY <2>1 DEF Loads
  <2>3. /\ lane' = [lane EXCEPT ![c] = Lane("open", Append(lane[c].ops, m), lane[c].active, lane[c].observed)]
        /\ lane[c].status = "open" /\ UNCHANGED sink
    BY <1>5, <2>2 DEF IngestLoad
  <2>4. m \in Ops /\ Alike(m, mailbox[1])
    BY <1>2, <2>1 DEF Ops, Alike
  <2>5. lane[c].ops \in Seq(Ops) /\ Len(lane[c].ops) <= Len(lane[c].ops)
    BY <1>0, FlowParts
  <2>6. \A i \in 1..Len(lane[c].ops) : lane[c].ops[i] = lane[c].ops[i]
    OBVIOUS
  <2> QED
    BY <1>0, <1>1, <2>3, <2>4, <2>5, <2>6, EntersFlow
<1>6. CASE IngestSave(m)
  <2>1. m \in Saves
    BY <1>2, <1>6, CommandKinds DEF IngestSave
  <2>2. PICK c \in Clients : c = m.client
    BY <2>1 DEF Saves
  <2>3. /\ lane' = [lane EXCEPT ![c] = Lane("open", WithSave(lane[c].ops, m), lane[c].active, lane[c].observed)]
        /\ lane[c].status = "open" /\ UNCHANGED sink
    BY <1>6, <2>2 DEF IngestSave
  <2>4. lane[c].ops \in Seq(Ops)
    BY <1>0, FlowParts
  <2>5. PICK keep, e :
           /\ keep \in Seq(Ops)
           /\ e \in Saves /\ e.kind = "save" /\ e.client = m.client /\ e.gen = m.gen
           /\ e.path = m.path /\ e.revision = m.revision /\ e.n = m.n
           /\ WithSave(lane[c].ops, m) = Append(keep, e)
           /\ Len(keep) <= Len(lane[c].ops) /\ \A i \in 1..Len(keep) : keep[i] = lane[c].ops[i]
           /\ \/ keep = lane[c].ops
              \/ Len(lane[c].ops) = Len(keep) + 1 /\ lane[c].ops[Len(lane[c].ops)].kind = "save"
    BY <2>1, <2>4, WithSaveLemma
  <2>6. e \in Ops /\ Alike(e, mailbox[1])
    BY <1>2, <2>1, <2>5 DEF Ops, Alike, Saves
  <2>7. lane' = [lane EXCEPT ![c] = Lane("open", Append(keep, e), lane[c].active, lane[c].observed)]
    BY <2>3, <2>5
  <2> QED
    BY <1>0, <1>1, <2>3, <2>5, <2>6, <2>7, EntersFlow
<1>7. CASE IngestLate(m) \/ IngestInspect(m) \/ IngestWake(m)
  <2>1. UNCHANGED <<lane, inbox, sink, view>>
    BY <1>1, <1>7 DEF IngestLate, IngestInspect, IngestWake
  <2> QED
    BY <1>0, <1>3, <2>1, FlowFrame
<1>8. CASE IngestShutdown(m)
  <2>1. Closes(OpenLanes) /\ sink' = [c \in Clients |-> NoSink]
    BY <1>8 DEF IngestShutdown
  <2>2. ASSUME NEW k \in Clients PROVE FlowFor(k)'
    <3>1. inbox[k] \in Seq(Events) /\ sink[k].pending \in Seq(Events)
      BY <1>0, SinkParts
    <3>2. Waiting(k)' = inbox[k]
      <4>1. sink'[k].pending = <<>> /\ inbox'[k] = inbox[k]
        BY <1>1, <2>1, NoSinkIs
      <4>2. inbox[k] \o <<>> = inbox[k]
        BY <3>1, CatEmpty
      <4> QED
        BY <4>1, <4>2 DEF Waiting
    <3>3. PartOf(Waiting(k)', Waiting(k))
      BY <3>1, <3>2, PartPrefix DEF Waiting
    <3>4. view'[k] = view[k] /\ OpenLanes \in SUBSET OpenLanes
      BY <1>1
    <3> QED
      BY <1>0, <1>3, <2>1, <3>3, <3>4, ClosesFlow
  <2> QED
    BY <2>2 DEF FlowInv, FlowFor
<1> QED
  BY <1>1, <1>4, <1>5, <1>6, <1>7, <1>8 DEF Ingest

(* A save that is not stale is one of the document that the lane serves, and *)
(* its client knew what the lane has seen of it.                             *)
LEMMA SaveActive ==
  ASSUME BaseInv, FlowInv, pc = "work", Op.kind = "save", ~Stale(last)
  PROVE  /\ lane[last].active = {<<Op.gen, Op.path>>} /\ Op.gen \in 1..MaxGeneration[last]
         /\ lane[last].observed \in Nat /\ lane[last].observed <= Op.revision /\ Op.revision > 0
<1> DEFINE c == last
           l == lane[last]
           o == Op
<1>1. /\ c \in Clients /\ l.ops # <<>> /\ o = l.ops[1] /\ 1 \in 1..Len(l.ops)
      /\ o.gen \in Nat /\ o.path \in Paths /\ o.revision \in Nat /\ IsSave(o, c)
  BY OpIs
<1>2. l.observed \in Nat \cup {None} /\ LaneInvOf(l, c)
  BY <1>1, LaneParts DEF BaseInv, LaneInv
<1>3. FlowOf(c, mailbox, l.ops, Waiting(c), view[c], l)
  BY <1>1 DEF FlowInv
<1>4. l.active \in {{}, {<<o.gen, o.path>>}}
  BY DEF Stale
<1> HIDE DEF c, l, o
<1>5. l.status # "absent"
  BY <1>1, <1>2, NoLaneIs DEF LaneInvOf
<1>6. SaveOK(o, view[c], l) /\ ActiveOK(l, c)
  BY <1>1, <1>3 DEF FlowOf, ItemOK, LaneOK
<1>7. l.active = {<<o.gen, o.path>>} /\ o.revision > 0
  BY <1>4, <1>5, <1>6 DEF SaveOK, Seen
<1>8. Serves(l, o.gen)
  BY <1>1, <1>7 DEF Serves
<1>9. l.observed # None /\ l.observed <= o.revision
  BY <1>6, <1>8 DEF SaveOK, Seen
<1>10. o.gen \in 1..MaxGeneration[c]
  <2>1. PICK g \in 1..MaxGeneration[c], p \in Paths : l.active = {<<g, p>>}
    BY <1>6, <1>7 DEF ActiveOK
  <2>2. <<g, p>> = <<o.gen, o.path>>
    BY <1>7, <2>1
  <2> QED
    BY <2>1, <2>2
<1> QED
  BY <1>2, <1>7, <1>9, <1>10 DEF c, l, o

(* An operation is over, with an event that may or may not be kept. *)
LEMMA EndsFlow ==
  ASSUME BaseInv, TypeOK', FlowInv, NEW c \in Clients, pc = "work", c = last,
         Op.kind \in {"load", "save"}, NEW A, NEW obs, NEW kind, NEW rev,
         Ends(c, A, obs, kind, rev),
         FlowOf(c, mailbox, Tail(lane[c].ops), Waiting(c), view[c], lane'[c]),
         \A e \in Events : (e.kind = kind /\ e.gen = Op.gen /\ e.revision = rev) =>
           FlowOf(c, mailbox, Tail(lane[c].ops), Append(Waiting(c), e), view[c], lane'[c])
  PROVE  FlowInv'
<1>0. TypeOK
  BY DEF BaseInv
<1> DEFINE e == [kind |-> kind, gen |-> Op.gen, revision |-> rev, n |-> done[c] + 1]
<1>1. /\ e \in Events /\ Emit(c, e) /\ lane'[c].ops = Tail(lane[c].ops)
      /\ \A k \in Clients \ {c} : lane'[k] = lane[k]
  BY FinishesLemma
<1>2. mailbox' = mailbox /\ view' = view
  BY DEF Ends, Finishes, outside
<1>3. e.kind = kind /\ e.gen = Op.gen /\ e.revision = rev
  OBVIOUS
<1> HIDE DEF e
<1>4. /\ \A k \in Clients \ {c} : inbox'[k] = inbox[k] /\ sink'[k] = sink[k]
      /\ \/ inbox'[c] \o sink'[c].pending = Waiting(c)
         \/ inbox'[c] \o sink'[c].pending = Append(Waiting(c), e)
  BY <1>0, <1>1, EmitLemma
<1>5. FlowOf(c, mailbox, Tail(lane[c].ops), Append(Waiting(c), e), view[c], lane'[c])
  BY <1>1, <1>3
<1>6. FlowFor(c)'
  <2>1. Waiting(c)' = Waiting(c) \/ Waiting(c)' = Append(Waiting(c), e)
    BY <1>4 DEF Waiting
  <2> QED
    BY <1>1, <1>2, <1>5, <2>1 DEF FlowFor
<1>7. ASSUME NEW k \in Clients, k # c PROVE FlowFor(k)'
  <2>1. FlowFor(k)
    BY DEF FlowInv, FlowFor
  <2>2. Thin(mailbox', mailbox, k)
    BY <1>0, <1>2, MailSame
  <2>3. lane'[k] = lane[k] /\ inbox'[k] = inbox[k] /\ sink'[k] = sink[k] /\ view'[k] = view[k]
    BY <1>1, <1>2, <1>4, <1>7
  <2> QED
    BY <1>0, <2>1, <2>2, <2>3, FlowUntouched
<1> QED
  BY <1>6, <1>7 DEF FlowInv, FlowFor

(* What is not "loaded" is no news to anybody. *)
LEMMA QuietEndsFlow ==
  ASSUME BaseInv, TypeOK', FlowInv, NEW c \in Clients, pc = "work", c = last,
         Op.kind \in {"load", "save"}, NEW A, NEW obs, NEW kind, NEW rev,
         Ends(c, A, obs, kind, rev), kind # "loaded",
         FlowOf(c, mailbox, Tail(lane[c].ops), Waiting(c), view[c], lane'[c])
  PROVE  FlowInv'
<1> DEFINE t == Tail(lane[c].ops)
           w == Waiting(c)
           l == lane'[c]
           v == view[c]
<1>1. mailbox \in Seq(Commands) /\ w \in Seq(Events)
  BY FlowParts DEF BaseInv
<1>2. t \in Seq(Ops)
  BY FinishesLemma
<1>3. FlowOf(c, mailbox, t, w, v, l)
  OBVIOUS
<1> HIDE DEF t, w, l, v
<1>4. \A e \in Events : (e.kind = kind /\ e.gen = Op.gen /\ e.revision = rev) =>
        FlowOf(c, mailbox, t, Append(w, e), v, l)
  BY <1>1, <1>2, <1>3, FlowNotes
<1> QED
  BY <1>4, EndsFlow DEF t, w, l, v

LEMMA LoadFlow ==
  ASSUME BaseInv, TypeOK', FlowInv, NEW c \in Clients, ProcessLoad(c) PROVE FlowInv'
<1> DEFINE l == lane'[c]
           k == lane[c]
           ops == lane[c].ops
           ev == Waiting(c)
           v == view[c]
           r == disk[Op.path].revision
<1>0. TypeOK
  BY DEF BaseInv
<1>1. /\ pc = "work" /\ c = last /\ Op.kind = "load"
      /\ \/ Ends(c, {<<Op.gen, Op.path>>}, r, "loaded", r)
         \/ Ends(c, {<<Op.gen, Op.path>>}, None, "failed", None)
  BY LoadEnds
<1>2. /\ ops \in Seq(Ops) /\ ops # <<>> /\ Op = ops[1] /\ Op.path \in Paths /\ IsLoad(ops[1], c)
  BY <1>1, OpIs
<1>3. mailbox \in Seq(Commands) /\ ev \in Seq(Events) /\ TypedView(v)
  BY <1>0, FlowParts
<1>4. FlowOf(c, mailbox, ops, ev, v, k)
  BY DEF FlowInv
<1>5. r \in Nat
  BY <1>2, DiskType
<1>6. l.active = {<<Op.gen, Op.path>>}
  <2>1. CASE Ends(c, {<<Op.gen, Op.path>>}, r, "loaded", r)
    BY <1>1, <2>1, FinishesLemma
  <2>2. CASE Ends(c, {<<Op.gen, Op.path>>}, None, "failed", None)
    BY <1>1, <2>2, FinishesLemma
  <2> QED
    BY <1>1, <2>1, <2>2
<1>7. Ends(c, {<<Op.gen, Op.path>>}, r, "loaded", r) => l.observed = r
  BY <1>1, FinishesLemma, ZenonT(60)
<1>8. l.active = {<<ops[1].gen, Op.path>>}
  BY <1>2, <1>6
<1> HIDE DEF l, k, ops, ev, v, r
<1>9. /\ FlowOf(c, mailbox, Tail(ops), ev, v, l)
      /\ \A e : (/\ e.kind = "loaded" /\ e.gen = ops[1].gen /\ l.observed = e.revision
                 /\ e.revision \in Nat) =>
           /\ EventOK(e, v, l)
           /\ \A i \in 1..Len(ev) : (ev[i].kind = "loaded" /\ e.kind = "loaded") => ev[i].gen < e.gen
           /\ \A i \in 1..Len(mailbox) : Told(e, mailbox[i], c)
           /\ \A i \in 1..Len(Tail(ops)) : Told(e, Tail(ops)[i], c)
  BY <1>2, <1>3, <1>4, <1>8, FlowServes
<1>10. CASE Ends(c, {<<Op.gen, Op.path>>}, r, "loaded", r)
  <2>1. ASSUME NEW e \in Events, e.kind = "loaded", e.gen = Op.gen, e.revision = r
        PROVE  FlowOf(c, mailbox, Tail(ops), Append(ev, e), v, l)
    <3>1. /\ EventOK(e, v, l)
          /\ \A i \in 1..Len(ev) : (ev[i].kind = "loaded" /\ e.kind = "loaded") => ev[i].gen < e.gen
          /\ \A i \in 1..Len(mailbox) : Told(e, mailbox[i], c)
          /\ \A i \in 1..Len(Tail(ops)) : Told(e, Tail(ops)[i], c)
      BY <1>2, <1>5, <1>7, <1>9, <1>10, <2>1
    <3>2. Tail(ops) \in Seq(Ops) /\ e \in Events /\ FlowOf(c, mailbox, Tail(ops), ev, v, l)
      BY <1>2, <1>9, <2>1, TailAt
    <3> QED
      BY ONLY <1>3, <3>1, <3>2, FlowTells
  <2>2. Op.kind \in {"load", "save"}
    BY <1>1
  <2> QED
    BY <1>1, <1>9, <1>10, <2>1, <2>2, EndsFlow DEF l, ops, ev, v
<1>11. CASE Ends(c, {<<Op.gen, Op.path>>}, None, "failed", None)
  <2>1. FlowOf(c, mailbox, Tail(ops), ev, v, l)
    BY <1>9
  <2> QED
    BY <1>1, <1>11, <2>1, QuietEndsFlow DEF l, ops, ev, v
<1> QED
  BY <1>1, <1>10, <1>11

LEMMA SavesFlow ==
  ASSUME BaseInv, TypeOK', FlowInv, NEW c \in Clients,
         ProcessStaleSave(c) \/ ProcessFailedSave(c) \/ ProcessSave(c)
  PROVE  FlowInv'
<1> DEFINE l == lane'[c]
           k == lane[c]
           ops == lane[c].ops
           ev == Waiting(c)
           v == view[c]
<1>0. TypeOK
  BY DEF BaseInv
<1>1. pc = "work" /\ c = last /\ Op.kind = "save"
  BY DEF ProcessStaleSave, ProcessFailedSave, ProcessSave
<1>2. /\ ops \in Seq(Ops) /\ ops # <<>> /\ Op = ops[1] /\ Op.path \in Paths /\ IsSave(ops[1], c)
  BY <1>1, OpIs
<1>3. mailbox \in Seq(Commands) /\ ev \in Seq(Events) /\ TypedView(v)
  BY <1>0, FlowParts
<1>4. FlowOf(c, mailbox, ops, ev, v, k) /\ ActiveOK(k, c)
  BY DEF FlowInv, FlowOf, LaneOK
<1>5. Tail(ops) \in Seq(Ops) /\ FlowOf(c, mailbox, Tail(ops), ev, v, k)
  <2> HIDE DEF k, ops, ev, v
  <2>1. Thin(mailbox, mailbox, c) /\ Thin(Tail(ops), ops, c) /\ PartOf(ev, ev)
    BY <1>2, <1>3, PartSelf, PartTail, PartThin
  <2>2. Tail(ops) \in Seq(Ops)
    BY <1>2, TailAt
  <2>3. Len(mailbox) \in Nat /\ Len(Tail(ops)) \in Nat /\ Len(ev) \in Nat
    BY <1>3, <2>2
  <2>4. AsGoodAs(k, k, c)
    BY <1>4, SameLane
  <2>5. FlowOf(c, mailbox, ops, ev, v, k)
    BY <1>4
  <2> QED
    BY ONLY <2>1, <2>2, <2>3, <2>4, <2>5, FlowThin
<1>6. ASSUME NEW A, NEW obs, NEW kind, NEW rev, Ends(c, A, obs, kind, rev), kind # "loaded",
             A = k.active, obs = k.observed
      PROVE  FlowInv'
  <2>1. l.active = k.active /\ l.observed = k.observed /\ l.status = k.status
    BY <1>1, <1>6, FinishesLemma, ZenonT(60)
  <2> HIDE DEF l, k, ops, ev, v
  <2>2. AsGoodAs(l, k, c)
    BY <1>4, <2>1, SameLane
  <2>3. FlowOf(c, mailbox, Tail(ops), ev, v, l)
    BY <1>3, <1>5, <2>2, FlowRelane
  <2> QED
    BY <1>1, <1>6, <2>3, QuietEndsFlow DEF l, ops, ev, v
<1>7. CASE ProcessStaleSave(c)
  <2>1. Ends(c, lane[c].active, lane[c].observed, "failed", Op.revision)
    BY <1>7, StaleSaveEnds
  <2> QED
    BY <1>6, <2>1
<1>8. CASE ProcessFailedSave(c)
  <2>1. ~Stale(c) /\ Ends(c, {<<Op.gen, Op.path>>}, lane[c].observed, "failed", Op.revision)
    BY <1>8, FailedSaveEnds
  <2>2. lane[c].active = {<<Op.gen, Op.path>>}
    BY <1>1, <2>1, SaveActive
  <2> QED
    BY <1>6, <2>1, <2>2
<1>9. CASE ProcessSave(c)
  <2>1. ~Stale(c) /\ Ends(c, {<<Op.gen, Op.path>>}, Op.revision, "saved", Op.revision)
    BY <1>9, SaveEnds
  <2>2. k.active = {<<Op.gen, Op.path>>}
    BY <1>1, <2>1, SaveActive
  <2>3. l.active = {<<Op.gen, Op.path>>} /\ l.observed = Op.revision
    BY <1>1, <2>1, FinishesLemma, ZenonT(60)
  <2>4. k.active = {<<ops[1].gen, Op.path>>} /\ l.active = k.active /\ l.observed = ops[1].revision
    BY <1>2, <2>2, <2>3
  <2> HIDE DEF l, k, ops, ev, v
  <2>5. FlowOf(c, mailbox, Tail(ops), ev, v, l)
    BY <1>2, <1>3, <1>4, <2>4, FlowSaved
  <2> QED
    BY <1>1, <2>1, <2>5, QuietEndsFlow DEF l, ops, ev, v
<1> QED
  BY <1>7, <1>8, <1>9

LEMMA WorksFlow ==
  ASSUME BaseInv, TypeOK', FlowInv, NEW c \in Clients, Works(c) PROVE FlowInv'
BY LoadFlow, SavesFlow DEF Works

LEMMA ActorFlow ==
  ASSUME BaseInv, BaseInv', FlowInv
  PROVE  /\ Reaps => FlowInv'
         /\ \A c \in Clients : (Selects(c) \/ ProcessDetach(c)) => FlowInv'
<1>0. /\ TypeOK /\ TypeOK' /\ inbox \in [Clients -> Seq(Events)] /\ lane \in [Clients -> Lanes]
      /\ sink \in [Clients -> [open : BOOLEAN, pending : Seq(Events)]]
  BY DEF BaseInv, TypeOK
<1>1. \A k \in Clients : FlowFor(k)
  BY DEF FlowInv, FlowFor
<1>2. \A k \in Clients : mailbox' = mailbox => Thin(mailbox', mailbox, k)
  BY <1>0, MailSame
<1>3. ASSUME NEW k \in Clients, inbox'[k] = inbox[k], sink'[k] = NoSink
      PROVE  PartOf(Waiting(k)', Waiting(k))
  <2>1. inbox[k] \in Seq(Events) /\ sink[k].pending \in Seq(Events)
    BY <1>0, SinkParts
  <2>2. Waiting(k)' = inbox[k]
    <3>1. inbox[k] \o <<>> = inbox[k]
      BY <2>1, CatEmpty
    <3> QED
      BY <1>3, <3>1, NoSinkIs DEF Waiting
  <2> QED
    BY <2>1, <2>2, PartPrefix DEF Waiting
<1>4. ASSUME NEW k \in Clients, inbox'[k] = FlushedInbox(k), sink'[k] = FlushedSink(k)
      PROVE  PartOf(Waiting(k)', Waiting(k))
  BY <1>0, <1>4, FlushLemma DEF Waiting
<1>5. ASSUME Reaps PROVE FlowInv'
  <2> DEFINE L == {c \in OpenLanes : Detached(c)}
  <2>1. /\ Closes(L) /\ mailbox' = mailbox /\ view' = view
        /\ sink' = [c \in Clients |-> IF c \in L THEN NoSink ELSE FlushedSink(c)]
        /\ inbox' = [c \in Clients |-> IF c \in L THEN inbox[c] ELSE FlushedInbox(c)]
    BY <1>5 DEF Reaps, outside
  <2>2. L \in SUBSET OpenLanes
    OBVIOUS
  <2> HIDE DEF L
  <2>3. ASSUME NEW k \in Clients PROVE FlowFor(k)'
    <3>1. PartOf(Waiting(k)', Waiting(k))
      <4>1. CASE k \in L
        BY <1>3, <2>1, <4>1
      <4>2. CASE k \notin L
        BY <1>4, <2>1, <4>2
      <4> QED
        BY <4>1, <4>2
    <3>2. view'[k] = view[k] /\ Thin(mailbox', mailbox, k)
      BY <1>2, <2>1
    <3> QED
      BY <1>0, <1>1, <2>1, <2>2, <3>1, <3>2, ClosesFlow
  <2> QED
    BY <2>3 DEF FlowInv, FlowFor
<1>6. ASSUME NEW c \in Clients, Selects(c) PROVE FlowInv'
  <2>1. /\ sink' = [sink EXCEPT ![c] = FlushedSink(c)]
        /\ inbox' = [inbox EXCEPT ![c] = FlushedInbox(c)]
        /\ mailbox' = mailbox /\ UNCHANGED <<lane, view>>
    BY <1>6 DEF Selects, outside
  <2>2. ASSUME NEW k \in Clients PROVE FlowFor(k)'
    <3>1. CASE k = c
      <4>1. sink'[k] = FlushedSink(k) /\ inbox'[k] = FlushedInbox(k)
        BY <1>0, <2>1, <3>1
      <4>2. PartOf(Waiting(k)', Waiting(k))
        BY <1>4, <4>1
      <4>3. Thin(lane'[k].ops, lane[k].ops, k)
        BY <1>0, <2>1, FlowParts, PartSelf, PartThin
      <4>4. AsGoodAs(lane'[k], lane[k], k)
        <5>1. ActiveOK(lane[k], k)
          BY <1>1 DEF FlowFor, FlowOf, LaneOK
        <5> QED
          BY <2>1, <5>1, SameLane
      <4>5. view'[k] = view[k] /\ Thin(mailbox', mailbox, k)
        BY <1>2, <2>1
      <4> QED
        BY <1>0, <1>1, <4>2, <4>3, <4>4, <4>5, FlowKept
    <3>2. CASE k # c
      <4>1. lane'[k] = lane[k] /\ inbox'[k] = inbox[k] /\ sink'[k] = sink[k] /\ view'[k] = view[k]
        BY <1>0, <2>1, <3>2
      <4>2. Thin(mailbox', mailbox, k)
        BY <1>2, <2>1
      <4> QED
        BY <1>0, <1>1, <4>1, <4>2, FlowUntouched
    <3> QED
      BY <3>1, <3>2
  <2> QED
    BY <2>2 DEF FlowInv, FlowFor
<1>7. ASSUME NEW c \in Clients, ProcessDetach(c) PROVE FlowInv'
  <2>1. /\ lane' = [lane EXCEPT ![c] = NoLane] /\ sink' = [sink EXCEPT ![c] = NoSink]
        /\ mailbox' = mailbox /\ UNCHANGED <<inbox, view>>
    BY <1>7 DEF ProcessDetach, outside
  <2>2. ASSUME NEW k \in Clients PROVE FlowFor(k)'
    <3>1. CASE k = c
      <4>1. sink'[k] = NoSink /\ inbox'[k] = inbox[k] /\ lane'[k] = NoLane
        BY <1>0, <2>1, <3>1
      <4>2. PartOf(Waiting(k)', Waiting(k))
        BY <1>3, <4>1
      <4>3. Thin(lane'[k].ops, lane[k].ops, k)
        BY <4>1, NoLaneIs, PartEmpty, PartThin
      <4>4. AsGoodAs(lane'[k], lane[k], k)
        BY <4>1, GoneLane
      <4>5. view'[k] = view[k] /\ Thin(mailbox', mailbox, k)
        BY <1>2, <2>1
      <4> QED
        BY <1>0, <1>1, <4>2, <4>3, <4>4, <4>5, FlowKept
    <3>2. CASE k # c
      <4>1. lane'[k] = lane[k] /\ inbox'[k] = inbox[k] /\ sink'[k] = sink[k] /\ view'[k] = view[k]
        BY <1>0, <2>1, <3>2
      <4>2. Thin(mailbox', mailbox, k)
        BY <1>2, <2>1
      <4> QED
        BY <1>0, <1>1, <4>1, <4>2, FlowUntouched
    <3> QED
      BY <3>1, <3>2
  <2> QED
    BY <2>2 DEF FlowInv, FlowFor
<1> QED
  BY <1>5, <1>6, <1>7

-----------------------------------------------------------------------------
(* What a lane has seen of the disk *)

LEMMA InitDisk == Init => DiskInv
<1> SUFFICES ASSUME Init PROVE DiskInv
  OBVIOUS
<1>1. \A p \in Paths : disk[p].revision = 0
  BY DEF Init
<1>2. \A c \in Clients : lane[c].observed = None
  BY NoLaneIs DEF Init
<1> QED
  BY <1>1, <1>2 DEF DiskInv

SameSight(k) ==
  \/ lane'[k].active = lane[k].active /\ lane'[k].observed = lane[k].observed
  \/ lane'[k].observed = None

LEMMA DiskFrame ==
  ASSUME DiskInv, UNCHANGED disk, \A k \in Clients : SameSight(k) PROVE DiskInv'
<1>1. ASSUME NEW c \in Clients, NEW p \in Paths, lane'[c].observed # None,
             disk[p].author \in {None, c}, NEW g \in Nat, lane'[c].active = {<<g, p>>}
      PROVE  disk[p].revision = lane'[c].observed
  <2>1. lane'[c].active = lane[c].active /\ lane'[c].observed = lane[c].observed
    BY <1>1 DEF SameSight
  <2> QED
    BY <1>1, <2>1 DEF DiskInv
<1> QED
  BY <1>1 DEF DiskInv

LEMMA ClosesSight ==
  ASSUME BaseInv, NEW L \in SUBSET OpenLanes, Closes(L) PROVE \A k \in Clients : SameSight(k)
<1>0. TypeOK /\ LaneInv
  BY DEF BaseInv
<1>1. /\ \A c \in Clients \ L : lane'[c] = lane[c]
      /\ \A c \in L : lane'[c] = Closed(lane[c])
  BY <1>0, ClosesLemma
<1>2. \A c \in L : Closed(lane[c]).active = lane[c].active /\ Closed(lane[c]).observed = lane[c].observed
  BY DEF Closed, Lane
<1> QED
  BY <1>1, <1>2 DEF SameSight

LEMMA ReceivesDisk ==
  ASSUME BaseInv, DiskInv, Receives PROVE DiskInv'
<1> DEFINE m == Head(mailbox)
<1>0. TypeOK /\ lane \in [Clients -> Lanes]
  BY DEF BaseInv, TypeOK
<1>1. mailbox # <<>> /\ Ingest(m) /\ UNCHANGED disk
  BY DEF Receives
<1>2. m \in Commands
  BY <1>0, <1>1, HeadIs
<1> HIDE DEF m
<1>3. \A k \in Clients : SameSight(k)
  <2>1. CASE IngestAttach(m)
    <3>1. lane' = [lane EXCEPT ![m.client] = Lane("open", <<>>, {}, None)]
      BY <2>1 DEF IngestAttach
    <3>2. Lane("open", <<>>, {}, None).observed = None
      BY LaneIs
    <3> QED
      BY <1>0, <3>1, <3>2 DEF SameSight
  <2>2. CASE IngestLoad(m) \/ IngestSave(m)
    <3>1. PICK c, q : lane' = [lane EXCEPT ![c] = Lane("open", q, lane[c].active, lane[c].observed)]
      BY <2>2 DEF IngestLoad, IngestSave
    <3> DEFINE l == Lane("open", q, lane[c].active, lane[c].observed)
    <3>2. l.active = lane[c].active /\ l.observed = lane[c].observed
      BY DEF Lane
    <3>3. lane' = [lane EXCEPT ![c] = l]
      BY <3>1
    <3> HIDE DEF l
    <3> QED
      BY <1>0, <3>2, <3>3 DEF SameSight
  <2>3. CASE IngestLate(m) \/ IngestInspect(m) \/ IngestWake(m)
    BY <2>3 DEF IngestLate, IngestInspect, IngestWake, SameSight
  <2>4. CASE IngestShutdown(m)
    <3>1. Closes(OpenLanes) /\ OpenLanes \in SUBSET OpenLanes
      BY <2>4 DEF IngestShutdown
    <3> QED
      BY <3>1, ClosesSight
  <2> QED
    BY <1>1, <2>1, <2>2, <2>3, <2>4 DEF Ingest
<1> QED
  BY <1>1, <1>3, DiskFrame

LEMMA ActorDisk ==
  ASSUME BaseInv, DiskInv
  PROVE  /\ Reaps => DiskInv'
         /\ \A c \in Clients : ProcessDetach(c) => DiskInv'
         /\ \A p \in Paths : ForeignSave(p) => DiskInv'
         /\ UNCHANGED <<lane, disk>> => DiskInv'
<1>0. /\ lane \in [Clients -> Lanes]
      /\ disk \in [Paths -> [revision : Nat, author : Clients \cup {None, Foreign}]]
  BY DEF BaseInv, TypeOK
<1>1. ASSUME Reaps PROVE DiskInv'
  <2> DEFINE L == {c \in OpenLanes : Detached(c)}
  <2>1. Closes(L) /\ L \in SUBSET OpenLanes /\ UNCHANGED disk
    BY <1>1 DEF Reaps
  <2> HIDE DEF L
  <2> QED
    BY <2>1, ClosesSight, DiskFrame
<1>2. ASSUME NEW c \in Clients, ProcessDetach(c) PROVE DiskInv'
  <2>1. lane' = [lane EXCEPT ![c] = NoLane] /\ UNCHANGED disk
    BY <1>2 DEF ProcessDetach
  <2>2. \A k \in Clients : SameSight(k)
    BY <1>0, <2>1, NoLaneIs DEF SameSight
  <2> QED
    BY <2>1, <2>2, DiskFrame
<1>3. ASSUME NEW p \in Paths, ForeignSave(p) PROVE DiskInv'
  <2> DEFINE s == [revision |-> disk[p].revision + 1, author |-> Foreign]
  <2>1. disk' = [disk EXCEPT ![p] = s] /\ UNCHANGED lane
    BY <1>3 DEF ForeignSave, actor
  <2>2. s.author = Foreign
    OBVIOUS
  <2> HIDE DEF s
  <2>3. \A q \in Paths : disk'[q] = IF q = p THEN s ELSE disk[q]
    BY <1>0, <2>1
  <2>4. Foreign # None /\ \A c \in Clients : Foreign # c
    BY ServiceAssumption
  <2> QED
    BY <2>1, <2>2, <2>3, <2>4 DEF DiskInv
<1>4. ASSUME UNCHANGED <<lane, disk>> PROVE DiskInv'
  BY <1>4 DEF DiskInv
<1> QED
  BY <1>1, <1>2, <1>3, <1>4

LEMMA WorksDisk ==
  ASSUME BaseInv, FlowInv, DiskInv, NEW c \in Clients, Works(c) PROVE DiskInv'
<1>0. disk \in [Paths -> [revision : Nat, author : Clients \cup {None, Foreign}]]
  BY DEF BaseInv, TypeOK
<1>1. CASE ProcessLoad(c)
  <2> DEFINE P == Op.path
             r == disk[Op.path].revision
             A == {<<Op.gen, Op.path>>}
             l == lane'[c]
  <2>1. /\ pc = "work" /\ c = last /\ Op.kind \in {"load", "save"} /\ UNCHANGED disk
        /\ Ends(c, A, r, "loaded", r) \/ Ends(c, A, None, "failed", None)
    BY <1>1, LoadEnds
  <2>2. /\ \A k \in Clients \ {c} : lane'[k] = lane[k]
        /\ l.observed = None \/ (l.active = A /\ l.observed = r)
    <3>1. CASE Ends(c, A, r, "loaded", r)
      BY <2>1, <3>1, FinishesLemma, ZenonT(60)
    <3>2. CASE Ends(c, A, None, "failed", None)
      BY <2>1, <3>2, FinishesLemma, ZenonT(60)
    <3> QED
      BY <2>1, <3>1, <3>2
  <2>3. ASSUME NEW k \in Clients, NEW p \in Paths, lane'[k].observed # None,
               disk[p].author \in {None, k}, NEW g \in Nat, lane'[k].active = {<<g, p>>}
        PROVE  disk[p].revision = lane'[k].observed
    <3>1. CASE k = c
      <4>1. {<<g, p>>} = {<<Op.gen, P>>} /\ lane'[k].observed = r
        BY <2>2, <2>3, <3>1
      <4>2. <<g, p>> = <<Op.gen, P>>
        BY <4>1
      <4>3. p = P
        BY <4>2
      <4> QED
        BY <4>1, <4>3
    <3>2. CASE k # c
      <4>1. lane'[k] = lane[k]
        BY <2>2, <3>2
      <4> QED
        BY <2>3, <4>1 DEF DiskInv
    <3> QED
      BY <3>1, <3>2
  <2> QED
    BY <2>1, <2>3 DEF DiskInv
<1>2. CASE ProcessStaleSave(c) \/ ProcessFailedSave(c)
  <2>1. pc = "work" /\ c = last /\ Op.kind \in {"load", "save"} /\ UNCHANGED disk
    BY <1>2, StaleSaveEnds, FailedSaveEnds
  <2>2. Ends(c, lane[c].active, lane[c].observed, "failed", Op.revision)
    <3>1. CASE ProcessStaleSave(c)
      BY <3>1, StaleSaveEnds
    <3>2. CASE ProcessFailedSave(c)
      <4>1. /\ ~Stale(c) /\ Op.kind = "save" /\ c = last /\ pc = "work"
            /\ Ends(c, {<<Op.gen, Op.path>>}, lane[c].observed, "failed", Op.revision)
        BY <3>2, FailedSaveEnds
      <4>2. lane[c].active = {<<Op.gen, Op.path>>}
        BY <4>1, SaveActive
      <4> QED
        BY <4>1, <4>2
    <3> QED
      BY <1>2, <3>1, <3>2
  <2>3. /\ \A k \in Clients \ {c} : lane'[k] = lane[k]
        /\ lane'[c].active = lane[c].active /\ lane'[c].observed = lane[c].observed
    BY <2>1, <2>2, FinishesLemma, ZenonT(60)
  <2>4. \A k \in Clients : SameSight(k)
    BY <2>3 DEF SameSight
  <2> QED
    BY <2>1, <2>4, DiskFrame
<1>3. CASE ProcessSave(c)
  <2> DEFINE P == Op.path
             s == [revision |-> Op.revision, author |-> c]
             A == {<<Op.gen, Op.path>>}
  <2>1. /\ pc = "work" /\ c = last /\ Op.kind = "save" /\ Op.kind \in {"load", "save"}
        /\ disk' = [disk EXCEPT ![P] = s]
        /\ Ends(c, A, Op.revision, "saved", Op.revision)
    BY <1>3, SaveEnds
  <2>2. /\ \A k \in Clients \ {c} : lane'[k] = lane[k]
        /\ lane'[c].active = A /\ lane'[c].observed = Op.revision
    BY <2>1, FinishesLemma, ZenonT(60)
  <2>3. s.author = c /\ s.revision = Op.revision
    OBVIOUS
  <2>4. c # None
    BY ServiceAssumption
  <2> HIDE DEF s
  <2>5. \A p \in Paths : disk'[p] = IF p = P THEN s ELSE disk[p]
    BY <1>0, <2>1
  <2>6. \A p \in Paths : disk'[p].author = None => disk'[p].revision = 0
    BY <2>3, <2>4, <2>5 DEF DiskInv
  <2>7. ASSUME NEW k \in Clients, NEW p \in Paths, lane'[k].observed # None,
               disk'[p].author \in {None, k}, NEW g \in Nat, lane'[k].active = {<<g, p>>}
        PROVE  disk'[p].revision = lane'[k].observed
    <3>1. CASE k = c
      <4>1. {<<g, p>>} = {<<Op.gen, P>>}
        BY <2>2, <2>7, <3>1
      <4>2. <<g, p>> = <<Op.gen, P>>
        BY <4>1
      <4>3. p = P
        BY <4>2
      <4> QED
        BY <2>2, <2>3, <2>5, <3>1, <4>3
    <3>2. CASE k # c
      <4>1. lane'[k] = lane[k]
        BY <2>2, <3>2
      <4>2. p # P
        BY <2>3, <2>4, <2>5, <2>7, <3>2
      <4>3. disk'[p] = disk[p]
        BY <2>5, <4>2
      <4> QED
        BY <2>7, <4>1, <4>3 DEF DiskInv
    <3> QED
      BY <3>1, <3>2
  <2> QED
    BY <2>6, <2>7 DEF DiskInv
<1> QED
  BY <1>1, <1>2, <1>3 DEF Works

-----------------------------------------------------------------------------
(* The invariant of the service *)

ServiceInv ==
  BaseInv /\ AttachInv /\ StopInv /\ SnapshotInv /\ EventInv /\ FlowInv /\ DiskInv

LEMMA InitService == Init => ServiceInv
BY InitBase, InitCast, InitSnapshot, InitEvents, InitFlow, InitDisk DEF ServiceInv, CastInv

LEMMA ClientKeeps ==
  ASSUME ServiceInv, NEW c \in Clients,
         \/ Attach(c) \/ Receive(c) \/ StopListening(c) \/ MarkDetached(c) \/ Nudge(c)
         \/ \E p \in Paths : SubmitLoad(c, p) \/ RefusedLoad(c, p)
         \/ \E w \in {"shown", "left"}, r \in 1..MaxRevision : SubmitSave(c, w, r)
  PROVE  ServiceInv'
<1>0. BaseInv /\ AttachInv /\ StopInv /\ SnapshotInv /\ EventInv /\ FlowInv /\ DiskInv
  BY DEF ServiceInv
<1>1. BaseInv'
  BY <1>0, AttachBase, ReceiveBase, StopListeningBase, OthersBase, SubmitLoadBase,
     RefusedLoadBase, SubmitSaveBase
<1>2. AttachInv' /\ StopInv'
  BY <1>0, ClientAttachInv, OutsideStopInv
<1>3. SnapshotInv'
  BY <1>0, LanesKept, SnapshotFrame
<1>4. EventInv'
  BY <1>0, EventsKept, EventsFrame, ClientEvents
<1>5. FlowInv'
  BY <1>0, <1>1, FrameFlow, ShowsFlow, SaveFlow, ReceiveFlow
<1>6. UNCHANGED <<lane, disk>>
  BY DEF Attach, Receive, StopListening, MarkDetached, Nudge, SubmitLoad, RefusedLoad, SubmitSave,
         actor
<1>7. DiskInv'
  BY <1>0, <1>6, ActorDisk
<1> QED
  BY <1>1, <1>2, <1>3, <1>4, <1>5, <1>7 DEF ServiceInv

LEMMA RestKeeps ==
  ASSUME ServiceInv,
         \/ Inspect \/ Shutdown \/ Joins \/ Drained \/ TimesOut \/ Rests
         \/ \E p \in Paths : ForeignSave(p)
  PROVE  ServiceInv'
<1>0. BaseInv /\ AttachInv /\ StopInv /\ SnapshotInv /\ EventInv /\ FlowInv /\ DiskInv
  BY DEF ServiceInv
<1>1. BaseInv'
  BY <1>0, OthersBase, RestsBase
<1>2. AttachInv' /\ StopInv'
  BY <1>0, OthersAttachInv, OthersStopInv
<1>3. SnapshotInv'
  BY <1>0, LanesKeptToo, SnapshotFrame
<1>4. EventInv'
  BY <1>0, EventsKeptToo, EventsFrame
<1>5. FlowInv'
  BY <1>0, <1>1, FrameFlow
<1>6. (Inspect \/ Shutdown \/ Joins \/ Drained \/ TimesOut \/ Rests) => UNCHANGED <<lane, disk>>
  BY DEF Inspect, Shutdown, Joins, Drained, TimesOut, Rests, actor
<1>7. DiskInv'
  BY <1>0, <1>6, ActorDisk
<1> QED
  BY <1>1, <1>2, <1>3, <1>4, <1>5, <1>7 DEF ServiceInv

LEMMA ReceivesKeeps == ASSUME ServiceInv, Receives PROVE ServiceInv'
<1>0. BaseInv /\ AttachInv /\ StopInv /\ SnapshotInv /\ EventInv /\ FlowInv /\ DiskInv
  BY DEF ServiceInv
<1>1. BaseInv'
  BY <1>0, ReceivesBase
<1>2. AttachInv' /\ StopInv' /\ SnapshotInv' /\ EventInv'
  BY <1>0, ReceivesAttachInv, ReceivesStopInv, ReceivesSnapshot, ReceivesEvents
<1>3. FlowInv' /\ DiskInv'
  BY <1>0, <1>1, ReceivesFlow, ReceivesDisk
<1> QED
  BY <1>1, <1>2, <1>3 DEF ServiceInv

LEMMA ActorKeeps ==
  ASSUME ServiceInv, Reaps \/ \E c \in Clients : Selects(c) \/ Works(c) \/ ProcessDetach(c)
  PROVE  ServiceInv'
<1>0. BaseInv /\ AttachInv /\ StopInv /\ SnapshotInv /\ EventInv /\ FlowInv /\ DiskInv
  BY DEF ServiceInv
<1>1. BaseInv'
  BY <1>0, ReapsBase, SelectsBase, WorksBase, DetachBase
<1>2. AttachInv' /\ StopInv' /\ EventInv'
  BY <1>0, ActorAttachInv, OthersStopInv, ActorEvents
<1>3. SnapshotInv'
  BY <1>0, ActorSnapshot, LanesKept, SnapshotFrame
<1>4. FlowInv'
  <2>1. TypeOK'
    BY <1>1 DEF BaseInv
  <2> QED
    BY <1>0, <1>1, <2>1, ActorFlow, WorksFlow
<1>5. \A c \in Clients : Selects(c) => UNCHANGED <<lane, disk>>
  BY DEF Selects
<1>6. DiskInv'
  BY <1>0, <1>5, ActorDisk, WorksDisk
<1> QED
  BY <1>1, <1>2, <1>3, <1>4, <1>6 DEF ServiceInv

LEMMA StutterKeeps == ASSUME ServiceInv, UNCHANGED vars PROVE ServiceInv'
<1>0. BaseInv /\ AttachInv /\ StopInv /\ SnapshotInv /\ EventInv /\ FlowInv /\ DiskInv
  BY DEF ServiceInv
<1>1. /\ UNCHANGED <<mailbox, service, handle, view, listening, inbox, pc, lane, sink, ready, last>>
      /\ UNCHANGED <<stopping, inspector, disk, ingested, tried, done, read, dropped>>
  BY DEF vars, outside, history
<1>2. BaseInv'
  BY <1>0, <1>1 DEF BaseInv, TypeOK, TurnInv, LaneInv
<1>3. AttachInv'
  BY <1>0, <1>1 DEF AttachInv, AttachOf, Fresh
<1>4. StopInv'
  BY <1>0, <1>1 DEF StopInv
<1>5. SnapshotInv' /\ EventInv'
  BY <1>0, <1>1, SnapshotFrame, EventsFrame
<1>6. FlowInv'
  BY <1>0, <1>1 DEF FlowInv, Waiting
<1>7. DiskInv'
  BY <1>0, <1>1, ActorDisk
<1> QED
  BY <1>2, <1>3, <1>4, <1>5, <1>6, <1>7 DEF ServiceInv

(* Every step keeps the invariant. *)
LEMMA NextKeeps == ASSUME ServiceInv, [Next]_vars PROVE ServiceInv'
<1>1. CASE UNCHANGED vars
  BY <1>1, StutterKeeps
<1>2. CASE Over
  BY <1>2, StutterKeeps DEF Over
<1>3. CASE Actor
  BY <1>3, RestKeeps, ReceivesKeeps, ActorKeeps DEF Actor, Works
<1>4. CASE Inspect \/ Shutdown \/ Joins \/ \E p \in Paths : ForeignSave(p)
  BY <1>4, RestKeeps
<1>5. ASSUME NEW c \in Clients,
             \/ Attach(c) \/ Receive(c) \/ StopListening(c) \/ MarkDetached(c) \/ Nudge(c)
             \/ \E p \in Paths : SubmitLoad(c, p) \/ RefusedLoad(c, p)
             \/ \E w \in {"shown", "left"}, r \in 1..MaxRevision : SubmitSave(c, w, r)
      PROVE  ServiceInv'
  BY <1>5, ClientKeeps
<1> QED
  BY <1>1, <1>2, <1>3, <1>4, <1>5 DEF Next

LEMMA ServiceInvariant == Spec => []ServiceInv
<1>1. Init => ServiceInv
  BY InitService
<1>2. ServiceInv /\ [Next]_vars => ServiceInv'
  BY NextKeeps
<1> QED
  BY <1>1, <1>2, PTL DEF Spec

-----------------------------------------------------------------------------
(* Theorems *)

(* process_one, ingest and the coalescing of saves: whatever is attached,   *)
(* detached or shut down in between, the newest save that entered a lane is *)
(* carried out or is still the last save of its lane.                       *)
THEOREM NewestIsKept == Spec => []NewestSnapshotSurvives
<1>1. ServiceInv => NewestSnapshotSurvives
  BY DEF ServiceInv, SnapshotInv, SnapshotOf, NewestSnapshotSurvives
<1> QED
  BY <1>1, ServiceInvariant, PTL

(* send_event and flush_sink: the events of a connected client wait in the    *)
(* order of its operations, none lost and none twice, for any capacity of the *)
(* channel and of the queue behind it.                                        *)
THEOREM EventsStayInOrder == Spec => []EventsInOrder
<1>1. ServiceInv => EventsInOrder
  BY DEF ServiceInv, EventInv, InOrder, Waiting, EventsInOrder
<1> QED
  BY <1>1, ServiceInvariant, PTL

(* The end of the actor's loop: when the thread stops, no command, lane or   *)
(* save is left behind.                                                       *)
THEOREM StopsDrained == Spec => []DrainsBeforeStop
<1>1. ASSUME ServiceInv PROVE DrainsBeforeStop
  <2> SUFFICES ASSUME pc = "stopped"
               PROVE  mailbox = <<>> /\ \A c \in Clients : lane[c] = NoLane /\ tried[c] = ingested[c]
    BY DEF DrainsBeforeStop
  <2>1. stopping /\ ready = <<>> /\ mailbox = <<>> /\ \A c \in Clients : lane[c].status # "open"
    BY <1>1 DEF ServiceInv, StopInv
  <2>2. ToSet(ready) = {}
    BY <2>1 DEF ToSet
  <2>3. ASSUME NEW c \in Clients PROVE lane[c] = NoLane /\ tried[c] = ingested[c]
    <3>1. lane[c].ops = <<>>
      BY <1>1, <2>2 DEF ServiceInv, BaseInv, TurnInv
    <3>2. lane[c].status \in {"absent", "open", "closing"} /\ LaneInvOf(lane[c], c)
      BY <1>1, LaneParts DEF ServiceInv, BaseInv, LaneInv
    <3>3. lane[c] = NoLane
      BY <2>1, <3>1, <3>2 DEF LaneInvOf
    <3>4. SnapshotOf(<<>>, ingested[c], tried[c])
      BY <1>1, <3>1 DEF ServiceInv, SnapshotInv
    <3>5. Len(<<>>) = 0 /\ \A i \in 1..0 : FALSE
      OBVIOUS
    <3> QED
      BY <3>3, <3>4, <3>5 DEF SnapshotOf
  <2> QED
    BY <2>1, <2>3
<1> QED
  BY <1>1, ServiceInvariant, PTL

(* process_one's save: a reader whose document nobody else has written never *)
(* gets a conflict, however its loads and saves are interleaved and coalesced. *)
THEOREM OwnSavesDoNotConflict == Spec => []AloneNeverConflicts
<1>1. ASSUME ServiceInv PROVE AloneNeverConflicts
  <2> SUFFICES ASSUME pc = "work", Op.kind = "save", ~Stale(last),
                      disk[Op.path].author \in {None, last}
               PROVE  MaySave(last)
    BY DEF AloneNeverConflicts
  <2> DEFINE d == disk[Op.path]
             l == lane[last]
             r == Op.revision
             p == Op.path
  <2>1. BaseInv /\ FlowInv /\ DiskInv
    BY <1>1 DEF ServiceInv
  <2>2. last \in Clients /\ p \in Paths /\ Op.gen \in Nat /\ r \in Nat
    BY <2>1, OpIs
  <2>3. /\ l.active = {<<Op.gen, p>>} /\ l.observed \in Nat /\ l.observed <= r /\ r > 0
    BY <2>1, SaveActive
  <2>4. l.observed # None
    BY <2>3 DEF None
  <2>5. d.revision = l.observed
    BY <2>1, <2>2, <2>3, <2>4 DEF DiskInv
  <2>6. Expected(last) = l.observed
    BY <2>4 DEF Expected
  <2>7. r = d.revision => d.author = last
    <3>1. d.author = None => d.revision = 0
      BY <2>1, <2>2 DEF DiskInv
    <3> QED
      BY <2>3, <3>1
  <2> HIDE DEF d, l, r, p
  <2>8. d.revision = Expected(last) /\ r >= d.revision
    BY <2>2, <2>3, <2>5, <2>6
  <2> QED
    BY <2>7, <2>8 DEF MaySave, d, r
<1> QED
  BY <1>1, ServiceInvariant, PTL

(* process_one's save: what is written belongs to the document the lane      *)
(* serves and goes over the revision the lane has seen.                       *)
THEOREM NothingUnseenIsOverwritten == Spec => WritesOnlySeen
<1> DEFINE Seen1(p) ==
      (disk'[p] # disk[p] /\ disk'[p].author # Foreign) =>
        LET c == disk'[p].author
        IN  /\ \E g \in 1..MaxGeneration[c] : lane[c].active = {<<g, p>>}
            /\ lane[c].observed = disk[p].revision
<1>1. ASSUME ServiceInv, [Next]_vars PROVE \A p \in Paths : Seen1(p)
  <2>0. /\ BaseInv /\ FlowInv
        /\ disk \in [Paths -> [revision : Nat, author : Clients \cup {None, Foreign}]]
    BY <1>1 DEF ServiceInv, BaseInv, TypeOK
  <2>1. ASSUME NEW q \in Paths, ForeignSave(q) PROVE \A p \in Paths : Seen1(p)
    <3> DEFINE s == [revision |-> disk[q].revision + 1, author |-> Foreign]
    <3>1. disk' = [disk EXCEPT ![q] = s] /\ s.author = Foreign
      BY <2>1 DEF ForeignSave
    <3> HIDE DEF s
    <3>2. \A p \in Paths : disk'[p] = IF p = q THEN s ELSE disk[p]
      BY <2>0, <3>1
    <3> QED
      BY <3>1, <3>2
  <2>2. ASSUME NEW c \in Clients, ProcessSave(c) PROVE \A p \in Paths : Seen1(p)
    <3> DEFINE s == [revision |-> Op.revision, author |-> c]
    <3>1. /\ pc = "work" /\ c = last /\ Op.kind = "save" /\ ~Stale(c) /\ MaySave(c)
          /\ disk' = [disk EXCEPT ![Op.path] = s]
      BY <2>0, <2>2, SaveEnds
    <3>2. /\ lane[c].active = {<<Op.gen, Op.path>>} /\ Op.gen \in 1..MaxGeneration[c]
          /\ lane[c].observed \in Nat
      BY <2>0, <3>1, SaveActive
    <3>3. lane[c].observed = disk[Op.path].revision
      <4>1. lane[c].observed # None
        BY <3>2 DEF None
      <4> QED
        BY <3>1, <4>1 DEF MaySave, Expected
    <3>4. s.author = c
      OBVIOUS
    <3> HIDE DEF s
    <3>5. \A p \in Paths : disk'[p] = IF p = Op.path THEN s ELSE disk[p]
      BY <2>0, <3>1
    <3>6. ASSUME NEW p \in Paths, disk'[p] # disk[p]
          PROVE  LET k == disk'[p].author
                 IN  /\ \E g \in 1..MaxGeneration[k] : lane[k].active = {<<g, p>>}
                     /\ lane[k].observed = disk[p].revision
      <4>1. p = Op.path /\ disk'[p].author = c
        BY <3>4, <3>5, <3>6
      <4> QED
        BY <3>2, <3>3, <4>1
    <3> QED
      BY <3>6
  <2>3. CASE \/ \E q \in Paths : ForeignSave(q)
             \/ \E c \in Clients : ProcessSave(c)
    BY <2>1, <2>2, <2>3
  <2>4. \/ UNCHANGED disk
        \/ \E q \in Paths : ForeignSave(q)
        \/ \E c \in Clients : ProcessSave(c)
    <3>1. ASSUME NEW c \in Clients
          PROVE  /\ (Attach(c) \/ Receive(c) \/ StopListening(c) \/ MarkDetached(c) \/ Nudge(c))
                      => UNCHANGED disk
                 /\ \A p \in Paths : (SubmitLoad(c, p) \/ RefusedLoad(c, p)) => UNCHANGED disk
                 /\ \A w \in {"shown", "left"}, r \in 1..MaxRevision :
                      SubmitSave(c, w, r) => UNCHANGED disk
                 /\ (Selects(c) \/ ProcessLoad(c) \/ ProcessStaleSave(c) \/ ProcessFailedSave(c)
                      \/ ProcessDetach(c)) => UNCHANGED disk
      BY DEF Attach, Receive, StopListening, MarkDetached, Nudge, SubmitLoad, RefusedLoad,
             SubmitSave, Selects, ProcessLoad, ProcessStaleSave, ProcessFailedSave, ProcessDetach
    <3>2. (Inspect \/ Shutdown \/ Joins \/ Receives \/ Drained \/ Reaps \/ TimesOut \/ Rests)
            => UNCHANGED disk
      BY DEF Inspect, Shutdown, Joins, Receives, Drained, Reaps, TimesOut, Rests
    <3>3. (Over \/ UNCHANGED vars) => UNCHANGED disk
      BY DEF Over, vars
    <3> QED
      BY <1>1, <3>1, <3>2, <3>3 DEF Next, Actor
  <2> QED
    BY <2>3, <2>4
<1>2. ServiceInv /\ [Next]_vars => [\A p \in Paths : Seen1(p)]_vars
  BY <1>1
<1> QED
  BY <1>2, ServiceInvariant, PTL DEF Spec, WritesOnlySeen
=============================================================================
