------------------------- MODULE AnnotationService -------------------------
(***************************************************************************)
(* The annotation service: one actor thread that loads and saves the        *)
(* annotations of every open document.  Clients put commands into a bounded  *)
(* mailbox and get events from a bounded channel each; the actor keeps one   *)
(* lane of operations per document and serves ready lanes in turn.           *)
(*                                                                         *)
(* The actor's steps are the points where other threads can be noticed: one  *)
(* command taken from the mailbox, the mailbox found empty, the leases read, *)
(* one operation carried out.  A client has one document, so both go by the  *)
(* client's name.  The store's compare_and_save is one step (SidecarStore    *)
(* shows what that takes); a snapshot is its revision and its author.        *)
(* Clients behave as the PDF reader does (begin_open_path,                   *)
(* handle_annotation_event and persist_annotations of gpui-pdf-reader).      *)
(*                                                                         *)
(* The mailbox is never disconnected while the actor runs: the last owner of *)
(* the service sends Shutdown and joins the thread before it lets go of it.  *)
(***************************************************************************)
EXTENDS Integers, FiniteSets, SequencesExt

CONSTANTS
  Clients,
  Paths,
  COMMAND_CAPACITY, EVENT_CAPACITY, PENDING_EVENT_CAPACITY,
  MaxRevision,     \* bound: revisions of an AnnotationSet
  MaxGeneration,   \* bound, per client: documents it opens
  MaxSaves,        \* bound: saves submitted by one client
  MaxInspections,  \* bound: calls of diagnostics, at most one
  Leavers,         \* bound: the clients that may go before the service does
  StoreFails,      \* bound: whether a load or a save may end in an I/O error
  Foreign,         \* author of the snapshots another process saves
  MaxForeign       \* bound: revisions at which another process may save

None == -1   \* an Option that holds nothing

ASSUME ServiceAssumption ==
  /\ IsFiniteSet(Clients)
  /\ COMMAND_CAPACITY \in Nat \ {0} /\ EVENT_CAPACITY \in Nat \ {0}
  /\ PENDING_EVENT_CAPACITY \in Nat \ {0}
  /\ MaxRevision \in Nat /\ MaxSaves \in Nat /\ MaxForeign \in Nat
  /\ MaxGeneration \in [Clients -> Nat]
  /\ MaxInspections \in 0..1 /\ StoreFails \in BOOLEAN
  /\ Leavers \subseteq Clients /\ Foreign \notin Clients
  /\ None \notin Clients \cup {Foreign}

VARIABLES
  mailbox,    \* commands accepted and not yet received
  service,    \* "open", "closing" (Shutdown was sent) or "down" (joined)
  handle,     \* per client: "none", "open", "dropping" (lease marked) or "gone"
  view,       \* per client: what it knows of the document shown and the one before
  inbox,      \* per client: the channel of events
  listening,  \* per client: the receiver of that channel exists
  pc,         \* where the actor is: "top", "drain", "reap", "serve", "stopped"
  lane,       \* documents: the lane of each client
  sink,       \* clients: the events that did not fit into the channel
  ready,      \* lanes with work, in the order of their turns
  last,       \* last_served
  stopping,   \* shutting_down
  inspector,  \* "none", "asked", "taken" (in inspections) or "told"
  disk,       \* per path: the stored snapshot
  ingested,   \* history, per client: the last save that entered its lane
  tried,      \* history, per client: the last save that was carried out
  done,       \* history, per client: operations carried out
  read,       \* history, per client: events received
  dropped     \* history: clients whose accepted save entered no lane

outside == <<service, handle, view, listening>>
history == <<ingested, tried, done, read, dropped>>
vars == <<mailbox, outside, inbox, pc, lane, sink, ready, last, stopping,
          inspector, disk, history>>

Lane(status, ops, active, observed) ==
  [status |-> status, ops |-> ops, active |-> active, observed |-> observed]

NoLane == Lane("absent", <<>>, {}, None)

(* What a reader knows of a document: the revision it edits and the stored one *)
(* that it is based on.                                                         *)
Document(gen, path, revision, base, loaded) ==
  [gen |-> gen, path |-> path, revision |-> revision, base |-> base, loaded |-> loaded]

NoDocument == Document(0, None, 0, 0, FALSE)

View(shown, left, saves) == [shown |-> shown, left |-> left, saves |-> saves]

Sink(open, pending) == [open |-> open, pending |-> pending]

NoSink == Sink(FALSE, <<>>)

Init ==
  /\ mailbox = <<>>
  /\ service = "open"
  /\ handle = [c \in Clients |-> "none"]
  /\ view = [c \in Clients |-> View(NoDocument, NoDocument, 0)]
  /\ inbox = [c \in Clients |-> <<>>]
  /\ listening = [c \in Clients |-> TRUE]
  /\ pc = "top"
  /\ lane = [c \in Clients |-> NoLane]
  /\ sink = [c \in Clients |-> NoSink]
  /\ ready = <<>>
  /\ last = None
  /\ stopping = FALSE
  /\ inspector = "none"
  /\ disk = [p \in Paths |-> [revision |-> 0, author |-> None]]
  /\ ingested = [c \in Clients |-> 0]
  /\ tried = [c \in Clients |-> 0]
  /\ done = [c \in Clients |-> 0]
  /\ read = [c \in Clients |-> 0]
  /\ dropped = {}

Detached(c) == handle[c] \in {"dropping", "gone"}

-----------------------------------------------------------------------------
(* Clients and the owner of the service *)

actor == <<pc, lane, sink, ready, last, stopping>>

HasMailboxRoom == Len(mailbox) < COMMAND_CAPACITY

Posts(m) == HasMailboxRoom /\ mailbox' = Append(mailbox, m)

Attach(c) ==
  /\ service = "open" /\ handle[c] = "none"
  /\ Posts([kind |-> "attach", client |-> c])
  /\ handle' = [handle EXCEPT ![c] = "open"]
  /\ UNCHANGED <<service, view, listening, inbox, actor, inspector, disk, history>>

(* A document is opened in the reader, which lets go of the one before. *)
Shows(c, p) ==
  /\ service = "open" /\ handle[c] = "open" /\ view[c].shown.gen < MaxGeneration[c]
  /\ view' = [view EXCEPT ![c] =
                 View(Document(@.shown.gen + 1, p, 0, 0, FALSE), @.shown, @.saves)]

SubmitLoad(c, p) ==
  /\ Shows(c, p)
  /\ Posts([kind |-> "load", client |-> c, gen |-> view[c].shown.gen + 1, path |-> p])
  /\ UNCHANGED <<service, handle, listening, inbox, actor, inspector, disk, history>>

(* The mailbox is full: the document is shown, but its annotations are not kept. *)
RefusedLoad(c, p) ==
  /\ Shows(c, p) /\ ~HasMailboxRoom
  /\ UNCHANGED <<mailbox, service, handle, listening, inbox, actor, inspector, disk, history>>

Save(c, gen, path, expected, revision, n) ==
  [kind |-> "save", client |-> c, gen |-> gen, path |-> path,
   expected |-> expected, revision |-> revision, n |-> n]

(* The annotations that were loaded were edited, possibly more than once, and *)
(* the snapshot is handed in.  The reader does so for the document it shows;   *)
(* nothing in the interface keeps a client from coming late with another.      *)
SubmitSave(c, w, r) ==
  LET d == IF w = "shown" THEN view[c].shown ELSE view[c].left
      saved == Document(d.gen, d.path, r, d.base, TRUE)
  IN  /\ service = "open" /\ handle[c] = "open" /\ d.loaded
      /\ r >= d.revision /\ r > d.base /\ view[c].saves < MaxSaves
      /\ Posts(Save(c, d.gen, d.path, d.base, r, view[c].saves + 1))
      /\ view' = [view EXCEPT ![c] = IF w = "shown" THEN View(saved, @.left, @.saves + 1)
                                     ELSE View(@.shown, saved, @.saves + 1)]
      /\ UNCHANGED <<service, handle, listening, inbox, actor, inspector, disk, history>>

(* handle_annotation_event: one of an earlier document is ignored. *)
Informed(d, e) ==
  IF e.gen = d.gen /\ e.kind = "loaded"
  THEN Document(d.gen, d.path, e.revision, e.revision, TRUE)
  ELSE IF e.gen = d.gen /\ e.kind = "saved" /\ e.revision > d.base
  THEN Document(d.gen, d.path, d.revision, e.revision, d.loaded)
  ELSE d

Receive(c) ==
  /\ listening[c] /\ inbox[c] # <<>>
  /\ inbox' = [inbox EXCEPT ![c] = Tail(@)]
  /\ read' = [read EXCEPT ![c] = @ + 1]
  /\ view' = [view EXCEPT ![c] =
                 View(Informed(@.shown, Head(inbox[c])), @.left, @.saves)]
  /\ UNCHANGED <<mailbox, service, handle, listening, actor, inspector, disk,
                 ingested, tried, done, dropped>>

(* The receiver goes with the reader's window, before or after the handle. *)
StopListening(c) ==
  /\ c \in Leavers /\ listening[c] /\ handle[c] # "none"
  /\ listening' = [listening EXCEPT ![c] = FALSE]
  /\ inbox' = [inbox EXCEPT ![c] = <<>>]
  /\ UNCHANGED <<mailbox, service, handle, view, actor, inspector, disk, history>>

(* drop of the handle: the lease is marked, then the actor is nudged. *)
MarkDetached(c) ==
  /\ c \in Leavers /\ handle[c] = "open"
  /\ handle' = [handle EXCEPT ![c] = "dropping"]
  /\ UNCHANGED <<mailbox, service, view, listening, inbox, actor, inspector, disk, history>>

(* Bug: the nudge is left out. *)
Nudge_Never(c) ==
  /\ handle[c] = "dropping"
  /\ handle' = [handle EXCEPT ![c] = "gone"]
  /\ UNCHANGED <<mailbox, service, view, listening, inbox, actor, inspector, disk, history>>

Nudge(c) ==
  /\ handle[c] = "dropping"
  /\ handle' = [handle EXCEPT ![c] = "gone"]
  /\ mailbox' = IF service = "open" /\ HasMailboxRoom
                THEN Append(mailbox, [kind |-> "wake"]) ELSE mailbox
  /\ UNCHANGED <<service, view, listening, inbox, actor, inspector, disk, history>>

(* diagnostics: the reply is awaited for some time. *)
Inspect ==
  /\ service = "open" /\ inspector = "none" /\ MaxInspections = 1
  /\ Posts([kind |-> "inspect"])
  /\ inspector' = "asked"
  /\ UNCHANGED <<outside, inbox, actor, disk, history>>

(* The last owner drops the service. *)
Shutdown ==
  /\ service = "open"
  /\ Posts([kind |-> "shutdown"])
  /\ service' = "closing"
  /\ UNCHANGED <<handle, view, listening, inbox, actor, inspector, disk, history>>

Joins ==
  /\ service = "closing" /\ pc = "stopped"
  /\ service' = "down"
  /\ UNCHANGED <<mailbox, handle, view, listening, inbox, actor, inspector, disk, history>>

(* Another process saves annotations of the PDF. *)
ForeignSave(p) ==
  /\ disk[p].revision < MaxForeign
  /\ disk' = [disk EXCEPT ![p] = [revision |-> @.revision + 1, author |-> Foreign]]
  /\ UNCHANGED <<mailbox, outside, inbox, actor, inspector, history>>

-----------------------------------------------------------------------------
(* ingest *)

(* schedule: scheduled and ready_set both say that the lane is in ready. *)
Scheduled(r, c) == IF c \in ToSet(r) THEN r ELSE Append(r, c)

(* Bug: closing a lane throws its operations away. *)
Closed_DropsWork(l) == Lane("closing", <<[kind |-> "detach"]>>, l.active, l.observed)

(* A lane that closes still carries out its operations. *)
Closed(l) == Lane("closing", Append(l.ops, [kind |-> "detach"]), l.active, l.observed)

Closes(L) == lane' = [c \in Clients |-> IF c \in L THEN Closed(lane[c]) ELSE lane[c]]

(* The ready queue once all of L are scheduled, in the order of a hash map. *)
WithReady(L) == {ready \o order : order \in SetToSeqs(L \ ToSet(ready))}

IngestAttach(m) ==
  /\ m.kind = "attach"
  /\ lane' = [lane EXCEPT ![m.client] = Lane("open", <<>>, {}, None)]
  /\ sink' = [sink EXCEPT ![m.client] = Sink(TRUE, <<>>)]
  /\ UNCHANGED <<ready, stopping, inspector, history>>

IngestLoad(m) ==
  /\ m.kind = "load" /\ lane[m.client].status = "open"
  /\ lane' = [lane EXCEPT ![m.client] = Lane("open", Append(@.ops, m), @.active, @.observed)]
  /\ ready' = Scheduled(ready, m.client)
  /\ UNCHANGED <<sink, stopping, inspector, history>>

Coalesces(ops, m) ==
  /\ ops # <<>> /\ Last(ops).kind = "save"
  /\ Last(ops).gen = m.gen /\ Last(ops).path = m.path
  /\ m.revision >= Last(ops).revision

(* Bug: the older of two adjacent snapshots is kept. *)
WithSave_KeepsOlder(ops, m) == IF Coalesces(ops, m) THEN ops ELSE Append(ops, m)

(* An adjacent save takes over the new snapshot, but not what it expects. *)
WithSave(ops, m) ==
  IF Coalesces(ops, m)
  THEN Append(Front(ops), Save(m.client, m.gen, m.path, Last(ops).expected, m.revision, m.n))
  ELSE Append(ops, m)

IngestSave(m) ==
  /\ m.kind = "save" /\ lane[m.client].status = "open"
  /\ lane' = [lane EXCEPT ![m.client] = Lane("open", WithSave(@.ops, m), @.active, @.observed)]
  /\ ready' = Scheduled(ready, m.client)
  /\ ingested' = [ingested EXCEPT ![m.client] = m.n]
  /\ UNCHANGED <<sink, stopping, inspector, tried, done, read, dropped>>

(* The lane is closing: the command is ignored. *)
IngestLate(m) ==
  /\ m.kind \in {"load", "save"} /\ lane[m.client].status # "open"
  /\ dropped' = IF m.kind = "save" THEN dropped \cup {m.client} ELSE dropped
  /\ UNCHANGED <<lane, sink, ready, stopping, inspector, ingested, tried, done, read>>

IngestInspect(m) ==
  /\ m.kind = "inspect"
  /\ inspector' = "taken"
  /\ UNCHANGED <<lane, sink, ready, stopping, history>>

IngestWake(m) ==
  /\ m.kind = "wake"
  /\ UNCHANGED <<lane, sink, ready, stopping, inspector, history>>

OpenLanes == {c \in Clients : lane[c].status = "open"}

IngestShutdown(m) ==
  /\ m.kind = "shutdown"
  /\ stopping' = TRUE
  /\ sink' = [c \in Clients |-> NoSink]
  /\ Closes(OpenLanes) /\ ready' \in WithReady(OpenLanes)
  /\ UNCHANGED <<inspector, history>>

Ingest(m) ==
  \/ IngestAttach(m) \/ IngestLoad(m) \/ IngestSave(m) \/ IngestLate(m)
  \/ IngestInspect(m) \/ IngestWake(m) \/ IngestShutdown(m)

-----------------------------------------------------------------------------
(* Events *)

Moved(c) ==
  LET room == EVENT_CAPACITY - Len(inbox[c])
      n == Len(sink[c].pending)
  IN  IF n < room THEN n ELSE room

(* flush_sink: what fits moves to the channel; a client without a receiver  *)
(* is forgotten when there is something to send.                            *)
FlushedSink(c) ==
  IF sink[c].pending # <<>> /\ ~listening[c] THEN NoSink
  ELSE Sink(sink[c].open, SubSeq(sink[c].pending, Moved(c) + 1, Len(sink[c].pending)))

FlushedInbox(c) ==
  IF listening[c] THEN inbox[c] \o SubSeq(sink[c].pending, 1, Moved(c)) ELSE inbox[c]

(* client_can_accept_event, or nobody to send to. *)
Eligible(c) ==
  \/ lane[c].status = "closing"
  \/ ~FlushedSink(c).open
  \/ Len(FlushedSink(c).pending) < PENDING_EVENT_CAPACITY

(* Bug: an event overtakes those that wait for room. *)
Emit_Overtakes(c, e) ==
  IF sink[c].open /\ listening[c] /\ Len(inbox[c]) < EVENT_CAPACITY
  THEN inbox' = [inbox EXCEPT ![c] = Append(@, e)] /\ UNCHANGED sink
  ELSE /\ sink' = IF sink[c].open
                  THEN [sink EXCEPT ![c] = Sink(TRUE, Append(@.pending, e))] ELSE sink
       /\ UNCHANGED inbox

(* send_event: straight into the channel unless earlier events wait. *)
Emit(c, e) ==
  LET direct == sink[c].open /\ sink[c].pending = <<>>
      fits == direct /\ listening[c] /\ Len(inbox[c]) < EVENT_CAPACITY
  IN  /\ inbox' = IF fits THEN [inbox EXCEPT ![c] = Append(@, e)] ELSE inbox
      /\ sink' = IF ~sink[c].open \/ fits THEN sink
                 ELSE IF direct /\ ~listening[c] THEN [sink EXCEPT ![c] = NoSink]
                 ELSE [sink EXCEPT ![c] = Sink(TRUE, Append(@.pending, e))]

-----------------------------------------------------------------------------
(* The actor's loop *)

Backlog == ready # <<>> \/ \E c \in Clients : sink[c].pending # <<>>

Idle == ~Backlog /\ inspector # "taken" /\ ~stopping

(* A lane that is first again right after its turn goes behind its peers. *)
Rotated(r) == IF Len(r) > 1 /\ Head(r) = last THEN Append(Tail(r), Head(r)) ELSE r

(* Bug: only the first lane in turn is considered. *)
EligibleTurns_HeadOnly == {i \in 1..Len(ready) : i = 1 /\ Eligible(ready[i])}

EligibleTurns == {i \in 1..Len(ready) : Eligible(ready[i])}

(* recv at the top, try_recv in the inner loop, or recv_timeout at the end  *)
(* of a turn in which no lane could be served.                              *)
Receives ==
  /\ mailbox # <<>>
  /\ \/ pc \in {"top", "drain"} /\ pc' = "drain"
     \/ pc = "serve" /\ EligibleTurns = {} /\ Backlog /\ ~stopping /\ pc' = "top"
  /\ mailbox' = Tail(mailbox)
  /\ Ingest(Head(mailbox))
  /\ UNCHANGED <<outside, inbox, last, disk>>

(* The mailbox is found empty. *)
Drained ==
  /\ mailbox = <<>>
  /\ pc = "drain" \/ (pc = "top" /\ ~Idle)
  /\ pc' = "reap"
  /\ UNCHANGED <<mailbox, outside, inbox, lane, sink, ready, last, stopping, inspector, disk, history>>

(* reap_detached, flush_all_clients and the rotation. *)
Reaps ==
  /\ pc = "reap" /\ pc' = "serve"
  /\ LET L == {c \in OpenLanes : Detached(c)}
     IN  /\ Closes(L)
         /\ \E r \in WithReady(L) : ready' = Rotated(r)
         /\ sink' = [c \in Clients |-> IF c \in L THEN NoSink ELSE FlushedSink(c)]
         /\ inbox' = [c \in Clients |-> IF c \in L THEN inbox[c] ELSE FlushedInbox(c)]
  /\ UNCHANGED <<mailbox, outside, last, stopping, inspector, disk, history>>

(* The first lane in turn that can be served is taken; those passed over go  *)
(* behind the others.                                                        *)
Selects(c) ==
  /\ pc = "serve" /\ pc' = "work"
  /\ \E i \in EligibleTurns :
       /\ \A j \in EligibleTurns : i <= j
       /\ c = ready[i]
       /\ ready' = SubSeq(ready, i + 1, Len(ready)) \o SubSeq(ready, 1, i - 1)
  /\ sink' = [sink EXCEPT ![c] = FlushedSink(c)]
  /\ inbox' = [inbox EXCEPT ![c] = FlushedInbox(c)]
  /\ last' = c
  /\ UNCHANGED <<mailbox, outside, lane, stopping, inspector, disk, history>>

Op == Head(lane[last].ops)

Continues(c) == ready' = IF Len(lane[c].ops) > 1 THEN Scheduled(ready, c) ELSE ready

(* The end of process_one: the lane without its first operation. *)
Finishes(c, active, observed, kind, revision) ==
  /\ pc = "work" /\ pc' = "top"
  /\ lane' = [lane EXCEPT ![c] = Lane(@.status, Tail(@.ops), active, observed)]
  /\ Emit(c, [kind |-> kind, gen |-> Op.gen, revision |-> revision, n |-> done[c] + 1])
  /\ done' = [done EXCEPT ![c] = @ + 1]
  /\ Continues(c)
  /\ UNCHANGED <<mailbox, outside, last, stopping, inspector, ingested, read, dropped>>

ProcessLoad(c) ==
  /\ pc = "work" /\ c = last /\ Op.kind = "load"
  /\ LET r == disk[Op.path].revision
     IN  \/ Finishes(c, {<<Op.gen, Op.path>>}, r, "loaded", r)
         \/ StoreFails /\ Finishes(c, {<<Op.gen, Op.path>>}, None, "failed", None)
  /\ UNCHANGED <<disk, tried>>

(* Bug: a save of an earlier document is written as well. *)
Stale_Never(c) == FALSE

Stale(c) == lane[c].active \notin {{}, {<<Op.gen, Op.path>>}}

Tries(c) == tried' = [tried EXCEPT ![c] = Op.n]

ProcessStaleSave(c) ==
  /\ pc = "work" /\ c = last /\ Op.kind = "save" /\ Stale(c)
  /\ Finishes(c, lane[c].active, lane[c].observed, "failed", Op.revision)
  /\ Tries(c)
  /\ UNCHANGED disk

(* Bug: the revision seen last is not remembered. *)
Expected_Given(c) == Op.expected

Expected(c) == IF lane[c].observed = None THEN Op.expected ELSE lane[c].observed

MaySave(c) ==
  /\ disk[Op.path].revision = Expected(c)
  /\ Op.revision >= disk[Op.path].revision
  /\ Op.revision = disk[Op.path].revision => disk[Op.path].author = c

(* The store refuses, or an error keeps it from saving. *)
ProcessFailedSave(c) ==
  /\ pc = "work" /\ c = last /\ Op.kind = "save" /\ ~Stale(c)
  /\ StoreFails \/ ~MaySave(c)
  /\ Finishes(c, {<<Op.gen, Op.path>>}, lane[c].observed, "failed", Op.revision)
  /\ Tries(c)
  /\ UNCHANGED disk

ProcessSave(c) ==
  /\ pc = "work" /\ c = last /\ Op.kind = "save" /\ ~Stale(c) /\ MaySave(c)
  /\ disk' = [disk EXCEPT ![Op.path] = [revision |-> Op.revision, author |-> c]]
  /\ Finishes(c, {<<Op.gen, Op.path>>}, Op.revision, "saved", Op.revision)
  /\ Tries(c)

ProcessDetach(c) ==
  /\ pc = "work" /\ c = last /\ Op.kind = "detach"
  /\ pc' = "top"
  /\ lane' = [lane EXCEPT ![c] = NoLane]
  /\ sink' = [sink EXCEPT ![c] = NoSink]
  /\ UNCHANGED <<mailbox, outside, inbox, ready, last, stopping, inspector, disk, history>>

(* recv_timeout runs out. *)
TimesOut ==
  /\ pc = "serve" /\ EligibleTurns = {} /\ Backlog /\ ~stopping
  /\ pc' = "top"
  /\ UNCHANGED <<mailbox, outside, inbox, lane, sink, ready, last, stopping, inspector, disk, history>>

(* Bug: the loop goes on when the service is shut down. *)
Rests_Forever ==
  /\ pc = "serve" /\ EligibleTurns = {} /\ (~Backlog \/ stopping)
  /\ inspector' = IF inspector = "taken" THEN "told" ELSE inspector
  /\ pc' = "top"
  /\ UNCHANGED <<mailbox, outside, inbox, lane, sink, ready, last, stopping, disk, history>>

(* Nothing is left to do: inspections are answered, and the loop ends if     *)
(* the service is shut down.                                                 *)
Rests ==
  /\ pc = "serve" /\ EligibleTurns = {} /\ (~Backlog \/ stopping)
  /\ inspector' = IF inspector = "taken" THEN "told" ELSE inspector
  /\ pc' = IF stopping THEN "stopped" ELSE "top"
  /\ UNCHANGED <<mailbox, outside, inbox, lane, sink, ready, last, stopping, disk, history>>

Actor ==
  \/ Receives \/ Drained \/ Reaps \/ TimesOut \/ Rests
  \/ \E c \in Clients :
       \/ Selects(c) \/ ProcessLoad(c) \/ ProcessStaleSave(c) \/ ProcessFailedSave(c)
       \/ ProcessSave(c) \/ ProcessDetach(c)

(* The service was joined and nobody is left. *)
Over == service = "down" /\ UNCHANGED vars

Next ==
  \/ \E c \in Clients :
       \/ Attach(c) \/ Receive(c) \/ StopListening(c) \/ MarkDetached(c) \/ Nudge(c)
       \/ \E p \in Paths : SubmitLoad(c, p) \/ RefusedLoad(c, p)
       \/ \E w \in {"shown", "left"}, r \in 1..MaxRevision : SubmitSave(c, w, r)
  \/ Inspect \/ Shutdown \/ Joins
  \/ \E p \in Paths : ForeignSave(p)
  \/ Actor
  \/ Over

Spec == Init /\ [][Next]_vars

(* The thread runs, and a drop that was begun ends.  Nothing is assumed of   *)
(* the receivers of events.                                                  *)
Fairness == WF_vars(Actor) /\ \A c \in Clients : WF_vars(Nudge(c))

FairSpec == Spec /\ Fairness

-----------------------------------------------------------------------------
(* Properties *)

(* The newest save that entered a lane is either carried out or still the     *)
(* last save of that lane: coalescing, detaching and shutting down never drop *)
(* it or let an older snapshot come after it.                                 *)
NewestSnapshotSurvives ==
  \A c \in Clients : tried[c] # ingested[c] =>
    LET ops == lane[c].ops
    IN  \E i \in 1..Len(ops) :
          /\ ops[i].kind = "save" /\ ops[i].n = ingested[c]
          /\ \A j \in (i + 1)..Len(ops) : ops[j].kind # "save"

(* Each operation of a connected client gives one event, and the events wait  *)
(* in the channel and behind it in the order of the operations, however slow  *)
(* the receiver is.                                                           *)
EventsInOrder ==
  \A c \in Clients : (sink[c].open /\ listening[c]) =>
    LET waiting == inbox[c] \o sink[c].pending
    IN  /\ Len(waiting) = done[c] - read[c]
        /\ \A i \in 1..Len(waiting) : waiting[i].n = read[c] + i

(* A save is written only for the document that was loaded last before it in  *)
(* its lane, over the revision that this lane has seen: a window never writes  *)
(* over what another one saved since.                                         *)
WritesOnlySeen ==
  [][\A p \in Paths : (disk'[p] # disk[p] /\ disk'[p].author # Foreign) =>
       LET c == disk'[p].author
       IN  /\ \E g \in 1..MaxGeneration[c] : lane[c].active = {<<g, p>>}
           /\ lane[c].observed = disk[p].revision]_vars

(* A reader gets a conflict only if somebody else has saved: its own saves,    *)
(* coalesced or not, never stand in each other's way.                          *)
AloneNeverConflicts ==
  (pc = "work" /\ Op.kind = "save" /\ ~Stale(last) /\ disk[Op.path].author \in {None, last})
    => MaySave(last)

(* When the actor stops, every lane is gone and the newest save of each has    *)
(* been carried out: pending saves are drained before the thread is joined.    *)
DrainsBeforeStop ==
  pc = "stopped" => /\ mailbox = <<>>
                    /\ \A c \in Clients : lane[c] = NoLane /\ tried[c] = ingested[c]

(* Every save that was accepted enters a lane, also when its client is        *)
(* dropped right after it.                                                    *)
AcceptedSavesEnter == dropped = {}

(* What a dropped client leaves behind is cleaned up, even if the mailbox was *)
(* full when it was dropped and no receiver takes its events.                 *)
DroppedLanesGo == \A c \in Clients : handle[c] = "gone" ~> lane[c].status = "absent"

(* Dropping the service ends: the actor empties its lanes and stops, with     *)
(* nobody taking events.                                                      *)
ShutdownEnds == service = "closing" ~> pc = "stopped"

(* The operations of a lane are carried out unless its own reader lets its   *)
(* events pile up: a reader that takes none holds up no other.               *)
LanesAreServed ==
  \A c \in Clients :
    lane[c].ops # <<>>
      ~> (lane[c].ops = <<>> \/ Len(sink[c].pending) = PENDING_EVENT_CAPACITY)
=============================================================================
