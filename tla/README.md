# Key: a TLA+ verification project

Key is a research workspace for macOS: an Electron application
(`apps/key-office/apps/key`) over one Rust backend process per workspace
(`crates/key-desktop-host`), with a PDF runtime, stores, background analysis and
an extension system in further crates, and a set of office editors with an AI
agent (`apps/key-office/apps/{docs,sheets,slides,html,markdown}`). This directory models the parts of Key
in which several actors share state, checks them with TLC on small instances
and proves what matters most with TLAPS for instances of every size.

## 1. Inventory

The parts that carry Key's own control logic, the state they keep and how they
touch each other. `PROJECT.json` lists every part, with the reason where one is
left out.

| Part | State | Operations | Hard about it | Correct when |
|---|---|---|---|---|
| Bridge to a backend, `rust-bridge.ts` `RustHost` | queue, pending map, byte budget, child process | `invoke`, timers, child events, `close` | timers racing answers, children that die and are replaced, shared answers | every promise is settled once, order and budgets hold, nothing runs twice |
| Backend request loop, `main.rs` `run` | semaphore, tasks | read, answer, exit | a permit outlives its answer | it has a permit for whatever the bridge sends |
| Workspace registry, `workspaces.ts` `Registry` | entries, file, map of backends, promise chain | `list`, `add`, `setAppearance`, `invoke`, `retireIdle`, `close` | state read before an await and used after it; crashes between rename and sync | one backend per workspace, nothing lost, no work interrupted |
| Latest-wins queue, `scheduler.rs` | queued, running and latest demand per key | `schedule`, `pop_next`, `finish`, `cancel`, `clear_pending` | demands superseded while they run | only the latest result is published, bounds hold, vain work is stopped |
| PDF engine supervisor, `supervisor.rs` | per-document queues, turn order | open, request, cancel, close, worker loop | one worker, many documents | no document starves, nothing after close |
| Annotation sidecars, `sidecar-store/json.rs` | sidecar file, lock on the PDF | load, compare_and_save | several processes, crashes, power failures, a PDF that is edited or replaced | no acknowledged annotation is lost, nothing is half written |
| Annotation service, `sidecar-store/service.rs` | mailbox, lane of operations per document, event queues | attach, load, save, drop, diagnostics, shutdown; the actor's loop | coalescing, slow readers, clients dropped with work accepted | the newest snapshot is written, no reader holds up another, shutdown drains |
| Background scheduler, `key-processing` | pause reasons, leases | interaction, pressure, leases | background work against the user | work yields and resumes |
| OpenAlex, Zotero, imports, linked folders | SQLite queues | worker loops | backoff, restart | each source is looked up, none twice at once |
| Extension host | grants, budgets, instances | invoke, revoke | late results after revocation | a revoked extension does nothing |
| Tabs and splits, `tab-model.ts` | tree of panes | open, move, close | long sequences of legal calls | one active tab per pane |
| Agent loop, `agent-core` `loop.ts`, `electron-transport.ts` | history, running tools, streams, counters of a run | run, cancel, reset, restore, turns, tools, retries, compaction | a stop or a dropped conversation while a tool, a stream, a delay or a summary is under way | every request is one the providers accept, every run ends once, a failed run leaves nothing |
| Project and chat store, `project-store`, chat panel | index, file lists, chat files, counters, buffered openings | resolve, append, first save, rename, move, delete | stale ids in a panel, several writes per call, half-written lines | a document shows all its messages, and no other document's |
| Owned images of the HTML editor, `asset-lifecycle.ts` | `assets/`, manifest, its lock | insert, save, save as, close, rename | texts are written outside the lock; insertions during a save; a manifest not written after a deletion | nothing in use is deleted |
| Document engines | none that lasts | parse, generate, render | | pure conversions, not modelled |

How they interact: the windows call `Registry.invoke`; the registry picks or
makes a `RustHost` and calls its `invoke`; the host writes frames to the
backend's stdin and reads frames from its stdout; the backend dispatches to the
stores, the PDF runtime and its helper processes. The retire timer of the
registry asks the backend whether it may be closed through the same bridge. The
PDF reader's windows are clients of one annotation service per process, whose
thread calls the sidecar store; several processes may annotate the same PDF and
meet in the file system only. The office editors run in the same Electron
application: the chat panel of a window drives the agent loop, whose requests go
through IPC to the main process, and keeps the conversation in the project store;
the HTML editor's save, close, insert and rename handlers work on the images of a
folder under one lock per manifest.

## 2. Plan

Order of work; the first ten steps are done.

1. `RustBridge` (bridge and request loop composed), its runs and theorems.
2. `WorkspaceRegistry`, with crashes, and the overlap of `add` and `invoke`.
3. `LatestWinsQueue`, proved completely.
4. `AnnotationStore`, the contract of the trait, and `SidecarStore`, the save
   protocol on the file system, shown to implement it.
5. `AnnotationService`, the actor between the readers and the store.
6. `ProjectStore`, chats and their counters across renames, moves and crashes.
7. `AgentLoop`, the tool loop over its transport.
8. `AssetLifecycle`, the images of a folder's documents.
9. Theorems about every module whose properties the prover can reach: the
   bridge, the registry, the sidecar store and its refinement, the service, the
   agent loop, the images.
10. The theorems that speak of filtered and sorted sequences: the history of the
    agent loop and all of `ProjectStore`, with the filters written by rank
    (`ArrayOps`) so that the prover can unfold them.
11. If the project grows: the engine supervisor, the background scheduler, agent
    fill, Save As into another folder, the merged pages of the registry.

## 3. Modules

| Module | Models |
|---|---|
| `RustBridge` | `RustHost` composed with the loop of `main.rs` |
| `MCRustBridge` | a cast of calls for TLC |
| `SequenceLemmas` | what the operations on sequences do to their elements; sums over finite sets |
| `WorkspaceRegistry` | `Registry` |
| `WorkspaceRegistryProofs` | theorems about `WorkspaceRegistry` |
| `MCWorkspaceRegistry` | folders and callers for TLC |
| `LatestWinsQueue` | `LatestWinsQueue<K, V>` |
| `QueueProofs` | theorems about `RustBridge` and about `LatestWinsQueue` |
| `AnnotationStore` | the contract of `AnnotationStore`, from the in-memory store |
| `SidecarStore` | `JsonSidecarStore`, step by step on the file system |
| `SidecarStoreProofs` | theorems about `SidecarStore`, the refinement among them |
| `MCSidecarStore` | symmetry of processes and marks |
| `AnnotationService` | `run_service` and its clients |
| `AnnotationServiceProofs` | theorems about `AnnotationService` |
| `MCAnnotationService` | how many documents each client opens |
| `ProjectStore` | `ProjectStore`, the `project:*` handlers and the chat panel's ids |
| `ProjectStoreProofs` | theorems about `ProjectStore` |
| `ArrayOps` | `Array.filter`, for `ProjectStore` and `AgentLoop` |
| `MCProjectStore` | symmetry of documents and paths |
| `AgentLoop` | `AgentLoop` over `electron-transport.ts` |
| `AgentLoopProofs` | theorems about `AgentLoop` |
| `MCAgentLoop` | a transcript as older builds and failed runs left it |
| `AssetLifecycle` | `asset-lifecycle.ts` and the handlers of `html-main.ts` that call it |
| `AssetLifecycleProofs` | theorems about `AssetLifecycle` |
| `MCAssetLifecycle` | a document per window; symmetry of windows |

Definitions called `X_Something`, each after a comment that starts with "Bug:",
are variants of `X` with a plausible mistake; `PROJECT.json` names the property
that catches each of them. No specification uses them.

### RustBridge

A member of `Calls` is one `invoke`: its promise and, once queued, its request.
Class, size and twin key are functions of the call. The main process is one
JavaScript thread, so a handler is one action, with two exceptions: the loop
that makes room (line 101) and the loop of `drain` take one step per iteration,
and `turn` keeps every other handler of the bridge out until the loop ends. The
backend is another process and may move in between. `fail` empties everything
in one step, as in the code; the process it kills dies later (`HostDies`), and
its remaining output and its exit event are delivered later still, possibly
after a successor was started. A response is delivered whole: the reassembly of
frames from chunks (`take`) is below the model. A task of the host answers
(`HostAnswers`) and drops its permit in a later step (`HostReleases`); between
the two it occupies one of the runtime's four threads, which is what bounds how
many permits can lag behind. Commands that `Host::immediate` answers in the
read loop need no permit, and the urgent commands are among them.

One path is left out: `JSON.parse` of a large answer (line 302) could throw
after the request left the pending map, and its promise would never settle. The
host writes these bodies with its own serialiser and never produces such a body.

### WorkspaceRegistry

A caller performs one operation, whose steps are the stretches between two
awaits: `list` and the snapshot it returns, each call of a backend, and inside
the chain of mutations the resolving of the folder, `workspace_initialize`, the
rename of the registry file, and the sync of its directory. `entries`, `file`
and `synced` are the list in memory, the file as other programs see it, and the
file as a power failure leaves it. Backends are `RustHost` objects: open or
closed, with the callers that wait on them (`at`), and `busy` while they have
work of their own. `fresh` abstracts the clock: an identity is fresh when
`lastUsed` is less than a minute old, `Ages` makes it stale, but not while the
five-second question of `retireIdle` about it is under way. Icons, colours and
the merging of answers from several workspaces are left out.

### LatestWinsQueue

A demand is its revision. `queued`, `inFlight` and `latest` are the three maps
of the code with 0 for an absent key, `cancelled` the revisions whose
cancellation source was triggered, `held` the demands in the hands of workers.
`asked` and `published` are history: the last accepted demand of a key that was
not withdrawn, and the last one published.

### AnnotationStore and SidecarStore

`AnnotationStore` says what every store promises: a load returns the stored
snapshot of the document, a save replaces it if revision and identity are those
the caller has seen, and a power failure may take back what is not yet synced,
but then as a whole. `SidecarStore` follows one `compare_and_save` per process
through the file system: opening and locking the PDF, hashing it, comparing the
sidecar, hashing again, writing the temporary file, syncing it, the rename, the
sync of the directory, and every early return, which drops the lock and the
temporary file. A process may crash before each of them. The PDF may be edited in
place (its version changes) or replaced by another file (a lock on the old file
does not keep the next saver out). `StoreContract` maps file and directory to the
abstract store and is checked as refinement. Left out: the JSON encoding, sidecars
of schema 1, identities that have only metadata, the deletion of single marks,
and a sidecar deleted by somebody else.

### AnnotationService

One action per point at which the actor can notice other threads: a command is
received, the mailbox is found empty, the leases are read, an operation is
chosen, and carried out. `scheduled` and `ready_set` both say that a lane is in
`ready`, so the model has only the queue. A client has one document, as `attach`
makes them. The order in which a hash map lists the lanes to be closed is a free
choice. Clients follow the PDF reader: a new document is shown, its annotations
are loaded, edited and saved over the last revision reported; beyond the reader,
a client may still save the document it left. Dropping a client marks the lease
and then nudges the actor, two steps with anything in between. The store is
atomic here, its failures a free choice. Of `diagnostics` only the waiting in the
loop is modelled, not the counts it returns.

### ProjectStore

Every call of the store is synchronous but makes several writes, so a call is
its trail: the sequence of disk contents it passes through. It completes in the
last one, or the process ends in an earlier one and the next start finds that. A
chat is a sequence of records with a `seq`; a write that fails half-way leaves a
torn line, which swallows the record appended after it. A document is not its
path, so that a path can be given up by one document and taken by another. The
panel's `ids` and `reply` are what the renderer holds and what is on its way to
it. `late` collects what was said under ids that the index no longer gives.

### AgentLoop

A run is suspended in a stream, a tool, a retry delay or a summary; each
suspension is a record with the generation it began in, as the closures of the
code capture it, and what happens between two suspensions is one step. The
transport's streams may send on after they were given up by the watchdog or
aborted (`streams` keeps them), and the loop must ignore them. Where the history
is cut depends on sizes in the code and is any user message here. `base`,
`ends` and `dropped` are history. The application's hooks (`buildContext`,
`captureSnapshot`, `verifyResponse`) are assumed not to throw: the code calls them
outside any `try` after `running` was set, and one that throws would leave the
loop busy until the conversation is dropped.

### AssetLifecycle

The documents of one folder, two of them open. A text is the set of images it
refers to. What touches the manifest queues for `withManifestLock` (`queue`, its
head holds the lock); a job that deletes first looks (`Reconciles`, `Resolves`),
then takes the images one by one, then writes the manifest or fails to. The
texts are written by `Writes` without that lock, as in the code. A sibling that
cannot be read or understood protects everything, and an image that cannot be
read counts as modified. `changed` stands for the digests: a name in it no longer
has the recorded bytes.

## 4. Runs

| Run | Checks | Bounds | States |
|---|---|---|---|
| `bridge_queue` | byte budget, slots and permits of one child | six calls of all classes, two regular slots of which one for background, one urgent slot, a byte budget that the calls exceed | 375 k |
| `bridge_restart` | promises and execution across child processes; every promise settles | four calls, two of them twins, two children | 226 k |
| `registry_launch` | what is in the file, the chain of mutations, retiring and letting go of backends | an empty registry; a request to all workspaces, two adds (one of a copy), a change of appearance, a limit of two, one restart | 1.7 M |
| `latest_wins` | bounds, cancellation, publication and draining of the queue | three keys, two priorities, two slots of each kind, four demands | 394 k |
| `sidecar_saves` | acknowledged marks, refinement of `AnnotationStore`, every save ends | two processes, two marks, two versions of the PDF, one power failure | 227 k |
| `sidecar_replaced` | a violation, see below | two processes, two marks, the PDF replaced once | |
| `service_one` | snapshots, events and conflicts of one reader; clean-up and shutdown | two documents, two saves, two revisions, one foreign save, queues of one and two events | 243 k |
| `service_two` | no reader holds up another | two readers that open three and two documents, queues of one event | 194 k |
| `service_dropped` | a violation, see below | one reader, two saves | |
| `store_chats` | messages and their order across saves, renames, moves and deleted projects | two documents, two paths, two projects, three messages; two renames, moves or faults, of which one end of the process or failed append | 584 k |
| `agent_runs` | history, overlap, end and stop of runs | two runs and one reset after a restored transcript; two turns, three messages of history, one retry, two calls in a first turn | 253 k |
| `asset_saves` | what a save, a close or a rename may delete | two windows, three names, one image name, two saves, two other events (insertion, close, rename, foreign change, crash) | 1.3 M |

The bounds are chosen so that every limit is reached and every interesting pair
of events overlaps: the bridge's limits are each one less than what the calls
could use; two children are enough for an event of the old one to meet the
requests of the new one, because every decision compares with the current child
only; three keys over two slots make an eviction and a replacement meet; three
documents are one more than a reader's two event queues hold; two runs let the
remains of a dropped one meet the next; one image name is enough for a deleted
name to be given out again, and two windows for a text to be written while the
other collects. The theorems remove the bounds for what they cover.

### What the runs show

All properties hold, but for two, each in a run of its own.

`AcknowledgedKept` holds while the PDF stays the same file. In `sidecar_replaced`
a copy with the same bytes takes its place during a save. The second saver locks
the new file, so both hold a lock; both pass every check, which compare bytes, and
the older one renames its sidecar over the acknowledged one.

`AcceptedSavesEnter` says that a save that was accepted enters its lane, as the
test `detach_flushes_and_removes_client_and_document_state` and the comment at
`service.rs:341` have it. In `service_dropped` the actor finds the mailbox empty,
the client saves and is dropped, and the actor then reads the leases: the lane is
closed before the save is received, and the save is ignored.

Where a property that one would like does not hold and nothing in the repository
promises it in so many words, the property names the exception, and TLC shows
that there is no other:

- `LosesOnlyAtOverlap`: `add` makes its entry visible (line 150) before its
  backend is in the map (line 157). A request to all workspaces in between makes
  a second backend for the same folder, which `add` then drops from the map
  without closing it.
- `HistoryKept`: what is said between the store's answer to the first save's
  rebind and its arrival in the panel goes to the abandoned temporary chat, and
  so does everything said in a panel whose first resolve was unanswered at the
  first save; these are the messages of `late`.
- `LostOnlyByMove`: a move renames the chat over one that the target project
  already has; and a record appended to a torn line is lost with it.
- `SeqsDistinct` has three exceptions. A chat is renamed to one whose opening
  messages are still buffered (`Overtaken`). A move brings the messages of a chat
  that has no counter, because nothing was said in it since the start, to a key
  whose counter it leaves as it is (lines 691-693, `CounterKept`). A chat none of
  whose messages could be written has a counter and no file, and a rebind or a
  move gives that counter to the target, which may hold higher numbers (lines
  455-460, `CounterGiven`). The last two were met in the attempt to prove an
  earlier, simpler form of the property, which held on the instance of the run
  but not beyond it.
- `CollectsOnlyUnused`: a reference that another window's save brings into its
  text after the deleting job has read that text is not seen.
- `LaterInsertionsSurvive`: an image that takes the name of one that was pending
  when the save began is settled with it, for names are all that the save
  remembers. The property is about images that are still pending: two windows
  that save as the same document settle each other's.

### Fairness

`RustBridge`: the event loop finishes the loops of a handler, and due timers
fire; nothing is assumed of the backend. `LatestWinsQueue`: workers ask for
work while a slot is free and complete what they took. `SidecarStore`
(`InPlaceSpec`): the steps of a save go on unless its process crashes, and a
process that waits for a lock that is free again and again gets it (the operating
system queues the waiters). `AnnotationService`: the actor's thread runs and a
drop that was begun ends; nothing is assumed of readers taking their events.
`AgentLoop`: what is under way goes on, in any order: streams settle because the
watchdog does, delays end because timers fire, and a tool is assumed to return;
nothing is assumed of the user. `WorkspaceRegistry`, `ProjectStore` and
`AssetLifecycle` are checked for safety only: every step of theirs ends by itself,
and that nobody is left waiting in the registry is the invariant
`WaitsOnlyForRunning`.

Deadlock is checked where the system should never stop by itself. The runs
`store_chats`, `agent_runs` and `asset_saves` end when their bounds are used up.

## 5. Proofs

Each proof module states one inductive invariant, proves that `Init` implies it
and every step keeps it, and draws its theorems from it. The invariants were
checked with TLC on the instances of section 4 before they were proved. The
theorems hold for every value of the constants, the bounds among them (numbers of
callers, saves, runs, crashes), under the named assumptions of the modules: the
types of the constants, and where a limit of the code matters, the relation
between the limits that the code's values have. Two assumptions say more:

- `StoreAssumption` (`ProjectStore`): at most 200 messages are said, the least
  limit `loadChat` is called with, so that its cut takes nothing away. The
  events (ends of the process, failed appends, renames, moves) are unlimited.
- `TranscriptAssumption` (`AgentLoop`): the panels restore user and assistant
  texts only, without tool calls (docs `AiPanel.tsx:545`), and a chat begins with
  the user's message; a longer chat is loaded from its 200th message from the end
  (docs `AiPanel.tsx:518`), which is more than the 40 the loop keeps (`loop.ts:508`).

| Module | Theorems | Property |
|---|---|---|
| `QueueProofs` | `TypeCorrect`, `NoOrphans` | types; nothing is queued or sent without a child |
| | `NoLostWaiter` | `EveryWaiterHeldOnce` |
| | `RetryIsSafe`, `ResponsesAreExpected`, `ExitIsOwn` | `SafeToRetry`, `NoUnexpectedResponse`, `OnlyOwnExit` |
| | `UserNeverStarved`, `NobodyTurnedAway`, `BudgetIsExact` | `UserWaitsOnlyForUsers`, `NeverTurnedAway`, `BytesAccounted` |
| | `QueueTypeCorrect`, `LatestIsTracked`, `StartsLive` | `QueueTypeOK`; the map of latest demands; nothing cancelled is started |
| | `StopsSuperseded`, `OneWorker`, `LatestWins` | `SupersededIsCancelled`, `OneWorkerPerKey`, `PublishesLatest` |
| `SidecarStoreProofs` | `AcknowledgedIsKept` | `AcknowledgedKept`, while the PDF keeps its file |
| | `SidecarImplementsStore` | `StoreContract`, while the PDF keeps its file |
| `WorkspaceRegistryProofs` | `AddedIsForGood`, `ChainNeverHangs` | `AddedForGood`, `WaitsOnlyForRunning` |
| | `RetireIsSafe`, `LossesAreOverlaps` | `RetireInterruptsNothing`, `LosesOnlyAtOverlap` |
| `AnnotationServiceProofs` | `NewestIsKept`, `EventsStayInOrder`, `StopsDrained` | `NewestSnapshotSurvives`, `EventsInOrder`, `DrainsBeforeStop` |
| | `OwnSavesDoNotConflict`, `NothingUnseenIsOverwritten` | `AloneNeverConflicts`, `WritesOnlySeen` |
| `AgentLoopProofs` | `WaitsForOneThing`, `RunsEndOnce`, `CancelStopsTheRun` | `OneThing`, `EndsOnce`, `StopsAfterCancel` |
| | `RequestsAreWellFormed`, `FailureLeavesNothing` | `HistoryWellFormed`, `FailedRunLeavesNothing` |
| `ProjectStoreProofs` | `ChatsStayApart`, `NothingSaidIsLost` | `OwnHistoryOnly`, `HistoryKept` |
| | `LossesAreMoves`, `SeqsStayDistinct` | `LostOnlyByMove`, `SeqsDistinct` |
| `AssetLifecycleProofs` | `CollectionIsSafe`, `SavesSettleWhatTheyAsked` | `CollectsOnlyUnused`, `LaterInsertionsSurvive` |

**The bridge.** `HoldInv` adds to `EveryWaiterHeldOnce` who may be in the middle of
a loop (`TurnInv`) and that a call not yet made has no followers (`NewInv`),
without which a new request could arrive with somebody already waiting on it.
Each action takes requests out of, or puts one into, the union of queue and
pending map; `SettleOne` and `FailHold` show that what leaves is exactly what is
settled. `SentInv` follows a request on: into the stdin, the tasks and the stdout
of the one child it was sent to, at most once (`PlaceInv`, `OnceInv`); that is why
nothing is executed twice and every answer is one the bridge waits for.
`DrainedInv` says what a finished drain leaves in the queue. `PermitInv` counts, for
each child, what it still has to answer and the permits of tasks that have
answered; the second are bounded by the runtime's threads, and the sum by the
permits. `BudgetIsExact` is a statement about sums: `MapThenSumSet` is defined by
recursion over a set, and instead of an induction, which the prover does not
have, `SequenceLemmas` takes a counterexample of least cardinality and shows that
there is a smaller one.

**The latest-wins queue.** `QueueInv` adds to the properties that revisions only
grow (`OrderInv`: a queued demand is newer than the running and the published one
of its key, and no other key has its revision), which is what makes cancelling by
revision hit nobody else, and that the map of latest demands never names anything
but the last demand asked for (`AskedInv`).

**The sidecar store.** Between its comparison and its rename a saver has the lock of
the PDF's only file (`LockInv`), so what it compared with is what it replaces
(`DecidedInv`, `RenamedInv`), and the snapshot it writes has every mark of the
revision it expects (`BaseInv`). The same facts give the refinement: the rename is
the abstract save, the sync of the directory its hardening, a power failure its
counterpart, every other step a stutter. This is where a replaced PDF breaks the
argument: `LockInv` speaks of one file.

**The registry.** `ChainInv`: the chain holds exactly those that wait for it or work
in it, each once, and only its head is at work. On it rest `FileInv` (the file is
the list in memory but for the entry of the add at work, and both can be loaded)
and `HostInv` and `RetireInv` (whose backend is in the map, which callers are at
it, and that a backend found idle stays so while it may be retired).

**The annotation service.** The invariant has nine layers, each proved on the ones
before it: types; turns (a lane is in `ready` when it has something to do); lanes
(what a lane of each status may hold); clients that have not come yet; the
shutdown; the newest snapshot; the numbering of events; the flow; the disk. `FlowInv` is
the one that took the work. The loads and saves of one client pass from the mailbox
through its lane into its events, and the reader learns a revision only at the
end; what a save may expect depends on what is still under way. `FlowInv`
takes mailbox, lane and events of one client as one passage and says how
generations and revisions grow along it, and `DiskInv` ties it to the stored
snapshots: without it a coalesced save could carry an expectation that another
of the same client has already outdated. Every layer is stated for one client
and proved for it alone, with a lemma that the steps of others leave it as it is.

**The agent loop.** `LoopInv` says which one thing a busy run waits for and that
nothing carries a generation still to come, so that after `reset` nothing of the
new generation is under way; with the number of ends of every run that gives the
two invariants, and the stop as an action property. `HistoryInv` adds what the
history is at each of these waits: between runs a conversation (every call
answered, no two user messages in a row, an answer at the end), during a stream or a
delay a request (the conversation before the run, or what trimming and compaction
left of it, the user's message, and answered calls behind it), during a tool a
request with one message whose calls are being answered. Trimming, compacting and
restoring are filters and cuts at user messages; a lemma for each shows what it
keeps. That a failed run leaves nothing follows because `base` is the history at
its begin and the rollback cuts at the message `runUserMsg` names.

**The project store.** A call is a trail of disks, so every lemma is about all disks
of a trail, and a crash needs no case of its own. `StoreInv` gives every chat id its
owners, the documents that have had the path whose hash it is or the one document
of a temporary id, and says that all the store and the panels hold under an id is
of its owners. `KeptInv` follows the messages while nothing fails: what was said
under current ids is heard (`Heard`) at the key the document's path resolves to,
or is in the bin (`InBin`), and no two documents are at one place (`Placed`).
For losses and numbers the paths may change hands, so both take the largest
possible owners (`Anyone`) and rest on `DiskInv`. A set of disks is `Calm` when
writing the index or a file list does not leave it; the operations that write
nothing else are then proved once for every such set, and used with the disks that
still hold a given set of messages (`SafeDisks`), with those whose files have
distinct numbers (`ApartDisks`), and with those that only lack some chats
(`Shrunk`). `SeqsStayDistinct` is not about an invariant, since the exceptions
spoil the numbering for good: it shows that each step from a well-numbered store
leads to one or is one of the exceptions, where `WellNumbered` says that the
numbers of a chat, in file and buffer, are distinct and below its counter.

**The images.** A job decides when it looks what it will delete, and deletes later,
while other windows go on. `GcInv` carries its findings through the deletions;
`SaveInv` (a save has at most one job in the queue and does not move while it
waits) keeps what the job remembers of its save from changing under it.

Only model-checked:

- liveness (`EveryPromiseSettles`, `EveryRunEnds`, `EverySaveEnds`, `DroppedLanesGo`,
  `ShutdownEnds`, `LanesAreServed`, `QueueDrains`), which is beyond the prover;
- the two properties that fail, of which there is nothing to prove.

Every other property a run checks is stated by a theorem.

## 6. Not modelled

The repository has close to half a million lines of implementation. Most of it
is what a model checker says little about, and is left out for that reason:

- parsers, generators and renderers of file formats (docx, pptx, xlsx, HTML,
  Markdown, PDF layout): pure conversions over inputs far beyond enumeration;
- user interfaces, drawing, foreign libraries and their bindings;
- the contents of messages, documents and databases; SQL inside one transaction;
- ranking and embedding, which are numerical;
- parts with the shape of one already modelled: the native PDF process and the
  spreadsheet sidecar (a child process behind a map of requests, as the bridge),
  the analysis scheduler (queue discipline, as the latest-wins queue), the copy of
  `asset-lifecycle.ts` in the Markdown editor.

Of the modelled parts these are left out: the merged pages of the registry, Save
As into another folder (`prepareAssetsForSaveAs`), listings of projects, the
network side of the agent loop (providers, Codex sessions), the reassembly of
frames in the bridge. `PROJECT.json` lists every part with its reason.
