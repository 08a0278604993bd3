----------------------------- MODULE RustBridge -----------------------------
(***************************************************************************)
(* The Electron main process's bridge to one workspace backend            *)
(* (apps/key-office/apps/key/src/main/rust-bridge.ts, class RustHost)      *)
(* composed with the request loop of that backend                          *)
(* (crates/key-desktop-host/src/main.rs, run).                             *)
(*                                                                         *)
(* One `invoke' is one member of Calls: it stands for the promise handed   *)
(* to the caller and, when it is queued, for the request with its fresh    *)
(* id.  The main process is one JavaScript thread, so a handler runs to    *)
(* its end before another starts.  The two loops inside a handler (making  *)
(* room, draining) take one model step per iteration; `turn' keeps every   *)
(* other handler out until the loop is over, while the backend, another    *)
(* process, may take steps in between.                                     *)
(***************************************************************************)
EXTENDS Integers, Sequences, FiniteSets, SequencesExt, FiniteSetsExt

CONSTANTS
  Calls, NoCall,        \* the invoke() calls the application may make
  Class,                \* Class[c]: "urgent", "user" or "background"
  Key,                  \* Key[c]: command and arguments, as the twin test compares them
  Bytes,                \* Bytes[c]: size of the arguments and the binary body
  Oversized,            \* calls whose arguments or body exceed their own limit
  Overlong,             \* calls whose control frame turns out too long when it is sent
  Immediate,            \* calls the host answers in its read loop, without a permit
  IN_FLIGHT, BACKGROUND_IN_FLIGHT, URGENT_IN_FLIGHT, BACKGROUND_QUEUED,
  MAX_QUEUED_BYTES, URGENT_SLACK,
  ADMISSION,            \* permits of the host's semaphore
  WORKERS,              \* threads of the host's async runtime
  MaxSpawns             \* bound: child processes per behaviour

Urgent(c) == Class[c] = "urgent"
Background(c) == Class[c] = "background"
User(c) == Class[c] = "user"

ASSUME CallsAssumption ==
  /\ IsFiniteSet(Calls) /\ NoCall \notin Calls
  /\ Class \in [Calls -> {"urgent", "user", "background"}]
  /\ Bytes \in [Calls -> Nat]
  /\ Oversized \subseteq Calls
  /\ Overlong \subseteq Calls
  /\ Immediate \subseteq Calls

(* URGENT and Host::immediate name the same two commands.                  *)
ASSUME UrgentIsImmediate == \A c \in Calls : Class[c] = "urgent" => c \in Immediate

ASSUME LimitsAssumption ==
  /\ {IN_FLIGHT, BACKGROUND_IN_FLIGHT, URGENT_IN_FLIGHT, BACKGROUND_QUEUED,
      MAX_QUEUED_BYTES, URGENT_SLACK, ADMISSION, WORKERS, MaxSpawns} \subseteq Nat
  /\ BACKGROUND_IN_FLIGHT <= IN_FLIGHT

(* Sixteen permits, six requests in flight and four runtime threads.       *)
ASSUME AdmissionAssumption == IN_FLIGHT + WORKERS <= ADMISSION

Spawns == 1..MaxSpawns

(* What becomes of a promise.  "unsent": rejected before anything was sent  *)
(* (refused, skipped to make room, timed out in the queue, no child could be *)
(* spawned); "answered": settled with the host's answer, value or error;     *)
(* "exited", "protocol" and "lost": rejected by fail() because the child     *)
(* ended, because of its response, or for any other reason.                  *)
Outcomes == {"unsent", "answered", "exited", "protocol", "lost"}

VARIABLES
  queue,        \* this.queue
  pending,      \* this.pending
  followers,    \* request.followers of each request
  queuedBytes,  \* this.queuedBytes
  closed,       \* this.closed
  child,        \* this.child: the spawn number of the current child, 0 for undefined
  spawned,      \* children started so far
  promise,      \* state of the promise of each call: "new", "waiting" or an outcome
  turn,         \* the loop the running handler is in: "idle", "room" or "drain"
  arriving,     \* the call being admitted while turn = "room"
  stdin,        \* per child: requests written to it and not read yet
  running,      \* per child: tasks that hold a permit and have not answered
  lagging,      \* per child: tasks that answered and still hold their permit
  stdout,       \* per child: responses written and not yet delivered
  alive,        \* per child: the process exists
  exitSeen,     \* per child: its exit event was delivered
  handled       \* how often the host started to execute each call's request

bridge == <<queue, pending, followers, queuedBytes, closed, child,
            spawned, promise, turn, arriving>>
host == <<stdin, running, lagging, stdout, alive, exitSeen, handled>>
vars == <<bridge, host>>

-----------------------------------------------------------------------------
(* Requests and the promises that wait on them *)

Requests == ToSet(queue) \cup pending

(* A request's own caller and everyone who joined it. *)
Waiters(R) == R \cup UNION {followers[r] : r \in R}

(* Bug: followers are not told. *)
Settled_LeavesFollowers(p, R, outcome) ==
  [c \in Calls |-> IF c \in R THEN outcome ELSE p[c]]

(* settle: answers a request and everyone who joined it. *)
Settled(p, R, outcome) ==
  [c \in Calls |-> IF c \in Waiters(R) THEN outcome ELSE p[c]]

Count(S, Test(_)) == Cardinality({c \in S : Test(c)})

Regular(c) == ~Urgent(c)

(* Bug: background work is not held to its own share. *)
MaySend_NoBackgroundShare(c, sent) ==
  IF Urgent(c) THEN Count(sent, Urgent) < URGENT_IN_FLIGHT
  ELSE Count(sent, Regular) < IN_FLIGHT

(* Bug: user actions and background work are counted apart. *)
MaySend_CountsApart(c, sent) ==
  CASE Urgent(c)     -> Count(sent, Urgent) < URGENT_IN_FLIGHT
    [] User(c)       -> Count(sent, User) < IN_FLIGHT
    [] Background(c) -> Count(sent, Background) < BACKGROUND_IN_FLIGHT

(* The admission test of drain for one queued request, given what is sent. *)
MaySend(c, sent) ==
  IF Urgent(c) THEN Count(sent, Urgent) < URGENT_IN_FLIGHT
  ELSE /\ Count(sent, Regular) < IN_FLIGHT
       /\ Background(c) => Count(sent, Background) < BACKGROUND_IN_FLIGHT

Sendable(q, sent) == {i \in 1..Len(q) : MaySend(q[i], sent)}

(* What is left of a handler that ends by calling drain. *)
AfterDrain(q, sent) == IF Sendable(q, sent) = {} THEN "idle" ELSE "drain"

(* fail: every queued and sent request is rejected, the child is given up. *)
(* The process itself dies later, in HostDies.                             *)
Fail(outcome) ==
  /\ child' = 0
  /\ promise' = Settled(promise, Requests, outcome)
  /\ queue' = <<>>
  /\ pending' = {}
  /\ queuedBytes' = 0
  /\ turn' = "idle"
  /\ arriving' = NoCall

Init ==
  /\ queue = <<>>
  /\ pending = {}
  /\ followers = [c \in Calls |-> {}]
  /\ queuedBytes = 0
  /\ closed = FALSE
  /\ child = 0
  /\ spawned = 0
  /\ promise = [c \in Calls |-> "new"]
  /\ turn = "idle"
  /\ arriving = NoCall
  /\ stdin = [g \in Spawns |-> <<>>]
  /\ running = [g \in Spawns |-> {}]
  /\ lagging = [g \in Spawns |-> {}]
  /\ stdout = [g \in Spawns |-> <<>>]
  /\ alive = [g \in Spawns |-> FALSE]
  /\ exitSeen = [g \in Spawns |-> FALSE]
  /\ handled = [c \in Calls |-> 0]

-----------------------------------------------------------------------------
(* invoke *)

QueuedBackground == {i \in 1..Len(queue) : Background(queue[i])}

(* The queued request whose answer a background call shares. *)
Twins(c) == {i \in QueuedBackground : Background(c) /\ Key[queue[i]] = Key[c]}

(* Urgent requests go in front, user actions before the first background    *)
(* request, background work at the end.                                     *)
Enqueued(c) ==
  LET firstBackground == IF QueuedBackground = {} THEN Len(queue) + 1
                                                  ELSE Min(QueuedBackground)
  IN  IF Urgent(c) THEN <<c>> \o queue
      ELSE IF Background(c) THEN Append(queue, c)
      ELSE InsertAt(queue, firstBackground, c)

BackgroundFull(c) == Background(c) /\ Cardinality(QueuedBackground) >= BACKGROUND_QUEUED

OverBudget(c) == queuedBytes + Bytes[c] > MAX_QUEUED_BYTES

QueueFull(c) ==
  \/ Urgent(c) /\ Count(Requests, Urgent) >= URGENT_IN_FLIGHT
  \/ queuedBytes + Bytes[c] > MAX_QUEUED_BYTES + (IF Urgent(c) THEN URGENT_SLACK ELSE 0)

(* invoke has got past its early returns, or is making room for this call. *)
Admitting(c) ==
  \/ /\ turn = "idle" /\ promise[c] = "new"
     /\ ~closed /\ c \notin Oversized
     /\ Twins(c) = {} /\ ~BackgroundFull(c)
  \/ turn = "room" /\ arriving = c

InvokeRefused(c) ==
  /\ turn = "idle" /\ promise[c] = "new"
  /\ closed \/ c \in Oversized \/ (Twins(c) = {} /\ BackgroundFull(c))
  /\ promise' = [promise EXCEPT ![c] = "unsent"]
  /\ UNCHANGED <<queue, pending, followers, queuedBytes, closed, child, spawned,
                 turn, arriving, host>>

InvokeJoins(c) ==
  /\ turn = "idle" /\ promise[c] = "new"
  /\ ~closed /\ c \notin Oversized
  /\ \E i \in Twins(c) :
       /\ \A j \in Twins(c) : i <= j
       /\ followers' = [followers EXCEPT ![queue[i]] = @ \cup {c}]
  /\ promise' = [promise EXCEPT ![c] = "waiting"]
  /\ UNCHANGED <<queue, pending, queuedBytes, closed, child, spawned, turn,
                 arriving, host>>

(* One dropBackground of the loop that makes room: the newest queued        *)
(* background request is given up.                                          *)
InvokeMakesRoom(c) ==
  /\ Admitting(c)
  /\ OverBudget(c)
  /\ \E i \in QueuedBackground :
       /\ \A j \in QueuedBackground : j <= i
       /\ queue' = RemoveAt(queue, i)
       /\ queuedBytes' = queuedBytes - Bytes[queue[i]]
       /\ promise' = Settled(promise, {queue[i]}, "unsent")
  /\ turn' = "room"
  /\ arriving' = c
  /\ UNCHANGED <<pending, followers, closed, child, spawned, host>>

InvokeFull(c) ==
  /\ Admitting(c)
  /\ ~(OverBudget(c) /\ QueuedBackground # {})
  /\ QueueFull(c)
  /\ promise' = [promise EXCEPT ![c] = "unsent"]
  /\ turn' = "idle"
  /\ arriving' = NoCall
  /\ UNCHANGED <<queue, pending, followers, queuedBytes, closed, child, spawned, host>>

Accepts(c) ==
  /\ Admitting(c)
  /\ ~(OverBudget(c) /\ QueuedBackground # {})
  /\ ~QueueFull(c)

(* The request is queued, a child is started if there is none (start), and  *)
(* the queue is drained.                                                    *)
InvokeQueues(c) ==
  /\ Accepts(c)
  /\ queue' = Enqueued(c)
  /\ queuedBytes' = queuedBytes + Bytes[c]
  /\ promise' = [promise EXCEPT ![c] = "waiting"]
  /\ \/ child # 0 /\ UNCHANGED <<child, spawned, alive>>
     \/ /\ child = 0 /\ spawned < MaxSpawns
        /\ spawned' = spawned + 1
        /\ child' = spawned + 1
        /\ alive' = [alive EXCEPT ![spawned + 1] = TRUE]
  /\ turn' = AfterDrain(Enqueued(c), pending)
  /\ arriving' = NoCall
  /\ UNCHANGED <<pending, followers, closed, stdin, running, lagging, stdout,
                 exitSeen, handled>>

(* spawn throws: the catch block rejects everything, this call included. *)
InvokeSpawnThrows(c) ==
  /\ Accepts(c) /\ child = 0
  /\ promise' = Settled(promise, Requests \cup {c}, "unsent")
  /\ queue' = <<>> /\ pending' = {} /\ queuedBytes' = 0
  /\ turn' = "idle" /\ arriving' = NoCall
  /\ UNCHANGED <<followers, closed, child, spawned, host>>

(* The request at position i is written; a dead child's pipe loses it. *)
Sends(i) ==
  LET c == queue[i]
  IN  /\ queue' = RemoveAt(queue, i)
      /\ pending' = pending \cup {c}
      /\ stdin' = IF alive[child] THEN [stdin EXCEPT ![child] = Append(@, c)] ELSE stdin
      /\ turn' = AfterDrain(RemoveAt(queue, i), pending \cup {c})
      /\ UNCHANGED <<queuedBytes, child, promise, arriving>>

(* One iteration of drain: the first request that may go now is written.    *)
DrainSends ==
  /\ turn = "drain" /\ child # 0
  /\ \E i \in Sendable(queue, pending) :
       /\ \A j \in Sendable(queue, pending) : i <= j
       /\ IF queue[i] \in Overlong
          THEN Fail("lost") /\ UNCHANGED stdin
          ELSE Sends(i)
  /\ UNCHANGED <<followers, closed, spawned, running, lagging, stdout, alive,
                 exitSeen, handled>>

-----------------------------------------------------------------------------
(* Timers, child events and close *)

(* Bug: the bytes of a request that timed out stay counted. *)
TimeoutQueued_KeepsBytes(c) ==
  /\ turn = "idle"
  /\ \E i \in 1..Len(queue) : queue[i] = c /\ queue' = RemoveAt(queue, i)
  /\ promise' = Settled(promise, {c}, "unsent")
  /\ UNCHANGED <<pending, followers, queuedBytes, closed, child, spawned, turn, arriving, host>>

(* Bug: a request that timed out stays in the queue. *)
TimeoutQueued_StillQueued(c) ==
  /\ turn = "idle" /\ c \in ToSet(queue)
  /\ promise' = Settled(promise, {c}, "unsent")
  /\ UNCHANGED <<queue, pending, followers, queuedBytes, closed, child, spawned, turn, arriving, host>>

TimeoutQueued(c) ==
  /\ turn = "idle"
  /\ \E i \in 1..Len(queue) : queue[i] = c /\ queue' = RemoveAt(queue, i)
  /\ queuedBytes' = queuedBytes - Bytes[c]
  /\ promise' = Settled(promise, {c}, "unsent")
  /\ UNCHANGED <<pending, followers, closed, child, spawned, turn, arriving, host>>

TimeoutSent(c) ==
  /\ turn = "idle" /\ c \in pending
  /\ Fail("lost")
  /\ UNCHANGED <<followers, closed, spawned, host>>

(* The answer to a sent request: it leaves the pending map, its callers are  *)
(* told, and the queue is drained.                                           *)
Answered(c) ==
  /\ pending' = pending \ {c}
  /\ queuedBytes' = queuedBytes - Bytes[c]
  /\ promise' = Settled(promise, {c}, "answered")
  /\ turn' = AfterDrain(queue, pending \ {c})
  /\ UNCHANGED <<queue, followers, closed, child, spawned, arriving>>

(* Bug: output of a child given up earlier is parsed too. *)
Delivers_AnyChild(g) ==
  /\ turn = "idle" /\ stdout[g] # <<>>
  /\ stdout' = [stdout EXCEPT ![g] = Tail(@)]
  /\ LET m == Head(stdout[g])
     IN  IF m.id \notin pending
         THEN Fail("protocol") /\ UNCHANGED <<followers, closed, spawned>>
         ELSE Answered(m.id)
  /\ UNCHANGED <<stdin, running, lagging, alive, exitSeen, handled>>

(* One response frame of child g: ignored from a child given up earlier,    *)
(* an error when nobody waits for it, else it settles its request.          *)
Delivers(g) ==
  /\ turn = "idle" /\ stdout[g] # <<>>
  /\ stdout' = [stdout EXCEPT ![g] = Tail(@)]
  /\ LET m == Head(stdout[g])
     IN  IF g # child THEN UNCHANGED bridge
         ELSE IF m.id \notin pending
         THEN Fail("protocol") /\ UNCHANGED <<followers, closed, spawned>>
         ELSE Answered(m.id)
  /\ UNCHANGED <<stdin, running, lagging, alive, exitSeen, handled>>

(* Bug: the exit of a child given up earlier fails the current one. *)
Exits_AnyChild(g) ==
  /\ turn = "idle" /\ g <= spawned /\ ~alive[g] /\ ~exitSeen[g]
  /\ exitSeen' = [exitSeen EXCEPT ![g] = TRUE]
  /\ Fail("exited")
  /\ UNCHANGED <<followers, closed, spawned, stdin, running, lagging, stdout, alive, handled>>

(* The exit (or error) event of a dead child; node may deliver it before    *)
(* the last of its output.                                                  *)
Exits(g) ==
  /\ turn = "idle" /\ g <= spawned /\ ~alive[g] /\ ~exitSeen[g]
  /\ exitSeen' = [exitSeen EXCEPT ![g] = TRUE]
  /\ \/ g # child /\ UNCHANGED bridge
     \/ g = child /\ Fail("exited") /\ UNCHANGED <<followers, closed, spawned>>
  /\ UNCHANGED <<stdin, running, lagging, stdout, alive, handled>>

Close ==
  /\ turn = "idle" /\ ~closed
  /\ closed' = TRUE
  /\ Fail("lost")
  /\ UNCHANGED <<followers, spawned, host>>

-----------------------------------------------------------------------------
(* The host's request loop and its tasks *)

Permits(g) == running[g] \cup lagging[g]

Respond(g, c, kind) ==
  stdout' = [stdout EXCEPT ![g] = Append(@, [id |-> c, kind |-> kind])]

(* The read loop takes one request: it answers an immediate one itself,     *)
(* starts a task when a permit is free, and turns the request away when not. *)
HostReads(g) ==
  /\ alive[g] /\ stdin[g] # <<>>
  /\ stdin' = [stdin EXCEPT ![g] = Tail(@)]
  /\ LET c == Head(stdin[g])
         admitted == Cardinality(Permits(g)) < ADMISSION
     IN  IF c \in Immediate \/ ~admitted
         THEN /\ Respond(g, c, IF c \in Immediate THEN "answer" ELSE "busy")
              /\ handled' = [handled EXCEPT ![c] = @ + (IF c \in Immediate THEN 1 ELSE 0)]
              /\ UNCHANGED running
         ELSE /\ running' = [running EXCEPT ![g] = @ \cup {c}]
              /\ handled' = [handled EXCEPT ![c] = @ + 1]
              /\ UNCHANGED stdout
  /\ UNCHANGED <<bridge, lagging, alive, exitSeen>>

(* A task writes its answer.  It occupies a runtime thread from there until *)
(* it drops its permit.                                                     *)
HostAnswers(g, c) ==
  /\ alive[g] /\ c \in running[g] /\ Cardinality(lagging[g]) < WORKERS
  /\ Respond(g, c, "answer")
  /\ running' = [running EXCEPT ![g] = @ \ {c}]
  /\ lagging' = [lagging EXCEPT ![g] = @ \cup {c}]
  /\ UNCHANGED <<bridge, stdin, alive, exitSeen, handled>>

HostReleases(g, c) ==
  /\ alive[g] /\ c \in lagging[g]
  /\ lagging' = [lagging EXCEPT ![g] = @ \ {c}]
  /\ UNCHANGED <<bridge, stdin, running, stdout, alive, exitSeen, handled>>

(* The process ends: a crash, a kill from fail(), or end of file on stdin.  *)
HostDies(g) ==
  /\ alive[g]
  /\ alive' = [alive EXCEPT ![g] = FALSE]
  /\ stdin' = [stdin EXCEPT ![g] = <<>>]
  /\ running' = [running EXCEPT ![g] = {}]
  /\ lagging' = [lagging EXCEPT ![g] = {}]
  /\ UNCHANGED <<bridge, stdout, exitSeen, handled>>

(* The application makes no further call. *)
Done ==
  /\ turn = "idle" /\ \A c \in Calls : promise[c] \in Outcomes
  /\ UNCHANGED vars

Next ==
  \/ \E c \in Calls :
       \/ InvokeRefused(c) \/ InvokeJoins(c) \/ InvokeMakesRoom(c) \/ InvokeFull(c)
       \/ InvokeQueues(c) \/ InvokeSpawnThrows(c)
       \/ TimeoutQueued(c) \/ TimeoutSent(c)
  \/ DrainSends
  \/ Close
  \/ \E g \in Spawns :
       \/ Delivers(g) \/ Exits(g) \/ HostReads(g) \/ HostDies(g)
       \/ \E c \in Calls : HostAnswers(g, c) \/ HostReleases(g, c)
  \/ Done

Spec == Init /\ [][Next]_vars

(* An invoke that is making room goes on to its end. *)
Resume(c) ==
  /\ turn = "room"
  /\ InvokeMakesRoom(c) \/ InvokeFull(c) \/ InvokeQueues(c) \/ InvokeSpawnThrows(c)

(* The event loop runs: a handler ends its loops and a due timer fires.     *)
(* Nothing is assumed of the host.                                          *)
Fairness ==
  /\ WF_vars(DrainSends)
  /\ \A c \in Calls : WF_vars(Resume(c)) /\ WF_vars(TimeoutQueued(c) \/ TimeoutSent(c))

FairSpec == Spec /\ Fairness

-----------------------------------------------------------------------------
(* Properties *)

Responses == [id : Calls, kind : {"answer", "busy"}]

(* Every variable stays in its type. *)
TypeOK ==
  /\ queue \in Seq(Calls)
  /\ pending \subseteq Calls
  /\ followers \in [Calls -> SUBSET Calls]
  /\ queuedBytes \in Int
  /\ closed \in BOOLEAN
  /\ child \in {0} \cup Spawns
  /\ spawned \in 0..MaxSpawns
  /\ promise \in [Calls -> {"new", "waiting"} \cup Outcomes]
  /\ turn \in {"idle", "room", "drain"}
  /\ arriving \in Calls \cup {NoCall}
  /\ stdin \in [Spawns -> Seq(Calls)]
  /\ running \in [Spawns -> SUBSET Calls]
  /\ lagging \in [Spawns -> SUBSET Calls]
  /\ stdout \in [Spawns -> Seq(Responses)]
  /\ alive \in [Spawns -> BOOLEAN]
  /\ exitSeen \in [Spawns -> BOOLEAN]
  /\ handled \in [Calls -> Nat]

(* A caller waits exactly when one queued or sent request holds its promise, *)
(* its own or one it joined, and no promise is held twice: settle() reaches  *)
(* every waiting caller once, on every path that takes a request out of the  *)
(* queue or out of the pending map.                                          *)
EveryWaiterHeldOnce ==
  /\ {c \in Calls : promise[c] = "waiting"} = Waiters(Requests)
  /\ IsInjective(queue)
  /\ ToSet(queue) \cap pending = {}
  /\ \A r, s \in Requests : r # s => Waiters({r}) \cap Waiters({s}) = {}

(* The byte budget counts exactly the queued and the sent requests, and only *)
(* urgent ones may exceed it, each by less than its allowance.               *)
BytesAccounted ==
  /\ queuedBytes = MapThenSumSet(LAMBDA c : Bytes[c], Requests)
  /\ queuedBytes <= MAX_QUEUED_BYTES + URGENT_SLACK

(* Between two handlers a user action is left in the queue only while other  *)
(* user actions hold all the slots that background work cannot take.         *)
UserWaitsOnlyForUsers ==
  (turn = "idle" /\ \E c \in ToSet(queue) : User(c))
    => Count(pending, User) >= IN_FLIGHT - BACKGROUND_IN_FLIGHT

(* The host always has a permit for what the bridge sends: it never answers  *)
(* "Backend busy", although a task still holds its permit after the bridge   *)
(* has seen its answer and sent the next request.                            *)
NeverTurnedAway ==
  \A g \in Spawns : \A m \in ToSet(stdout[g]) : m.kind # "busy"

(* The host never answers a request the bridge does not wait for, so parse   *)
(* never gives up a healthy child over an unexpected identifier.             *)
NoUnexpectedResponse == \A c \in Calls : promise[c] # "protocol"

(* A call is executed at most once, and never after its caller was told that *)
(* it was not sent: refused, skipped to make room, or timed out in the queue. *)
SafeToRetry ==
  \A c \in Calls :
    /\ handled[c] <= 1
    /\ promise[c] \in {"new", "unsent"} => handled[c] = 0

(* Callers are told that the backend exited only when their own backend did, *)
(* however late the exit of an earlier one is delivered.                     *)
OnlyOwnExit ==
  [][(\E c \in Calls : promise[c] = "waiting" /\ promise'[c] = "exited")
       => ~alive[child]]_vars

(* Every promise is settled in the end, whatever the host does or fails to do. *)
EveryPromiseSettles ==
  \A c \in Calls : promise[c] = "waiting" ~> promise[c] \in Outcomes
=============================================================================
