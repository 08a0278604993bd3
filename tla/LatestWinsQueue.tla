-------------------------- MODULE LatestWinsQueue --------------------------
(***************************************************************************)
(* The bounded latest-wins scheduler of the PDF runtime                    *)
(* (crates/key-pdf-runtime/src/scheduler.rs, LatestWinsQueue).             *)
(*                                                                         *)
(* A demand is its revision, 0 stands for none.  `held' are the demands    *)
(* pop_next has handed to workers; `asked' and `published' record, for the *)
(* properties, the last demand accepted and not withdrawn for each key and *)
(* the last one whose result was published.                                *)
(***************************************************************************)
EXTENDS Integers, FiniteSets

CONSTANTS
  Keys, Priorities, CAPACITY, MAX_IN_FLIGHT,
  MaxRevision     \* bound: demands per behaviour (u128 in the code)

ASSUME KeysAssumption == IsFiniteSet(Keys) /\ Priorities \subseteq Nat
ASSUME BoundsAssumption ==
  CAPACITY \in Nat /\ MAX_IN_FLIGHT \in Nat \ {0} /\ MaxRevision \in Nat

Revisions == 1..MaxRevision

VARIABLES
  queued,      \* revision of the queued demand of each key
  priority,    \* its priority
  inFlight,    \* revision of the demand of each key that is running
  latest,      \* self.latest
  next,        \* next_revision
  cancelled,   \* revisions whose cancellation source is cancelled
  held,        \* <<key, revision>> of the demands workers hold
  asked, published

queueVars == <<queued, priority, inFlight, latest, next, cancelled, held, asked, published>>

Nothing == [k \in Keys |-> 0]

QueueInit ==
  /\ queued = Nothing /\ inFlight = Nothing /\ latest = Nothing
  /\ priority = Nothing
  /\ next = 1 /\ cancelled = {} /\ held = {}
  /\ asked = Nothing /\ published = Nothing

Queued == {k \in Keys : queued[k] # 0}
InFlight == {k \in Keys : inFlight[k] # 0}

(* The order of (priority, revision) pairs of queued demands. *)
Below(j, k) ==
  \/ priority[j] < priority[k]
  \/ priority[j] = priority[k] /\ queued[j] <= queued[k]

-----------------------------------------------------------------------------
(* schedule *)

(* Bug: the running demand of the key is not told that it is superseded. *)
Superseded_QueuedOnly(k) == {queued[k]} \ {0}

(* What a new demand for key k cancels: its queued and its running twin. *)
Superseded(k) == {queued[k], inFlight[k]} \ {0}

ScheduleReplaces(k, p) ==
  /\ CAPACITY # 0 /\ next <= MaxRevision
  /\ queued[k] # 0
  /\ queued' = [queued EXCEPT ![k] = next]
  /\ priority' = [priority EXCEPT ![k] = p]
  /\ cancelled' = cancelled \cup Superseded(k)
  /\ latest' = [latest EXCEPT ![k] = next]
  /\ asked' = [asked EXCEPT ![k] = next]
  /\ next' = next + 1
  /\ UNCHANGED <<inFlight, held, published>>

(* Bug: off by one. *)
HasRoom_OffByOne == Cardinality(Queued) <= CAPACITY

HasRoom == Cardinality(Queued) < CAPACITY

ScheduleQueues(k, p) ==
  /\ CAPACITY # 0 /\ next <= MaxRevision
  /\ queued[k] = 0 /\ HasRoom
  /\ queued' = [queued EXCEPT ![k] = next]
  /\ priority' = [priority EXCEPT ![k] = p]
  /\ cancelled' = cancelled \cup Superseded(k)
  /\ latest' = [latest EXCEPT ![k] = next]
  /\ asked' = [asked EXCEPT ![k] = next]
  /\ next' = next + 1
  /\ UNCHANGED <<inFlight, held, published>>

(* The oldest queued demand of the lowest priority. *)
EvictionKey(v) == v \in Queued /\ \A k \in Queued : Below(v, k)

(* At capacity a new demand takes the place of v, unless v is more urgent. *)
ScheduleEvicts(k, p, v) ==
  /\ CAPACITY # 0 /\ next <= MaxRevision
  /\ queued[k] = 0 /\ ~HasRoom
  /\ EvictionKey(v) /\ p >= priority[v]
  /\ queued' = [queued EXCEPT ![v] = 0, ![k] = next]
  /\ priority' = [priority EXCEPT ![k] = p]
  /\ cancelled' = cancelled \cup {queued[v]} \cup Superseded(k)
  /\ latest' = [latest EXCEPT ![v] = IF @ = queued[v] THEN 0 ELSE @, ![k] = next]
  /\ asked' = [asked EXCEPT ![v] = 0, ![k] = next]
  /\ next' = next + 1
  /\ UNCHANGED <<inFlight, held, published>>

ScheduleRejected(k, p) ==
  /\ CAPACITY # 0 => /\ queued[k] = 0 /\ ~HasRoom
                     /\ \E v \in Keys : EvictionKey(v) /\ p < priority[v]
  /\ UNCHANGED queueVars

-----------------------------------------------------------------------------
(* pop_next, finish, cancel, clear_pending *)

(* Bug: a key that is running may be started again. *)
Startable_Running(k) == k \in Queued

Startable(k) == k \in Queued /\ inFlight[k] = 0

(* The newest startable demand of the highest priority. *)
PopNext(k) ==
  /\ Cardinality(InFlight) < MAX_IN_FLIGHT
  /\ Startable(k) /\ \A j \in Keys : Startable(j) => Below(j, k)
  /\ queued' = [queued EXCEPT ![k] = 0]
  /\ inFlight' = [inFlight EXCEPT ![k] = queued[k]]
  /\ held' = held \cup {<<k, queued[k]>>}
  /\ UNCHANGED <<priority, latest, next, cancelled, asked, published>>

(* Bug: a stale completion leaves its slot taken. *)
FreesSlot_OnPublish(k, r) == inFlight[k] = r /\ latest[k] = r

(* Whether finish takes the demand out of the running ones. *)
FreesSlot(k, r) == inFlight[k] = r

Publishes(k, r) == inFlight[k] = r /\ latest[k] = r

(* A worker completes its demand.  finish() knows it by its revision.        *)
Finish(k, r) ==
  /\ <<k, r>> \in held
  /\ held' = held \ {<<k, r>>}
  /\ inFlight' = IF FreesSlot(k, r) THEN [inFlight EXCEPT ![k] = 0] ELSE inFlight
  /\ IF Publishes(k, r)
     THEN latest' = [latest EXCEPT ![k] = 0] /\ published' = [published EXCEPT ![k] = r]
     ELSE UNCHANGED <<latest, published>>
  /\ UNCHANGED <<queued, priority, next, cancelled, asked>>

(* Bug: the key stays in the map of latest demands. *)
Forgets_Queued(k) == IF queued[k] # 0 THEN 0 ELSE latest[k]

(* cancel forgets the latest demand of the key. *)
Forgets(k) == 0

Cancel(k) ==
  /\ latest' = [latest EXCEPT ![k] = Forgets(k)]
  /\ cancelled' = cancelled \cup Superseded(k)
  /\ queued' = [queued EXCEPT ![k] = 0]
  /\ asked' = [asked EXCEPT ![k] = 0]
  /\ UNCHANGED <<priority, inFlight, next, held, published>>

ClearPending ==
  /\ latest' = Nothing
  /\ cancelled' = cancelled \cup UNION {Superseded(k) : k \in Keys}
  /\ queued' = Nothing
  /\ asked' = Nothing
  /\ UNCHANGED <<priority, inFlight, next, held, published>>

(* The owner of a running demand cancels it through its source. *)
CancelHeld(k, r) ==
  /\ <<k, r>> \in held
  /\ cancelled' = cancelled \cup {r}
  /\ UNCHANGED <<queued, priority, inFlight, latest, next, held, asked, published>>

QueueNext ==
  \/ \E k \in Keys, p \in Priorities :
       \/ ScheduleReplaces(k, p) \/ ScheduleQueues(k, p) \/ ScheduleRejected(k, p)
       \/ \E v \in Keys : ScheduleEvicts(k, p, v)
  \/ \E k \in Keys : PopNext(k) \/ Cancel(k)
  \/ \E k \in Keys, r \in Revisions : Finish(k, r) \/ CancelHeld(k, r)
  \/ ClearPending

QueueSpec == QueueInit /\ [][QueueNext]_queueVars

(* Workers ask for work while they have none, and complete what they hold. *)
QueueFairSpec ==
  /\ QueueSpec
  /\ \A k \in Keys : WF_queueVars(PopNext(k)) /\ WF_queueVars(\E r \in Revisions : Finish(k, r))

-----------------------------------------------------------------------------
(* Properties *)

(* The queue and the running set keep to their limits. *)
Bounded == Cardinality(Queued) <= CAPACITY /\ Cardinality(InFlight) <= MAX_IN_FLIGHT

(* Every variable stays in its type, and both bounds hold: through every mix  *)
(* of replacements, evictions and completions.                                *)
QueueTypeOK ==
  /\ queued \in [Keys -> 0..MaxRevision]
  /\ priority \in [Keys -> Nat]
  /\ inFlight \in [Keys -> 0..MaxRevision]
  /\ latest \in [Keys -> 0..MaxRevision]
  /\ next \in 1..(MaxRevision + 1)
  /\ cancelled \subseteq Revisions
  /\ held \subseteq Keys \X Revisions
  /\ asked \in [Keys -> 0..MaxRevision]
  /\ published \in [Keys -> 0..MaxRevision]
  /\ Bounded

(* The map of latest demands follows the queue: a queued demand is the      *)
(* latest of its key, and no entry outlives the demand it stands for.       *)
LatestTracked ==
  \A k \in Keys :
    /\ queued[k] # 0 => latest[k] = queued[k]
    /\ latest[k] # 0 => latest[k] \in {queued[k], inFlight[k]}

(* Work whose result will be thrown away has been told to stop. *)
SupersededIsCancelled ==
  \A k \in InFlight : latest[k] # inFlight[k] => inFlight[k] \in cancelled

(* A queued demand is not cancelled: what a worker takes is worth starting. *)
StartsUncancelled == \A k \in Queued : queued[k] \notin cancelled

(* One worker at most holds a demand of a key, and it is the one the queue   *)
(* knows: finish() never answers Unknown to the worker that popped it.       *)
OneWorkerPerKey == \A d \in held : inFlight[d[1]] = d[2]

(* Only the result of the latest accepted demand that was not withdrawn is   *)
(* published, and the results of a key are published in the order in which   *)
(* they were asked for.                                                      *)
PublishesLatest ==
  [][\A k \in Keys : published'[k] # published[k] =>
       published'[k] = asked[k] /\ published'[k] > published[k]]_queueVars

(* When no more is asked, the queue runs empty and every slot comes free. *)
QueueDrains == <>[](Queued = {} /\ InFlight = {})
=============================================================================
