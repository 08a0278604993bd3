---------------------------- MODULE QueueProofs ----------------------------
(***************************************************************************)
(* Proofs about the two queues on the way from the windows to the workers, *)
(* RustBridge and LatestWinsQueue.                                         *)
(*                                                                         *)
(* RustBridge, for every set of calls and every value of the limits:       *)
(* types, that every waiting caller is held exactly once and no request is *)
(* left behind without a child, that nothing is executed twice or answered *)
(* unasked, that users wait only for users, that the host has a permit for *)
(* whatever it is sent, and that the byte budget is exact.                 *)
(*                                                                         *)
(* LatestWinsQueue, for every set of keys, every capacity and every number *)
(* of demands.  The invariant adds to the properties that revisions grow   *)
(* (OrderInv) and that the map of latest demands never names another       *)
(* demand than the one last asked for (AskedInv).                          *)
(***************************************************************************)
EXTENDS RustBridge, LatestWinsQueue, SequenceLemmas, FiniteSetTheorems

-----------------------------------------------------------------------------
(* The inductive invariant, in layers *)

(* Who may be in the middle of what. *)
TurnInv ==
  /\ turn = "room" => arriving \in Calls /\ promise[arriving] = "new" /\ ~closed
  /\ child <= spawned
  /\ turn = "drain" => child # 0

(* No call that was not made has followers. *)
NewInv == \A c \in Calls : promise[c] = "new" => followers[c] = {}

(* Requests exist only while there is a child to answer them: whatever is    *)
(* queued or sent, the exit of that child will reach it through fail().      *)
NoOrphanRequests == child = 0 => Requests = {}

HoldInv == TurnInv /\ NewInv /\ NoOrphanRequests /\ EveryWaiterHeldOnce

-----------------------------------------------------------------------------
(* Small facts *)

LEMMA NatLimits ==
  /\ IN_FLIGHT \in Nat /\ BACKGROUND_IN_FLIGHT \in Nat /\ URGENT_IN_FLIGHT \in Nat
  /\ ADMISSION \in Nat /\ WORKERS \in Nat /\ MaxSpawns \in Nat
BY LimitsAssumption

LEMMA SettledType ==
  ASSUME NEW p \in [Calls -> {"new", "waiting"} \cup Outcomes],
         NEW R, NEW o \in Outcomes
  PROVE  Settled(p, R, o) \in [Calls -> {"new", "waiting"} \cup Outcomes]
BY DEF Settled

LEMMA AfterDrainType ==
  ASSUME NEW q, NEW sent
  PROVE  AfterDrain(q, sent) \in {"idle", "drain"}
BY DEF AfterDrain

(* The position at which a user action enters the queue. *)
LEMMA FirstBackgroundType ==
  ASSUME TypeOK
  PROVE  (IF QueuedBackground = {} THEN Len(queue) + 1 ELSE Min(QueuedBackground))
           \in 1..(Len(queue) + 1)
<1>1. QueuedBackground \in SUBSET Nat
  BY DEF QueuedBackground
<1>2. CASE QueuedBackground = {}
  BY <1>2 DEF TypeOK
<1>3. CASE QueuedBackground # {}
  <2>1. Min(QueuedBackground) \in QueuedBackground
    BY <1>1, <1>3, MinLemma
  <2> QED BY <1>3, <2>1 DEF QueuedBackground, TypeOK
<1> QED BY <1>2, <1>3

LEMMA EnqueuedType ==
  ASSUME TypeOK, NEW c \in Calls
  PROVE  Enqueued(c) \in Seq(Calls)
<1> DEFINE i == IF QueuedBackground = {} THEN Len(queue) + 1 ELSE Min(QueuedBackground)
<1>1. queue \in Seq(Calls)
  BY DEF TypeOK
<1>2. CASE Urgent(c)
  BY <1>1, <1>2 DEF Enqueued
<1>3. CASE ~Urgent(c) /\ Background(c)
  BY <1>1, <1>2, <1>3 DEF Enqueued
<1>4. CASE ~Urgent(c) /\ ~Background(c)
  <2>1. InsertAt(queue, i, c) \in Seq(Calls)
    BY <1>1, FirstBackgroundType, InsertAtLemma
  <2> QED BY <1>4, <2>1 DEF Enqueued
<1> QED BY <1>2, <1>3, <1>4

LEMMA OutcomesElements == {"unsent", "answered", "exited", "protocol", "lost"} \subseteq Outcomes
BY DEF Outcomes

LEMMA FailType ==
  ASSUME TypeOK, NEW o \in Outcomes, Fail(o)
  PROVE  /\ queue' \in Seq(Calls) /\ pending' \subseteq Calls /\ queuedBytes' \in Int
         /\ child' \in {0} \cup Spawns
         /\ promise' \in [Calls -> {"new", "waiting"} \cup Outcomes]
         /\ turn' \in {"idle", "room", "drain"} /\ arriving' \in Calls \cup {NoCall}
<1>1. promise' \in [Calls -> {"new", "waiting"} \cup Outcomes]
  BY SettledType DEF Fail, TypeOK
<1>2. queue' \in Seq(Calls)
  BY EmptySeq DEF Fail
<1> QED BY <1>1, <1>2 DEF Fail

LEMMA RespondType ==
  ASSUME TypeOK, NEW g \in Spawns, NEW c \in Calls, NEW k \in {"answer", "busy"},
         Respond(g, c, k)
  PROVE  stdout' \in [Spawns -> Seq(Responses)]
<1>1. [id |-> c, kind |-> k] \in Responses
  BY DEF Responses
<1>2. Append(stdout[g], [id |-> c, kind |-> k]) \in Seq(Responses)
  BY <1>1 DEF TypeOK
<1> QED BY <1>2 DEF Respond, TypeOK

-----------------------------------------------------------------------------
(* Type correctness *)

LEMMA InitType == Init => TypeOK
<1> SUFFICES ASSUME Init PROVE TypeOK
  OBVIOUS
<1>1. queue \in Seq(Calls)
  BY EmptySeq DEF Init
<1>2. stdin \in [Spawns -> Seq(Calls)] /\ stdout \in [Spawns -> Seq(Responses)]
  BY EmptySeq DEF Init
<1>3. spawned \in 0..MaxSpawns /\ queuedBytes \in Int /\ handled \in [Calls -> Nat]
  BY NatLimits DEF Init
<1> QED BY <1>1, <1>2, <1>3 DEF Init, TypeOK

LEMMA StepType == TypeOK /\ [Next]_vars => TypeOK'
<1> SUFFICES ASSUME TypeOK, [Next]_vars PROVE TypeOK'
  OBVIOUS
<1> USE OutcomesElements
<1>q. queue \in Seq(Calls)
  BY DEF TypeOK
<1>i. Bytes \in [Calls -> Int]
  BY CallsAssumption
<1>1. CASE UNCHANGED vars
  BY <1>1 DEF vars, bridge, host, TypeOK
<1>2. ASSUME NEW c \in Calls, InvokeRefused(c) PROVE TypeOK'
  BY <1>2 DEF InvokeRefused, host, TypeOK
<1>3. ASSUME NEW c \in Calls, InvokeJoins(c) PROVE TypeOK'
  <2>1. PICK i \in Twins(c) : followers' = [followers EXCEPT ![queue[i]] = @ \cup {c}]
    BY <1>3 DEF InvokeJoins
  <2>2. queue[i] \in Calls
    BY <1>q, <2>1 DEF Twins, QueuedBackground
  <2>3. followers' \in [Calls -> SUBSET Calls]
    BY <2>1, <2>2 DEF TypeOK
  <2> QED BY <1>3, <2>3 DEF InvokeJoins, host, TypeOK
<1>4. ASSUME NEW c \in Calls, InvokeMakesRoom(c) PROVE TypeOK'
  <2>1. PICK i \in QueuedBackground :
          /\ queue' = RemoveAt(queue, i)
          /\ queuedBytes' = queuedBytes - Bytes[queue[i]]
          /\ promise' = Settled(promise, {queue[i]}, "unsent")
    BY <1>4 DEF InvokeMakesRoom
  <2>2. i \in 1..Len(queue) /\ queue[i] \in Calls
    BY <1>q, <2>1 DEF QueuedBackground
  <2>3. queue' \in Seq(Calls)
    BY <1>q, <2>1, <2>2, RemoveAtLemma
  <2>4. promise' \in [Calls -> {"new", "waiting"} \cup Outcomes]
    BY <2>1, SettledType DEF TypeOK
  <2>5. queuedBytes' \in Int
    BY <1>i, <2>1, <2>2 DEF TypeOK
  <2> QED BY <1>4, <2>3, <2>4, <2>5 DEF InvokeMakesRoom, host, TypeOK
<1>5. ASSUME NEW c \in Calls, InvokeFull(c) PROVE TypeOK'
  BY <1>5 DEF InvokeFull, host, TypeOK
<1>6. ASSUME NEW c \in Calls, InvokeQueues(c) PROVE TypeOK'
  <2>1. queue' \in Seq(Calls)
    BY <1>6, EnqueuedType DEF InvokeQueues
  <2>2. turn' \in {"idle", "room", "drain"}
    BY <1>6, AfterDrainType DEF InvokeQueues
  <2>3. queuedBytes' \in Int
    BY <1>6, <1>i DEF InvokeQueues, TypeOK
  <2>4. /\ child' \in {0} \cup Spawns /\ spawned' \in 0..MaxSpawns
        /\ alive' \in [Spawns -> BOOLEAN]
    <3>1. CASE UNCHANGED <<child, spawned, alive>>
      BY <3>1 DEF TypeOK
    <3>2. CASE /\ spawned < MaxSpawns /\ spawned' = spawned + 1 /\ child' = spawned + 1
               /\ alive' = [alive EXCEPT ![spawned + 1] = TRUE]
      <4>1. spawned + 1 \in Spawns /\ spawned + 1 \in 0..MaxSpawns
        BY <3>2, NatLimits DEF TypeOK, Spawns
      <4> QED BY <3>2, <4>1 DEF TypeOK
    <3> QED BY <1>6, <3>1, <3>2 DEF InvokeQueues
  <2> QED BY <1>6, <2>1, <2>2, <2>3, <2>4 DEF InvokeQueues, TypeOK
<1>7. ASSUME NEW c \in Calls, InvokeSpawnThrows(c) PROVE TypeOK'
  <2>1. promise' \in [Calls -> {"new", "waiting"} \cup Outcomes]
    BY <1>7, SettledType DEF InvokeSpawnThrows, TypeOK
  <2>2. queue' \in Seq(Calls)
    BY <1>7, EmptySeq DEF InvokeSpawnThrows
  <2>3. /\ pending' \subseteq Calls /\ queuedBytes' \in Int /\ turn' \in {"idle", "room", "drain"}
        /\ arriving' \in Calls \cup {NoCall}
        /\ UNCHANGED <<followers, closed, child, spawned, host>>
    BY <1>7 DEF InvokeSpawnThrows
  <2> QED BY <2>1, <2>2, <2>3 DEF host, TypeOK
<1>8. ASSUME NEW c \in Calls, TimeoutQueued(c) PROVE TypeOK'
  <2>1. queue' \in Seq(Calls)
    BY <1>8, <1>q, RemoveAtLemma DEF TimeoutQueued
  <2>2. promise' \in [Calls -> {"new", "waiting"} \cup Outcomes]
    BY <1>8, SettledType DEF TimeoutQueued, TypeOK
  <2>3. queuedBytes' \in Int
    BY <1>8, <1>i DEF TimeoutQueued, TypeOK
  <2> QED BY <1>8, <2>1, <2>2, <2>3 DEF TimeoutQueued, host, TypeOK
<1>9. ASSUME NEW c \in Calls, TimeoutSent(c) PROVE TypeOK'
  BY <1>9, FailType DEF TimeoutSent, host, TypeOK
<1>10. CASE DrainSends
  <2>1. PICK i \in Sendable(queue, pending) :
          IF queue[i] \in Overlong THEN Fail("lost") /\ UNCHANGED stdin ELSE Sends(i)
    BY <1>10 DEF DrainSends
  <2>2. i \in 1..Len(queue) /\ queue[i] \in Calls
    BY <1>q, <2>1 DEF Sendable
  <2>3. CASE Fail("lost") /\ UNCHANGED stdin
    BY <1>10, <2>3, FailType DEF DrainSends, TypeOK
  <2>4. CASE Sends(i)
    <3>1. queue' \in Seq(Calls)
      BY <1>q, <2>2, <2>4, RemoveAtLemma DEF Sends
    <3>2. turn' \in {"idle", "room", "drain"}
      BY <2>4, AfterDrainType DEF Sends
    <3>3. stdin' \in [Spawns -> Seq(Calls)]
      <4>1. child \in Spawns
        BY <1>10 DEF DrainSends, TypeOK
      <4>2. Append(stdin[child], queue[i]) \in Seq(Calls)
        BY <2>2, <4>1 DEF TypeOK
      <4> QED BY <2>4, <4>1, <4>2 DEF Sends, TypeOK
    <3>4. pending' \subseteq Calls
      BY <2>2, <2>4 DEF Sends, TypeOK
    <3> QED BY <1>10, <2>4, <3>1, <3>2, <3>3, <3>4 DEF DrainSends, Sends, TypeOK
  <2> QED BY <2>1, <2>3, <2>4
<1>11. CASE Close
  BY <1>11, FailType DEF Close, host, TypeOK
<1>12. ASSUME NEW g \in Spawns, Delivers(g) PROVE TypeOK'
  <2>1. stdout' \in [Spawns -> Seq(Responses)]
    BY <1>12 DEF Delivers, TypeOK
  <2>2. Head(stdout[g]) \in Responses
    BY <1>12 DEF Delivers, TypeOK
  <2>3. CASE UNCHANGED bridge
    BY <1>12, <2>1, <2>3 DEF Delivers, bridge, TypeOK
  <2>4. CASE Fail("protocol") /\ UNCHANGED <<followers, closed, spawned>>
    BY <1>12, <2>1, <2>4, FailType DEF Delivers, TypeOK
  <2>5. CASE Answered(Head(stdout[g]).id)
    <3>1. Head(stdout[g]).id \in Calls
      BY <2>2 DEF Responses
    <3>2. promise' \in [Calls -> {"new", "waiting"} \cup Outcomes]
      BY <2>5, SettledType DEF Answered, TypeOK
    <3>3. turn' \in {"idle", "room", "drain"}
      BY <2>5, AfterDrainType DEF Answered
    <3>4. queuedBytes' \in Int
      BY <2>5, <3>1, <1>i DEF Answered, TypeOK
    <3> QED BY <1>12, <2>1, <2>5, <3>2, <3>3, <3>4 DEF Delivers, Answered, TypeOK
  <2> QED BY <1>12, <2>3, <2>4, <2>5 DEF Delivers
<1>13. ASSUME NEW g \in Spawns, Exits(g) PROVE TypeOK'
  <2>1. CASE UNCHANGED bridge
    BY <1>13, <2>1 DEF Exits, bridge, TypeOK
  <2>2. CASE Fail("exited") /\ UNCHANGED <<followers, closed, spawned>>
    BY <1>13, <2>2, FailType DEF Exits, TypeOK
  <2> QED BY <1>13, <2>1, <2>2 DEF Exits
<1>14. ASSUME NEW g \in Spawns, HostReads(g) PROVE TypeOK'
  <2> DEFINE c == Head(stdin[g])
  <2>1. c \in Calls /\ stdin' \in [Spawns -> Seq(Calls)]
    BY <1>14 DEF HostReads, TypeOK
  <2> HIDE DEF c
  <2>2. \E n \in Nat : handled' = [handled EXCEPT ![c] = n]
    BY <1>14, <2>1 DEF HostReads, TypeOK, c
  <2>3. handled' \in [Calls -> Nat]
    BY <2>1, <2>2 DEF TypeOK
  <2>4. running' = running \/ running' = [running EXCEPT ![g] = @ \cup {c}]
    BY <1>14 DEF HostReads, c
  <2>5. running' \in [Spawns -> SUBSET Calls]
    <3>1. running \in [Spawns -> SUBSET Calls]
      BY DEF TypeOK
    <3>2. [running EXCEPT ![g] = @ \cup {c}] \in [Spawns -> SUBSET Calls]
      BY <2>1, <3>1
    <3> QED BY <2>4, <3>1, <3>2
  <2>6. stdout' = stdout \/ Respond(g, c, "answer") \/ Respond(g, c, "busy")
    BY <1>14 DEF HostReads, c
  <2>7. stdout' \in [Spawns -> Seq(Responses)]
    BY <2>1, <2>6, RespondType DEF TypeOK
  <2> QED BY <1>14, <2>1, <2>3, <2>5, <2>7 DEF HostReads, bridge, TypeOK
<1>15. ASSUME NEW g \in Spawns, HostDies(g) PROVE TypeOK'
  BY <1>15 DEF HostDies, bridge, TypeOK
<1>16. ASSUME NEW g \in Spawns, NEW c \in Calls, HostAnswers(g, c) PROVE TypeOK'
  <2>1. stdout' \in [Spawns -> Seq(Responses)]
    BY <1>16, RespondType DEF HostAnswers
  <2> QED BY <1>16, <2>1 DEF HostAnswers, bridge, TypeOK
<1>17. ASSUME NEW g \in Spawns, NEW c \in Calls, HostReleases(g, c) PROVE TypeOK'
  BY <1>17 DEF HostReleases, bridge, TypeOK
<1>18. CASE Done
  BY <1>18, <1>1 DEF Done
<1> QED BY <1>1, <1>2, <1>3, <1>4, <1>5, <1>6, <1>7, <1>8, <1>9, <1>10, <1>11, <1>12,
           <1>13, <1>14, <1>15, <1>16, <1>17, <1>18 DEF Next

(* Type correctness of the bridge and the host loop, for every cast of calls. *)
THEOREM TypeCorrect == Spec => []TypeOK
BY InitType, StepType, PTL DEF Spec

-----------------------------------------------------------------------------
(* Every waiting caller is held exactly once *)

Waiting == {c \in Calls : promise[c] = "waiting"}

LEMMA WaiterOf ==
  ASSUME NEW R, NEW c
  PROVE  c \in Waiters(R) <=> \E r \in R : c = r \/ c \in followers[r]
BY DEF Waiters

LEMMA RequestsAreCalls ==
  ASSUME TypeOK
  PROVE  Requests \subseteq Calls
BY DEF TypeOK, Requests, ToSet

(* What is held exactly once stays so when one request is settled and leaves. *)
LEMMA SettleOne ==
  ASSUME TypeOK, EveryWaiterHeldOnce, NEW r \in Requests, NEW o \in Outcomes,
         promise' = Settled(promise, {r}, o), followers' = followers,
         Requests' = Requests \ {r}
  PROVE  /\ Waiting' = Waiters(Requests)'
         /\ \A s, t \in Requests' : s # t => (Waiters({s}) \cap Waiters({t}))' = {}
<1>1. o # "waiting" /\ o # "new"
  BY DEF Outcomes
<1>2. \A c \in Calls : promise'[c] = IF c = r \/ c \in followers[r] THEN o ELSE promise[c]
  BY WaiterOf DEF Settled
<1>3. \A c \in Calls : promise[c] = "waiting" <=> \E s \in Requests : c = s \/ c \in followers[s]
  BY WaiterOf DEF EveryWaiterHeldOnce
<1>4. \A s \in Requests : s # r => ~(s \in followers[r]) /\ ~(r \in followers[s])
                                  /\ followers[s] \cap followers[r] = {}
  BY DEF EveryWaiterHeldOnce, Waiters
<1>5. \A c \in Calls : promise'[c] = "waiting" <=>
        \E s \in Requests \ {r} : c = s \/ c \in followers[s]
  BY <1>1, <1>2, <1>3, <1>4, ZenonT(60)
<1>6. Requests \subseteq Calls /\ \A s \in Calls : followers[s] \subseteq Calls
  BY RequestsAreCalls DEF TypeOK
<1>7. Waiters(Requests)' = (Requests \ {r}) \cup UNION {followers[s] : s \in Requests \ {r}}
  BY DEF Waiters
<1>8. Waiting' = Waiters(Requests)'
  BY <1>5, <1>6, <1>7 DEF Waiting
<1>9. \A s, t \in Requests' : s # t => (Waiters({s}) \cap Waiters({t}))' = {}
  BY DEF EveryWaiterHeldOnce, Waiters
<1> QED BY <1>8, <1>9

(* fail() settles every caller there is. *)
LEMMA FailHold ==
  ASSUME TypeOK, HoldInv, NEW o \in Outcomes, Fail(o), followers' = followers,
         spawned' = spawned
  PROVE  HoldInv'
<1>1. o # "waiting" /\ o # "new"
  BY DEF Outcomes
<1>2. queue' = <<>> /\ pending' = {} /\ child' = 0 /\ turn' = "idle"
      /\ promise' = Settled(promise, Requests, o)
  BY DEF Fail
<1>3. Requests' = {} /\ ToSet(queue)' = {} /\ IsInjective(queue)'
  BY <1>2, EmptyElements DEF Requests
<1>4. \A c \in Calls : promise'[c] = IF c \in Waiters(Requests) THEN o ELSE promise[c]
  BY <1>2 DEF Settled
<1>5. \A c \in Calls : promise[c] = "waiting" => c \in Waiters(Requests)
  BY DEF HoldInv, EveryWaiterHeldOnce
<1>6. {c \in Calls : promise'[c] = "waiting"} = {}
  BY <1>1, <1>4, <1>5
<1>7. Waiters(Requests)' = {}
  BY <1>3 DEF Waiters
<1>8. EveryWaiterHeldOnce'
  BY <1>2, <1>3, <1>6, <1>7 DEF EveryWaiterHeldOnce
<1>9. NewInv'
  BY <1>1, <1>4 DEF HoldInv, NewInv
<1>10. TurnInv' /\ NoOrphanRequests'
  BY <1>2, <1>3 DEF TurnInv, NoOrphanRequests, TypeOK
<1> QED BY <1>8, <1>9, <1>10 DEF HoldInv

(* What enters the queue, wherever it is put. *)
LEMMA EnqueuedElements ==
  ASSUME TypeOK, NEW c \in Calls, IsInjective(queue), c \notin ToSet(queue)
  PROVE  IsInjective(Enqueued(c)) /\ ToSet(Enqueued(c)) = ToSet(queue) \cup {c}
<1> DEFINE i == IF QueuedBackground = {} THEN Len(queue) + 1 ELSE Min(QueuedBackground)
<1>1. queue \in Seq(Calls)
  BY DEF TypeOK
<1>2. CASE Urgent(c)
  BY <1>1, <1>2, ConsElements DEF Enqueued
<1>3. CASE ~Urgent(c) /\ Background(c)
  BY <1>1, <1>3, AppendElements DEF Enqueued
<1>4. CASE ~Urgent(c) /\ ~Background(c)
  <2>1. i \in 1..(Len(queue) + 1)
    BY FirstBackgroundType
  <2>2. Enqueued(c) = InsertAt(queue, i, c)
    BY <1>4 DEF Enqueued
  <2> HIDE DEF i
  <2> QED BY <1>1, <2>1, <2>2, InsertAtElements
<1> QED BY <1>2, <1>3, <1>4

LEMMA InitHold == Init => HoldInv
<1> SUFFICES ASSUME Init PROVE HoldInv
  OBVIOUS
<1>1. Requests = {} /\ ToSet(queue) = {} /\ IsInjective(queue)
  BY EmptyElements DEF Init, Requests
<1>2. Waiters(Requests) = {} /\ {c \in Calls : promise[c] = "waiting"} = {}
  BY <1>1 DEF Waiters, Init
<1> QED BY <1>1, <1>2 DEF Init, HoldInv, TurnInv, NewInv, NoOrphanRequests, EveryWaiterHeldOnce

(* A queued request is settled and leaves the queue. *)
LEMMA LeaveQueue ==
  ASSUME TypeOK, HoldInv, NEW i \in 1..Len(queue), NEW o \in Outcomes,
         queue' = RemoveAt(queue, i), pending' = pending, followers' = followers,
         promise' = Settled(promise, {queue[i]}, o), child' = child
  PROVE  EveryWaiterHeldOnce' /\ NewInv' /\ NoOrphanRequests'
<1>1. queue \in Seq(Calls) /\ IsInjective(queue)
  BY DEF TypeOK, HoldInv, EveryWaiterHeldOnce
<1>2. IsInjective(queue)' /\ ToSet(queue)' = ToSet(queue) \ {queue[i]}
  BY <1>1, RemoveAtElements
<1>3. queue[i] \in ToSet(queue)
  BY <1>1 DEF ToSet
<1>4. queue[i] \in Requests /\ Requests' = Requests \ {queue[i]}
  BY <1>2, <1>3 DEF Requests, HoldInv, EveryWaiterHeldOnce
<1>5. /\ Waiting' = Waiters(Requests)'
      /\ \A s, t \in Requests' : s # t => (Waiters({s}) \cap Waiters({t}))' = {}
  BY <1>4, SettleOne DEF HoldInv
<1>6. EveryWaiterHeldOnce'
  BY <1>2, <1>5 DEF EveryWaiterHeldOnce, Waiting, HoldInv
<1>7. \A c \in Calls : promise'[c] = "new" => promise[c] = "new"
  BY DEF Settled, Outcomes
<1> QED BY <1>4, <1>6, <1>7 DEF HoldInv, NewInv, NoOrphanRequests

LEMMA StepHold == TypeOK /\ HoldInv /\ [Next]_vars => HoldInv'
<1> SUFFICES ASSUME TypeOK, HoldInv, [Next]_vars PROVE HoldInv'
  OBVIOUS
<1> USE OutcomesElements
<1>q. queue \in Seq(Calls) /\ IsInjective(queue)
  BY DEF TypeOK, HoldInv, EveryWaiterHeldOnce
<1>n. \A c \in Calls : promise[c] # "waiting" => c \notin Waiters(Requests)
  BY DEF HoldInv, EveryWaiterHeldOnce
<1>0. CASE UNCHANGED bridge
  BY <1>0 DEF bridge, HoldInv, TurnInv, NewInv, NoOrphanRequests, EveryWaiterHeldOnce,
              Requests, Waiters
<1>1. CASE UNCHANGED vars
  BY <1>0, <1>1 DEF vars
<1>r. ASSUME NEW c \in Calls, promise[c] = "new", NEW o \in Outcomes,
             promise' = [promise EXCEPT ![c] = o],
             UNCHANGED <<queue, pending, followers, child, spawned>>, turn' = "idle"
      PROVE  HoldInv'
  <2>1. c \notin Waiters(Requests)
    BY <1>n, <1>r
  <2>2. {d \in Calls : promise'[d] = "waiting"} = {d \in Calls : promise[d] = "waiting"}
    BY <1>r DEF TypeOK, Outcomes
  <2>3. \A d \in Calls : promise'[d] = "new" => promise[d] = "new"
    BY <1>r DEF TypeOK, Outcomes
  <2> QED BY <1>r, <2>2, <2>3 DEF HoldInv, TurnInv, NewInv, NoOrphanRequests,
             EveryWaiterHeldOnce, Requests, Waiters
<1>a. ASSUME NEW c \in Calls, Admitting(c) PROVE promise[c] = "new"
  BY <1>a DEF Admitting, HoldInv, TurnInv
<1>2. ASSUME NEW c \in Calls, InvokeRefused(c) PROVE HoldInv'
  BY <1>2, <1>r DEF InvokeRefused
<1>3. ASSUME NEW c \in Calls, InvokeJoins(c) PROVE HoldInv'
  <2>1. PICK i \in Twins(c) : followers' = [followers EXCEPT ![queue[i]] = @ \cup {c}]
    BY <1>3 DEF InvokeJoins
  <2> DEFINE r == queue[i]
  <2>2. r \in Requests /\ r \in Calls
    BY <1>q, <2>1 DEF Twins, QueuedBackground, Requests, ToSet
  <2> HIDE DEF r
  <2>3. promise[c] = "new" /\ promise' = [promise EXCEPT ![c] = "waiting"] /\ turn = "idle"
        /\ UNCHANGED <<queue, pending, child, spawned, turn>> /\ Requests' = Requests
    BY <1>3 DEF InvokeJoins, Requests
  <2>4. c \notin Waiters(Requests)
    BY <1>n, <2>3
  <2>5. \A s \in Calls : followers'[s] = IF s = r THEN followers[s] \cup {c} ELSE followers[s]
    BY <2>1, <2>2 DEF TypeOK, r
  <2>6. \A s \in Requests : c # s /\ c \notin followers[s]
    BY <2>4, WaiterOf
  <2>7. Requests \subseteq Calls /\ \A s \in Calls : followers[s] \subseteq Calls
    BY RequestsAreCalls DEF TypeOK
  <2>8. \A d \in Calls : promise[d] = "waiting" <=> \E s \in Requests : d = s \/ d \in followers[s]
    BY WaiterOf DEF HoldInv, EveryWaiterHeldOnce
  <2>9. \A d \in Calls : promise'[d] = "waiting" <=> \E s \in Requests : d = s \/ d \in followers'[s]
    <3> SUFFICES ASSUME NEW d \in Calls
                 PROVE  promise'[d] = "waiting" <=> \E s \in Requests : d = s \/ d \in followers'[s]
      OBVIOUS
    <3>1. CASE d = c
      BY <2>2, <2>3, <2>5, <3>1 DEF TypeOK
    <3>2. CASE d # c
      BY <2>3, <2>5, <2>7, <2>8, <3>2 DEF TypeOK
    <3> QED BY <3>1, <3>2
  <2>10. {d \in Calls : promise'[d] = "waiting"} = Waiters(Requests)'
    <3>1. Waiters(Requests)' = Requests \cup UNION {followers'[s] : s \in Requests}
      BY <2>3 DEF Waiters
    <3>2. \A s \in Requests : followers'[s] \subseteq Calls
      BY <2>5, <2>7
    <3> QED BY <2>7, <2>9, <3>1, <3>2
  <2>11. \A s, t \in Requests : s # t => ({s} \cup followers[s]) \cap ({t} \cup followers[t]) = {}
    BY DEF HoldInv, EveryWaiterHeldOnce, Waiters
  <2>12. \A s, t \in Requests : s # t => ({s} \cup followers'[s]) \cap ({t} \cup followers'[t]) = {}
    <3>1. \A s \in Requests : \A x : x \in followers'[s] <=> x \in followers[s] \/ (s = r /\ x = c)
      BY <2>5, <2>7
    <3>2. \A s, t \in Requests : s # t => \A x :
            ~((x = s \/ x \in followers[s]) /\ (x = t \/ x \in followers[t]))
      BY <2>11
    <3>3. \A s, t \in Requests : s # t => \A x :
            ~((x = s \/ x \in followers'[s]) /\ (x = t \/ x \in followers'[t]))
      BY <2>6, <3>1, <3>2
    <3> QED BY <3>3
  <2>13. \A s, t \in Requests' : s # t => (Waiters({s}) \cap Waiters({t}))' = {}
    BY <2>3, <2>12 DEF Waiters
  <2>14. EveryWaiterHeldOnce'
    BY <2>3, <2>10, <2>13 DEF EveryWaiterHeldOnce, HoldInv
  <2>15. NewInv'
    <3>1. promise[r] = "waiting"
      BY <2>2, <2>8
    <3> QED BY <2>3, <2>5, <3>1 DEF NewInv, HoldInv, TypeOK
  <2> QED BY <2>3, <2>14, <2>15 DEF HoldInv, TurnInv, NoOrphanRequests
<1>4. ASSUME NEW c \in Calls, InvokeMakesRoom(c) PROVE HoldInv'
  <2>1. PICK i \in QueuedBackground :
          /\ queue' = RemoveAt(queue, i)
          /\ promise' = Settled(promise, {queue[i]}, "unsent")
    BY <1>4 DEF InvokeMakesRoom
  <2>2. i \in 1..Len(queue)
    BY <2>1 DEF QueuedBackground
  <2>3. EveryWaiterHeldOnce' /\ NewInv' /\ NoOrphanRequests'
    BY <1>4, <2>1, <2>2, LeaveQueue DEF InvokeMakesRoom
  <2>4. promise[c] = "new" /\ ~closed
    BY <1>4, <1>a DEF InvokeMakesRoom, Admitting, HoldInv, TurnInv
  <2>5. c \notin Waiters({queue[i]})
    <3>1. queue[i] \in Requests
      BY <1>q, <2>2 DEF Requests, ToSet
    <3> QED BY <1>n, <2>4, <3>1, WaiterOf
  <2>6. promise'[c] = "new"
    BY <2>1, <2>4, <2>5 DEF Settled
  <2> QED BY <1>4, <2>3, <2>4, <2>6 DEF HoldInv, TurnInv, InvokeMakesRoom
<1>5. ASSUME NEW c \in Calls, InvokeFull(c) PROVE HoldInv'
  BY <1>5, <1>a, <1>r DEF InvokeFull
<1>6. ASSUME NEW c \in Calls, InvokeQueues(c) PROVE HoldInv'
  <2>1. promise[c] = "new" /\ followers[c] = {}
    BY <1>6, <1>a DEF InvokeQueues, Accepts, HoldInv, NewInv
  <2>2. c \notin Requests /\ \A s \in Requests : c \notin followers[s]
    BY <1>n, <2>1, WaiterOf
  <2>3. IsInjective(queue)' /\ ToSet(queue)' = ToSet(queue) \cup {c}
    BY <1>6, <1>q, <2>2, EnqueuedElements DEF InvokeQueues, Requests
  <2>4. pending' = pending /\ followers' = followers /\ promise' = [promise EXCEPT ![c] = "waiting"]
    BY <1>6 DEF InvokeQueues
  <2>5. Requests' = Requests \cup {c} /\ ToSet(queue)' \cap pending' = {}
    BY <2>2, <2>3, <2>4 DEF Requests, HoldInv, EveryWaiterHeldOnce
  <2>6. Waiters(Requests)' = Waiters(Requests) \cup {c}
    BY <2>1, <2>4, <2>5 DEF Waiters
  <2>7. {d \in Calls : promise'[d] = "waiting"} = {d \in Calls : promise[d] = "waiting"} \cup {c}
    BY <2>4 DEF TypeOK
  <2>8. \A s, t \in Requests' : s # t => (Waiters({s}) \cap Waiters({t}))' = {}
    BY <2>1, <2>2, <2>4, <2>5 DEF HoldInv, EveryWaiterHeldOnce, Waiters
  <2>9. EveryWaiterHeldOnce'
    BY <2>3, <2>5, <2>6, <2>7, <2>8 DEF EveryWaiterHeldOnce, HoldInv
  <2>10. NewInv'
    BY <2>4 DEF NewInv, HoldInv, TypeOK
  <2>11. child' # 0 /\ child' <= spawned'
    BY <1>6 DEF InvokeQueues, TypeOK, HoldInv, TurnInv
  <2>12. turn' \in {"idle", "drain"}
    BY <1>6, AfterDrainType DEF InvokeQueues
  <2> QED BY <2>9, <2>10, <2>11, <2>12 DEF HoldInv, TurnInv, NoOrphanRequests
<1>7. ASSUME NEW c \in Calls, InvokeSpawnThrows(c) PROVE HoldInv'
  <2>1. promise[c] = "new" /\ Requests = {}
    BY <1>7, <1>a DEF InvokeSpawnThrows, Accepts, HoldInv, NoOrphanRequests
  <2>2. \A d \in Calls : promise[d] # "waiting"
    BY <2>1 DEF HoldInv, EveryWaiterHeldOnce, Waiters
  <2>3. queue' = <<>> /\ pending' = {} /\ turn' = "idle" /\ followers' = followers
        /\ child' = child /\ spawned' = spawned
        /\ promise' = Settled(promise, Requests \cup {c}, "unsent")
    BY <1>7 DEF InvokeSpawnThrows
  <2>4. Requests' = {} /\ ToSet(queue)' = {} /\ IsInjective(queue)'
    BY <2>3, EmptyElements DEF Requests
  <2>5. Waiters(Requests)' = {}
    BY <2>4 DEF Waiters
  <2>6. \A d \in Calls : promise'[d] = "unsent" \/ promise'[d] = promise[d]
    BY <2>3 DEF Settled
  <2>7. {d \in Calls : promise'[d] = "waiting"} = {}
    BY <2>2, <2>6
  <2> QED BY <2>3, <2>4, <2>5, <2>6, <2>7 DEF HoldInv, TurnInv, NewInv, NoOrphanRequests,
             EveryWaiterHeldOnce
<1>8. ASSUME NEW c \in Calls, TimeoutQueued(c) PROVE HoldInv'
  <2>1. PICK i \in 1..Len(queue) : queue[i] = c /\ queue' = RemoveAt(queue, i)
    BY <1>8 DEF TimeoutQueued
  <2>2. EveryWaiterHeldOnce' /\ NewInv' /\ NoOrphanRequests'
    BY <1>8, <2>1, LeaveQueue DEF TimeoutQueued
  <2> QED BY <1>8, <2>2 DEF HoldInv, TurnInv, TimeoutQueued
<1>9. ASSUME NEW c \in Calls, TimeoutSent(c) PROVE HoldInv'
  BY <1>9, FailHold DEF TimeoutSent
<1>10. CASE DrainSends
  <2>1. PICK i \in Sendable(queue, pending) :
          IF queue[i] \in Overlong THEN Fail("lost") /\ UNCHANGED stdin ELSE Sends(i)
    BY <1>10 DEF DrainSends
  <2>2. i \in 1..Len(queue) /\ queue[i] \in ToSet(queue)
    BY <1>q, <2>1 DEF Sendable, ToSet
  <2>3. CASE Fail("lost") /\ UNCHANGED stdin
    BY <1>10, <2>3, FailHold DEF DrainSends
  <2>4. CASE Sends(i)
    <3>1. IsInjective(queue)' /\ ToSet(queue)' = ToSet(queue) \ {queue[i]}
      BY <1>q, <2>2, <2>4, RemoveAtElements DEF Sends
    <3>2. /\ pending' = pending \cup {queue[i]} /\ followers' = followers
          /\ UNCHANGED <<child, spawned, promise>> /\ turn' \in {"idle", "drain"} /\ child # 0
      BY <1>10, <2>4, AfterDrainType DEF Sends, DrainSends
    <3>3. Requests' = Requests
      BY <2>2, <3>1, <3>2 DEF Requests
    <3>4. ToSet(queue)' \cap pending' = {}
      BY <3>1, <3>2 DEF HoldInv, EveryWaiterHeldOnce
    <3>5. EveryWaiterHeldOnce'
      BY <3>1, <3>2, <3>3, <3>4 DEF HoldInv, EveryWaiterHeldOnce, Waiters
    <3> QED BY <3>2, <3>5 DEF HoldInv, TurnInv, NewInv, NoOrphanRequests
  <2> QED BY <2>1, <2>3, <2>4
<1>11. CASE Close
  BY <1>11, FailHold DEF Close
<1>12. ASSUME NEW g \in Spawns, Delivers(g) PROVE HoldInv'
  <2> DEFINE r == Head(stdout[g]).id
  <2>1. CASE Fail("protocol") /\ UNCHANGED <<followers, closed, spawned>>
    BY <2>1, FailHold
  <2>2. CASE g = child /\ r \in pending /\ Answered(r)
    <3> HIDE DEF r
    <3>1. /\ pending' = pending \ {r} /\ promise' = Settled(promise, {r}, "answered")
          /\ UNCHANGED <<queue, followers, child, spawned>> /\ turn' \in {"idle", "drain"}
      BY <2>2, AfterDrainType DEF Answered
    <3>2. r \in Requests /\ Requests' = Requests \ {r}
      BY <2>2, <3>1 DEF Requests, HoldInv, EveryWaiterHeldOnce
    <3>3. /\ Waiting' = Waiters(Requests)'
          /\ \A s, t \in Requests' : s # t => (Waiters({s}) \cap Waiters({t}))' = {}
      BY <3>1, <3>2, SettleOne DEF HoldInv
    <3>4. EveryWaiterHeldOnce'
      BY <3>1, <3>3 DEF EveryWaiterHeldOnce, HoldInv, Waiting
    <3>5. \A c \in Calls : promise'[c] = "new" => promise[c] = "new"
      BY <3>1 DEF Settled
    <3>6. child # 0
      BY <2>2, NatLimits DEF Spawns
    <3> QED BY <3>1, <3>4, <3>5, <3>6 DEF HoldInv, NewInv, TurnInv, NoOrphanRequests
  <2> QED BY <1>0, <1>12, <2>1, <2>2 DEF Delivers
<1>13. ASSUME NEW g \in Spawns, Exits(g) PROVE HoldInv'
  BY <1>0, <1>13, FailHold DEF Exits
<1>14. ASSUME NEW g \in Spawns, HostReads(g) PROVE HoldInv'
  BY <1>0, <1>14 DEF HostReads
<1>15. ASSUME NEW g \in Spawns, HostDies(g) PROVE HoldInv'
  BY <1>0, <1>15 DEF HostDies
<1>16. ASSUME NEW g \in Spawns, NEW c \in Calls, HostAnswers(g, c) PROVE HoldInv'
  BY <1>0, <1>16 DEF HostAnswers
<1>17. ASSUME NEW g \in Spawns, NEW c \in Calls, HostReleases(g, c) PROVE HoldInv'
  BY <1>0, <1>17 DEF HostReleases
<1>18. CASE Done
  BY <1>18, <1>1 DEF Done
<1> QED BY <1>1, <1>2, <1>3, <1>4, <1>5, <1>6, <1>7, <1>8, <1>9, <1>10, <1>11, <1>12,
           <1>13, <1>14, <1>15, <1>16, <1>17, <1>18 DEF Next

LEMMA HoldCorrect == Spec => []HoldInv
BY InitType, StepType, InitHold, StepHold, PTL DEF Spec

(* No caller is forgotten and none is held by two requests: in every state a *)
(* promise waits exactly when one queued or sent request will settle it.     *)
THEOREM NoLostWaiter == Spec => []EveryWaiterHeldOnce
<1>1. HoldInv => EveryWaiterHeldOnce
  BY DEF HoldInv
<1> QED BY <1>1, HoldCorrect, PTL

(* Nothing is queued or sent while there is no child process. *)
THEOREM NoOrphans == Spec => []NoOrphanRequests
<1>1. HoldInv => NoOrphanRequests
  BY DEF HoldInv
<1> QED BY <1>1, HoldCorrect, PTL

-----------------------------------------------------------------------------
(* Where a sent request is: the host's side of the pipe *)

In(g) == ToSet(stdin[g])
Out(g) == {m.id : m \in ToSet(stdout[g])}
Places(g) == In(g) \cup running[g] \cup Out(g)

(* A request is at one place of one child, and is pending if that child is     *)
(* the current one.  A child that was not started yet has read and written     *)
(* nothing.                                                                    *)
ChildInv(g) ==
  /\ IsInjective(stdin[g]) /\ IsInjective(stdout[g])
  /\ \A m, n \in ToSet(stdout[g]) : m.id = n.id => m = n
  /\ In(g) \cap running[g] = {} /\ In(g) \cap Out(g) = {} /\ running[g] \cap Out(g) = {}
  /\ g > spawned => Places(g) = {}
  /\ g = child => Places(g) \subseteq pending
PlaceInv ==
  /\ \A g \in Spawns : ChildInv(g)
  /\ \A g, h \in Spawns : g # h => Places(g) \cap Places(h) = {}

(* The request of this call was not written to any child so far. *)
Unwritten(c) ==
  \/ promise[c] \in {"new", "unsent"} \/ c \in ToSet(queue) \/ \E r \in Calls : c \in followers[r]

(* What was not written is nowhere and was not executed; what a child has not  *)
(* read was not executed either.                                               *)
OnceInv ==
  /\ \A c \in Calls : Unwritten(c) => handled[c] = 0 /\ \A g \in Spawns : c \notin Places(g)
  /\ \A g \in Spawns : \A c \in In(g) : handled[c] = 0
  /\ \A c \in Calls : handled[c] <= 1 /\ promise[c] # "protocol"

(* Who joined another request makes none of its own. *)
FollowInv ==
  \A r \in Calls : \A c \in followers[r] : promise[c] # "new" /\ c \notin Requests

SentInv == FollowInv /\ PlaceInv /\ OnceInv

(* What the bridge does without the host leaves every request where it is. *)
LEMMA PlaceKept ==
  ASSUME TypeOK, PlaceInv, UNCHANGED <<stdin, running, stdout>>, spawned' \in Nat,
         spawned <= spawned',
         \/ child' = 0 \/ child' = spawned + 1
         \/ child' = child /\ pending \subseteq pending'
  PROVE  PlaceInv'
<1>1. \A g \in Spawns : Places(g)' = Places(g) /\ In(g)' = In(g) /\ Out(g)' = Out(g)
  BY DEF Places, In, Out
<1>2. ASSUME NEW g \in Spawns PROVE ChildInv(g)'
  <2>1. ChildInv(g) /\ g \in Nat /\ g # 0
    BY NatLimits DEF PlaceInv, Spawns
  <2>2. g > spawned' => Places(g)' = {}
    BY <1>1, <2>1 DEF ChildInv, TypeOK
  <2>3. g = child' => Places(g)' \subseteq pending'
    BY <1>1, <2>1 DEF ChildInv, TypeOK
  <2> QED BY <1>1, <2>1, <2>2, <2>3 DEF ChildInv
<1> QED BY <1>1, <1>2 DEF PlaceInv

(* A step of one child, or of the bridge with it. *)
LEMMA PlaceOne ==
  ASSUME TypeOK, PlaceInv, NEW g \in Spawns, ChildInv(g)', NEW new,
         \A h \in Spawns : h # g => /\ stdin'[h] = stdin[h] /\ running'[h] = running[h]
                                    /\ stdout'[h] = stdout[h] /\ new \notin Places(h),
         Places(g)' \subseteq Places(g) \cup {new}, UNCHANGED <<child, spawned>>,
         g = child \/ pending' = pending
  PROVE  PlaceInv'
<1>1. \A h \in Spawns : h # g => Places(h)' = Places(h) /\ In(h)' = In(h) /\ Out(h)' = Out(h)
  BY DEF Places, In, Out
<1>2. ASSUME NEW h \in Spawns, h # g PROVE ChildInv(h)'
  <2>1. ChildInv(h)
    BY DEF PlaceInv
  <2> QED BY <1>1, <1>2, <2>1 DEF ChildInv
<1>3. \A h \in Spawns : h # g => Places(h)' \cap Places(g)' = {}
  BY <1>1 DEF PlaceInv
<1> QED BY <1>1, <1>2, <1>3 DEF PlaceInv

(* What was written before is still known to have been. *)
LEMMA OnceKept ==
  ASSUME TypeOK, OnceInv, UNCHANGED handled,
         \A c \in Calls : Unwritten(c)' => Unwritten(c),
         \A c \in Calls : promise'[c] # "protocol",
         \A g \in Spawns : In(g)' \subseteq In(g) /\ Places(g)' \subseteq Places(g)
  PROVE  OnceInv'
BY DEF OnceInv

LEMMA HostSame ==
  ASSUME UNCHANGED <<stdin, running, stdout>>
  PROVE  \A g \in Spawns : In(g)' \subseteq In(g) /\ Places(g)' \subseteq Places(g)
BY DEF In, Out, Places

LEMMA FollowKept ==
  ASSUME TypeOK, FollowInv, UNCHANGED followers, Requests' \subseteq Requests,
         \A c \in Calls : promise'[c] = "new" => promise[c] = "new"
  PROVE  FollowInv'
BY DEF FollowInv, TypeOK

(* fail() takes nothing back: its callers are not told that nothing was sent. *)
LEMMA FailSent ==
  ASSUME TypeOK, HoldInv, SentInv, NEW o \in {"exited", "lost"}, Fail(o),
         UNCHANGED <<followers, spawned, stdin, running, stdout, handled>>
  PROVE  SentInv'
<1>1. queue' = <<>> /\ pending' = {} /\ child' = 0 /\ promise' = Settled(promise, Requests, o)
  BY DEF Fail
<1>2. \A c \in Calls : promise'[c] = o \/ promise'[c] = promise[c]
  BY <1>1 DEF Settled
<1>3. ToSet(queue)' = {} /\ Requests' = {}
  BY <1>1, EmptyElements DEF Requests
<1>4. FollowInv'
  BY <1>2, <1>3, FollowKept DEF SentInv
<1>5. PlaceInv'
  BY <1>1, PlaceKept DEF SentInv, TypeOK
<1>6. \A c \in Calls : Unwritten(c)' => Unwritten(c)
  BY <1>2, <1>3 DEF Unwritten
<1>7. \A c \in Calls : promise'[c] # "protocol"
  BY <1>2 DEF SentInv, OnceInv
<1>8. OnceInv'
  BY <1>6, <1>7, HostSame, OnceKept DEF SentInv
<1> QED BY <1>4, <1>5, <1>8 DEF SentInv

(* A queued request that leaves the queue unsent. *)
LEMMA UnsentSent ==
  ASSUME TypeOK, HoldInv, SentInv, NEW i \in 1..Len(queue),
         queue' = RemoveAt(queue, i), promise' = Settled(promise, {queue[i]}, "unsent"),
         UNCHANGED <<pending, followers, child, spawned, stdin, running, stdout, handled>>
  PROVE  SentInv'
<1>1. queue \in Seq(Calls) /\ IsInjective(queue)
  BY DEF TypeOK, HoldInv, EveryWaiterHeldOnce
<1>2. queue[i] \in ToSet(queue) /\ queue[i] \in Calls
  BY <1>1 DEF ToSet
<1>3. ToSet(queue)' \subseteq ToSet(queue)
  BY <1>1, RemoveAtElements
<1>4. \A c \in Calls : promise'[c] = IF c = queue[i] \/ c \in followers[queue[i]]
                                     THEN "unsent" ELSE promise[c]
  BY WaiterOf DEF Settled
<1>5. FollowInv'
  <2>1. Requests' \subseteq Requests
    BY <1>3 DEF Requests
  <2> QED BY <1>4, <2>1, FollowKept DEF SentInv
<1>6. PlaceInv'
  BY PlaceKept DEF SentInv, TypeOK
<1>7. \A c \in Calls : Unwritten(c)' => Unwritten(c)
  BY <1>2, <1>3, <1>4 DEF Unwritten
<1>8. \A c \in Calls : promise'[c] # "protocol"
  BY <1>4 DEF SentInv, OnceInv
<1>9. OnceInv'
  BY <1>7, <1>8, HostSame, OnceKept DEF SentInv
<1> QED BY <1>5, <1>6, <1>9 DEF SentInv

(* A call that is refused. *)
LEMMA RefusedSent ==
  ASSUME TypeOK, HoldInv, SentInv, NEW c \in Calls, promise[c] = "new",
         promise' = [promise EXCEPT ![c] = "unsent"],
         UNCHANGED <<queue, pending, followers, child, spawned, stdin, running, stdout, handled>>
  PROVE  SentInv'
<1>1. \A d \in Calls : promise'[d] = IF d = c THEN "unsent" ELSE promise[d]
  BY DEF TypeOK
<1>2. FollowInv'
  <2>1. Requests' = Requests
    BY DEF Requests
  <2> QED BY <1>1, <2>1, FollowKept DEF SentInv
<1>3. PlaceInv'
  BY PlaceKept DEF SentInv, TypeOK
<1>4. \A d \in Calls : Unwritten(d)' => Unwritten(d)
  BY <1>1 DEF Unwritten
<1>5. \A d \in Calls : promise'[d] # "protocol"
  BY <1>1 DEF SentInv, OnceInv
<1>6. OnceInv'
  BY <1>4, <1>5, HostSame, OnceKept DEF SentInv
<1> QED BY <1>2, <1>3, <1>6 DEF SentInv

LEMMA JoinsSent ==
  ASSUME TypeOK, HoldInv, SentInv, NEW c \in Calls, InvokeJoins(c)
  PROVE  SentInv'
<1>1. PICK i \in Twins(c) : followers' = [followers EXCEPT ![queue[i]] = @ \cup {c}]
  BY DEF InvokeJoins
<1>2. queue \in Seq(Calls)
  BY DEF TypeOK
<1>3. queue[i] \in Calls
  BY <1>1, <1>2 DEF Twins, QueuedBackground
<1>4. \A r \in Calls : \A d \in followers'[r] : d \in followers[r] \/ d = c
  BY <1>1, <1>3 DEF TypeOK
<1>5. /\ promise[c] = "new" /\ promise' = [promise EXCEPT ![c] = "waiting"]
      /\ UNCHANGED <<queue, pending, child, spawned, stdin, running, stdout, handled>>
  BY DEF InvokeJoins, host
<1>6. \A d \in Calls : promise'[d] = IF d = c THEN "waiting" ELSE promise[d]
  BY <1>5 DEF TypeOK
<1>7. FollowInv'
  <2>1. Requests' = Requests
    BY <1>5 DEF Requests
  <2>2. c \notin Requests
    BY <1>5 DEF HoldInv, EveryWaiterHeldOnce, Waiters
  <2>3. \A r \in Calls : followers[r] \subseteq Calls
    BY DEF TypeOK
  <2> QED BY <1>4, <1>6, <2>1, <2>2, <2>3 DEF SentInv, FollowInv
<1>8. PlaceInv'
  BY <1>5, PlaceKept DEF SentInv, TypeOK
<1>9. \A d \in Calls : Unwritten(d)' => Unwritten(d)
  BY <1>4, <1>5, <1>6 DEF Unwritten
<1>10. \A d \in Calls : promise'[d] # "protocol"
  BY <1>6 DEF SentInv, OnceInv
<1>11. OnceInv'
  BY <1>5, <1>9, <1>10, HostSame, OnceKept DEF SentInv
<1> QED BY <1>7, <1>8, <1>11 DEF SentInv

LEMMA AdmittingNew ==
  ASSUME HoldInv, NEW c \in Calls, Admitting(c)
  PROVE  promise[c] = "new"
BY DEF Admitting, HoldInv, TurnInv

LEMMA QueuesSent ==
  ASSUME TypeOK, HoldInv, SentInv, NEW c \in Calls, InvokeQueues(c)
  PROVE  SentInv'
<1>1. /\ promise[c] = "new" /\ promise' = [promise EXCEPT ![c] = "waiting"]
      /\ UNCHANGED <<pending, followers, stdin, running, stdout, handled>>
      /\ queue' = Enqueued(c)
  BY AdmittingNew DEF InvokeQueues, Accepts
<1>2. c \notin Requests
  BY <1>1 DEF HoldInv, EveryWaiterHeldOnce, Waiters
<1>3. ToSet(queue)' = ToSet(queue) \cup {c}
  BY <1>1, <1>2, EnqueuedElements DEF Requests, HoldInv, EveryWaiterHeldOnce
<1>4. \A d \in Calls : promise'[d] = IF d = c THEN "waiting" ELSE promise[d]
  BY <1>1 DEF TypeOK
<1>5. FollowInv'
  <2>1. Requests' = Requests \cup {c}
    BY <1>1, <1>3 DEF Requests
  <2>2. \A r \in Calls : followers[r] \subseteq Calls
    BY DEF TypeOK
  <2> QED BY <1>1, <1>4, <2>1, <2>2 DEF SentInv, FollowInv
<1>6. PlaceInv'
  <2>1. \/ UNCHANGED <<child, spawned>>
        \/ spawned' = spawned + 1 /\ child' = spawned + 1
    BY DEF InvokeQueues
  <2>2. spawned \in Nat
    BY DEF TypeOK
  <2> QED BY <1>1, <2>1, <2>2, PlaceKept DEF SentInv
<1>7. \A d \in Calls : Unwritten(d)' => Unwritten(d)
  BY <1>1, <1>3, <1>4 DEF Unwritten
<1>8. \A d \in Calls : promise'[d] # "protocol"
  BY <1>4 DEF SentInv, OnceInv
<1>9. OnceInv'
  BY <1>1, <1>7, <1>8, HostSame, OnceKept DEF SentInv
<1> QED BY <1>5, <1>6, <1>9 DEF SentInv

LEMMA SpawnThrowsSent ==
  ASSUME TypeOK, HoldInv, SentInv, NEW c \in Calls, InvokeSpawnThrows(c)
  PROVE  SentInv'
<1>1. /\ promise[c] = "new" /\ promise' = Settled(promise, Requests \cup {c}, "unsent")
      /\ UNCHANGED <<followers, child, spawned, stdin, running, stdout, handled>>
      /\ queue' = <<>> /\ pending' = {} /\ child = 0
  BY AdmittingNew DEF InvokeSpawnThrows, Accepts, host
<1>2. Requests = {} /\ pending = {}
  BY <1>1 DEF HoldInv, NoOrphanRequests, Requests
<1>3. ToSet(queue)' = {} /\ Requests' = {}
  BY <1>1, EmptyElements DEF Requests
<1>4. \A d \in Calls : promise'[d] = IF d = c \/ d \in followers[c] THEN "unsent" ELSE promise[d]
  BY <1>1, <1>2, WaiterOf DEF Settled
<1>5. FollowInv'
  BY <1>1, <1>3, <1>4, FollowKept DEF SentInv
<1>6. PlaceInv'
  BY <1>1, <1>2, PlaceKept DEF SentInv, TypeOK
<1>7. \A d \in Calls : Unwritten(d)' => Unwritten(d)
  BY <1>1, <1>3, <1>4 DEF Unwritten
<1>8. \A d \in Calls : promise'[d] # "protocol"
  BY <1>4 DEF SentInv, OnceInv
<1>9. OnceInv'
  BY <1>1, <1>7, <1>8, HostSame, OnceKept DEF SentInv
<1> QED BY <1>5, <1>6, <1>9 DEF SentInv

(* A request is written: it was nowhere before. *)
LEMMA SendsSent ==
  ASSUME TypeOK, HoldInv, SentInv, child # 0, NEW i \in 1..Len(queue), Sends(i),
         UNCHANGED <<followers, spawned, running, stdout, handled>>
  PROVE  SentInv'
<1> DEFINE c == queue[i]
<1>1. queue \in Seq(Calls) /\ IsInjective(queue)
  BY DEF TypeOK, HoldInv, EveryWaiterHeldOnce
<1>2. c \in ToSet(queue) /\ c \in Calls
  BY <1>1 DEF ToSet
<1>3. ToSet(queue)' = ToSet(queue) \ {c}
  BY <1>1, RemoveAtElements DEF Sends
<1>4. /\ pending' = pending \cup {c} /\ UNCHANGED <<child, promise>>
      /\ stdin' = IF alive[child] THEN [stdin EXCEPT ![child] = Append(stdin[child], c)] ELSE stdin
  BY DEF Sends
<1> HIDE DEF c
<1>5. Requests' = Requests /\ c \in Requests
  BY <1>2, <1>3, <1>4 DEF Requests
<1>6. FollowInv'
  BY <1>4, <1>5, FollowKept DEF SentInv
<1>7. promise[c] = "waiting"
  BY <1>2, <1>5 DEF HoldInv, EveryWaiterHeldOnce, Waiters
<1>8. handled[c] = 0 /\ \A g \in Spawns : c \notin Places(g)
  BY <1>2 DEF SentInv, OnceInv, Unwritten
<1>9. \A d \in Calls : Unwritten(d)' => Unwritten(d) /\ d # c
  <2>1. \A r \in Calls : c \notin followers[r]
    BY <1>5 DEF SentInv, FollowInv
  <2> QED BY <1>3, <1>4, <1>7, <2>1 DEF Unwritten
<1>10. CASE ~alive[child]
  <2>1. PlaceInv'
    BY <1>4, <1>10, PlaceKept DEF SentInv, TypeOK
  <2>2. OnceInv'
    BY <1>4, <1>9, <1>10, HostSame, OnceKept DEF SentInv, OnceInv
  <2> QED BY <1>6, <2>1, <2>2 DEF SentInv
<1>11. CASE alive[child]
  <2>1. child \in Spawns /\ child <= spawned
    BY DEF TypeOK, HoldInv, TurnInv
  <2>2. /\ stdin'[child] = Append(stdin[child], c)
        /\ \A h \in Spawns : h # child => stdin'[h] = stdin[h]
    BY <1>4, <1>11, <2>1 DEF TypeOK
  <2>3. stdin[child] \in Seq(Calls) /\ ChildInv(child)
    BY <2>1 DEF TypeOK, SentInv, PlaceInv
  <2>4. c \notin Places(child)
    BY <1>8, <2>1
  <2>5. In(child)' = In(child) \cup {c} /\ IsInjective(stdin[child])'
    BY <1>2, <1>4, <2>2, <2>3, <2>4, AppendElements DEF In, Places, ChildInv
  <2>6. Out(child)' = Out(child) /\ UNCHANGED running[child]
    BY <1>4 DEF Out
  <2>7. Places(child)' = Places(child) \cup {c}
    BY <1>4, <2>5, <2>6 DEF Places
  <2>8. ChildInv(child)'
    BY <1>4, <2>1, <2>3, <2>4, <2>5, <2>6, <2>7 DEF ChildInv, Places, TypeOK
  <2>9. PlaceInv'
    BY <1>4, <1>8, <2>1, <2>2, <2>7, <2>8, PlaceOne DEF SentInv
  <2>10. \A h \in Spawns : h # child => In(h)' = In(h) /\ Places(h)' = Places(h)
    BY <2>2 DEF In, Out, Places
  <2>11. OnceInv'
    BY <1>4, <1>8, <1>9, <2>5, <2>7, <2>10 DEF SentInv, OnceInv
  <2> QED BY <1>6, <2>9, <2>11 DEF SentInv
<1> QED BY <1>10, <1>11

(* The ids of what a child has written, when the first response is taken and   *)
(* when another is written.                                                    *)
LEMMA OutTail ==
  ASSUME TypeOK, NEW g \in Spawns, ChildInv(g), stdout[g] # <<>>,
         stdout' = [stdout EXCEPT ![g] = Tail(@)]
  PROVE  /\ Out(g)' = Out(g) \ {Head(stdout[g]).id} /\ Head(stdout[g]).id \in Out(g)
         /\ IsInjective(stdout[g])'
         /\ (\A m, n \in ToSet(stdout[g]) : m.id = n.id => m = n)'
         /\ \A h \in Spawns : h # g => stdout'[h] = stdout[h]
<1>1. stdout[g] \in Seq(Responses)
  BY DEF TypeOK
<1>2. stdout'[g] = Tail(stdout[g]) /\ \A h \in Spawns : h # g => stdout'[h] = stdout[h]
  BY DEF TypeOK
<1> DEFINE m == Head(stdout[g])
           rest == ToSet(Tail(stdout[g]))
<1>3. ToSet(stdout[g]) = rest \cup {m} /\ m \notin rest /\ IsInjective(Tail(stdout[g]))
  BY <1>1, TailElements DEF ChildInv
<1>4. ToSet(stdout[g])' = rest
  BY <1>2
<1> HIDE DEF m, rest
<1>5. \A n \in rest : n.id # m.id
  BY <1>3 DEF ChildInv
<1>6. Out(g)' = Out(g) \ {m.id} /\ m.id \in Out(g)
  BY <1>3, <1>4, <1>5 DEF Out
<1>7. (\A k, n \in ToSet(stdout[g]) : k.id = n.id => k = n)'
  BY <1>3, <1>4 DEF ChildInv
<1>8. IsInjective(stdout[g])'
  BY <1>2, <1>3
<1> QED BY <1>2, <1>6, <1>7, <1>8 DEF m

LEMMA OutAppend ==
  ASSUME TypeOK, NEW g \in Spawns, ChildInv(g), NEW c \in Calls, c \notin Out(g),
         NEW kind \in {"answer", "busy"}, Respond(g, c, kind)
  PROVE  /\ Out(g)' = Out(g) \cup {c}
         /\ IsInjective(stdout[g])'
         /\ (\A m, n \in ToSet(stdout[g]) : m.id = n.id => m = n)'
         /\ \A h \in Spawns : h # g => stdout'[h] = stdout[h]
         /\ \A m \in ToSet(stdout[g])' : m \in ToSet(stdout[g]) \/ m.kind = kind
<1> DEFINE e == [id |-> c, kind |-> kind]
<1>1. stdout[g] \in Seq(Responses)
  BY DEF TypeOK
<1>2. e \in Responses /\ e.id = c /\ e.kind = kind
  BY DEF Responses
<1>3. /\ stdout'[g] = Append(stdout[g], e)
      /\ \A h \in Spawns : h # g => stdout'[h] = stdout[h]
  BY DEF Respond, TypeOK
<1> HIDE DEF e
<1>4. e \notin ToSet(stdout[g])
  BY <1>2 DEF Out
<1>5. ToSet(stdout[g])' = ToSet(stdout[g]) \cup {e} /\ IsInjective(stdout[g])'
  BY <1>1, <1>2, <1>3, <1>4, AppendElements DEF ChildInv
<1>6. Out(g)' = Out(g) \cup {c}
  BY <1>2, <1>5 DEF Out
<1>7. (\A m, n \in ToSet(stdout[g]) : m.id = n.id => m = n)'
  BY <1>2, <1>5 DEF ChildInv, Out
<1> QED BY <1>2, <1>3, <1>5, <1>6, <1>7

(* A response is delivered; if it comes from the current child, its request is *)
(* pending, so parse never meets an identifier it does not know.               *)
LEMMA DeliversSent ==
  ASSUME TypeOK, HoldInv, SentInv, NEW g \in Spawns, Delivers(g)
  PROVE  SentInv'
<1> DEFINE r == Head(stdout[g]).id
<1>1. ChildInv(g) /\ stdout[g] # <<>> /\ stdout' = [stdout EXCEPT ![g] = Tail(@)]
      /\ UNCHANGED <<stdin, running, handled>>
  BY DEF SentInv, PlaceInv, Delivers
<1>2. /\ Out(g)' = Out(g) \ {r} /\ r \in Out(g)
      /\ IsInjective(stdout[g])'
      /\ (\A m, n \in ToSet(stdout[g]) : m.id = n.id => m = n)'
      /\ \A h \in Spawns : h # g => stdout'[h] = stdout[h]
  BY <1>1, OutTail
<1>3. r \in Places(g) /\ (g = child => r \in pending)
  BY <1>1, <1>2 DEF Places, ChildInv
<1>4. g = child => Answered(r)
  BY <1>3 DEF Delivers
<1>5. g # child => UNCHANGED bridge
  BY DEF Delivers
<1> HIDE DEF r
<1>6. /\ UNCHANGED <<queue, followers, child, spawned>>
      /\ pending' = IF g = child THEN pending \ {r} ELSE pending
  BY <1>4, <1>5 DEF Answered, bridge
<1>7. \A c \in Calls : promise'[c] = promise[c] \/ promise'[c] = "answered"
  BY <1>4, <1>5 DEF Answered, bridge, Settled
<1>8. In(g)' = In(g) /\ UNCHANGED running[g] /\ Places(g)' = Places(g) \ {r}
  BY <1>1, <1>2 DEF In, Places, ChildInv
<1>9. ChildInv(g)'
  BY <1>1, <1>2, <1>6, <1>8 DEF ChildInv
<1>10. PlaceInv'
  <2>1. \A h \in Spawns : h # g => r \notin Places(h)
    BY <1>3 DEF SentInv, PlaceInv
  <2> QED BY <1>1, <1>2, <1>6, <1>8, <1>9, <2>1, PlaceOne DEF SentInv
<1>11. \A h \in Spawns : In(h)' \subseteq In(h) /\ Places(h)' \subseteq Places(h)
  BY <1>1, <1>2, <1>8 DEF In, Out, Places
<1>12. \A c \in Calls : Unwritten(c)' => Unwritten(c)
  BY <1>6, <1>7 DEF Unwritten
<1>13. \A c \in Calls : promise'[c] # "protocol"
  BY <1>7 DEF SentInv, OnceInv
<1>14. OnceInv'
  BY <1>1, <1>11, <1>12, <1>13, OnceKept DEF SentInv
<1>15. FollowInv'
  <2>1. Requests' \subseteq Requests
    BY <1>6 DEF Requests
  <2> QED BY <1>6, <1>7, <2>1, FollowKept DEF SentInv
<1> QED BY <1>10, <1>14, <1>15 DEF SentInv

(* The host moves requests of one child from place to place. *)
LEMMA HostMoves ==
  ASSUME TypeOK, SentInv, NEW g \in Spawns, UNCHANGED bridge, ChildInv(g)',
         \A h \in Spawns : h # g => /\ stdin'[h] = stdin[h] /\ running'[h] = running[h]
                                    /\ stdout'[h] = stdout[h],
         Places(g)' \subseteq Places(g)
  PROVE  /\ FollowInv' /\ PlaceInv'
         /\ \A c \in Calls : Unwritten(c)' => Unwritten(c)
         /\ \A h \in Spawns : h # g => In(h)' = In(h) /\ Places(h)' = Places(h)
<1>1. /\ UNCHANGED <<queue, pending, followers, child, spawned, promise>>
      /\ UNCHANGED <<Requests>>
  BY DEF bridge, Requests
<1>2. FollowInv'
  BY <1>1, FollowKept DEF SentInv
<1>3. PlaceInv'
  <2>1. \A h \in Spawns : NoCall \notin Places(h)
    <3>1. \A h \in Spawns : Places(h) \subseteq Calls
      <4> SUFFICES ASSUME NEW h \in Spawns PROVE Places(h) \subseteq Calls
        OBVIOUS
      <4>1. stdin[h] \in Seq(Calls) /\ stdout[h] \in Seq(Responses) /\ running[h] \subseteq Calls
        BY DEF TypeOK
      <4>2. In(h) \subseteq Calls
        BY <4>1 DEF In, ToSet
      <4>3. Out(h) \subseteq Calls
        <5>1. ToSet(stdout[h]) \subseteq Responses
          BY <4>1 DEF ToSet
        <5>2. \A m \in Responses : m.id \in Calls
          BY DEF Responses
        <5> QED BY <5>1, <5>2 DEF Out
      <4> QED BY <4>1, <4>2, <4>3 DEF Places
    <3> QED BY <3>1, CallsAssumption
  <2> QED BY <1>1, <2>1, PlaceOne DEF SentInv
<1>4. \A c \in Calls : Unwritten(c)' => Unwritten(c)
  BY <1>1 DEF Unwritten
<1>5. \A h \in Spawns : h # g => In(h)' = In(h) /\ Places(h)' = Places(h)
  BY DEF In, Out, Places
<1> QED BY <1>2, <1>3, <1>4, <1>5

LEMMA HostReadsSent ==
  ASSUME TypeOK, SentInv, NEW g \in Spawns, HostReads(g)
  PROVE  SentInv'
<1> DEFINE c == Head(stdin[g])
           admitted == Cardinality(Permits(g)) < ADMISSION
<1>1. /\ UNCHANGED bridge /\ ChildInv(g) /\ stdin[g] # <<>>
      /\ stdin' = [stdin EXCEPT ![g] = Tail(@)] /\ stdin[g] \in Seq(Calls)
  BY DEF HostReads, SentInv, PlaceInv, TypeOK
<1>2. stdin'[g] = Tail(stdin[g]) /\ \A h \in Spawns : h # g => stdin'[h] = stdin[h]
  BY <1>1 DEF TypeOK
<1>3. /\ c \in Calls /\ c \in In(g) /\ In(g)' = In(g) \ {c} /\ IsInjective(stdin[g])'
  BY <1>1, <1>2, TailElements DEF In, ChildInv
<1>4. \/ /\ \E kind \in {"answer", "busy"} : Respond(g, c, kind)
         /\ UNCHANGED running
         /\ handled' = handled \/ handled' = [handled EXCEPT ![c] = @ + 1]
      \/ /\ running' = [running EXCEPT ![g] = @ \cup {c}] /\ UNCHANGED stdout
         /\ handled' = [handled EXCEPT ![c] = @ + 1]
  <2>1. CASE c \in Immediate
    BY <2>1 DEF HostReads
  <2>2. CASE c \notin Immediate /\ ~admitted
    <3>1. handled' = [handled EXCEPT ![c] = @ + 0] /\ Respond(g, c, "busy") /\ UNCHANGED running
      BY <2>2 DEF HostReads
    <3>2. handled' = handled
      BY <1>3, <3>1 DEF TypeOK
    <3> QED BY <3>1, <3>2
  <2>3. CASE c \notin Immediate /\ admitted
    BY <2>3 DEF HostReads
  <2> QED BY <2>1, <2>2, <2>3
<1> HIDE DEF c, admitted
<1>5. /\ Places(g)' = Places(g) /\ ChildInv(g)'
      /\ \A h \in Spawns : h # g => running'[h] = running[h] /\ stdout'[h] = stdout[h]
  <2>1. UNCHANGED <<child, spawned, pending>>
    BY <1>1 DEF bridge
  <2>2. CASE (\E kind \in {"answer", "busy"} : Respond(g, c, kind)) /\ UNCHANGED running
    <3>1. c \notin Out(g)
      BY <1>1, <1>3 DEF ChildInv
    <3>2. PICK kind \in {"answer", "busy"} : Respond(g, c, kind)
      BY <2>2
    <3>3. /\ Out(g)' = Out(g) \cup {c} /\ IsInjective(stdout[g])'
          /\ (\A m, n \in ToSet(stdout[g]) : m.id = n.id => m = n)'
          /\ \A h \in Spawns : h # g => stdout'[h] = stdout[h]
      BY <1>1, <1>3, <3>1, <3>2, OutAppend
    <3>4. Places(g)' = Places(g)
      BY <1>3, <2>2, <3>3 DEF Places
    <3>5. ChildInv(g)'
      BY <1>1, <1>3, <2>1, <2>2, <3>3, <3>4 DEF ChildInv
    <3> QED BY <2>2, <3>3, <3>4, <3>5
  <2>3. CASE running' = [running EXCEPT ![g] = @ \cup {c}] /\ UNCHANGED stdout
    <3>1. running'[g] = running[g] \cup {c} /\ \A h \in Spawns : h # g => running'[h] = running[h]
      BY <2>3 DEF TypeOK
    <3>2. Out(g)' = Out(g)
      BY <2>3 DEF Out
    <3>3. Places(g)' = Places(g)
      BY <1>3, <3>1, <3>2 DEF Places
    <3>4. c \notin Out(g)
      BY <1>1, <1>3 DEF ChildInv
    <3>5. ChildInv(g)'
      BY <1>1, <1>3, <2>1, <2>3, <3>1, <3>2, <3>3, <3>4 DEF ChildInv
    <3> QED BY <2>3, <3>1, <3>3, <3>5
  <2> QED BY <1>4, <2>2, <2>3
<1>6. /\ FollowInv' /\ PlaceInv'
      /\ \A d \in Calls : Unwritten(d)' => Unwritten(d)
      /\ \A h \in Spawns : h # g => In(h)' = In(h) /\ Places(h)' = Places(h)
  BY <1>1, <1>2, <1>5, HostMoves
<1>7. handled[c] = 0 /\ ~Unwritten(c) /\ \A h \in Spawns : h # g => c \notin In(h)
  BY <1>3 DEF SentInv, OnceInv, PlaceInv, Places
<1>8. /\ handled'[c] \in {0, 1}
      /\ \A d \in Calls : d # c => handled'[d] = handled[d]
  BY <1>3, <1>4, <1>7 DEF TypeOK
<1>9. OnceInv'
  <2>1. \A d \in Calls : Unwritten(d)' => handled'[d] = 0 /\ \A h \in Spawns : d \notin Places(h)'
    BY <1>5, <1>6, <1>7, <1>8 DEF SentInv, OnceInv
  <2>2. \A h \in Spawns : In(h) \subseteq Calls
    BY DEF In, ToSet, TypeOK
  <2>3. \A h \in Spawns : \A d \in In(h)' : handled'[d] = 0
    BY <1>3, <1>6, <1>7, <1>8, <2>2 DEF SentInv, OnceInv
  <2>4. \A d \in Calls : handled'[d] <= 1 /\ promise'[d] # "protocol"
    BY <1>1, <1>8 DEF SentInv, OnceInv, bridge
  <2> QED BY <2>1, <2>3, <2>4 DEF OnceInv
<1> QED BY <1>6, <1>9 DEF SentInv

LEMMA HostAnswersSent ==
  ASSUME TypeOK, SentInv, NEW g \in Spawns, NEW c \in Calls, HostAnswers(g, c)
  PROVE  SentInv'
<1>1. /\ UNCHANGED <<bridge, stdin, handled>> /\ ChildInv(g) /\ c \in running[g]
      /\ Respond(g, c, "answer") /\ running' = [running EXCEPT ![g] = @ \ {c}]
  BY DEF HostAnswers, SentInv, PlaceInv
<1>2. UNCHANGED <<child, spawned, pending, promise>>
  BY <1>1 DEF bridge
<1>3. c \notin Out(g) /\ c \notin In(g)
  BY <1>1 DEF ChildInv
<1>4. /\ Out(g)' = Out(g) \cup {c} /\ IsInjective(stdout[g])'
      /\ (\A m, n \in ToSet(stdout[g]) : m.id = n.id => m = n)'
      /\ \A h \in Spawns : h # g => stdout'[h] = stdout[h]
  BY <1>1, <1>3, OutAppend
<1>5. running'[g] = running[g] \ {c} /\ \A h \in Spawns : h # g => running'[h] = running[h]
  BY <1>1 DEF TypeOK
<1>6. In(g)' = In(g) /\ Places(g)' = Places(g)
  BY <1>1, <1>4, <1>5 DEF In, Places
<1>7. ChildInv(g)'
  BY <1>1, <1>2, <1>3, <1>4, <1>5, <1>6 DEF ChildInv
<1>8. /\ FollowInv' /\ PlaceInv'
      /\ \A d \in Calls : Unwritten(d)' => Unwritten(d)
      /\ \A h \in Spawns : h # g => In(h)' = In(h) /\ Places(h)' = Places(h)
  BY <1>1, <1>4, <1>5, <1>6, <1>7, HostMoves
<1>9. OnceInv'
  BY <1>1, <1>2, <1>6, <1>8, OnceKept DEF SentInv, OnceInv
<1> QED BY <1>8, <1>9 DEF SentInv

LEMMA HostDiesSent ==
  ASSUME TypeOK, SentInv, NEW g \in Spawns, HostDies(g)
  PROVE  SentInv'
<1>1. /\ UNCHANGED <<bridge, stdout, handled>> /\ ChildInv(g)
      /\ stdin' = [stdin EXCEPT ![g] = <<>>] /\ running' = [running EXCEPT ![g] = {}]
  BY DEF HostDies, SentInv, PlaceInv
<1>2. UNCHANGED <<child, spawned, pending, promise>>
  BY <1>1 DEF bridge
<1>3. /\ stdin'[g] = <<>> /\ running'[g] = {}
      /\ \A h \in Spawns : h # g => stdin'[h] = stdin[h] /\ running'[h] = running[h]
  BY <1>1 DEF TypeOK
<1>4. In(g)' = {} /\ IsInjective(stdin[g])' /\ Out(g)' = Out(g)
  BY <1>1, <1>3, EmptyElements DEF In, Out
<1>5. Places(g)' = Out(g)
  BY <1>3, <1>4 DEF Places
<1>6. ChildInv(g)'
  BY <1>1, <1>2, <1>3, <1>4, <1>5 DEF ChildInv, Places
<1>7. /\ FollowInv' /\ PlaceInv'
      /\ \A d \in Calls : Unwritten(d)' => Unwritten(d)
      /\ \A h \in Spawns : h # g => In(h)' = In(h) /\ Places(h)' = Places(h)
  BY <1>1, <1>3, <1>5, <1>6, HostMoves DEF Places
<1>8. OnceInv'
  BY <1>1, <1>2, <1>4, <1>5, <1>7, OnceKept DEF SentInv, OnceInv, Places
<1> QED BY <1>7, <1>8 DEF SentInv

LEMMA InitSent == Init => SentInv
<1> SUFFICES ASSUME Init PROVE SentInv
  OBVIOUS
<1>1. \A g \in Spawns : stdin[g] = <<>> /\ stdout[g] = <<>> /\ running[g] = {}
  BY DEF Init
<1>2. \A g \in Spawns : In(g) = {} /\ Out(g) = {} /\ Places(g) = {}
                        /\ IsInjective(stdin[g]) /\ IsInjective(stdout[g]) /\ ToSet(stdout[g]) = {}
  BY <1>1, EmptyElements DEF In, Out, Places
<1>3. PlaceInv
  BY <1>1, <1>2 DEF PlaceInv, ChildInv
<1>4. OnceInv
  BY <1>2 DEF OnceInv, Init
<1>5. FollowInv
  BY DEF FollowInv, Init
<1> QED BY <1>3, <1>4, <1>5 DEF SentInv

LEMMA StepSent == TypeOK /\ HoldInv /\ SentInv /\ [Next]_vars => SentInv'
<1> SUFFICES ASSUME TypeOK, HoldInv, SentInv, [Next]_vars PROVE SentInv'
  OBVIOUS
<1>1. CASE UNCHANGED <<bridge, stdin, running, stdout, handled>>
  <2>1. UNCHANGED <<queue, pending, followers, child, spawned, promise>>
    BY <1>1 DEF bridge
  <2>2. PlaceInv'
    BY <1>1, <2>1, PlaceKept DEF SentInv, TypeOK
  <2>3. \A c \in Calls : Unwritten(c)' => Unwritten(c)
    BY <2>1 DEF Unwritten
  <2>4. OnceInv'
    BY <1>1, <2>1, <2>3, HostSame, OnceKept DEF SentInv, OnceInv
  <2>5. FollowInv'
    BY <2>1 DEF SentInv, FollowInv, Requests
  <2> QED BY <2>2, <2>4, <2>5 DEF SentInv
<1>2. ASSUME NEW c \in Calls, InvokeRefused(c) PROVE SentInv'
  BY <1>2, RefusedSent DEF InvokeRefused, host
<1>3. ASSUME NEW c \in Calls, InvokeMakesRoom(c) PROVE SentInv'
  <2>1. PICK i \in QueuedBackground :
          queue' = RemoveAt(queue, i) /\ promise' = Settled(promise, {queue[i]}, "unsent")
    BY <1>3 DEF InvokeMakesRoom
  <2>2. i \in 1..Len(queue)
    BY <2>1 DEF QueuedBackground
  <2> QED BY <1>3, <2>1, <2>2, UnsentSent DEF InvokeMakesRoom, host
<1>4. ASSUME NEW c \in Calls, InvokeFull(c) PROVE SentInv'
  BY <1>4, AdmittingNew, RefusedSent DEF InvokeFull, host
<1>5. ASSUME NEW c \in Calls, TimeoutQueued(c) PROVE SentInv'
  BY <1>5, UnsentSent DEF TimeoutQueued, host
<1>6. ASSUME NEW c \in Calls, TimeoutSent(c) PROVE SentInv'
  BY <1>6, FailSent DEF TimeoutSent, host
<1>7. CASE DrainSends
  <2>1. PICK i \in Sendable(queue, pending) :
          IF queue[i] \in Overlong THEN Fail("lost") /\ UNCHANGED stdin ELSE Sends(i)
    BY <1>7 DEF DrainSends
  <2>2. i \in 1..Len(queue) /\ child # 0
        /\ UNCHANGED <<followers, spawned, running, stdout, handled>>
    BY <1>7, <2>1 DEF Sendable, DrainSends
  <2> QED BY <2>1, <2>2, FailSent, SendsSent
<1>8. CASE Close
  BY <1>8, FailSent DEF Close, host
<1>9. ASSUME NEW g \in Spawns, Exits(g) PROVE SentInv'
  BY <1>1, <1>9, FailSent DEF Exits
<1>10. ASSUME NEW g \in Spawns, NEW c \in Calls, HostReleases(g, c) PROVE SentInv'
  BY <1>1, <1>10 DEF HostReleases
<1>11. CASE Done \/ UNCHANGED vars
  BY <1>1, <1>11 DEF Done, vars, host
<1> QED BY <1>2, <1>3, <1>4, <1>5, <1>6, <1>7, <1>8, <1>9, <1>10, <1>11, JoinsSent, QueuesSent,
           SpawnThrowsSent, DeliversSent, HostReadsSent, HostAnswersSent, HostDiesSent DEF Next

LEMMA SentCorrect == Spec => []SentInv
BY InitType, StepType, InitHold, StepHold, InitSent, StepSent, PTL DEF Spec

(* A request is executed at most once, whatever is lost, restarted or delivered *)
(* late, and a caller that is told "not sent" (refused, skipped, timed out in   *)
(* the queue) may repeat the call: the first one was never executed and never    *)
(* will be.                                                                     *)
THEOREM RetryIsSafe == Spec => []SafeToRetry
<1>1. SentInv => SafeToRetry
  BY DEF SentInv, OnceInv, Unwritten, SafeToRetry
<1> QED BY <1>1, SentCorrect, PTL

(* parse() never meets a response of the current child that nobody waits for,  *)
(* so no healthy backend is given up over an unexpected identifier.            *)
THEOREM ResponsesAreExpected == Spec => []NoUnexpectedResponse
<1>1. SentInv => NoUnexpectedResponse
  BY DEF SentInv, OnceInv, NoUnexpectedResponse
<1> QED BY <1>1, SentCorrect, PTL

-----------------------------------------------------------------------------
(* Whose exit it was *)

LEMMA ExitStep ==
  TypeOK /\ [Next]_vars =>
    \A c \in Calls : promise[c] = "waiting" /\ promise'[c] = "exited" => ~alive[child]
<1> SUFFICES ASSUME TypeOK, [Next]_vars, NEW d \in Calls,
                    promise[d] = "waiting", promise'[d] = "exited"
             PROVE  ~alive[child]
  OBVIOUS
<1>1. ASSUME NEW R, NEW o, promise' = Settled(promise, R, o) PROVE o = "exited"
  BY <1>1 DEF Settled
<1>2. ASSUME NEW c \in Calls, NEW o, promise' = [promise EXCEPT ![c] = o] PROVE o = "exited"
  BY <1>2 DEF TypeOK
<1>3. CASE UNCHANGED promise
  BY <1>3
<1>4. CASE \E c \in Calls :
             \/ InvokeRefused(c) \/ InvokeJoins(c) \/ InvokeMakesRoom(c) \/ InvokeFull(c)
             \/ InvokeQueues(c) \/ InvokeSpawnThrows(c)
             \/ TimeoutQueued(c) \/ TimeoutSent(c)
  <2>1. PICK c \in Calls :
             \/ InvokeRefused(c) \/ InvokeJoins(c) \/ InvokeMakesRoom(c) \/ InvokeFull(c)
             \/ InvokeQueues(c) \/ InvokeSpawnThrows(c)
             \/ TimeoutQueued(c) \/ TimeoutSent(c)
    BY <1>4
  <2>2. \/ \E o \in {"unsent", "waiting"} : promise' = [promise EXCEPT ![c] = o]
        \/ \E R : \E o \in {"unsent", "lost"} : promise' = Settled(promise, R, o)
    BY <2>1 DEF InvokeRefused, InvokeJoins, InvokeMakesRoom, InvokeFull, InvokeQueues,
                InvokeSpawnThrows, TimeoutQueued, TimeoutSent, Fail
  <2> QED BY <1>1, <1>2, <2>2
<1>5. CASE DrainSends \/ Close
  <2>1. UNCHANGED promise \/ promise' = Settled(promise, Requests, "lost")
    BY <1>5 DEF DrainSends, Close, Fail, Sends
  <2> QED BY <1>1, <1>3, <2>1
<1>6. ASSUME NEW g \in Spawns, Delivers(g) PROVE ~alive[child]
  <2>1. \/ UNCHANGED promise
        \/ \E R : \E o \in {"protocol", "answered"} : promise' = Settled(promise, R, o)
    BY <1>6 DEF Delivers, Fail, Answered, bridge
  <2> QED BY <1>1, <1>3, <2>1
<1>7. ASSUME NEW g \in Spawns, Exits(g) PROVE ~alive[child]
  BY <1>3, <1>7 DEF Exits, bridge
<1>8. CASE \/ \E g \in Spawns : HostReads(g) \/ HostDies(g)
                  \/ \E c \in Calls : HostAnswers(g, c) \/ HostReleases(g, c)
           \/ Done \/ UNCHANGED vars
  BY <1>3, <1>8 DEF HostReads, HostDies, HostAnswers, HostReleases, Done, vars, bridge
<1> QED BY <1>4, <1>5, <1>6, <1>7, <1>8 DEF Next

(* Callers are told that the backend exited only when the backend that they    *)
(* wait for did: the late exit event of an earlier child settles nothing.      *)
THEOREM ExitIsOwn == Spec => OnlyOwnExit
<1>1. TypeOK /\ [Next]_vars =>
        [(\E c \in Calls : promise[c] = "waiting" /\ promise'[c] = "exited") => ~alive[child]]_vars
  BY ExitStep
<1> QED BY <1>1, TypeCorrect, PTL DEF Spec, OnlyOwnExit

-----------------------------------------------------------------------------
(* The slots of the bridge *)

(* Everything but a running drain leaves nothing in the queue that could go,   *)
(* and background work keeps to its share of the slots.                        *)
DrainedInv ==
  /\ turn # "drain" => \A c \in ToSet(queue) : ~MaySend(c, pending)
  /\ Count(pending, Background) <= BACKGROUND_IN_FLIGHT

LEMMA FiniteCalls == \A S : S \subseteq Calls => IsFiniteSet(S) /\ Cardinality(S) \in Nat
<1> SUFFICES ASSUME NEW S, S \subseteq Calls PROVE IsFiniteSet(S) /\ Cardinality(S) \in Nat
  OBVIOUS
<1>1. IsFiniteSet(Calls)
  BY CallsAssumption
<1>2. IsFiniteSet(S)
  BY <1>1, FS_Subset
<1> QED BY <1>2, FS_CardinalityType

LEMMA SmallerCount ==
  ASSUME NEW S, NEW T, S \subseteq T, T \subseteq Calls
  PROVE  Cardinality(S) <= Cardinality(T)
<1>1. IsFiniteSet(T)
  BY FiniteCalls
<1> QED BY <1>1, FS_Subset

LEMMA OneMore ==
  ASSUME NEW S, S \subseteq Calls, NEW c
  PROVE  Cardinality(S \cup {c}) <= Cardinality(S) + 1
<1>1. IsFiniteSet(S) /\ Cardinality(S) \in Nat
  BY FiniteCalls
<1> QED BY <1>1, FS_AddElement

LEMMA AfterDrainIdle ==
  ASSUME NEW q \in Seq(Calls), NEW sent, AfterDrain(q, sent) # "drain"
  PROVE  \A c \in ToSet(q) : ~MaySend(c, sent)
<1>1. Sendable(q, sent) = {}
  BY DEF AfterDrain
<1>2. \A i \in 1..Len(q) : ~MaySend(q[i], sent)
  BY <1>1 DEF Sendable
<1> QED BY <1>2 DEF ToSet

LEMMA DrainedKept ==
  ASSUME DrainedInv, turn # "drain", ToSet(queue)' \subseteq ToSet(queue), UNCHANGED pending
  PROVE  DrainedInv'
<1>1. \A c : MaySend(c, pending)' <=> MaySend(c, pending)
  BY DEF MaySend, Count
<1>2. UNCHANGED Count(pending, Background)
  BY DEF Count
<1> QED BY <1>1, <1>2 DEF DrainedInv

LEMMA DrainedEmpty ==
  ASSUME queue' = <<>>, pending' = {}
  PROVE  DrainedInv'
<1>1. ToSet(queue)' = {}
  BY EmptyElements
<1>2. {c \in pending' : Background(c)} = {}
  OBVIOUS
<1>3. Count(pending, Background)' = 0
  BY <1>2, FS_EmptySet DEF Count
<1> QED BY <1>1, <1>3, NatLimits DEF DrainedInv

LEMMA DrainedAfter ==
  ASSUME queue' \in Seq(Calls), turn' = AfterDrain(queue', pending'),
         Count(pending, Background)' <= BACKGROUND_IN_FLIGHT
  PROVE  DrainedInv'
<1>1. turn' # "drain" => \A c \in ToSet(queue') : ~MaySend(c, pending')
  BY AfterDrainIdle
<1> QED BY <1>1 DEF DrainedInv

LEMMA StepDrained == TypeOK /\ TypeOK' /\ HoldInv /\ DrainedInv /\ [Next]_vars => DrainedInv'
<1> SUFFICES ASSUME TypeOK, TypeOK', HoldInv, DrainedInv, [Next]_vars PROVE DrainedInv'
  OBVIOUS
<1>q. queue \in Seq(Calls) /\ queue' \in Seq(Calls) /\ IsInjective(queue) /\ pending \subseteq Calls
  BY DEF TypeOK, HoldInv, EveryWaiterHeldOnce
<1>b. /\ {c \in pending : Background(c)} \subseteq Calls
      /\ Cardinality({c \in pending : Background(c)}) <= BACKGROUND_IN_FLIGHT
      /\ Cardinality({c \in pending : Background(c)}) \in Nat
  BY <1>q, FiniteCalls DEF DrainedInv, Count
<1>1. CASE UNCHANGED bridge
  <2>1. UNCHANGED <<queue, pending, turn>>
    BY <1>1 DEF bridge
  <2>2. turn # "drain" => DrainedInv'
    BY <2>1, DrainedKept
  <2>3. UNCHANGED Count(pending, Background)
    BY <2>1 DEF Count
  <2> QED BY <2>1, <2>2, <2>3 DEF DrainedInv
<1>2. ASSUME NEW o, Fail(o) PROVE DrainedInv'
  BY <1>2, DrainedEmpty DEF Fail
<1>3. ASSUME NEW c \in Calls,
             InvokeRefused(c) \/ InvokeJoins(c) \/ InvokeFull(c)
      PROVE  DrainedInv'
  BY <1>3, DrainedKept DEF InvokeRefused, InvokeJoins, InvokeFull, Admitting
<1>4. ASSUME NEW c \in Calls, InvokeMakesRoom(c) \/ TimeoutQueued(c) PROVE DrainedInv'
  <2>1. PICK i \in 1..Len(queue) : queue' = RemoveAt(queue, i)
    BY <1>4 DEF InvokeMakesRoom, TimeoutQueued, QueuedBackground
  <2>2. ToSet(queue)' \subseteq ToSet(queue)
    BY <1>q, <2>1, RemoveAtElements
  <2>3. turn # "drain" /\ UNCHANGED pending
    BY <1>4 DEF InvokeMakesRoom, TimeoutQueued, Admitting
  <2> QED BY <2>2, <2>3, DrainedKept
<1>5. ASSUME NEW c \in Calls, InvokeQueues(c) PROVE DrainedInv'
  <2>1. turn' = AfterDrain(queue', pending') /\ UNCHANGED pending
    BY <1>5 DEF InvokeQueues
  <2> QED BY <1>q, <1>b, <2>1, DrainedAfter DEF Count
<1>6. ASSUME NEW c \in Calls, InvokeSpawnThrows(c) PROVE DrainedInv'
  BY <1>6, DrainedEmpty DEF InvokeSpawnThrows
<1>7. ASSUME NEW i \in Sendable(queue, pending), Sends(i) PROVE DrainedInv'
  <2> DEFINE c == queue[i]
  <2>1. turn' = AfterDrain(queue', pending') /\ pending' = pending \cup {c}
    BY <1>7 DEF Sends
  <2>2. c \in Calls /\ MaySend(c, pending)
    BY <1>7, <1>q DEF Sendable
  <2> HIDE DEF c
  <2>3. CASE Background(c)
    <3>1. Cardinality({d \in pending : Background(d)}) < BACKGROUND_IN_FLIGHT
      BY <2>2, <2>3 DEF MaySend, Urgent, Background, Count
    <3>2. {d \in pending' : Background(d)} = {d \in pending : Background(d)} \cup {c}
      BY <2>1, <2>3
    <3>3. Count(pending, Background)' <= BACKGROUND_IN_FLIGHT
      <4>1. Cardinality({d \in pending' : Background(d)})
               <= Cardinality({d \in pending : Background(d)}) + 1
        BY <1>b, <3>2, OneMore
      <4>2. {d \in pending' : Background(d)} \subseteq Calls
        BY <1>b, <2>2, <3>2
      <4>3. Cardinality({d \in pending' : Background(d)}) \in Nat
        BY <4>2, FiniteCalls
      <4> QED BY <1>b, <3>1, <4>1, <4>3, NatLimits DEF Count
    <3> QED BY <1>q, <2>1, <3>3, DrainedAfter
  <2>4. CASE ~Background(c)
    <3>1. {d \in pending' : Background(d)} = {d \in pending : Background(d)}
      BY <2>1, <2>4
    <3>2. Count(pending, Background)' <= BACKGROUND_IN_FLIGHT
      BY <1>b, <3>1 DEF Count
    <3> QED BY <1>q, <2>1, <3>2, DrainedAfter
  <2> QED BY <2>3, <2>4
<1>8. ASSUME NEW r, Answered(r) PROVE DrainedInv'
  <2>1. turn' = AfterDrain(queue', pending') /\ pending' = pending \ {r}
    BY <1>8 DEF Answered
  <2>2. {d \in pending' : Background(d)} \subseteq {d \in pending : Background(d)}
    BY <2>1
  <2>3. Count(pending, Background)' <= BACKGROUND_IN_FLIGHT
    <3>1. Cardinality({d \in pending' : Background(d)}) <= Cardinality({d \in pending : Background(d)})
      BY <1>b, <2>2, SmallerCount
    <3>2. {d \in pending' : Background(d)} \subseteq Calls
      BY <1>b, <2>2
    <3>3. Cardinality({d \in pending' : Background(d)}) \in Nat
      BY <3>2, FiniteCalls
    <3> QED BY <1>b, <3>1, <3>3, NatLimits DEF Count
  <2> QED BY <1>q, <2>1, <2>3, DrainedAfter
<1>9. ASSUME NEW c \in Calls, TimeoutSent(c) PROVE DrainedInv'
  BY <1>2, <1>9 DEF TimeoutSent
<1>10. CASE DrainSends \/ Close
  BY <1>2, <1>7, <1>10 DEF DrainSends, Close
<1>11. ASSUME NEW g \in Spawns, Delivers(g) \/ Exits(g) PROVE DrainedInv'
  BY <1>1, <1>2, <1>8, <1>11 DEF Delivers, Exits
<1>12. CASE \/ \E g \in Spawns : HostReads(g) \/ HostDies(g)
                   \/ \E c \in Calls : HostAnswers(g, c) \/ HostReleases(g, c)
            \/ Done \/ UNCHANGED vars
  BY <1>1, <1>12 DEF HostReads, HostDies, HostAnswers, HostReleases, Done, vars
<1> QED BY <1>3, <1>4, <1>5, <1>6, <1>9, <1>10, <1>11, <1>12 DEF Next

LEMMA InitDrained == Init => DrainedInv
<1> SUFFICES ASSUME Init PROVE DrainedInv
  OBVIOUS
<1>1. ToSet(queue) = {} /\ {c \in pending : Background(c)} = {}
  BY EmptyElements DEF Init
<1>2. Count(pending, Background) = 0
  BY <1>1, FS_EmptySet DEF Count
<1> QED BY <1>1, <1>2, NatLimits DEF DrainedInv

(* The drain leaves a user action in the queue only while other user actions    *)
(* hold all the slots that background work cannot take: no amount of            *)
(* background work starves the user.                                            *)
THEOREM UserNeverStarved == Spec => []UserWaitsOnlyForUsers
<1>1. TypeOK /\ DrainedInv => UserWaitsOnlyForUsers
  <2> SUFFICES ASSUME TypeOK, DrainedInv, turn = "idle", NEW c \in ToSet(queue), User(c)
               PROVE  Count(pending, User) >= IN_FLIGHT - BACKGROUND_IN_FLIGHT
    BY DEF UserWaitsOnlyForUsers
  <2> DEFINE users == {d \in pending : User(d)}
             backgrounds == {d \in pending : Background(d)}
             regulars == {d \in pending : Regular(d)}
  <2>1. ~MaySend(c, pending) /\ ~Urgent(c) /\ ~Background(c)
    BY DEF DrainedInv, User, Urgent, Background
  <2>2. ~(Cardinality(regulars) < IN_FLIGHT)
    BY <2>1 DEF MaySend, Count
  <2>3. pending \subseteq Calls
    BY DEF TypeOK
  <2>4. regulars = users \cup backgrounds
    <3>1. \A d \in Calls : Regular(d) <=> User(d) \/ Background(d)
      BY CallsAssumption DEF Regular, User, Background, Urgent
    <3> QED BY <2>3, <3>1
  <2>5. Cardinality(backgrounds) <= BACKGROUND_IN_FLIGHT
    BY DEF DrainedInv, Count
  <2> HIDE DEF users, backgrounds, regulars
  <2>6. users \subseteq Calls /\ backgrounds \subseteq Calls
    BY <2>3 DEF users, backgrounds
  <2>7. /\ IsFiniteSet(users) /\ Cardinality(users) \in Nat
        /\ IsFiniteSet(backgrounds) /\ Cardinality(backgrounds) \in Nat
        /\ Cardinality(users \cap backgrounds) \in Nat
    BY <2>6, FiniteCalls
  <2>8. Cardinality(users \cup backgrounds)
          = Cardinality(users) + Cardinality(backgrounds) - Cardinality(users \cap backgrounds)
    BY <2>7, FS_Union
  <2>9. Cardinality(users) >= IN_FLIGHT - BACKGROUND_IN_FLIGHT
    BY <2>2, <2>4, <2>5, <2>7, <2>8, NatLimits
  <2> QED BY <2>9 DEF Count, users
<1>2. Spec => []DrainedInv
  BY InitType, StepType, InitHold, StepHold, InitDrained, StepDrained, PTL DEF Spec
<1> QED BY <1>1, <1>2, TypeCorrect, PTL

-----------------------------------------------------------------------------
(* The permits of the host *)

(* The permits: the requests that need one and were not answered fit in the    *)
(* slots, and the ones that were answered in the threads.                      *)
Needs(g) == (In(g) \cup running[g]) \ Immediate
ChildPermits(g) ==
  /\ Cardinality(Needs(g)) <= IN_FLIGHT
  /\ running[g] \cap Immediate = {}
  /\ Cardinality(lagging[g]) <= WORKERS
  /\ \A m \in ToSet(stdout[g]) : m.kind # "busy"
PermitInv == \A g \in Spawns : ChildPermits(g)

LEMMA InCalls ==
  ASSUME TypeOK, NEW g \in Spawns
  PROVE  In(g) \subseteq Calls /\ running[g] \subseteq Calls /\ lagging[g] \subseteq Calls
BY DEF TypeOK, In, ToSet

(* Fewer requests that need a permit, no more that hold one, no new answer. *)
LEMMA PermitKept ==
  ASSUME TypeOK, TypeOK', NEW g \in Spawns, ChildPermits(g),
         Needs(g)' \subseteq Needs(g), running[g]' \cap Immediate = {},
         Cardinality(lagging[g])' <= WORKERS,
         \A m \in ToSet(stdout[g])' : m \in ToSet(stdout[g]) \/ m.kind # "busy"
  PROVE  ChildPermits(g)'
<1>1. Needs(g) \subseteq Calls /\ Needs(g)' \subseteq Calls
  BY InCalls DEF Needs
<1>2. Cardinality(Needs(g)') <= Cardinality(Needs(g))
  BY <1>1, SmallerCount
<1>3. Cardinality(Needs(g)) \in Nat /\ Cardinality(Needs(g)') \in Nat
  BY <1>1, FiniteCalls
<1>4. Cardinality(Needs(g)') <= IN_FLIGHT
  BY <1>2, <1>3, NatLimits DEF ChildPermits
<1> QED BY <1>4 DEF ChildPermits

LEMMA PermitSame ==
  ASSUME TypeOK, TypeOK', NEW g \in Spawns, ChildPermits(g),
         stdin'[g] = stdin[g], running'[g] = running[g], lagging'[g] = lagging[g],
         stdout'[g] = stdout[g]
  PROVE  ChildPermits(g)'
BY DEF ChildPermits, Needs, In

(* The request that drain writes fits in the slots, whatever the host has read. *)
LEMMA SendsPermit ==
  ASSUME TypeOK, TypeOK', PlaceInv, NEW g \in Spawns, ChildPermits(g), child # 0,
         NEW i \in Sendable(queue, pending), Sends(i), UNCHANGED <<running, lagging, stdout>>
  PROVE  ChildPermits(g)'
<1> DEFINE c == queue[i]
           regulars == {d \in pending : Regular(d)}
<1>1. c \in Calls /\ MaySend(c, pending)
  BY DEF Sendable, TypeOK
<1>2. stdin' = IF alive[child] THEN [stdin EXCEPT ![child] = Append(stdin[child], c)] ELSE stdin
  BY DEF Sends
<1> HIDE DEF c
<1>3. CASE stdin'[g] = stdin[g]
  BY <1>3, PermitSame
<1>4. CASE stdin'[g] # stdin[g]
  <2>1. g = child /\ stdin'[g] = Append(stdin[g], c) /\ stdin[g] \in Seq(Calls)
    BY <1>2, <1>4 DEF TypeOK
  <2>2. In(g)' = In(g) \cup {c}
    BY <1>1, <2>1, AppendElements DEF In
  <2>3. CASE c \in Immediate
    <3>1. Needs(g)' \subseteq Needs(g)
      BY <2>2, <2>3 DEF Needs
    <3> QED BY <3>1, PermitKept DEF ChildPermits
  <2>4. CASE c \notin Immediate
    <3>1. ~Urgent(c)
      BY <1>1, <2>4, UrgentIsImmediate DEF Urgent
    <3>2. Cardinality(regulars) < IN_FLIGHT
      BY <1>1, <3>1 DEF MaySend, Count
    <3>3. In(g) \cup running[g] \subseteq pending /\ pending \subseteq Calls
      BY <2>1 DEF PlaceInv, ChildInv, Places, TypeOK
    <3>4. Needs(g)' \subseteq regulars \cup {c}
      BY <2>2, <3>3, UrgentIsImmediate DEF Needs, Regular, Urgent
    <3>5. regulars \subseteq Calls
      BY <3>3
    <3> HIDE DEF regulars
    <3>6. Cardinality(regulars \cup {c}) <= Cardinality(regulars) + 1
      BY <3>5, OneMore
    <3>7. regulars \cup {c} \subseteq Calls
      BY <1>1, <3>5
    <3>8. Needs(g)' \subseteq Calls
      BY <3>4, <3>7
    <3>9. Cardinality(Needs(g)') <= Cardinality(regulars \cup {c})
      BY <3>4, <3>7, SmallerCount
    <3>10. /\ Cardinality(regulars) \in Nat /\ Cardinality(regulars \cup {c}) \in Nat
           /\ Cardinality(Needs(g)') \in Nat
      BY <3>5, <3>7, <3>8, FiniteCalls
    <3>11. Cardinality(Needs(g)') <= IN_FLIGHT
      BY <3>2, <3>6, <3>9, <3>10, NatLimits
    <3> QED BY <3>11 DEF ChildPermits
  <2> QED BY <2>3, <2>4
<1> QED BY <1>3, <1>4

(* A request that needs a permit gets one. *)
LEMMA ReadsPermit ==
  ASSUME TypeOK, TypeOK', PlaceInv, NEW g \in Spawns, ChildPermits(g), HostReads(g)
  PROVE  ChildPermits(g)'
<1> DEFINE c == Head(stdin[g])
<1>1. /\ ChildInv(g) /\ stdin[g] # <<>> /\ stdin[g] \in Seq(Calls)
      /\ stdin'[g] = Tail(stdin[g]) /\ UNCHANGED lagging
  BY DEF HostReads, PlaceInv, TypeOK
<1>2. c \in Calls /\ c \in In(g) /\ In(g)' = In(g) \ {c}
  BY <1>1, TailElements DEF In, ChildInv
<1>3. c \notin running[g] /\ c \notin Out(g)
  BY <1>1, <1>2 DEF ChildInv
<1>4. CASE c \in Immediate
  <2>1. Respond(g, c, "answer") /\ UNCHANGED running
    BY <1>4 DEF HostReads
  <2> HIDE DEF c
  <2>2. \A m \in ToSet(stdout[g])' : m \in ToSet(stdout[g]) \/ m.kind = "answer"
    BY <1>1, <1>2, <1>3, <2>1, OutAppend
  <2>3. Needs(g)' \subseteq Needs(g)
    BY <1>2, <2>1 DEF Needs
  <2> QED BY <1>1, <2>1, <2>2, <2>3, PermitKept DEF ChildPermits
<1>5. CASE c \notin Immediate
  <2>1. Cardinality(Permits(g)) < ADMISSION
    <3> HIDE DEF c
    <3>1. running[g] \subseteq Calls /\ lagging[g] \subseteq Calls /\ In(g) \subseteq Calls
      BY InCalls
    <3>2. /\ IsFiniteSet(running[g]) /\ Cardinality(running[g]) \in Nat
          /\ IsFiniteSet(lagging[g]) /\ Cardinality(lagging[g]) \in Nat
          /\ Cardinality(running[g] \cap lagging[g]) \in Nat
      BY <3>1, FiniteCalls
    <3>3. Cardinality(running[g] \cup {c}) = Cardinality(running[g]) + 1
      BY <1>3, <3>2, FS_AddElement
    <3>4. running[g] \cup {c} \subseteq Needs(g) /\ Needs(g) \subseteq Calls
      BY <1>2, <1>5, <3>1 DEF Needs, ChildPermits
    <3>5. Cardinality(running[g] \cup {c}) <= Cardinality(Needs(g))
      BY <3>4, SmallerCount
    <3>6. Cardinality(Needs(g)) \in Nat
      BY <3>4, FiniteCalls
    <3>7. Cardinality(running[g]) + 1 <= IN_FLIGHT
      BY <3>2, <3>3, <3>5, <3>6, NatLimits DEF ChildPermits
    <3>8. Cardinality(Permits(g)) = Cardinality(running[g]) + Cardinality(lagging[g])
                                    - Cardinality(running[g] \cap lagging[g])
      BY <3>2, FS_Union DEF Permits
    <3>9. Cardinality(lagging[g]) <= WORKERS
      BY DEF ChildPermits
    <3> QED BY <3>2, <3>7, <3>8, <3>9, NatLimits, AdmissionAssumption
  <2>2. running' = [running EXCEPT ![g] = @ \cup {c}] /\ UNCHANGED stdout
    BY <1>5, <2>1 DEF HostReads
  <2> HIDE DEF c
  <2>3. running'[g] = running[g] \cup {c}
    BY <2>2 DEF TypeOK
  <2>4. Needs(g)' \subseteq Needs(g)
    BY <1>2, <2>3 DEF Needs
  <2>5. running[g]' \cap Immediate = {}
    BY <1>5, <2>3 DEF ChildPermits
  <2> QED BY <1>1, <2>2, <2>4, <2>5, PermitKept DEF ChildPermits
<1> QED BY <1>4, <1>5

LEMMA StepPermit == TypeOK /\ TypeOK' /\ SentInv /\ PermitInv /\ [Next]_vars => PermitInv'
<1> SUFFICES ASSUME TypeOK, TypeOK', SentInv, PermitInv, [Next]_vars, NEW g \in Spawns
             PROVE  ChildPermits(g)'
  BY DEF PermitInv
<1>0. ChildPermits(g) /\ PlaceInv /\ ChildInv(g)
  BY DEF PermitInv, SentInv, PlaceInv
<1>1. CASE UNCHANGED <<stdin, running, lagging, stdout>>
  BY <1>0, <1>1, PermitSame
<1>2. CASE DrainSends
  BY <1>0, <1>1, <1>2, SendsPermit DEF DrainSends
<1>3. ASSUME NEW h \in Spawns, h # g,
             \/ Delivers(h) \/ HostReads(h) \/ HostDies(h)
             \/ \E c \in Calls : HostAnswers(h, c) \/ HostReleases(h, c)
      PROVE  ChildPermits(g)'
  <2>1. /\ stdin'[g] = stdin[g] /\ running'[g] = running[g]
        /\ lagging'[g] = lagging[g] /\ stdout'[g] = stdout[g]
    BY <1>3, ZenonT(60) DEF Delivers, HostReads, HostDies, HostAnswers, HostReleases, Respond, TypeOK
  <2> QED BY <1>0, <2>1, PermitSame
<1>4. CASE Delivers(g)
  <2>1. stdout[g] \in Seq(Responses) /\ stdout[g] # <<>> /\ stdout'[g] = Tail(stdout[g])
        /\ UNCHANGED <<stdin, running, lagging>>
    BY <1>4 DEF Delivers, TypeOK
  <2>2. ToSet(stdout[g])' \subseteq ToSet(stdout[g])
    BY <2>1, TailElements
  <2>3. Needs(g)' = Needs(g)
    BY <2>1 DEF Needs, In
  <2> QED BY <1>0, <2>1, <2>2, <2>3, PermitKept DEF ChildPermits
<1>5. CASE HostReads(g)
  BY <1>0, <1>5, ReadsPermit
<1>6. CASE HostDies(g)
  <2>1. stdin'[g] = <<>> /\ running'[g] = {} /\ lagging'[g] = {} /\ UNCHANGED stdout
    BY <1>6 DEF HostDies, TypeOK
  <2>2. Needs(g)' = {}
    BY <2>1, EmptyElements DEF Needs, In
  <2>3. Cardinality(lagging[g])' <= WORKERS
    BY <2>1, FS_EmptySet, NatLimits
  <2> QED BY <1>0, <2>1, <2>2, <2>3, PermitKept
<1>7. ASSUME NEW c \in Calls, HostAnswers(g, c) PROVE ChildPermits(g)'
  <2>1. /\ running'[g] = running[g] \ {c} /\ lagging'[g] = lagging[g] \cup {c}
        /\ UNCHANGED stdin /\ Respond(g, c, "answer") /\ c \in running[g]
        /\ Cardinality(lagging[g]) < WORKERS
    BY <1>7 DEF HostAnswers, TypeOK
  <2>2. Needs(g)' \subseteq Needs(g)
    BY <2>1 DEF Needs, In
  <2>3. c \notin Out(g)
    BY <1>0, <2>1 DEF ChildInv
  <2>4. \A m \in ToSet(stdout[g])' : m \in ToSet(stdout[g]) \/ m.kind = "answer"
    BY <1>0, <2>1, <2>3, OutAppend
  <2>5. Cardinality(lagging[g])' <= WORKERS
    <3>1. lagging[g] \subseteq Calls /\ lagging[g] \cup {c} \subseteq Calls
      BY InCalls
    <3>2. Cardinality(lagging[g]) \in Nat /\ Cardinality(lagging[g] \cup {c}) \in Nat
      BY <3>1, FiniteCalls
    <3>3. Cardinality(lagging[g] \cup {c}) <= Cardinality(lagging[g]) + 1
      BY <3>1, OneMore
    <3> QED BY <2>1, <3>2, <3>3, NatLimits
  <2>6. running[g]' \cap Immediate = {}
    BY <1>0, <2>1 DEF ChildPermits
  <2> QED BY <1>0, <2>2, <2>4, <2>5, <2>6, PermitKept
<1>8. ASSUME NEW c \in Calls, HostReleases(g, c) PROVE ChildPermits(g)'
  <2>1. lagging'[g] = lagging[g] \ {c} /\ UNCHANGED <<stdin, running, stdout>>
    BY <1>8 DEF HostReleases, TypeOK
  <2>2. lagging[g] \subseteq Calls /\ lagging'[g] \subseteq lagging[g] /\ lagging'[g] \subseteq Calls
    BY <2>1, InCalls
  <2>3. Cardinality(lagging'[g]) <= Cardinality(lagging[g])
    BY <2>2, SmallerCount
  <2>4. Cardinality(lagging'[g]) \in Nat /\ Cardinality(lagging[g]) \in Nat
    BY <2>2, FiniteCalls
  <2>5. Cardinality(lagging[g])' <= WORKERS
    BY <1>0, <2>3, <2>4, NatLimits DEF ChildPermits
  <2>6. Needs(g)' = Needs(g)
    BY <2>1 DEF Needs, In
  <2> QED BY <1>0, <2>1, <2>5, <2>6, PermitKept DEF ChildPermits
<1>9. ASSUME NEW c \in Calls,
             \/ InvokeRefused(c) \/ InvokeJoins(c) \/ InvokeMakesRoom(c) \/ InvokeFull(c)
             \/ InvokeQueues(c) \/ InvokeSpawnThrows(c)
             \/ TimeoutQueued(c) \/ TimeoutSent(c)
      PROVE  ChildPermits(g)'
  BY <1>1, <1>9 DEF InvokeRefused, InvokeJoins, InvokeMakesRoom, InvokeFull, InvokeQueues,
                    InvokeSpawnThrows, TimeoutQueued, TimeoutSent, host
<1>10. CASE Close \/ Done \/ UNCHANGED vars \/ \E h \in Spawns : Exits(h)
  BY <1>1, <1>10 DEF Close, Done, vars, host, Exits
<1> QED BY <1>2, <1>3, <1>4, <1>5, <1>6, <1>7, <1>8, <1>9, <1>10 DEF Next

LEMMA InitPermit == Init => PermitInv
<1> SUFFICES ASSUME Init, NEW g \in Spawns PROVE ChildPermits(g)
  BY DEF PermitInv
<1>1. stdin[g] = <<>> /\ running[g] = {} /\ lagging[g] = {} /\ stdout[g] = <<>>
  BY DEF Init
<1>2. Needs(g) = {} /\ ToSet(stdout[g]) = {}
  BY <1>1, EmptyElements DEF Needs, In
<1> QED BY <1>1, <1>2, FS_EmptySet, NatLimits DEF ChildPermits

(* The host's semaphore always has a permit for what the bridge sends, although *)
(* a task answers before it drops its permit: no request is turned away with    *)
(* "Backend busy", for any limits with IN_FLIGHT + WORKERS <= ADMISSION.        *)
THEOREM NobodyTurnedAway == Spec => []NeverTurnedAway
<1>1. PermitInv => NeverTurnedAway
  BY DEF PermitInv, ChildPermits, NeverTurnedAway
<1>2. Spec => []PermitInv
  BY TypeCorrect, SentCorrect, InitPermit, StepPermit, PTL DEF Spec
<1> QED BY <1>1, <1>2, PTL

-----------------------------------------------------------------------------
(* The byte budget *)

LEMMA BytesType == Bytes \in [Calls -> Int] /\ \A c \in Calls : Bytes[c] \in Nat
BY CallsAssumption

LEMMA BytesSum == BytesAccounted <=> /\ queuedBytes = SumOf(Bytes, Requests)
                                     /\ queuedBytes <= MAX_QUEUED_BYTES + URGENT_SLACK
BY DEF BytesAccounted, SumOf

LEMMA BytesSumNext == BytesAccounted' <=> /\ queuedBytes' = SumOf(Bytes, Requests')
                                          /\ queuedBytes' <= MAX_QUEUED_BYTES + URGENT_SLACK
<1>1. (BytesAccounted <=> /\ queuedBytes = SumOf(Bytes, Requests)
                          /\ queuedBytes <= MAX_QUEUED_BYTES + URGENT_SLACK)'
  BY BytesSum, PTL
<1> QED BY <1>1

LEMMA BytesSame ==
  ASSUME BytesAccounted, Requests' = Requests, queuedBytes' = queuedBytes
  PROVE  BytesAccounted'
<1>1. queuedBytes' = SumOf(Bytes, Requests') /\ queuedBytes' <= MAX_QUEUED_BYTES + URGENT_SLACK
  BY BytesSum
<1> QED BY <1>1, BytesSumNext

LEMMA BytesLeave ==
  ASSUME TypeOK, BytesAccounted, NEW r \in Requests, Requests' = Requests \ {r},
         queuedBytes' = queuedBytes - Bytes[r]
  PROVE  BytesAccounted'
<1>1. r \in Calls /\ Requests \in SUBSET Calls /\ IsFiniteSet(Calls)
  BY RequestsAreCalls, CallsAssumption
<1>2. SumOf(Bytes, Requests \ {r}) = SumOf(Bytes, Requests) - Bytes[r]
  BY <1>1, BytesType, SumRemove
<1>3. queuedBytes' = SumOf(Bytes, Requests')
  BY <1>2, BytesSum
<1>4. queuedBytes' <= MAX_QUEUED_BYTES + URGENT_SLACK
  BY <1>1, BytesSum, BytesType, LimitsAssumption, SMTT(30) DEF TypeOK
<1> QED BY <1>3, <1>4, BytesSumNext

LEMMA BytesEnter ==
  ASSUME TypeOK, BytesAccounted, NEW c \in Calls, c \notin Requests,
         Requests' = Requests \cup {c}, queuedBytes' = queuedBytes + Bytes[c], ~QueueFull(c)
  PROVE  BytesAccounted'
<1>1. Requests \in SUBSET Calls /\ IsFiniteSet(Calls)
  BY RequestsAreCalls, CallsAssumption
<1>2. SumOf(Bytes, Requests \cup {c}) = SumOf(Bytes, Requests) + Bytes[c]
  BY <1>1, BytesType, SumAdd
<1>3. queuedBytes' = SumOf(Bytes, Requests')
  BY <1>2, BytesSum
<1>4. queuedBytes' <= MAX_QUEUED_BYTES + URGENT_SLACK
  <2>1. ~(queuedBytes + Bytes[c] > MAX_QUEUED_BYTES + (IF Urgent(c) THEN URGENT_SLACK ELSE 0))
    BY DEF QueueFull
  <2>2. /\ queuedBytes \in Int /\ Bytes[c] \in Nat
        /\ MAX_QUEUED_BYTES \in Nat /\ URGENT_SLACK \in Nat
    BY BytesType, LimitsAssumption DEF TypeOK
  <2> QED BY <2>1, <2>2
<1> QED BY <1>3, <1>4, BytesSumNext

LEMMA BytesEmpty ==
  ASSUME queue' = <<>>, pending' = {}, queuedBytes' = 0
  PROVE  BytesAccounted'
<1>1. Requests' = {}
  BY EmptyElements DEF Requests
<1>2. queuedBytes' = SumOf(Bytes, Requests') /\ queuedBytes' <= MAX_QUEUED_BYTES + URGENT_SLACK
  BY <1>1, SumEmpty, LimitsAssumption
<1> QED BY <1>2, BytesSumNext

LEMMA StepBytes == TypeOK /\ HoldInv /\ SentInv /\ BytesAccounted /\ [Next]_vars => BytesAccounted'
<1> SUFFICES ASSUME TypeOK, HoldInv, SentInv, BytesAccounted, [Next]_vars PROVE BytesAccounted'
  OBVIOUS
<1>q. queue \in Seq(Calls) /\ IsInjective(queue) /\ ToSet(queue) \cap pending = {}
  BY DEF TypeOK, HoldInv, EveryWaiterHeldOnce
<1>1. CASE UNCHANGED <<queue, pending, queuedBytes>>
  BY <1>1, BytesSame DEF Requests
<1>2. ASSUME NEW o, Fail(o) PROVE BytesAccounted'
  BY <1>2, BytesEmpty DEF Fail
<1>3. ASSUME NEW c \in Calls, InvokeRefused(c) \/ InvokeJoins(c) \/ InvokeFull(c)
      PROVE  BytesAccounted'
  BY <1>1, <1>3 DEF InvokeRefused, InvokeJoins, InvokeFull
<1>4. ASSUME NEW i \in 1..Len(queue), queue' = RemoveAt(queue, i), UNCHANGED pending,
             queuedBytes' = queuedBytes - Bytes[queue[i]]
      PROVE  BytesAccounted'
  <2>1. queue[i] \in ToSet(queue) /\ ToSet(queue)' = ToSet(queue) \ {queue[i]}
    BY <1>q, <1>4, RemoveAtElements DEF ToSet
  <2>2. queue[i] \in Requests /\ Requests' = Requests \ {queue[i]}
    BY <1>q, <1>4, <2>1 DEF Requests
  <2> QED BY <1>4, <2>2, BytesLeave
<1>5. ASSUME NEW c \in Calls, InvokeMakesRoom(c) PROVE BytesAccounted'
  BY <1>4, <1>5 DEF InvokeMakesRoom, QueuedBackground
<1>6. ASSUME NEW c \in Calls, TimeoutQueued(c) PROVE BytesAccounted'
  BY <1>4, <1>6 DEF TimeoutQueued
<1>7. ASSUME NEW c \in Calls, InvokeQueues(c) PROVE BytesAccounted'
  <2>1. /\ promise[c] = "new" /\ queue' = Enqueued(c) /\ UNCHANGED pending
        /\ queuedBytes' = queuedBytes + Bytes[c] /\ ~QueueFull(c)
    BY <1>7, AdmittingNew DEF InvokeQueues, Accepts
  <2>2. c \notin Requests
    BY <2>1 DEF HoldInv, EveryWaiterHeldOnce, Waiters
  <2>3. ToSet(queue)' = ToSet(queue) \cup {c}
    BY <1>q, <2>1, <2>2, EnqueuedElements DEF Requests
  <2>4. Requests' = Requests \cup {c}
    BY <2>1, <2>3 DEF Requests
  <2> QED BY <2>1, <2>2, <2>4, BytesEnter
<1>8. ASSUME NEW c \in Calls, InvokeSpawnThrows(c) \/ TimeoutSent(c) PROVE BytesAccounted'
  BY <1>2, <1>8, BytesEmpty DEF InvokeSpawnThrows, TimeoutSent
<1>9. ASSUME NEW i \in Sendable(queue, pending), Sends(i) PROVE BytesAccounted'
  <2>1. i \in 1..Len(queue) /\ queue' = RemoveAt(queue, i) /\ pending' = pending \cup {queue[i]}
        /\ UNCHANGED queuedBytes
    BY <1>9 DEF Sends, Sendable
  <2>2. queue[i] \in ToSet(queue)
    BY <1>q, <2>1 DEF ToSet
  <2>3. ToSet(queue)' = ToSet(queue) \ {queue[i]}
    BY <1>q, <2>1, RemoveAtElements
  <2>4. Requests' = Requests
    BY <2>1, <2>2, <2>3 DEF Requests
  <2> QED BY <2>1, <2>4, BytesSame
<1>10. ASSUME NEW r \in pending, Answered(r) PROVE BytesAccounted'
  <2>1. pending' = pending \ {r} /\ UNCHANGED queue /\ queuedBytes' = queuedBytes - Bytes[r]
    BY <1>10 DEF Answered
  <2>2. r \in Requests /\ Requests' = Requests \ {r}
    BY <1>q, <1>10, <2>1 DEF Requests
  <2> QED BY <2>1, <2>2, BytesLeave
<1>11. CASE DrainSends \/ Close
  BY <1>2, <1>9, <1>11 DEF DrainSends, Close
<1>12. ASSUME NEW g \in Spawns, Delivers(g) \/ Exits(g) PROVE BytesAccounted'
  BY <1>1, <1>2, <1>10, <1>12 DEF Delivers, Exits, bridge
<1>13. CASE \/ \E g \in Spawns : HostReads(g) \/ HostDies(g)
                   \/ \E c \in Calls : HostAnswers(g, c) \/ HostReleases(g, c)
            \/ Done \/ UNCHANGED vars
  BY <1>1, <1>13 DEF HostReads, HostDies, HostAnswers, HostReleases, Done, vars, bridge
<1> QED BY <1>3, <1>5, <1>6, <1>7, <1>8, <1>11, <1>12, <1>13 DEF Next

LEMMA InitBytes == Init => BytesAccounted
<1> SUFFICES ASSUME Init PROVE BytesAccounted
  OBVIOUS
<1>1. Requests = {}
  BY EmptyElements DEF Init, Requests
<1>2. queuedBytes = SumOf(Bytes, Requests) /\ queuedBytes <= MAX_QUEUED_BYTES + URGENT_SLACK
  BY <1>1, SumEmpty, LimitsAssumption DEF Init
<1> QED BY <1>2, BytesSum

(* queuedBytes is the sum of what is queued and sent, for any sizes: no path    *)
(* that takes a request out forgets its bytes or takes them off twice, so the   *)
(* budget neither leaks away nor lets more in than its limit and its slack.     *)
THEOREM BudgetIsExact == Spec => []BytesAccounted
BY TypeCorrect, HoldCorrect, SentCorrect, InitBytes, StepBytes, PTL DEF Spec

-----------------------------------------------------------------------------
(* LatestWinsQueue *)

(* Revisions of queued demands are their own, and newer than what runs or    *)
(* was published for the same key.                                           *)
OrderInv ==
  /\ \A k \in Keys : queued[k] < next /\ inFlight[k] < next /\ published[k] < next
  /\ \A c \in cancelled : c < next
  /\ \A j, k \in Keys : queued[j] # 0 =>
       queued[j] # inFlight[k] /\ (j # k => queued[j] # queued[k])
  /\ \A k \in Keys : queued[k] # 0 => inFlight[k] < queued[k] /\ published[k] < queued[k]
  /\ \A k \in Keys : inFlight[k] # 0 => published[k] < inFlight[k]

AskedInv == \A k \in Keys : latest[k] # 0 => asked[k] = latest[k]

(* The inductive invariant. *)
QueueInv ==
  /\ QueueTypeOK /\ LatestTracked /\ SupersededIsCancelled /\ StartsUncancelled
  /\ OneWorkerPerKey /\ OrderInv /\ AskedInv

(* The part of QueueTypeOK that is about types alone. *)
Types ==
  /\ queued \in [Keys -> 0..MaxRevision]
  /\ priority \in [Keys -> Nat]
  /\ inFlight \in [Keys -> 0..MaxRevision]
  /\ latest \in [Keys -> 0..MaxRevision]
  /\ next \in 1..(MaxRevision + 1)
  /\ cancelled \subseteq Revisions
  /\ held \subseteq Keys \X Revisions
  /\ asked \in [Keys -> 0..MaxRevision]
  /\ published \in [Keys -> 0..MaxRevision]

-----------------------------------------------------------------------------
(* Counting keys *)

LEMMA Counts ==
  ASSUME NEW S \in SUBSET Keys
  PROVE  IsFiniteSet(S) /\ Cardinality(S) \in Nat
BY KeysAssumption, FS_Subset, FS_CardinalityType

LEMMA CountSubset ==
  ASSUME NEW S \in SUBSET Keys, NEW T \in SUBSET S
  PROVE  Cardinality(T) <= Cardinality(S)
BY Counts, FS_Subset

LEMMA CountAdd ==
  ASSUME NEW S \in SUBSET Keys, NEW k \in Keys
  PROVE  Cardinality(S \cup {k}) <= Cardinality(S) + 1
<1>1. IsFiniteSet(S) /\ Cardinality(S) \in Nat
  BY Counts
<1>2. Cardinality(S \cup {k}) = IF k \in S THEN Cardinality(S) ELSE Cardinality(S) + 1
  BY <1>1, FS_AddElement
<1> DEFINE m == Cardinality(S \cup {k})
           n == Cardinality(S)
<1>3. n \in Nat /\ (m = n \/ m = n + 1)
  BY <1>1, <1>2
<1> HIDE DEF m, n
<1>4. m <= n + 1
  BY <1>3
<1> QED BY <1>4 DEF m, n

(* One key leaves and one comes: no more than before. *)
LEMMA CountSwap ==
  ASSUME NEW S \in SUBSET Keys, NEW v \in S, NEW k \in Keys
  PROVE  Cardinality((S \ {v}) \cup {k}) <= Cardinality(S)
<1>1. IsFiniteSet(S) /\ Cardinality(S) \in Nat
  BY Counts
<1>2. Cardinality(S \ {v}) = Cardinality(S) - 1
  BY <1>1, FS_RemoveElement
<1>3. Cardinality((S \ {v}) \cup {k}) <= Cardinality(S \ {v}) + 1
  BY CountAdd
<1>4. Cardinality((S \ {v}) \cup {k}) \in Nat
  BY Counts
<1> QED BY <1>1, <1>2, <1>3, <1>4

-----------------------------------------------------------------------------
(* The initial state *)

LEMMA InitInv == QueueInit => QueueInv
<1> SUFFICES ASSUME QueueInit PROVE QueueInv
  OBVIOUS
<1> USE BoundsAssumption
<1>1. Types
  BY DEF QueueInit, Types, Nothing
<1>2. Queued = {} /\ InFlight = {}
  BY DEF QueueInit, Nothing, Queued, InFlight
<1>3. Bounded
  BY <1>2, FS_EmptySet DEF Bounded
<1>4. LatestTracked /\ SupersededIsCancelled /\ StartsUncancelled /\ OneWorkerPerKey
      /\ OrderInv /\ AskedInv
  BY DEF QueueInit, Nothing, LatestTracked, SupersededIsCancelled, StartsUncancelled,
         OneWorkerPerKey, OrderInv, AskedInv, Queued, InFlight
<1> QED BY <1>1, <1>3, <1>4 DEF QueueInv, QueueTypeOK, Types

-----------------------------------------------------------------------------
(* Each step *)

Rest == LatestTracked /\ SupersededIsCancelled /\ StartsUncancelled /\ OneWorkerPerKey
        /\ OrderInv /\ AskedInv

(* A demand is accepted for key k: what the accepting paths of schedule      *)
(* share.  q, l and a are the maps before it is entered, C what it cancels;  *)
(* a key other than k is as it was or has lost its queued demand.            *)
LEMMA AcceptStep ==
  ASSUME Types, Rest, NEW k \in Keys, NEW p \in Nat,
         NEW q \in [Keys -> 0..MaxRevision], NEW l \in [Keys -> 0..MaxRevision],
         NEW a \in [Keys -> 0..MaxRevision], NEW C \in SUBSET Revisions,
         next <= MaxRevision,
         \A j \in Keys \ {k} :
           \/ q[j] = queued[j] /\ l[j] = latest[j] /\ a[j] = asked[j] /\ queued[j] \notin C
           \/ q[j] = 0 /\ l[j] = 0 /\ a[j] = 0 /\ queued[j] # 0,
         \A c \in C : c < next,
         inFlight[k] # 0 => inFlight[k] \in C,
         queued' = [q EXCEPT ![k] = next], priority' = [priority EXCEPT ![k] = p],
         cancelled' = cancelled \cup C,
         latest' = [l EXCEPT ![k] = next], asked' = [a EXCEPT ![k] = next],
         next' = next + 1, UNCHANGED <<inFlight, held, published>>
  PROVE  Types' /\ Rest'
<1> USE BoundsAssumption
<1>i. LatestTracked /\ SupersededIsCancelled /\ StartsUncancelled /\ OneWorkerPerKey
      /\ OrderInv /\ AskedInv
  BY DEF Rest
<1>1. Types'
  BY DEF Types, Revisions
<1>2. \A j \in Keys \ {k} : queued'[j] = q[j] /\ latest'[j] = l[j] /\ asked'[j] = a[j]
  OBVIOUS
<1>3. queued'[k] = next /\ latest'[k] = next /\ asked'[k] = next /\ next \in Nat \ {0}
  BY DEF Types
<1>4. LatestTracked'
  BY <1>i, <1>2, <1>3 DEF LatestTracked
<1>5. SupersededIsCancelled'
  <2> SUFFICES ASSUME NEW j \in Keys, inFlight[j] # 0, latest'[j] # inFlight[j]
               PROVE  inFlight[j] \in cancelled'
    BY DEF SupersededIsCancelled, InFlight
  <2>1. CASE j = k
    BY <2>1
  <2>2. CASE j # k /\ l[j] = latest[j]
    BY <1>i, <1>2, <2>2 DEF SupersededIsCancelled, InFlight
  <2>3. CASE j # k /\ queued[j] # 0
    BY <1>i, <2>3 DEF SupersededIsCancelled, InFlight, LatestTracked, OrderInv
  <2> QED BY <2>1, <2>2, <2>3
<1>6. StartsUncancelled'
  BY <1>i, <1>2, <1>3 DEF StartsUncancelled, Queued, Types, OrderInv
<1>7. OneWorkerPerKey'
  BY <1>i DEF OneWorkerPerKey
<1>8. OrderInv'
  <2>1. \A j \in Keys : queued'[j] < next' /\ inFlight'[j] < next' /\ published'[j] < next'
    BY <1>i, <1>2, <1>3 DEF OrderInv, Types
  <2>2. \A c \in cancelled' : c < next'
    BY <1>i DEF OrderInv, Types, Revisions
  <2>3. \A i, j \in Keys : queued'[i] # 0 =>
          queued'[i] # inFlight'[j] /\ (i # j => queued'[i] # queued'[j])
    BY <1>i, <1>2, <1>3 DEF OrderInv, Types
  <2>4. \A j \in Keys : queued'[j] # 0 => inFlight'[j] < queued'[j] /\ published'[j] < queued'[j]
    BY <1>i, <1>2, <1>3 DEF OrderInv, Types
  <2>5. \A j \in Keys : inFlight'[j] # 0 => published'[j] < inFlight'[j]
    BY <1>i DEF OrderInv
  <2> QED BY <2>1, <2>2, <2>3, <2>4, <2>5 DEF OrderInv
<1>9. AskedInv'
  BY <1>i, <1>2, <1>3 DEF AskedInv
<1> QED BY <1>1, <1>4, <1>5, <1>6, <1>7, <1>8, <1>9 DEF Rest

(* What schedule cancels for its key is old, and nobody else's queued demand. *)
LEMMA SupersededIsOld ==
  ASSUME Types, Rest, NEW k \in Keys
  PROVE  /\ Superseded(k) \subseteq Revisions
         /\ \A c \in Superseded(k) : c < next
         /\ \A j \in Keys \ {k} : queued[j] \notin Superseded(k)
         /\ inFlight[k] # 0 => inFlight[k] \in Superseded(k)
BY BoundsAssumption DEF Types, Rest, OrderInv, Superseded, Revisions

LEMMA StepInv == QueueInv /\ [QueueNext]_queueVars => QueueInv'
<1> SUFFICES ASSUME QueueInv, [QueueNext]_queueVars PROVE QueueInv'
  OBVIOUS
<1> USE BoundsAssumption
<1>t. Types /\ Bounded /\ Rest
  BY DEF QueueInv, QueueTypeOK, Types, Rest
<1>i. LatestTracked /\ SupersededIsCancelled /\ StartsUncancelled /\ OneWorkerPerKey
      /\ OrderInv /\ AskedInv
  BY DEF QueueInv
<1>q. /\ Queued \in SUBSET Keys /\ InFlight \in SUBSET Keys
      /\ Cardinality(Queued) \in Nat /\ Cardinality(InFlight) \in Nat
  BY Counts DEF Queued, InFlight
<1>qed. ASSUME Types', Bounded', Rest' PROVE QueueInv'
  BY <1>qed DEF QueueInv, QueueTypeOK, Types, Rest
<1>p. Priorities \subseteq Nat
  BY KeysAssumption
<1>u. CASE UNCHANGED queueVars
  BY <1>u DEF queueVars, QueueInv, QueueTypeOK, Bounded, Queued, InFlight, LatestTracked,
     SupersededIsCancelled, StartsUncancelled, OneWorkerPerKey, OrderInv, AskedInv
<1>1. ASSUME NEW k \in Keys, NEW p \in Priorities, ScheduleReplaces(k, p) PROVE QueueInv'
  <2>1. Types' /\ Rest'
    <3>1. next <= MaxRevision /\ \A j \in Keys \ {k} : queued[j] \notin Superseded(k)
      BY <1>1, <1>t, SupersededIsOld DEF ScheduleReplaces
    <3>2. p \in Nat /\ queued \in [Keys -> 0..MaxRevision] /\ latest \in [Keys -> 0..MaxRevision]
          /\ asked \in [Keys -> 0..MaxRevision] /\ Superseded(k) \in SUBSET Revisions
      BY <1>p, <1>t, SupersededIsOld DEF Types
    <3> QED BY <1>1, <1>t, <3>1, <3>2, SupersededIsOld, AcceptStep DEF ScheduleReplaces
  <2>2. Queued' = Queued /\ InFlight' = InFlight
    BY <1>1, <1>t DEF ScheduleReplaces, Queued, InFlight, Types
  <2>3. Bounded'
    BY <1>t, <2>2 DEF Bounded
  <2> QED BY <1>qed, <2>1, <2>3
<1>2. ASSUME NEW k \in Keys, NEW p \in Priorities, ScheduleQueues(k, p) PROVE QueueInv'
  <2>1. Types' /\ Rest'
    <3>1. next <= MaxRevision /\ \A j \in Keys \ {k} : queued[j] \notin Superseded(k)
      BY <1>2, <1>t, SupersededIsOld DEF ScheduleQueues
    <3>2. p \in Nat /\ queued \in [Keys -> 0..MaxRevision] /\ latest \in [Keys -> 0..MaxRevision]
          /\ asked \in [Keys -> 0..MaxRevision] /\ Superseded(k) \in SUBSET Revisions
      BY <1>p, <1>t, SupersededIsOld DEF Types
    <3> QED BY <1>2, <1>t, <3>1, <3>2, SupersededIsOld, AcceptStep DEF ScheduleQueues
  <2>2. Queued' = Queued \cup {k} /\ InFlight' = InFlight
    BY <1>2, <1>t DEF ScheduleQueues, Queued, InFlight, Types
  <2>3. Cardinality(Queued)' <= Cardinality(Queued) + 1
    BY <1>q, <2>2, CountAdd
  <2>4. Cardinality(Queued)' \in Nat
    BY <1>q, <2>2, Counts
  <2>5. Bounded'
    BY <1>2, <1>q, <1>t, <2>2, <2>3, <2>4 DEF Bounded, ScheduleQueues, HasRoom
  <2> QED BY <1>qed, <2>1, <2>5
<1>3. ASSUME NEW k \in Keys, NEW p \in Priorities, NEW v \in Keys, ScheduleEvicts(k, p, v)
      PROVE  QueueInv'
  <2> DEFINE q == [queued EXCEPT ![v] = 0]
             l == [latest EXCEPT ![v] = IF @ = queued[v] THEN 0 ELSE @]
             a == [asked EXCEPT ![v] = 0]
             C == {queued[v]} \cup Superseded(k)
  <2>0. v \in Queued /\ v # k /\ queued[v] # 0 /\ latest[v] = queued[v]
    BY <1>3, <1>i DEF ScheduleEvicts, EvictionKey, Queued, LatestTracked
  <2>1. Types' /\ Rest'
    <3>1. p \in Nat /\ q \in [Keys -> 0..MaxRevision] /\ l \in [Keys -> 0..MaxRevision]
          /\ a \in [Keys -> 0..MaxRevision] /\ C \in SUBSET Revisions
      BY <1>p, <1>t, SupersededIsOld, <2>0 DEF Types, Revisions
    <3>2. next <= MaxRevision /\ \A c \in C : c < next
      BY <1>3, <1>t, <1>i, SupersededIsOld DEF ScheduleEvicts, OrderInv
    <3>3. \A j \in Keys \ {k} :
            \/ q[j] = queued[j] /\ l[j] = latest[j] /\ a[j] = asked[j] /\ queued[j] \notin C
            \/ q[j] = 0 /\ l[j] = 0 /\ a[j] = 0 /\ queued[j] # 0
      BY <1>t, <1>i, <2>0, SupersededIsOld DEF Types, OrderInv
    <3>4. inFlight[k] # 0 => inFlight[k] \in C
      BY <1>t, SupersededIsOld
    <3>5. /\ queued' = [q EXCEPT ![k] = next] /\ latest' = [l EXCEPT ![k] = next]
          /\ asked' = [a EXCEPT ![k] = next] /\ cancelled' = cancelled \cup C
      BY <1>3 DEF ScheduleEvicts
    <3>6. priority' = [priority EXCEPT ![k] = p] /\ next' = next + 1
          /\ UNCHANGED <<inFlight, held, published>>
      BY <1>3 DEF ScheduleEvicts
    <3> HIDE DEF q, l, a, C
    <3> QED BY <1>t, <3>1, <3>2, <3>3, <3>4, <3>5, <3>6, AcceptStep
  <2>2. Queued' = (Queued \ {v}) \cup {k} /\ InFlight' = InFlight
    BY <1>3, <1>t, <2>0 DEF ScheduleEvicts, Queued, InFlight, Types
  <2>3. Cardinality(Queued)' <= Cardinality(Queued)
    BY <1>q, <2>0, <2>2, CountSwap
  <2>4. Cardinality(Queued)' \in Nat
    BY <1>q, <2>2, Counts
  <2>5. Bounded'
    BY <1>q, <1>t, <2>2, <2>3, <2>4 DEF Bounded
  <2> QED BY <1>qed, <2>1, <2>5
<1>4. ASSUME NEW k \in Keys, NEW p \in Priorities, ScheduleRejected(k, p) PROVE QueueInv'
  BY <1>4, <1>u DEF ScheduleRejected
<1>5. ASSUME NEW k \in Keys, PopNext(k) PROVE QueueInv'
  <2>1. queued[k] # 0 /\ inFlight[k] = 0
    BY <1>5 DEF PopNext, Startable, Queued
  <2>2. /\ queued' = [queued EXCEPT ![k] = 0] /\ inFlight' = [inFlight EXCEPT ![k] = queued[k]]
        /\ held' = held \cup {<<k, queued[k]>>}
        /\ UNCHANGED <<priority, latest, next, cancelled, asked, published>>
    BY <1>5 DEF PopNext
  <2>3. Types'
    BY <1>t, <2>1, <2>2 DEF Types, Revisions
  <2>4. /\ queued'[k] = 0 /\ inFlight'[k] = queued[k]
        /\ \A j \in Keys \ {k} : queued'[j] = queued[j] /\ inFlight'[j] = inFlight[j]
    BY <1>t, <2>2 DEF Types
  <2>5. LatestTracked' /\ AskedInv'
    BY <1>i, <2>1, <2>2, <2>4 DEF LatestTracked, AskedInv
  <2>6. SupersededIsCancelled' /\ StartsUncancelled'
    BY <1>i, <2>1, <2>2, <2>4 DEF SupersededIsCancelled, StartsUncancelled, LatestTracked,
                                  Queued, InFlight
  <2>7. OneWorkerPerKey'
    <3>1. ASSUME NEW d \in held PROVE inFlight'[d[1]] = d[2]
      <4>1. d[1] \in Keys /\ d[2] \in Revisions /\ inFlight[d[1]] = d[2]
        BY <1>i, <1>t DEF Types, OneWorkerPerKey
      <4>2. d[1] # k
        BY <2>1, <4>1 DEF Revisions
      <4> QED BY <2>4, <4>1, <4>2
    <3>2. ASSUME NEW d \in {<<k, queued[k]>>} PROVE inFlight'[d[1]] = d[2]
      BY <2>4
    <3> QED BY <2>2, <3>1, <3>2 DEF OneWorkerPerKey
  <2>8. OrderInv'
    BY <1>i, <1>t, <2>1, <2>2, <2>4 DEF OrderInv, Types
  <2>9. Queued' \in SUBSET Queued /\ InFlight' = InFlight \cup {k}
    BY <2>1, <2>4, <1>t DEF Queued, InFlight, Types
  <2>10. Cardinality(Queued)' <= Cardinality(Queued) /\ Cardinality(Queued)' \in Nat
    BY <1>q, <2>9, CountSubset, Counts
  <2>11. Cardinality(InFlight)' <= Cardinality(InFlight) + 1 /\ Cardinality(InFlight)' \in Nat
    BY <1>q, <2>9, CountAdd, Counts
  <2>12. Bounded'
    BY <1>5, <1>q, <1>t, <2>10, <2>11 DEF Bounded, PopNext
  <2> QED BY <1>qed, <2>3, <2>5, <2>6, <2>7, <2>8, <2>12 DEF Rest
<1>6. ASSUME NEW k \in Keys, NEW r \in Revisions, Finish(k, r) PROVE QueueInv'
  <2>1. <<k, r>> \in held /\ inFlight[k] = r /\ r # 0
    BY <1>6, <1>i DEF Finish, OneWorkerPerKey, Revisions
  <2>2. /\ inFlight' = [inFlight EXCEPT ![k] = 0] /\ held' = held \ {<<k, r>>}
        /\ UNCHANGED <<queued, priority, next, cancelled, asked>>
    BY <1>6, <2>1 DEF Finish, FreesSlot
  <2>3. \/ /\ latest[k] = r /\ latest' = [latest EXCEPT ![k] = 0]
           /\ published' = [published EXCEPT ![k] = r]
        \/ latest[k] # r /\ UNCHANGED <<latest, published>>
    BY <1>6, <2>1 DEF Finish, Publishes
  <2>4. Types'
    BY <1>t, <2>2, <2>3 DEF Types, Revisions
  <2>5. /\ inFlight'[k] = 0 /\ latest'[k] # r
        /\ \A j \in Keys \ {k} : inFlight'[j] = inFlight[j] /\ latest'[j] = latest[j]
                                 /\ published'[j] = published[j]
    BY <1>t, <2>1, <2>2, <2>3 DEF Types
  <2>6. queued[k] # 0 => latest[k] # r
    BY <1>i, <2>1 DEF LatestTracked, OrderInv
  <2>7. LatestTracked' /\ AskedInv'
    BY <1>i, <1>t, <2>1, <2>2, <2>3, <2>5, <2>6 DEF LatestTracked, AskedInv, Types
  <2>8. SupersededIsCancelled' /\ StartsUncancelled'
    BY <1>i, <2>2, <2>5 DEF SupersededIsCancelled, StartsUncancelled, Queued, InFlight
  <2>9. OneWorkerPerKey'
    <3>1. ASSUME NEW d \in held' PROVE inFlight'[d[1]] = d[2]
      <4>1. d \in held /\ d # <<k, r>>
        BY <2>2
      <4>2. d[1] \in Keys /\ d = <<d[1], d[2]>> /\ inFlight[d[1]] = d[2]
        BY <1>i, <1>t, <4>1 DEF Types, OneWorkerPerKey
      <4>3. d[1] # k
        BY <2>1, <4>1, <4>2
      <4> QED BY <2>5, <4>2, <4>3
    <3> QED BY <3>1 DEF OneWorkerPerKey
  <2>10. OrderInv'
    BY <1>i, <1>t, <2>1, <2>2, <2>3, <2>5, <2>6 DEF OrderInv, Types
  <2>11. Queued' = Queued /\ InFlight' \in SUBSET InFlight
    BY <2>2, <2>5 DEF Queued, InFlight
  <2>12. Cardinality(InFlight)' <= Cardinality(InFlight) /\ Cardinality(InFlight)' \in Nat
    BY <1>q, <2>11, CountSubset, Counts
  <2>13. Bounded'
    BY <1>q, <1>t, <2>11, <2>12 DEF Bounded
  <2> QED BY <1>qed, <2>4, <2>7, <2>8, <2>9, <2>10, <2>13 DEF Rest
(* Demands are withdrawn for the keys of a set W. *)
<1>w. ASSUME NEW W \in SUBSET Keys, NEW C \in SUBSET Revisions,
             \A k \in W : /\ queued'[k] = 0 /\ latest'[k] = 0 /\ asked'[k] = 0
                          /\ inFlight[k] # 0 => inFlight[k] \in C,
             \A k \in Keys \ W : /\ queued'[k] = queued[k] /\ latest'[k] = latest[k]
                                 /\ asked'[k] = asked[k] /\ queued[k] \notin C,
             \A c \in C : c < next,
             Types', cancelled' = cancelled \cup C,
             UNCHANGED <<priority, inFlight, next, held, published>>
      PROVE  QueueInv'
  <2>1. LatestTracked' /\ AskedInv'
    BY <1>w, <1>i DEF LatestTracked, AskedInv
  <2>2. SupersededIsCancelled'
    BY <1>w, <1>i DEF SupersededIsCancelled, InFlight
  <2>3. StartsUncancelled'
    BY <1>w, <1>i DEF StartsUncancelled, Queued
  <2>4. OneWorkerPerKey'
    BY <1>w, <1>i DEF OneWorkerPerKey
  <2>5. OrderInv'
    BY <1>w, <1>i, <1>t DEF OrderInv, Types
  <2>6. Queued' \in SUBSET Queued /\ InFlight' = InFlight
    BY <1>w DEF Queued, InFlight
  <2>7. Cardinality(Queued)' <= Cardinality(Queued) /\ Cardinality(Queued)' \in Nat
    BY <1>q, <2>6, CountSubset, Counts
  <2>8. Bounded'
    BY <1>q, <1>t, <2>6, <2>7 DEF Bounded
  <2> QED BY <1>w, <1>qed, <2>1, <2>2, <2>3, <2>4, <2>5, <2>8 DEF Rest
<1>7. ASSUME NEW k \in Keys, Cancel(k) PROVE QueueInv'
  <2>1. Types'
    BY <1>7, <1>t, SupersededIsOld DEF Cancel, Forgets, Types
  <2>2. Superseded(k) \in SUBSET Revisions /\ \A c \in Superseded(k) : c < next
    BY <1>t, SupersededIsOld
  <2>3. \A j \in {k} : /\ queued'[j] = 0 /\ latest'[j] = 0 /\ asked'[j] = 0
                       /\ inFlight[j] # 0 => inFlight[j] \in Superseded(k)
    BY <1>7, <1>t, SupersededIsOld DEF Cancel, Forgets, Types
  <2>4. \A j \in Keys \ {k} : /\ queued'[j] = queued[j] /\ latest'[j] = latest[j]
                              /\ asked'[j] = asked[j] /\ queued[j] \notin Superseded(k)
    BY <1>7, <1>t, SupersededIsOld DEF Cancel, Types
  <2>5. cancelled' = cancelled \cup Superseded(k)
        /\ UNCHANGED <<priority, inFlight, next, held, published>>
    BY <1>7 DEF Cancel
  <2>6. {k} \in SUBSET Keys
    OBVIOUS
  <2> QED BY <1>w, <2>1, <2>2, <2>3, <2>4, <2>5, <2>6
<1>8. CASE ClearPending
  <2> DEFINE C == UNION {Superseded(k) : k \in Keys}
  <2>1. C \in SUBSET Revisions /\ \A c \in C : c < next
    BY <1>t, SupersededIsOld
  <2>2. \A k \in Keys : inFlight[k] # 0 => inFlight[k] \in C
    BY <1>t, SupersededIsOld
  <2>3. queued' = Nothing /\ latest' = Nothing /\ asked' = Nothing /\ cancelled' = cancelled \cup C
        /\ UNCHANGED <<priority, inFlight, next, held, published>>
    BY <1>8 DEF ClearPending
  <2> HIDE DEF C
  <2>4. \A k \in Keys : queued'[k] = 0 /\ latest'[k] = 0 /\ asked'[k] = 0
    BY <2>3 DEF Nothing
  <2>5. Types'
    BY <1>t, <2>1, <2>3 DEF Types, Nothing
  <2>6. Keys \in SUBSET Keys /\ Keys \ Keys = {}
    OBVIOUS
  <2> QED BY <1>w, <2>1, <2>2, <2>3, <2>4, <2>5, <2>6
<1>9. ASSUME NEW k \in Keys, NEW r \in Revisions, CancelHeld(k, r) PROVE QueueInv'
  <2>1. inFlight[k] = r /\ r < next
    BY <1>9, <1>i DEF CancelHeld, OneWorkerPerKey, OrderInv
  <2>2. \A j \in Keys : queued[j] \notin {r}
    BY <2>1, <1>i DEF OrderInv, Revisions
  <2>3. Types'
    BY <1>9, <1>t DEF CancelHeld, Types
  <2>4. {} \in SUBSET Keys /\ {r} \in SUBSET Revisions
    OBVIOUS
  <2> QED BY <1>9, <1>w, <2>1, <2>2, <2>3, <2>4 DEF CancelHeld
<1> QED BY <1>u, <1>1, <1>2, <1>3, <1>4, <1>5, <1>6, <1>7, <1>8, <1>9 DEF QueueNext

-----------------------------------------------------------------------------
(* The theorems *)

LEMMA InvCorrect == QueueSpec => []QueueInv
BY InitInv, StepInv, PTL DEF QueueSpec

(* Types and both bounds hold for every capacity and number of workers. *)
THEOREM QueueTypeCorrect == QueueSpec => []QueueTypeOK
<1>1. QueueInv => QueueTypeOK
  BY DEF QueueInv
<1> QED BY <1>1, InvCorrect, PTL

(* The map of latest demands names exactly demands that are queued or run. *)
THEOREM LatestIsTracked == QueueSpec => []LatestTracked
<1>1. QueueInv => LatestTracked
  BY DEF QueueInv
<1> QED BY <1>1, InvCorrect, PTL

(* Whatever runs in vain has been told to stop. *)
THEOREM StopsSuperseded == QueueSpec => []SupersededIsCancelled
<1>1. QueueInv => SupersededIsCancelled
  BY DEF QueueInv
<1> QED BY <1>1, InvCorrect, PTL

(* Nothing is started that was cancelled before. *)
THEOREM StartsLive == QueueSpec => []StartsUncancelled
<1>1. QueueInv => StartsUncancelled
  BY DEF QueueInv
<1> QED BY <1>1, InvCorrect, PTL

(* No two workers hold demands of one key. *)
THEOREM OneWorker == QueueSpec => []OneWorkerPerKey
<1>1. QueueInv => OneWorkerPerKey
  BY DEF QueueInv
<1> QED BY <1>1, InvCorrect, PTL

(* Latest wins: a published result is the one last asked for, and newer than *)
(* any published before.                                                     *)
THEOREM LatestWins == QueueSpec => PublishesLatest
<1> DEFINE A == \A k \in Keys : published'[k] # published[k] =>
                  published'[k] = asked[k] /\ published'[k] > published[k]
<1>1. QueueInv /\ [QueueNext]_queueVars => A \/ UNCHANGED queueVars
  <2> SUFFICES ASSUME QueueInv, [QueueNext]_queueVars PROVE A \/ UNCHANGED queueVars
    OBVIOUS
  <2>1. CASE published' = published
    BY <2>1
  <2>2. CASE published' # published
    <3>1. PICK k \in Keys, r \in Revisions : Finish(k, r)
      BY <2>2 DEF QueueNext, queueVars, ScheduleReplaces, ScheduleQueues, ScheduleEvicts,
         ScheduleRejected, PopNext, Cancel, ClearPending, CancelHeld
    <3>2. inFlight[k] = r /\ latest[k] = r /\ published' = [published EXCEPT ![k] = r]
      BY <2>2, <3>1 DEF Finish, Publishes
    <3>3. r # 0 /\ asked[k] = r /\ published[k] < r
      BY <3>2 DEF QueueInv, AskedInv, OrderInv, Revisions
    <3>4. A
      BY <3>2, <3>3 DEF QueueInv, QueueTypeOK, Revisions
    <3> QED BY <3>4
  <2> QED BY <2>1, <2>2
<1>2. PublishesLatest <=> [][A]_queueVars
  BY DEF PublishesLatest
<1> QED BY <1>1, InvCorrect, PTL DEF QueueSpec, PublishesLatest
=============================================================================
