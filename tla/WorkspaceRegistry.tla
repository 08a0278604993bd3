------------------------- MODULE WorkspaceRegistry -------------------------
(***************************************************************************)
(* The registry of workspaces of the Electron main process                 *)
(* (apps/key-office/apps/key/src/main/workspaces.ts, class Registry): the  *)
(* list of workspace folders and its file workspaces.json, one backend     *)
(* (RustHost) per workspace made on first use, and the timer that retires  *)
(* idle backends.                                                          *)
(*                                                                         *)
(* A caller performs one operation.  Its steps are the stretches between   *)
(* two awaits; steps of other callers, of the retire timer and close() may *)
(* fall between any two of them.  add() and setAppearance() run one after  *)
(* another along the promise chain `mutations', every other operation runs *)
(* beside them.  A backend is its RustHost object: open or closed, with    *)
(* the calls that wait on it.                                              *)
(***************************************************************************)
EXTENDS Integers, Sequences, FiniteSets, SequencesExt, Functions

CONSTANTS
  Roots,          \* workspace folders, by canonical path
  Id,             \* Id[r]: the identity stored in the folder's database
  Personal,       \* the folder list() adds when nothing is registered
  Callers, Op,    \* Op[c]: what a caller does, [kind, root]
  Registered,     \* the registry file at the first launch
  MAX_WORKSPACES,
  MaxHosts,       \* bound: RustHost objects per behaviour
  MaxRestarts     \* bound: crashes of the application per behaviour

Kinds == {"add", "list", "invoke", "all", "appearance"}

ASSUME OpAssumption ==
  /\ Op \in [Callers -> [kind : Kinds, root : Roots]] /\ Personal \in Roots
  /\ Id \in [Roots -> Range(Id)]
  /\ Registered \in Seq(Roots) /\ Len(Registered) <= MAX_WORKSPACES
  /\ \A i, j \in 1..Len(Registered) : Id[Registered[i]] = Id[Registered[j]] => i = j
  /\ {MAX_WORKSPACES, MaxHosts, MaxRestarts} \subseteq Nat

Hosts == 1..MaxHosts
Ids == Range(Id)
NoRetire == [id |-> "none", host |-> 0, safe |-> FALSE]

VARIABLES
  entries,    \* this.entries, as roots
  file,       \* workspaces.json as the file system shows it
  synced,     \* workspaces.json as it survives a power failure
  hosts,      \* this.hosts: the RustHost in the map for an identity, 0 for none
  folder,     \* the workspace each RustHost was made for
  made,       \* RustHost objects made so far
  open,       \* the RustHost objects that are not closed
  busy,       \* backends with readers, imports or background work
  fresh,      \* identities whose lastUsed is less than a minute old
  closed,     \* this.closed
  retire,     \* the backend whose host_can_suspend retireIdle waits for
  mutations,  \* callers along the promise chain, the head is running
  pc,         \* where each caller is
  at,         \* the RustHost a caller waits on, or has opened for its add
  todo,       \* workspaces an invoke has still to ask
  acked,      \* roots whose add returned
  restarts

vars == <<entries, file, synced, hosts, folder, made, open, busy, fresh, closed,
          retire, mutations, pc, at, todo, acked, restarts>>

Init ==
  /\ entries = Registered /\ file = Registered /\ synced = Registered
  /\ hosts = [i \in Ids |-> 0]
  /\ folder = [h \in Hosts |-> Personal]
  /\ made = 0 /\ open = {} /\ busy = {} /\ fresh = {}
  /\ closed = FALSE /\ retire = NoRetire
  /\ mutations = <<>>
  /\ pc = [c \in Callers |-> "new"]
  /\ at = [c \in Callers |-> 0]
  /\ todo = [c \in Callers |-> <<>>]
  /\ acked = {} /\ restarts = 0

-----------------------------------------------------------------------------
(* Steps several operations share *)

(* What add() is asked to add, by its caller or by list(). *)
AddRoot(c) == IF Op[c].kind = "add" THEN Op[c].root ELSE Personal

IsAppearance(c) == Op[c].kind = "appearance"

(* Whose action the promise chain is running. *)
Running(c) == mutations # <<>> /\ Head(mutations) = c

(* Bug: a rejected action breaks the chain. *)
LeavesChain_OnSuccess(c, result) ==
  mutations' = IF result = "ok" THEN Tail(mutations) ELSE mutations

(* The running action ends, either way, and the next one starts. *)
LeavesChain(c, result) == mutations' = Tail(mutations)

(* The end of an action of the chain.  An add that list() asked for goes on *)
(* to the list.                                                             *)
ActionEnds(c, result) ==
  /\ LeavesChain(c, result)
  /\ pc' = [pc EXCEPT ![c] =
       IF result = "ok" /\ Op[c].kind \in {"list", "invoke", "all"} THEN "listing" ELSE result]

NewHost(r) ==
  /\ made < MaxHosts
  /\ made' = made + 1
  /\ folder' = [folder EXCEPT ![made + 1] = r]

(* Bug: host() makes a backend every time. *)
UsesHost_Always(c, r) ==
  /\ NewHost(r) /\ open' = open \cup {made + 1}
  /\ hosts' = [hosts EXCEPT ![Id[r]] = made + 1]
  /\ at' = [at EXCEPT ![c] = made + 1]
  /\ fresh' = fresh \cup {Id[r]}

(* host(): the backend of a workspace, made when there is none. *)
UsesHost(c, r) ==
  /\ \/ /\ hosts[Id[r]] # 0
        /\ at' = [at EXCEPT ![c] = hosts[Id[r]]]
        /\ UNCHANGED <<hosts, made, folder, open>>
     \/ /\ hosts[Id[r]] = 0
        /\ NewHost(r) /\ open' = open \cup {made + 1}
        /\ hosts' = [hosts EXCEPT ![Id[r]] = made + 1]
        /\ at' = [at EXCEPT ![c] = made + 1]
  /\ fresh' = fresh \cup {Id[r]}

-----------------------------------------------------------------------------
(* list and invoke *)

Starts(c) ==
  /\ pc[c] = "new"
  /\ IF Op[c].kind \in {"add", "appearance"}
     THEN /\ mutations' = Append(mutations, c)
          /\ pc' = [pc EXCEPT ![c] = "queued"]
     ELSE pc' = [pc EXCEPT ![c] = "listing"] /\ UNCHANGED mutations
  /\ UNCHANGED <<entries, file, synced, hosts, folder, made, open, busy, fresh, closed,
                 retire, at, todo, acked, restarts>>

(* The workspaces an invoke asks: the one it names, or every one. *)
Targets(c) == IF Op[c].kind = "all" THEN entries ELSE <<Op[c].root>>

Lists(c) ==
  /\ pc[c] = "listing"
  /\ \/ /\ entries = <<>>
        /\ mutations' = Append(mutations, c)
        /\ pc' = [pc EXCEPT ![c] = "queued"]
        /\ UNCHANGED todo
     \/ /\ entries # <<>>
        /\ todo' = [todo EXCEPT ![c] = IF Op[c].kind = "list" THEN <<>> ELSE Targets(c)]
        /\ pc' = [pc EXCEPT ![c] =
             IF Op[c].kind = "list" THEN "ok"
             ELSE IF Op[c].kind = "invoke" /\ Op[c].root \notin ToSet(entries) THEN "error"
             ELSE "calling"]
        /\ UNCHANGED mutations
  /\ UNCHANGED <<entries, file, synced, hosts, folder, made, open, busy, fresh, closed,
                 retire, at, acked, restarts>>

Calls(c) ==
  /\ pc[c] = "calling"
  /\ \/ /\ closed
        /\ pc' = [pc EXCEPT ![c] = "error"]
        /\ UNCHANGED <<hosts, made, folder, open, at, fresh>>
     \/ /\ ~closed
        /\ UsesHost(c, Head(todo[c]))
        /\ pc' = [pc EXCEPT ![c] = "awaiting"]
  /\ UNCHANGED <<entries, file, synced, busy, closed, retire, mutations, todo, acked, restarts>>

(* The backend answers, and may go on working after its answer. *)
Answered(c) ==
  /\ pc[c] = "awaiting" /\ at[c] \in open
  /\ busy' = busy \/ busy' = busy \cup {at[c]}
  /\ todo' = [todo EXCEPT ![c] = IF IsAppearance(c) THEN @ ELSE Tail(@)]
  /\ pc' = [pc EXCEPT ![c] =
       IF IsAppearance(c) THEN "saving" ELSE IF Len(todo[c]) > 1 THEN "calling" ELSE "ok"]
  /\ at' = [at EXCEPT ![c] = 0]
  /\ UNCHANGED <<entries, file, synced, hosts, folder, made, open, fresh, closed, retire,
                 mutations, acked, restarts>>

(* The call is rejected: an error, a timeout, or a backend that was closed. *)
CallFails(c) ==
  /\ pc[c] = "awaiting"
  /\ IF IsAppearance(c) THEN ActionEnds(c, "error")
     ELSE pc' = [pc EXCEPT ![c] = "error"] /\ UNCHANGED mutations
  /\ at' = [at EXCEPT ![c] = 0]
  /\ UNCHANGED <<entries, file, synced, hosts, folder, made, open, busy, fresh, closed,
                 retire, todo, acked, restarts>>

-----------------------------------------------------------------------------
(* add *)

AddBegins(c) ==
  /\ pc[c] = "queued" /\ Running(c) /\ ~IsAppearance(c)
  /\ IF closed THEN ActionEnds(c, "error")
     ELSE pc' = [pc EXCEPT ![c] = "resolving"] /\ UNCHANGED mutations
  /\ UNCHANGED <<entries, file, synced, hosts, folder, made, open, busy, fresh, closed,
                 retire, at, todo, acked, restarts>>

(* The name is refused, or the folder cannot be made or resolved. *)
AddRefused(c) ==
  /\ pc[c] = "resolving"
  /\ ActionEnds(c, "error")
  /\ UNCHANGED <<entries, file, synced, hosts, folder, made, open, busy, fresh, closed,
                 retire, at, todo, acked, restarts>>

Full == Len(entries) >= MAX_WORKSPACES

(* The folder is resolved: a known one is returned, else a backend opens it. *)
AddOpens(c) ==
  /\ pc[c] = "resolving"
  /\ \/ /\ AddRoot(c) \in ToSet(entries)
        /\ ActionEnds(c, "ok")
        /\ acked' = acked \cup {AddRoot(c)}
        /\ UNCHANGED <<made, folder, open, at>>
     \/ /\ AddRoot(c) \notin ToSet(entries) /\ Full
        /\ ActionEnds(c, "error")
        /\ UNCHANGED <<made, folder, open, at, acked>>
     \/ /\ AddRoot(c) \notin ToSet(entries) /\ ~Full
        /\ NewHost(AddRoot(c)) /\ open' = open \cup {made + 1}
        /\ at' = [at EXCEPT ![c] = made + 1]
        /\ pc' = [pc EXCEPT ![c] = "initialising"]
        /\ UNCHANGED <<mutations, acked>>
  /\ UNCHANGED <<entries, file, synced, hosts, busy, fresh, closed, retire, todo, restarts>>

(* A copy of a registered workspace, by the identity in its database. *)
Identical(r) == \E i \in 1..Len(entries) : Id[entries[i]] = Id[r]

(* The backend has read or made the database. *)
AddInitialised(c) ==
  /\ pc[c] = "initialising"
  /\ IF closed \/ Identical(AddRoot(c))
     THEN /\ open' = open \ {at[c]}
          /\ at' = [at EXCEPT ![c] = 0]
          /\ ActionEnds(c, "error")
          /\ UNCHANGED entries
     ELSE /\ entries' = Append(entries, AddRoot(c))
          /\ pc' = [pc EXCEPT ![c] = "saving"]
          /\ UNCHANGED <<open, at, mutations>>
  /\ UNCHANGED <<file, synced, hosts, folder, made, busy, fresh, closed, retire, todo,
                 acked, restarts>>

InitialiseFails(c) ==
  /\ pc[c] = "initialising"
  /\ open' = open \ {at[c]}
  /\ at' = [at EXCEPT ![c] = 0]
  /\ ActionEnds(c, "error")
  /\ UNCHANGED <<entries, file, synced, hosts, folder, made, busy, fresh, closed, retire,
                 todo, acked, restarts>>

-----------------------------------------------------------------------------
(* setAppearance, and persist for it and for add *)

AppearanceBegins(c) ==
  /\ pc[c] = "queued" /\ Running(c) /\ IsAppearance(c)
  /\ IF Op[c].root \notin ToSet(entries) \/ closed
     THEN ActionEnds(c, "error") /\ UNCHANGED <<hosts, made, folder, open, at, fresh>>
     ELSE /\ UsesHost(c, Op[c].root)
          /\ pc' = [pc EXCEPT ![c] = "awaiting"]
          /\ UNCHANGED mutations
  /\ UNCHANGED <<entries, file, synced, busy, closed, retire, todo, acked, restarts>>

(* persist has written and synced the temporary file and renames it. *)
Renames(c) ==
  /\ pc[c] = "saving"
  /\ file' = entries
  /\ pc' = [pc EXCEPT ![c] = "renamed"]
  /\ UNCHANGED <<entries, synced, hosts, folder, made, open, busy, fresh, closed, retire,
                 mutations, at, todo, acked, restarts>>

(* persist fails, before the rename or in syncing the directory after it: *)
(* add takes its entry back and closes its backend.                       *)
SaveFails(c) ==
  /\ pc[c] \in {"saving", "renamed"}
  /\ IF IsAppearance(c) THEN UNCHANGED <<entries, open>>
     ELSE entries' = Front(entries) /\ open' = open \ {at[c]}
  /\ at' = [at EXCEPT ![c] = 0]
  /\ ActionEnds(c, "error")
  /\ UNCHANGED <<file, synced, hosts, folder, made, busy, fresh, closed, retire, todo,
                 acked, restarts>>

(* Bug: the directory is not synced after the rename. *)
DirectorySynced_Skipped == UNCHANGED synced

DirectorySynced == synced' = file

(* persist returns: add puts its backend into the map. *)
Saved(c) ==
  /\ pc[c] = "renamed"
  /\ DirectorySynced
  /\ IF IsAppearance(c) THEN UNCHANGED <<hosts, fresh, acked>>
     ELSE /\ hosts' = [hosts EXCEPT ![Id[AddRoot(c)]] = at[c]]
          /\ fresh' = fresh \cup {Id[AddRoot(c)]}
          /\ acked' = acked \cup {AddRoot(c)}
  /\ at' = [at EXCEPT ![c] = 0]
  /\ ActionEnds(c, "ok")
  /\ UNCHANGED <<entries, file, folder, made, open, busy, closed, retire, todo, restarts>>

-----------------------------------------------------------------------------
(* retireIdle, close and a crash *)

(* isIdle(): no caller waits on the backend. *)
Idle(h) == \A c \in Callers : at[c] = h => pc[c] \notin {"awaiting", "initialising"}

(* A minute goes by.  The question retireIdle asks is given up after five    *)
(* seconds, so lastUsed cannot be that old again while it is asked.          *)
Ages(i) ==
  /\ i \in fresh /\ retire.id # i
  /\ fresh' = fresh \ {i}
  /\ UNCHANGED <<entries, file, synced, hosts, folder, made, open, busy, closed, retire,
                 mutations, pc, at, todo, acked, restarts>>

BackendFinishes(h) ==
  /\ h \in busy
  /\ busy' = busy \ {h}
  /\ UNCHANGED <<entries, file, synced, hosts, folder, made, open, fresh, closed, retire,
                 mutations, pc, at, todo, acked, restarts>>

RetireAsks(i) ==
  /\ ~closed /\ retire = NoRetire
  /\ hosts[i] # 0 /\ i \notin fresh /\ Idle(hosts[i])
  /\ retire' = [id |-> i, host |-> hosts[i], safe |-> FALSE]
  /\ UNCHANGED <<entries, file, synced, hosts, folder, made, open, busy, fresh, closed,
                 mutations, pc, at, todo, acked, restarts>>

(* host_can_suspend is answered yes. *)
SuspendAnswered ==
  /\ retire.host \in open /\ ~retire.safe /\ retire.host \notin busy
  /\ retire' = [retire EXCEPT !.safe = TRUE]
  /\ UNCHANGED <<entries, file, synced, hosts, folder, made, open, busy, fresh, closed,
                 mutations, pc, at, todo, acked, restarts>>

(* Bug: whether the workspace was used meanwhile is not looked at again. *)
StillUnused_Unchecked == retire.safe /\ ~closed /\ Idle(retire.host)

StillUnused == retire.safe /\ ~closed /\ retire.id \notin fresh /\ Idle(retire.host)

(* retireIdle resumes with the answer, or with no for an answer. *)
RetireDecides ==
  /\ retire # NoRetire
  /\ retire' = NoRetire
  /\ IF StillUnused
     THEN /\ open' = open \ {retire.host}
          /\ hosts' = [hosts EXCEPT ![retire.id] = 0]
     ELSE UNCHANGED <<open, hosts>>
  /\ UNCHANGED <<entries, file, synced, folder, made, busy, fresh, closed, mutations, pc,
                 at, todo, acked, restarts>>

Close ==
  /\ ~closed
  /\ closed' = TRUE
  /\ open' = open \ Range(hosts)
  /\ hosts' = [i \in Ids |-> 0]
  /\ UNCHANGED <<entries, file, synced, folder, made, busy, fresh, retire, mutations, pc,
                 at, todo, acked, restarts>>

(* The application ends at any point and is started again; a power failure  *)
(* may take back a rename whose directory was not synced.                   *)
Restart ==
  /\ restarts < MaxRestarts
  /\ restarts' = restarts + 1
  /\ \E kept \in {file, synced} : entries' = kept /\ file' = kept /\ synced' = kept
  /\ hosts' = [i \in Ids |-> 0]
  /\ open' = {} /\ busy' = {} /\ fresh' = {} /\ closed' = FALSE /\ retire' = NoRetire
  /\ mutations' = <<>>
  /\ pc' = [c \in Callers |-> IF pc[c] \in {"new", "ok", "error"} THEN pc[c] ELSE "gone"]
  /\ at' = [c \in Callers |-> 0]
  /\ todo' = [c \in Callers |-> <<>>]
  /\ UNCHANGED <<folder, made, acked>>

Done == (\A c \in Callers : pc[c] \in {"ok", "error", "gone"}) /\ UNCHANGED vars

(* The steps that carry a caller's operation to its end. *)
Advances(c) ==
  \/ Lists(c) \/ Calls(c) \/ Answered(c) \/ CallFails(c)
  \/ AddBegins(c) \/ AddRefused(c) \/ AddOpens(c) \/ AddInitialised(c) \/ InitialiseFails(c)
  \/ AppearanceBegins(c) \/ Renames(c) \/ SaveFails(c) \/ Saved(c)

Next ==
  \/ \E c \in Callers : Starts(c) \/ Advances(c)
  \/ \E i \in Ids : Ages(i) \/ RetireAsks(i)
  \/ \E h \in Hosts : BackendFinishes(h)
  \/ SuspendAnswered \/ RetireDecides \/ Close \/ Restart
  \/ Done

Spec == Init /\ [][Next]_vars

-----------------------------------------------------------------------------
(* Properties *)

(* What load() accepts: no folder and no identity twice, no more than the    *)
(* limit.                                                                    *)
LoadAccepts(f) ==
  /\ Len(f) <= MAX_WORKSPACES
  /\ \A i, j \in 1..Len(f) : i # j => f[i] # f[j] /\ Id[f[i]] # Id[f[j]]

(* An add that returned survives: its entry is in memory and in the file, and *)
(* stays there through the failures of later adds, through crashes and power  *)
(* failures, and the next launch can load whichever file it finds.            *)
AddedForGood ==
  /\ acked \subseteq ToSet(entries) \cap ToSet(file) \cap ToSet(synced)
  /\ LoadAccepts(file) /\ LoadAccepts(synced)

(* Retiring never interrupts work: a backend that retireIdle closes has no    *)
(* caller waiting and no work of its own, whatever was asked of it while the  *)
(* question was on its way.                                                   *)
RetireInterruptsNothing ==
  [][\A i \in Ids : (hosts[i] # 0 /\ hosts'[i] = 0 /\ ~closed' /\ restarts' = restarts)
       => hosts[i] \notin busy /\ Idle(hosts[i])]_vars

(* The registry can still reach a backend: through its map, or from the add   *)
(* that opened it.                                                            *)
Reachable(h) ==
  h \in Range(hosts) \/ \E c \in Callers : at[c] = h /\ pc[c] \in {"initialising", "saving", "renamed"}

(* An open backend goes out of the registry's reach only where an add ends    *)
(* after its workspace was already used: every other path that lets go of a   *)
(* backend closes it.                                                         *)
LosesOnlyAtOverlap ==
  [][\A h \in open \cap open' : (Reachable(h) /\ ~Reachable(h)')
       => \E c \in Callers : pc[c] = "renamed" /\ Id[AddRoot(c)] = Id[folder[h]]
                             /\ hosts[Id[folder[h]]] = h]_vars

(* Nobody waits behind an operation that is over: an add or a change of       *)
(* appearance is queued behind callers that are themselves queued or at work,  *)
(* however those before them failed, so the chain of mutations never hangs.    *)
WaitsOnlyForRunning ==
  \A c \in Callers : pc[c] = "queued" =>
    /\ c \in ToSet(mutations)
    /\ \A d \in ToSet(mutations) :
         pc[d] \in {"queued", "resolving", "awaiting", "initialising", "saving", "renamed"}
=============================================================================
