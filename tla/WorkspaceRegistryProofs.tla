---------------------- MODULE WorkspaceRegistryProofs ----------------------
(***************************************************************************)
(* Proofs about WorkspaceRegistry, for every set of folders, identities and *)
(* callers and whatever each caller asks for.  The invariant has three       *)
(* layers: types, the promise chain (only its head is at work), and on them   *)
(* the registry file (FileInv) and the backends (HostInv, RetireInv).         *)
(***************************************************************************)
EXTENDS WorkspaceRegistry, SequenceLemmas

(* The places of an action that the chain is running. *)
AtWork(c) ==
  \/ pc[c] \in {"resolving", "initialising", "saving", "renamed"}
  \/ pc[c] = "awaiting" /\ IsAppearance(c)

(* An add that has put its entry into the list and is not over. *)
Saving(c) == pc[c] \in {"saving", "renamed"} /\ ~IsAppearance(c)

TypeOK ==
  /\ entries \in Seq(Roots) /\ file \in Seq(Roots) /\ synced \in Seq(Roots)
  /\ hosts \in [Ids -> 0..MaxHosts]
  /\ folder \in [Hosts -> Roots]
  /\ made \in 0..MaxHosts
  /\ open \in SUBSET Hosts /\ busy \in SUBSET Hosts
  /\ retire # NoRetire => retire \in [id : Ids, host : Hosts, safe : BOOLEAN]
  /\ mutations \in Seq(Callers)
  /\ pc \in [Callers -> {"new", "queued", "listing", "calling", "awaiting", "resolving",
                         "initialising", "saving", "renamed", "ok", "error", "gone"}]
  /\ at \in [Callers -> 0..made]
  /\ todo \in [Callers -> Seq(Roots)]
  /\ restarts \in Nat

(* The chain holds exactly the callers that wait for it or run in it, and     *)
(* only its head has begun.                                                   *)
ChainInv ==
  /\ IsInjective(mutations)
  /\ \A c \in Callers : c \in ToSet(mutations) <=> pc[c] = "queued" \/ AtWork(c)
  /\ \A c \in Callers : AtWork(c) => Running(c)

(* Which operations a place belongs to. *)
KindInv ==
  \A c \in Callers :
    /\ pc[c] \in {"listing", "calling"} => Op[c].kind \in {"list", "invoke", "all"}
    /\ pc[c] \in {"resolving", "initialising"} => ~IsAppearance(c)
    /\ pc[c] = "calling" => todo[c] # <<>>
    /\ pc[c] = "awaiting" /\ ~IsAppearance(c) =>
         Op[c].kind \in {"list", "invoke", "all"} /\ todo[c] # <<>>

(* What the list goes back to when the add that is being saved fails. *)
Firm == IF \E c \in Callers : Saving(c) THEN Front(entries) ELSE entries

(* Both files hold what every add so far may rely on. *)
FileInv ==
  /\ LoadAccepts(entries) /\ LoadAccepts(file) /\ LoadAccepts(synced)
  /\ acked \subseteq ToSet(Firm)
  /\ ToSet(Firm) \subseteq ToSet(file) \cap ToSet(synced)
  /\ \A c \in Callers :
       /\ pc[c] = "initialising" => Len(entries) < MAX_WORKSPACES
       /\ Saving(c) => entries # <<>> /\ AddRoot(c) \in ToSet(entries)
       /\ pc[c] = "renamed" => file = entries

(* A backend belongs to the workspace it was made for. *)
HostInv ==
  /\ \A i \in Ids : hosts[i] # 0 => hosts[i] <= made /\ Id[folder[hosts[i]]] = i
  /\ \A c \in Callers :
       /\ Saving(c) \/ pc[c] = "initialising" => at[c] # 0 /\ folder[at[c]] = AddRoot(c)
       /\ pc[c] \in {"saving", "renamed"} /\ IsAppearance(c) => at[c] = 0

(* While nobody has used the workspace since retireIdle asked, its backend    *)
(* is the one asked, nobody waits on it, and it has done nothing since its     *)
(* yes.                                                                        *)
RetireInv ==
  retire # NoRetire /\ ~closed /\ retire.id \notin fresh =>
    /\ hosts[retire.id] = retire.host /\ retire.host # 0
    /\ Idle(retire.host)
    /\ retire.safe => retire.host \notin busy

RegistryInv == TypeOK /\ ChainInv /\ KindInv /\ FileInv /\ HostInv /\ RetireInv

-----------------------------------------------------------------------------
(* Operators of the model *)

LEMMA IdType == ASSUME NEW r \in Roots PROVE Id[r] \in Ids
BY OpAssumption DEF Ids, Range

LEMMA OpType ==
  ASSUME NEW c \in Callers
  PROVE  Op[c].kind \in Kinds /\ Op[c].root \in Roots /\ AddRoot(c) \in Roots
BY OpAssumption DEF AddRoot

(* load() accepts the list without its last entry. *)
LEMMA AcceptsFront ==
  ASSUME NEW q \in Seq(Roots), q # <<>>, LoadAccepts(q)
  PROVE  LoadAccepts(Front(q))
<1>1. /\ Len(q) \in Nat /\ Len(Front(q)) = Len(q) - 1
      /\ \A i \in 1..(Len(q) - 1) : Front(q)[i] = q[i]
  BY FrontLemma
<1>2. MAX_WORKSPACES \in Nat
  BY OpAssumption
<1> QED
  BY <1>1, <1>2 DEF LoadAccepts

(* It accepts the list with a folder of another identity, while there is room. *)
LEMMA AcceptsAppend ==
  ASSUME NEW q \in Seq(Roots), NEW r \in Roots, LoadAccepts(q),
         Len(q) < MAX_WORKSPACES,
         \A i \in 1..Len(q) : Id[q[i]] # Id[r]
  PROVE  LoadAccepts(Append(q, r))
<1>1. /\ Len(q) \in Nat /\ Len(Append(q, r)) = Len(q) + 1
      /\ \A i \in 1..Len(q) : Append(q, r)[i] = q[i]
      /\ Append(q, r)[Len(q) + 1] = r
  OBVIOUS
<1>2. MAX_WORKSPACES \in Nat
  BY OpAssumption
<1> QED
  BY <1>1, <1>2 DEF LoadAccepts

-----------------------------------------------------------------------------
(* The promise chain *)

(* The running action ends. *)
LEMMA ChainEnds ==
  ASSUME TypeOK, ChainInv, NEW c \in Callers, NEW result \in {"ok", "error"},
         Running(c), ActionEnds(c, result)
  PROVE  ChainInv'
<1>1. /\ mutations # <<>> /\ Head(mutations) = c /\ mutations' = Tail(mutations)
      /\ mutations \in Seq(Callers)
  BY DEF Running, ActionEnds, LeavesChain, TypeOK
<1>2. /\ ToSet(mutations) = ToSet(mutations') \cup {c}
      /\ IsInjective(mutations') /\ c \notin ToSet(mutations')
  BY <1>1, TailElements DEF ChainInv
<1>3. pc'[c] \in {"ok", "error", "listing"} /\ \A d \in Callers \ {c} : pc'[d] = pc[d]
  BY DEF ActionEnds, TypeOK
<1>4. \A d \in Callers \ {c} : ~AtWork(d)
  BY <1>1 DEF ChainInv, Running
<1>5. \A d \in Callers : ~AtWork(d)'
  BY <1>3, <1>4 DEF AtWork
<1>6. \A d \in Callers : d \in ToSet(mutations') <=> pc'[d] = "queued"
  BY <1>2, <1>3, <1>4 DEF ChainInv
<1> QED
  BY <1>2, <1>5, <1>6 DEF ChainInv

(* An operation joins the chain at its end. *)
LEMMA ChainJoins ==
  ASSUME TypeOK, ChainInv, NEW c \in Callers, pc[c] \in {"new", "listing"},
         mutations' = Append(mutations, c), pc' = [pc EXCEPT ![c] = "queued"]
  PROVE  ChainInv'
<1>1. c \notin ToSet(mutations)
  BY DEF ChainInv, AtWork
<1>2. ToSet(mutations') = ToSet(mutations) \cup {c} /\ IsInjective(mutations')
  BY <1>1, AppendElements DEF ChainInv, TypeOK
<1>3. pc'[c] = "queued" /\ \A d \in Callers \ {c} : pc'[d] = pc[d]
  BY DEF TypeOK
<1>4. \A d \in Callers : AtWork(d)' <=> AtWork(d)
  BY <1>3 DEF AtWork
<1>5. mutations # <<>> => mutations' # <<>> /\ Head(mutations') = Head(mutations)
  BY DEF TypeOK
<1>6. \A d \in Callers : Running(d) => Running(d)'
  BY <1>5 DEF Running
<1> QED
  BY <1>2, <1>3, <1>4, <1>6 DEF ChainInv

(* A caller goes on, and stays on the chain or off it. *)
LEMMA ChainMoves ==
  ASSUME TypeOK, ChainInv, NEW c \in Callers, NEW place,
         pc' = [pc EXCEPT ![c] = place], UNCHANGED mutations,
         (pc[c] = "queued" \/ AtWork(c)) <=> (pc'[c] = "queued" \/ AtWork(c)'),
         AtWork(c)' => Running(c)
  PROVE  ChainInv'
<1>1. \A d \in Callers \ {c} : pc'[d] = pc[d]
  BY DEF TypeOK
<1>2. \A d \in Callers \ {c} : AtWork(d)' <=> AtWork(d)
  BY <1>1 DEF AtWork
<1> QED
  BY <1>1, <1>2 DEF ChainInv, Running

-----------------------------------------------------------------------------
(* Backends *)

(* A new RustHost is none of the old ones, and the old ones keep their folder. *)
LEMMA NewHostLemma ==
  ASSUME TypeOK, NEW r \in Roots, NewHost(r)
  PROVE  /\ made' \in 1..MaxHosts /\ made' = made + 1 /\ made' \in Hosts
         /\ made <= made' /\ 0..made \subseteq 0..made'
         /\ folder' \in [Hosts -> Roots] /\ folder'[made'] = r
         /\ \A h \in 1..made : folder'[h] = folder[h]
BY OpAssumption DEF TypeOK, NewHost, Hosts

(* host() leaves the backend of the workspace in the map, and every other     *)
(* backend where it was.                                                      *)
LEMMA UsesHostLemma ==
  ASSUME TypeOK, HostInv, NEW c \in Callers, NEW r \in Roots, UsesHost(c, r)
  PROVE  /\ made' \in 0..MaxHosts /\ made <= made' /\ 0..made \subseteq 0..made'
         /\ folder' \in [Hosts -> Roots] /\ \A h \in 1..made : folder'[h] = folder[h]
         /\ hosts' \in [Ids -> 0..MaxHosts] /\ open' \in SUBSET Hosts /\ open \subseteq open'
         /\ \A i \in Ids \ {Id[r]} : hosts'[i] = hosts[i]
         /\ hosts'[Id[r]] \in 1..made' /\ Id[folder'[hosts'[Id[r]]]] = Id[r]
         /\ hosts'[Id[r]] \in 1..made => hosts' = hosts
         /\ at' = [at EXCEPT ![c] = hosts'[Id[r]]]
         /\ fresh' = fresh \cup {Id[r]}
<1>1. Id[r] \in Ids
  BY IdType
<1>2. CASE hosts[Id[r]] # 0
  <2>1. hosts[Id[r]] \in 1..made /\ Id[folder[hosts[Id[r]]]] = Id[r]
    BY <1>1, <1>2, OpAssumption DEF TypeOK, HostInv
  <2>2. /\ hosts' = hosts /\ made' = made /\ folder' = folder /\ open' = open
        /\ at' = [at EXCEPT ![c] = hosts[Id[r]]]
        /\ fresh' = fresh \cup {Id[r]}
    BY <1>2 DEF UsesHost
  <2> QED
    BY <2>1, <2>2 DEF TypeOK
<1>3. CASE hosts[Id[r]] = 0
  <2>1. /\ NewHost(r) /\ open' = open \cup {made + 1}
        /\ hosts' = [hosts EXCEPT ![Id[r]] = made + 1]
        /\ at' = [at EXCEPT ![c] = made + 1]
        /\ fresh' = fresh \cup {Id[r]}
    BY <1>3 DEF UsesHost
  <2>2. /\ made' \in 1..MaxHosts /\ made' = made + 1 /\ made' \in Hosts
        /\ made <= made' /\ 0..made \subseteq 0..made'
        /\ folder' \in [Hosts -> Roots] /\ folder'[made'] = r
        /\ \A h \in 1..made : folder'[h] = folder[h]
    BY <2>1, NewHostLemma
  <2>3. hosts'[Id[r]] = made' /\ \A i \in Ids \ {Id[r]} : hosts'[i] = hosts[i]
    BY <1>1, <2>1, <2>2 DEF TypeOK
  <2>4. hosts' \in [Ids -> 0..MaxHosts] /\ open' \in SUBSET Hosts
    <3>1. made + 1 \in 0..MaxHosts /\ made + 1 \in Hosts
      BY <2>2, OpAssumption
    <3> QED
      BY <2>1, <3>1 DEF TypeOK
  <2>5. made' \notin 1..made /\ made' \in 0..MaxHosts /\ made' \in 1..made'
    BY <2>2, OpAssumption DEF TypeOK
  <2>6. at' = [at EXCEPT ![c] = hosts'[Id[r]]] /\ open \subseteq open'
    BY <2>1, <2>2, <2>3
  <2>7. Id[folder'[hosts'[Id[r]]]] = Id[r]
    BY <2>2, <2>3
  <2> QED
    BY <2>1, <2>2, <2>3, <2>4, <2>5, <2>6, <2>7
<1> QED
  BY <1>2, <1>3

-----------------------------------------------------------------------------
(* Types, and which operations a place belongs to *)

(* The places an action of the chain ends in. *)
LEMMA EndsType ==
  ASSUME TypeOK, NEW c \in Callers, NEW result \in {"ok", "error"}, ActionEnds(c, result),
         mutations # <<>>
  PROVE  /\ mutations' \in Seq(Callers)
         /\ pc' \in [Callers -> {"new", "queued", "listing", "calling", "awaiting",
                                 "resolving", "initialising", "saving", "renamed", "ok",
                                 "error", "gone"}]
         /\ pc'[c] \in {"ok", "error", "listing"}
         /\ pc'[c] = "listing" => Op[c].kind \in {"list", "invoke", "all"}
         /\ \A d \in Callers \ {c} : pc'[d] = pc[d]
BY TailElements DEF TypeOK, ActionEnds, LeavesChain

LEMMA InitInv == Init => RegistryInv
<1> SUFFICES ASSUME Init PROVE RegistryInv
  OBVIOUS
<1>1. TypeOK
  BY OpAssumption DEF Init, TypeOK
<1>2. ChainInv
  BY EmptyElements DEF Init, ChainInv, AtWork
<1>3. KindInv
  BY DEF Init, KindInv
<1>4. LoadAccepts(Registered)
  BY OpAssumption DEF LoadAccepts
<1>5. FileInv
  BY <1>4 DEF Init, FileInv, Saving, Firm
<1>6. HostInv
  BY DEF Init, HostInv, Saving
<1>7. RetireInv
  BY DEF Init, RetireInv
<1> QED
  BY <1>1, <1>2, <1>3, <1>5, <1>6, <1>7 DEF RegistryInv

-----------------------------------------------------------------------------
(* What a step has to leave alone for a layer of the invariant to hold *)

LEMMA FileFrame ==
  ASSUME FileInv, UNCHANGED <<entries, file, synced>>,
         acked' \subseteq acked \cup ToSet(Firm),
         \A d \in Callers :
           /\ Saving(d)' <=> Saving(d)
           /\ pc'[d] = "initialising" => pc[d] = "initialising"
           /\ pc'[d] = "renamed" => pc[d] = "renamed"
  PROVE  FileInv'
<1>1. Firm' = Firm
  BY DEF Firm
<1> QED
  BY <1>1 DEF FileInv, LoadAccepts

LEMMA HostFrame ==
  ASSUME TypeOK, HostInv, UNCHANGED hosts, made' \in Nat, made <= made',
         \A h \in 1..made : folder'[h] = folder[h],
         \A d \in Callers :
           /\ Saving(d)' \/ pc'[d] = "initialising" =>
                (Saving(d) \/ pc[d] = "initialising") /\ at'[d] = at[d]
           /\ pc'[d] \in {"saving", "renamed"} /\ IsAppearance(d) => at'[d] = 0
  PROVE  HostInv'
<1>1. ASSUME NEW i \in Ids, hosts'[i] # 0
      PROVE  hosts'[i] <= made' /\ Id[folder'[hosts'[i]]] = i
  <2>1. hosts[i] \in 1..made /\ Id[folder[hosts[i]]] = i
    BY <1>1, OpAssumption DEF HostInv, TypeOK
  <2> QED
    BY <2>1, OpAssumption DEF TypeOK
<1>2. ASSUME NEW d \in Callers, Saving(d)' \/ pc'[d] = "initialising"
      PROVE  at'[d] # 0 /\ folder'[at'[d]] = AddRoot(d)
  <2>1. at[d] # 0 /\ at'[d] = at[d] /\ folder[at[d]] = AddRoot(d)
    BY <1>2 DEF HostInv
  <2>2. at[d] \in 1..made
    BY <2>1, OpAssumption DEF TypeOK
  <2> QED
    BY <2>1, <2>2
<1> QED
  BY <1>1, <1>2 DEF HostInv

(* The callers that wait on a backend. *)
Waits(d) == pc[d] \in {"awaiting", "initialising"}

LEMMA RetireFrame ==
  ASSUME RetireInv, UNCHANGED <<retire, closed, hosts>>, fresh \subseteq fresh',
         Idle(retire.host) /\ retire.host \in busy' => retire.host \in busy,
         \A d \in Callers : Waits(d)' => Waits(d) /\ at'[d] = at[d]
  PROVE  RetireInv'
<1> SUFFICES ASSUME retire # NoRetire, ~closed, retire.id \notin fresh'
             PROVE  /\ hosts'[retire.id] = retire.host /\ retire.host # 0
                    /\ Idle(retire.host)'
                    /\ retire.safe => retire.host \notin busy'
  BY DEF RetireInv
<1>1. /\ hosts[retire.id] = retire.host /\ retire.host # 0
      /\ Idle(retire.host)
      /\ retire.safe => retire.host \notin busy
  BY DEF RetireInv
<1>2. Idle(retire.host)'
  BY <1>1 DEF Idle, Waits
<1> QED
  BY <1>1, <1>2

-----------------------------------------------------------------------------
(* One lemma per action *)

LEMMA StartsInv ==
  ASSUME RegistryInv, NEW c \in Callers, Starts(c) \/ Lists(c)
  PROVE  RegistryInv'
<1> USE DEF RegistryInv
<1>1. /\ pc[c] \in {"new", "listing"}
      /\ UNCHANGED <<entries, file, synced, hosts, folder, made, open, busy, fresh, closed,
                     retire, at, acked, restarts>>
  BY DEF Starts, Lists
<1>2. Op[c].kind \in Kinds /\ Op[c].root \in Roots
  BY OpType
<1>3. PICK place \in {"queued", "listing", "calling", "ok", "error"} :
        /\ pc' = [pc EXCEPT ![c] = place]
        /\ place = "queued" => mutations' = Append(mutations, c)
        /\ place # "queued" => mutations' = mutations
        /\ place \in {"listing", "calling"} => Op[c].kind \in {"list", "invoke", "all"}
        /\ \/ todo' = todo
           \/ todo' = [todo EXCEPT ![c] = <<>>]
           \/ todo' = [todo EXCEPT ![c] = Targets(c)]
        /\ place = "calling" => (todo' = [todo EXCEPT ![c] = Targets(c)] /\ entries # <<>>)
  <2>1. CASE Starts(c)
    <3>1. CASE Op[c].kind \in {"add", "appearance"}
      BY <2>1, <3>1 DEF Starts
    <3>2. CASE Op[c].kind \in {"list", "invoke", "all"}
      BY <2>1, <3>2 DEF Starts
    <3> QED
      BY <3>1, <3>2, <1>2 DEF Kinds
  <2>2. CASE Lists(c)
    <3>1. Op[c].kind \in {"list", "invoke", "all"}
      BY <2>2 DEF Lists, KindInv
    <3>2. CASE entries = <<>>
      BY <2>2, <3>2 DEF Lists
    <3>3. CASE entries # <<>> /\ Op[c].kind = "list"
      BY <2>2, <3>3 DEF Lists
    <3>4. CASE entries # <<>> /\ Op[c].kind = "invoke" /\ Op[c].root \notin ToSet(entries)
      BY <2>2, <3>4 DEF Lists
    <3>5. CASE /\ entries # <<>> /\ Op[c].kind # "list"
               /\ ~(Op[c].kind = "invoke" /\ Op[c].root \notin ToSet(entries))
      BY <2>2, <3>1, <3>5 DEF Lists
    <3> QED
      BY <3>2, <3>3, <3>4, <3>5
  <2> QED
    BY <2>1, <2>2
<1>4. Targets(c) \in Seq(Roots) /\ (entries # <<>> => Targets(c) # <<>>)
  BY <1>2 DEF Targets, TypeOK
<1>5. pc'[c] = place /\ \A d \in Callers \ {c} : pc'[d] = pc[d] /\ todo'[d] = todo[d]
  BY <1>3 DEF TypeOK
<1>6. mutations' \in Seq(Callers)
  <2>1. Append(mutations, c) \in Seq(Callers) /\ mutations \in Seq(Callers)
    BY DEF TypeOK
  <2> QED
    BY <1>3, <2>1
<1>7. TypeOK'
  <2>1. todo' \in [Callers -> Seq(Roots)]
    <3>1. <<>> \in Seq(Roots) /\ todo \in [Callers -> Seq(Roots)]
      BY DEF TypeOK
    <3> QED
      BY <1>3, <1>4, <3>1
  <2>2. pc' \in [Callers -> {"new", "queued", "listing", "calling", "awaiting", "resolving",
                         "initialising", "saving", "renamed", "ok", "error", "gone"}]
    BY <1>3 DEF TypeOK
  <2> QED
    BY <1>1, <1>6, <2>1, <2>2 DEF TypeOK
<1>8. ChainInv'
  <2>1. CASE place = "queued"
    BY <2>1, <1>1, <1>3, ChainJoins
  <2>2. CASE place # "queued"
    BY <2>2, <1>1, <1>3, <1>5, ChainMoves DEF AtWork
  <2> QED
    BY <2>1, <2>2
<1>9. KindInv'
  <2>1. place = "calling" => todo'[c] # <<>>
    BY <1>3, <1>4 DEF TypeOK
  <2> QED
    BY <2>1, <1>3, <1>5 DEF KindInv
<1>10. \A d \in Callers :
         \/ pc'[d] = pc[d]
         \/ /\ pc[d] \in {"new", "listing"}
            /\ pc'[d] \in {"queued", "listing", "calling", "ok", "error"}
  BY <1>1, <1>3, <1>5
<1>11. FileInv'
  BY <1>1, <1>10, FileFrame DEF Saving
<1>12. HostInv'
  BY <1>1, <1>10, HostFrame, ZenonT(60) DEF Saving, HostInv, TypeOK
<1>13. RetireInv'
  BY <1>1, <1>10, RetireFrame DEF Waits
<1> QED
  BY <1>7, <1>8, <1>9, <1>11, <1>12, <1>13

(* A caller gets its backend from host() and waits on it. *)
LEMMA UsesHostInv ==
  ASSUME RegistryInv, NEW c \in Callers, NEW r \in Roots, UsesHost(c, r),
         pc[c] \in {"calling", "queued"}, pc' = [pc EXCEPT ![c] = "awaiting"],
         UNCHANGED <<entries, file, synced, busy, closed, retire, mutations, todo, acked,
                     restarts>>,
         pc[c] = "calling" =>
           /\ ~IsAppearance(c) /\ todo[c] # <<>>
           /\ Op[c].kind \in {"list", "invoke", "all"},
         pc[c] = "queued" => IsAppearance(c) /\ Running(c)
  PROVE  RegistryInv'
<1> USE DEF RegistryInv
<1> DEFINE h == hosts'[Id[r]]
<1>1. /\ made' \in 0..MaxHosts /\ made <= made' /\ 0..made \subseteq 0..made'
      /\ folder' \in [Hosts -> Roots] /\ \A g \in 1..made : folder'[g] = folder[g]
      /\ hosts' \in [Ids -> 0..MaxHosts] /\ open' \in SUBSET Hosts
      /\ \A i \in Ids \ {Id[r]} : hosts'[i] = hosts[i]
      /\ h \in 1..made' /\ Id[folder'[h]] = Id[r]
      /\ h \in 1..made => hosts' = hosts
      /\ at' = [at EXCEPT ![c] = h]
      /\ fresh' = fresh \cup {Id[r]}
  BY UsesHostLemma
<1> HIDE DEF h
<1>2. made \in Nat /\ made' \in Nat /\ made <= made' /\ h \in 0..made'
  BY <1>1, OpAssumption DEF TypeOK
<1>3. /\ pc'[c] = "awaiting" /\ at'[c] = h
      /\ \A d \in Callers \ {c} : pc'[d] = pc[d] /\ at'[d] = at[d]
  BY <1>1 DEF TypeOK
<1>4. TypeOK'
  <2>1. at' \in [Callers -> 0..made']
    BY <1>1, <1>2 DEF TypeOK
  <2> QED
    BY <1>1, <2>1 DEF TypeOK
<1>5. ChainInv'
  BY <1>3, ChainMoves DEF AtWork, ChainInv
<1>6. KindInv'
  BY <1>3 DEF KindInv
<1>7. FileInv'
  BY <1>3, FileFrame DEF Saving
<1>8. ASSUME NEW i \in Ids, hosts[i] # 0
      PROVE  hosts[i] \in 1..made /\ Id[folder[hosts[i]]] = i
  BY <1>8, OpAssumption DEF TypeOK, HostInv
<1>9. HostInv'
  <2>1. ASSUME NEW i \in Ids, hosts'[i] # 0
        PROVE  hosts'[i] <= made' /\ Id[folder'[hosts'[i]]] = i
    <3>1. CASE i = Id[r]
      BY <3>1, <1>1, <1>2 DEF h
    <3>2. CASE i # Id[r]
      BY <3>2, <2>1, <1>1, <1>2, <1>8
    <3> QED
      BY <3>1, <3>2
  <2>2. ASSUME NEW d \in Callers, Saving(d)' \/ pc'[d] = "initialising"
        PROVE  at'[d] # 0 /\ folder'[at'[d]] = AddRoot(d)
    <3>1. d # c /\ (Saving(d) \/ pc[d] = "initialising")
      BY <2>2, <1>3 DEF Saving
    <3>2. at[d] \in 1..made /\ at'[d] = at[d] /\ folder[at[d]] = AddRoot(d)
      BY <3>1, <1>3, OpAssumption DEF HostInv, TypeOK
    <3> QED
      BY <3>2, <1>1
  <2>3. ASSUME NEW d \in Callers, pc'[d] \in {"saving", "renamed"}, IsAppearance(d)
        PROVE  at'[d] = 0
    BY <2>3, <1>3 DEF HostInv
  <2> QED
    BY <2>1, <2>2, <2>3 DEF HostInv
<1>10. RetireInv'
  <2> SUFFICES ASSUME retire # NoRetire, ~closed, retire.id \notin fresh'
               PROVE  /\ hosts'[retire.id] = retire.host /\ retire.host # 0
                      /\ Idle(retire.host)'
                      /\ retire.safe => retire.host \notin busy
    BY DEF RetireInv
  <2>1. /\ hosts[retire.id] = retire.host /\ retire.host # 0 /\ Idle(retire.host)
        /\ retire.safe => retire.host \notin busy
    BY <1>1 DEF RetireInv
  <2>2. retire.id \in Ids /\ retire.id # Id[r]
    BY <1>1 DEF TypeOK
  <2>3. h # retire.host
    BY <1>1, <1>8, <2>1, <2>2
  <2>4. Idle(retire.host)'
    BY <1>3, <2>1, <2>3 DEF Idle
  <2> QED
    BY <1>1, <2>1, <2>2, <2>4
<1> QED
  BY <1>4, <1>5, <1>6, <1>7, <1>9, <1>10

LEMMA CallsInv ==
  ASSUME RegistryInv, NEW c \in Callers, Calls(c)
  PROVE  RegistryInv'
<1> USE DEF RegistryInv
<1>1. /\ pc[c] = "calling" /\ todo[c] # <<>> /\ ~IsAppearance(c) /\ todo[c] \in Seq(Roots)
      /\ Op[c].kind \in {"list", "invoke", "all"}
      /\ UNCHANGED <<entries, file, synced, busy, closed, retire, mutations, todo, acked,
                     restarts>>
  BY DEF Calls, KindInv, TypeOK, IsAppearance
<1>2. CASE closed
  <2>1. UNCHANGED <<hosts, made, folder, open, at, fresh>> /\ pc' = [pc EXCEPT ![c] = "error"]
    BY <1>2 DEF Calls
  <2>2. pc'[c] = "error" /\ \A d \in Callers \ {c} : pc'[d] = pc[d]
    BY <2>1 DEF TypeOK
  <2>3. TypeOK'
    BY <1>1, <2>1 DEF TypeOK
  <2>4. ChainInv'
    BY <1>1, <2>1, <2>2, ChainMoves DEF AtWork
  <2>5. KindInv'
    BY <1>1, <2>2 DEF KindInv
  <2>6. FileInv' /\ HostInv' /\ RetireInv'
    BY <1>1, <2>1, <2>2, FileFrame, HostFrame, RetireFrame DEF Saving, Waits, HostInv, TypeOK
  <2> QED
    BY <2>3, <2>4, <2>5, <2>6
<1>3. CASE ~closed
  <2>1. Head(todo[c]) \in Roots
    BY <1>1
  <2>2. UsesHost(c, Head(todo[c])) /\ pc' = [pc EXCEPT ![c] = "awaiting"]
    BY <1>3 DEF Calls
  <2> QED
    BY <1>1, <2>1, <2>2, UsesHostInv
<1> QED
  BY <1>2, <1>3

LEMMA AnsweredInv ==
  ASSUME RegistryInv, NEW c \in Callers, Answered(c)
  PROVE  RegistryInv'
<1> USE DEF RegistryInv
<1>1. /\ pc[c] = "awaiting" /\ at' = [at EXCEPT ![c] = 0] /\ at[c] \in open
      /\ busy' = busy \/ busy' = busy \cup {at[c]}
      /\ UNCHANGED <<entries, file, synced, hosts, folder, made, open, fresh, closed, retire,
                     mutations, acked, restarts>>
  BY DEF Answered
<1>2. PICK place \in {"saving", "calling", "ok"} :
        /\ pc' = [pc EXCEPT ![c] = place]
        /\ IsAppearance(c) <=> place = "saving"
        /\ place = "calling" => Len(todo[c]) > 1
  BY DEF Answered
<1>3. /\ pc'[c] = place /\ at'[c] = 0
      /\ \A d \in Callers \ {c} : pc'[d] = pc[d] /\ at'[d] = at[d]
  BY <1>1, <1>2 DEF TypeOK
<1>4. /\ todo' \in [Callers -> Seq(Roots)]
      /\ \A d \in Callers \ {c} : todo'[d] = todo[d]
      /\ place = "calling" => todo'[c] # <<>>
  <2>1. CASE IsAppearance(c)
    BY <2>1, <1>2 DEF Answered, TypeOK
  <2>2. CASE ~IsAppearance(c)
    <3>1. todo[c] \in Seq(Roots) /\ todo[c] # <<>> /\ todo' = [todo EXCEPT ![c] = Tail(todo[c])]
      BY <2>2, <1>1 DEF Answered, KindInv, TypeOK
    <3>2. Tail(todo[c]) \in Seq(Roots)
      BY <3>1, TailElements
    <3>3. Len(todo[c]) > 1 => Tail(todo[c]) # <<>>
      BY <3>1, TailNonempty
    <3> QED
      BY <1>2, <3>1, <3>2, <3>3 DEF TypeOK
  <2> QED
    BY <2>1, <2>2
<1>5. TypeOK'
  <2>1. at' \in [Callers -> 0..made]
    BY <1>1, OpAssumption DEF TypeOK
  <2>2. busy' \in SUBSET Hosts
    BY <1>1 DEF TypeOK
  <2>3. pc' \in [Callers -> {"new", "queued", "listing", "calling", "awaiting", "resolving",
                         "initialising", "saving", "renamed", "ok", "error", "gone"}]
    BY <1>2 DEF TypeOK
  <2> QED
    BY <1>1, <1>4, <2>1, <2>2, <2>3 DEF TypeOK
<1>6. ChainInv'
  BY <1>1, <1>2, <1>3, ChainMoves DEF AtWork, ChainInv
<1>7. KindInv'
  <2>1. place = "calling" => Op[c].kind \in {"list", "invoke", "all"}
    BY <1>1, <1>2 DEF KindInv
  <2> QED
    BY <1>2, <1>3, <1>4, <2>1 DEF KindInv
<1>8. FileInv'
  BY <1>1, <1>2, <1>3, FileFrame DEF Saving
<1>9. HostInv'
  BY <1>1, <1>2, <1>3, HostFrame DEF Saving, HostInv, TypeOK
<1>10. RetireInv'
  <2>1. Idle(retire.host) /\ retire.host \in busy' => retire.host \in busy
    BY <1>1 DEF Idle
  <2> QED
    BY <1>1, <1>3, <2>1, RetireFrame DEF Waits
<1> QED
  BY <1>5, <1>6, <1>7, <1>8, <1>9, <1>10

(* At most one action is at work. *)
LEMMA OneAtWork ==
  ASSUME ChainInv, NEW c \in Callers, NEW d \in Callers, AtWork(c), AtWork(d)
  PROVE  c = d
BY DEF ChainInv, Running

LEMMA NothingSaving ==
  ASSUME ChainInv, NEW c \in Callers, AtWork(c), ~Saving(c)
  PROVE  Firm = entries /\ \A d \in Callers : ~Saving(d)
<1>1. \A d \in Callers : ~Saving(d)
  BY OneAtWork DEF Saving, AtWork
<1> QED
  BY <1>1 DEF Firm

(* An action of the chain ends without having touched the registry. *)
LEMMA EndsInv ==
  ASSUME RegistryInv, NEW c \in Callers, NEW result \in {"ok", "error"},
         Running(c), ~Saving(c), ActionEnds(c, result),
         UNCHANGED <<entries, file, synced, hosts, folder, made, busy, fresh, closed, retire,
                     todo, restarts>>,
         open' \subseteq open,
         at' = at \/ at' = [at EXCEPT ![c] = 0],
         acked' \subseteq acked \cup ToSet(Firm)
  PROVE  RegistryInv'
<1> USE DEF RegistryInv
<1>1. /\ mutations' \in Seq(Callers)
      /\ pc' \in [Callers -> {"new", "queued", "listing", "calling", "awaiting",
                                 "resolving", "initialising", "saving", "renamed", "ok",
                                 "error", "gone"}]
      /\ pc'[c] \in {"ok", "error", "listing"}
      /\ pc'[c] = "listing" => Op[c].kind \in {"list", "invoke", "all"}
      /\ \A d \in Callers \ {c} : pc'[d] = pc[d]
  BY EndsType DEF Running
<1>2. at' \in [Callers -> 0..made] /\ \A d \in Callers \ {c} : at'[d] = at[d]
  BY OpAssumption DEF TypeOK
<1>3. TypeOK'
  BY <1>1, <1>2 DEF TypeOK
<1>4. ChainInv'
  BY ChainEnds
<1>5. KindInv'
  BY <1>1 DEF KindInv
<1>6. FileInv'
  BY <1>1, FileFrame DEF Saving
<1>7. HostInv'
  BY <1>1, <1>2, HostFrame, SMTT(30) DEF Saving, HostInv, TypeOK
<1>8. RetireInv'
  BY <1>1, <1>2, RetireFrame DEF Waits
<1> QED
  BY <1>3, <1>4, <1>5, <1>6, <1>7, <1>8

LEMMA CallFailsInv ==
  ASSUME RegistryInv, NEW c \in Callers, CallFails(c)
  PROVE  RegistryInv'
<1> USE DEF RegistryInv
<1>1. /\ pc[c] = "awaiting" /\ at' = [at EXCEPT ![c] = 0]
      /\ UNCHANGED <<entries, file, synced, hosts, folder, made, open, busy, fresh, closed,
                     retire, todo, acked, restarts>>
  BY DEF CallFails
<1>2. CASE IsAppearance(c)
  <2>1. Running(c) /\ ~Saving(c) /\ ActionEnds(c, "error")
    BY <1>1, <1>2 DEF ChainInv, AtWork, Saving, CallFails
  <2> QED
    BY <1>1, <2>1, EndsInv
<1>3. CASE ~IsAppearance(c)
  <2>1. pc' = [pc EXCEPT ![c] = "error"] /\ UNCHANGED mutations
    BY <1>3 DEF CallFails
  <2>2. /\ pc'[c] = "error" /\ at'[c] = 0
        /\ \A d \in Callers \ {c} : pc'[d] = pc[d] /\ at'[d] = at[d]
    BY <1>1, <2>1 DEF TypeOK
  <2>3. at' \in [Callers -> 0..made]
    BY <1>1, OpAssumption DEF TypeOK
  <2>4. TypeOK'
    BY <1>1, <2>1, <2>3 DEF TypeOK
  <2>5. ChainInv'
    BY <1>1, <1>3, <2>1, <2>2, ChainMoves DEF AtWork
  <2>6. KindInv'
    BY <1>1, <2>2 DEF KindInv
  <2>7. FileInv'
    BY <1>1, <2>2, FileFrame DEF Saving
  <2>8. HostInv'
    BY <1>1, <2>2, HostFrame DEF Saving, HostInv, TypeOK
  <2>9. RetireInv'
    BY <1>1, <2>2, RetireFrame DEF Waits
  <2> QED
    BY <2>4, <2>5, <2>6, <2>7, <2>8, <2>9
<1> QED
  BY <1>2, <1>3

LEMMA AddBeginsInv ==
  ASSUME RegistryInv, NEW c \in Callers, AddBegins(c) \/ AddRefused(c)
  PROVE  RegistryInv'
<1> USE DEF RegistryInv
<1>1. UNCHANGED <<entries, file, synced, hosts, folder, made, open, busy, fresh, closed,
                  retire, at, todo, acked, restarts>>
  BY DEF AddBegins, AddRefused
<1>2. pc[c] \in {"queued", "resolving"} /\ Running(c) /\ ~Saving(c)
  BY DEF AddBegins, AddRefused, ChainInv, AtWork, Saving
<1>3. CASE ActionEnds(c, "error")
  BY <1>1, <1>2, <1>3, EndsInv
<1>4. CASE /\ pc[c] = "queued" /\ ~IsAppearance(c)
           /\ pc' = [pc EXCEPT ![c] = "resolving"] /\ UNCHANGED mutations
  <2>1. pc'[c] = "resolving" /\ \A d \in Callers \ {c} : pc'[d] = pc[d]
    BY <1>4 DEF TypeOK
  <2>2. TypeOK'
    BY <1>1, <1>4 DEF TypeOK
  <2>3. ChainInv'
    BY <1>2, <1>4, <2>1, ChainMoves DEF AtWork
  <2>4. KindInv'
    BY <1>1, <1>4, <2>1 DEF KindInv
  <2>5. FileInv' /\ HostInv' /\ RetireInv'
    BY <1>1, <1>4, <2>1, FileFrame, HostFrame, RetireFrame DEF Saving, Waits, HostInv, TypeOK
  <2> QED
    BY <2>2, <2>3, <2>4, <2>5
<1> QED
  BY <1>3, <1>4 DEF AddBegins, AddRefused

(* A backend opens the folder of an add. *)
LEMMA AddOpensInv ==
  ASSUME RegistryInv, NEW c \in Callers, AddOpens(c)
  PROVE  RegistryInv'
<1> USE DEF RegistryInv
<1>1. /\ pc[c] = "resolving"
      /\ UNCHANGED <<entries, file, synced, hosts, busy, fresh, closed, retire, todo, restarts>>
  BY DEF AddOpens
<1>2. Running(c) /\ ~Saving(c) /\ AtWork(c)
  BY <1>1 DEF ChainInv, AtWork, Saving
<1>3. CASE AddRoot(c) \in ToSet(entries)
  <2>1. ActionEnds(c, "ok") /\ acked' = acked \cup {AddRoot(c)} /\ UNCHANGED <<made, folder, open, at>>
    BY <1>3 DEF AddOpens
  <2>2. Firm = entries
    BY <1>2, NothingSaving
  <2> QED
    BY <1>1, <1>2, <1>3, <2>1, <2>2, EndsInv
<1>4. CASE AddRoot(c) \notin ToSet(entries) /\ Full
  BY <1>1, <1>2, <1>4, EndsInv DEF AddOpens
<1>5. CASE AddRoot(c) \notin ToSet(entries) /\ ~Full
  <2>1. /\ NewHost(AddRoot(c)) /\ open' = open \cup {made + 1}
        /\ at' = [at EXCEPT ![c] = made + 1]
        /\ pc' = [pc EXCEPT ![c] = "initialising"]
        /\ UNCHANGED <<mutations, acked>>
    BY <1>5 DEF AddOpens
  <2>2. AddRoot(c) \in Roots
    BY OpType
  <2>3. /\ made' \in 1..MaxHosts /\ made' = made + 1 /\ made' \in Hosts
        /\ made <= made' /\ 0..made \subseteq 0..made'
        /\ folder' \in [Hosts -> Roots] /\ folder'[made'] = AddRoot(c)
        /\ \A h \in 1..made : folder'[h] = folder[h]
    BY <2>1, <2>2, NewHostLemma
  <2>4. /\ pc'[c] = "initialising" /\ at'[c] = made'
        /\ \A d \in Callers \ {c} : pc'[d] = pc[d] /\ at'[d] = at[d]
    BY <2>1, <2>3 DEF TypeOK
  <2>5. TypeOK'
    <3>1. at' \in [Callers -> 0..made'] /\ open' \in SUBSET Hosts
      BY <2>1, <2>3, OpAssumption DEF TypeOK
    <3>2. made' \in 0..MaxHosts
      BY <2>3, OpAssumption
    <3> QED
      BY <1>1, <2>1, <2>3, <3>1, <3>2 DEF TypeOK
  <2>6. ChainInv'
    BY <1>1, <1>2, <2>1, <2>4, ChainMoves DEF AtWork
  <2>7. KindInv'
    BY <1>1, <2>4 DEF KindInv
  <2>8. FileInv'
    <3>1. Firm' = Firm /\ \A d \in Callers : Saving(d)' <=> Saving(d)
      BY <1>1, <2>4 DEF Firm, Saving
    <3>2. Len(entries) < MAX_WORKSPACES
      BY <1>5, OpAssumption DEF Full, TypeOK
    <3> QED
      BY <1>1, <2>1, <2>4, <3>1, <3>2 DEF FileInv, LoadAccepts
  <2>9. made \in Nat /\ made' \in Nat /\ made' # 0
    BY <2>3, OpAssumption DEF TypeOK
  <2>10. HostInv'
    <3>1. ASSUME NEW i \in Ids, hosts'[i] # 0
          PROVE  hosts'[i] <= made' /\ Id[folder'[hosts'[i]]] = i
      <4>1. hosts[i] \in 1..made /\ Id[folder[hosts[i]]] = i
        BY <3>1, <1>1, OpAssumption DEF HostInv, TypeOK
      <4> QED
        BY <4>1, <1>1, <2>3, <2>9
    <3>2. ASSUME NEW d \in Callers, Saving(d)' \/ pc'[d] = "initialising"
          PROVE  at'[d] # 0 /\ folder'[at'[d]] = AddRoot(d)
      <4>1. CASE d = c
        BY <4>1, <2>3, <2>4, <2>9
      <4>2. CASE d # c
        <5>1. at[d] \in 1..made /\ folder[at[d]] = AddRoot(d)
          BY <3>2, <4>2, <2>4, OpAssumption, SMTT(30) DEF HostInv, TypeOK, Saving
        <5> QED
          BY <4>2, <5>1, <2>3, <2>4, <2>9
      <4> QED
        BY <4>1, <4>2
    <3>3. ASSUME NEW d \in Callers, pc'[d] \in {"saving", "renamed"}, IsAppearance(d)
          PROVE  at'[d] = 0
      BY <3>3, <2>4 DEF HostInv
    <3> QED
      BY <3>1, <3>2, <3>3 DEF HostInv
  <2>11. RetireInv'
    <3> SUFFICES ASSUME retire # NoRetire, ~closed, retire.id \notin fresh
                 PROVE  /\ hosts[retire.id] = retire.host /\ retire.host # 0
                        /\ Idle(retire.host)'
                        /\ retire.safe => retire.host \notin busy
      BY <1>1 DEF RetireInv
    <3>1. /\ hosts[retire.id] = retire.host /\ retire.host # 0 /\ Idle(retire.host)
          /\ retire.safe => retire.host \notin busy
      BY DEF RetireInv
    <3>2. retire.id \in Ids /\ retire.host <= made
      BY <3>1 DEF TypeOK, HostInv
    <3>3. retire.host # made'
      BY <3>2, <2>3, <2>9, OpAssumption DEF TypeOK
    <3>4. Idle(retire.host)'
      BY <1>1, <3>1, <3>3, <2>4 DEF Idle
    <3> QED
      BY <3>1, <3>4
  <2> QED
    BY <2>5, <2>6, <2>7, <2>8, <2>10, <2>11
<1> QED
  BY <1>3, <1>4, <1>5

(* The database of an add is open: its entry joins the list, or the add ends. *)
LEMMA AddInitialisedInv ==
  ASSUME RegistryInv, NEW c \in Callers, AddInitialised(c) \/ InitialiseFails(c)
  PROVE  RegistryInv'
<1> USE DEF RegistryInv
<1>1. /\ pc[c] = "initialising"
      /\ UNCHANGED <<file, synced, hosts, folder, made, busy, fresh, closed, retire, todo,
                     acked, restarts>>
  BY DEF AddInitialised, InitialiseFails
<1>2. Running(c) /\ ~Saving(c) /\ AtWork(c) /\ ~IsAppearance(c)
  BY <1>1 DEF ChainInv, AtWork, Saving, KindInv
<1>3. CASE /\ open' = open \ {at[c]} /\ at' = [at EXCEPT ![c] = 0]
           /\ ActionEnds(c, "error") /\ UNCHANGED entries
  BY <1>1, <1>2, <1>3, EndsInv
<1>4. CASE /\ ~Identical(AddRoot(c)) /\ entries' = Append(entries, AddRoot(c))
           /\ pc' = [pc EXCEPT ![c] = "saving"] /\ UNCHANGED <<open, at, mutations>>
  <2>1. pc'[c] = "saving" /\ \A d \in Callers \ {c} : pc'[d] = pc[d]
    BY <1>4 DEF TypeOK
  <2>2. AddRoot(c) \in Roots
    BY OpType
  <2>3. /\ entries' \in Seq(Roots) /\ Front(entries') = entries
        /\ ToSet(entries') = ToSet(entries) \cup {AddRoot(c)}
    BY <1>4, <2>2, AppendElements, FrontOfAppend DEF TypeOK
  <2>4. TypeOK'
    BY <1>1, <1>4, <2>3 DEF TypeOK
  <2>5. ChainInv'
    BY <1>1, <1>2, <1>4, <2>1, ChainMoves DEF AtWork
  <2>6. KindInv'
    BY <1>1, <2>1 DEF KindInv
  <2>7. FileInv'
    <3>1. Firm = entries /\ \A d \in Callers \ {c} : ~AtWork(d)
      BY <1>2, NothingSaving, OneAtWork
    <3>2. Saving(c)' /\ Firm' = entries
      BY <1>2, <2>1, <2>3 DEF Saving, Firm
    <3>3. \A d \in Callers \ {c} :
            pc'[d] \notin {"initialising", "saving", "renamed"}
      BY <2>1, <3>1 DEF AtWork
    <3>4. LoadAccepts(entries')
      <4>1. Len(entries) < MAX_WORKSPACES /\ LoadAccepts(entries)
        BY <1>1 DEF FileInv
      <4>2. \A i \in 1..Len(entries) : Id[entries[i]] # Id[AddRoot(c)]
        BY <1>4 DEF Identical
      <4> QED
        BY <1>4, <2>2, <4>1, <4>2, AcceptsAppend DEF TypeOK
    <3>5. entries' # <<>> /\ AddRoot(c) \in ToSet(entries')
      BY <2>3, EmptyElements
    <3>6. LoadAccepts(file)' /\ LoadAccepts(synced)'
      BY <1>1 DEF FileInv, LoadAccepts
    <3>7. \A d \in Callers :
            /\ pc'[d] # "initialising" /\ pc'[d] # "renamed"
            /\ Saving(d)' => d = c
      BY <2>1, <3>3 DEF Saving
    <3>8. acked' \subseteq ToSet(Firm') /\ ToSet(Firm') \subseteq ToSet(file') \cap ToSet(synced')
      BY <1>1, <3>1, <3>2 DEF FileInv
    <3>9. AddRoot(c)' = AddRoot(c)
      BY DEF AddRoot
    <3> QED
      BY <3>4, <3>5, <3>6, <3>7, <3>8, <3>9 DEF FileInv
  <2>8. HostInv'
    BY <1>1, <1>2, <1>4, <2>1, HostFrame DEF Saving, HostInv, TypeOK
  <2>9. RetireInv'
    BY <1>1, <1>4, <2>1, RetireFrame DEF Waits
  <2> QED
    BY <2>4, <2>5, <2>6, <2>7, <2>8, <2>9
<1> QED
  BY <1>3, <1>4 DEF AddInitialised, InitialiseFails

LEMMA AppearanceBeginsInv ==
  ASSUME RegistryInv, NEW c \in Callers, AppearanceBegins(c)
  PROVE  RegistryInv'
<1> USE DEF RegistryInv
<1>1. /\ pc[c] = "queued" /\ Running(c) /\ IsAppearance(c) /\ ~Saving(c)
      /\ UNCHANGED <<entries, file, synced, busy, closed, retire, todo, acked, restarts>>
  BY DEF AppearanceBegins, Saving
<1>2. CASE ActionEnds(c, "error") /\ UNCHANGED <<hosts, made, folder, open, at, fresh>>
  BY <1>1, <1>2, EndsInv
<1>3. CASE /\ UsesHost(c, Op[c].root) /\ pc' = [pc EXCEPT ![c] = "awaiting"]
           /\ UNCHANGED mutations
  BY <1>1, <1>3, OpType, UsesHostInv
<1> QED
  BY <1>2, <1>3 DEF AppearanceBegins

(* persist renames the new file over the old one. *)
LEMMA RenamesInv ==
  ASSUME RegistryInv, NEW c \in Callers, Renames(c)
  PROVE  RegistryInv'
<1> USE DEF RegistryInv
<1>1. /\ pc[c] = "saving" /\ file' = entries /\ pc' = [pc EXCEPT ![c] = "renamed"]
      /\ UNCHANGED <<entries, synced, hosts, folder, made, open, busy, fresh, closed, retire,
                     mutations, at, todo, acked, restarts>>
  BY DEF Renames
<1>2. pc'[c] = "renamed" /\ \A d \in Callers \ {c} : pc'[d] = pc[d]
  BY <1>1 DEF TypeOK
<1>3. Running(c) /\ AtWork(c)
  BY <1>1 DEF ChainInv, AtWork
<1>4. TypeOK'
  BY <1>1 DEF TypeOK
<1>5. ChainInv'
  BY <1>1, <1>2, <1>3, ChainMoves DEF AtWork
<1>6. KindInv'
  BY <1>1, <1>2 DEF KindInv
<1>7. FileInv'
  <2>1. Firm' = Firm /\ \A d \in Callers : Saving(d)' <=> Saving(d)
    BY <1>1, <1>2 DEF Firm, Saving
  <2>2. ToSet(Firm) \subseteq ToSet(entries)
    BY FrontLemma DEF Firm, FileInv, TypeOK
  <2>3. LoadAccepts(entries)' /\ LoadAccepts(file)' /\ LoadAccepts(synced)'
    BY <1>1 DEF FileInv, LoadAccepts
  <2>4. acked' \subseteq ToSet(Firm') /\ ToSet(Firm') \subseteq ToSet(file') \cap ToSet(synced')
    BY <1>1, <2>1, <2>2 DEF FileInv
  <2>5. \A d \in Callers :
          /\ pc'[d] = "initialising" => Len(entries') < MAX_WORKSPACES
          /\ Saving(d)' => entries' # <<>> /\ AddRoot(d)' \in ToSet(entries')
          /\ pc'[d] = "renamed" => file' = entries'
    BY <1>1, <1>2, <2>1 DEF FileInv, AddRoot
  <2> QED
    BY <2>3, <2>4, <2>5 DEF FileInv
<1>8. HostInv'
  BY <1>1, <1>2, HostFrame DEF Saving, HostInv, TypeOK
<1>9. RetireInv'
  BY <1>1, <1>2, RetireFrame DEF Waits
<1> QED
  BY <1>4, <1>5, <1>6, <1>7, <1>8, <1>9

(* persist fails: an add takes its entry back. *)
LEMMA SaveFailsInv ==
  ASSUME RegistryInv, NEW c \in Callers, SaveFails(c)
  PROVE  RegistryInv'
<1> USE DEF RegistryInv
<1>1. /\ pc[c] \in {"saving", "renamed"} /\ at' = [at EXCEPT ![c] = 0]
      /\ ActionEnds(c, "error")
      /\ UNCHANGED <<file, synced, hosts, folder, made, busy, fresh, closed, retire, todo,
                     acked, restarts>>
  BY DEF SaveFails
<1>2. Running(c) /\ AtWork(c)
  BY <1>1 DEF ChainInv, AtWork
<1>3. CASE IsAppearance(c)
  <2>1. UNCHANGED <<entries, open>> /\ ~Saving(c)
    BY <1>3 DEF SaveFails, Saving
  <2> QED
    BY <1>1, <1>2, <2>1, EndsInv
<1>4. CASE ~IsAppearance(c)
  <2>1. Saving(c) /\ entries' = Front(entries) /\ open' = open \ {at[c]}
    BY <1>1, <1>4 DEF SaveFails, Saving
  <2>2. /\ mutations' \in Seq(Callers)
        /\ pc' \in [Callers -> {"new", "queued", "listing", "calling", "awaiting",
                                 "resolving", "initialising", "saving", "renamed", "ok",
                                 "error", "gone"}]
        /\ pc'[c] \in {"ok", "error", "listing"}
        /\ pc'[c] = "listing" => Op[c].kind \in {"list", "invoke", "all"}
        /\ \A d \in Callers \ {c} : pc'[d] = pc[d]
    BY <1>1, <1>2, EndsType DEF Running
  <2>3. at' \in [Callers -> 0..made] /\ \A d \in Callers \ {c} : at'[d] = at[d]
    BY <1>1, OpAssumption DEF TypeOK
  <2>4. entries # <<>> /\ entries' \in Seq(Roots)
    BY <2>1, FrontLemma DEF FileInv, TypeOK
  <2>5. TypeOK'
    BY <1>1, <2>1, <2>2, <2>3, <2>4 DEF TypeOK
  <2>6. ChainInv'
    BY <1>1, <1>2, ChainEnds
  <2>7. KindInv'
    BY <1>1, <2>2 DEF KindInv
  <2>8. FileInv'
    <3>1. \A d \in Callers : pc'[d] \notin {"initialising", "saving", "renamed"}
      BY <1>2, <2>2, OneAtWork DEF AtWork
    <3>2. Firm = entries' /\ Firm' = entries'
      BY <2>1, <3>1 DEF Firm, Saving
    <3>3. LoadAccepts(entries') /\ LoadAccepts(file') /\ LoadAccepts(synced')
      BY <1>1, <2>1, <2>4, AcceptsFront DEF FileInv, TypeOK
    <3> QED
      BY <1>1, <3>1, <3>2, <3>3 DEF FileInv, Saving
  <2>9. HostInv'
    BY <1>1, <2>2, <2>3, HostFrame DEF Saving, HostInv, TypeOK
  <2>10. RetireInv'
    BY <1>1, <2>2, <2>3, RetireFrame DEF Waits
  <2> QED
    BY <2>5, <2>6, <2>7, <2>8, <2>9, <2>10
<1> QED
  BY <1>3, <1>4

(* persist returns: the directory is synced, and an add puts its backend into *)
(* the map.                                                                   *)
LEMMA SavedInv ==
  ASSUME RegistryInv, NEW c \in Callers, Saved(c)
  PROVE  RegistryInv'
<1> USE DEF RegistryInv
<1> DEFINE i == Id[AddRoot(c)]
<1>1. /\ pc[c] = "renamed" /\ synced' = file /\ at' = [at EXCEPT ![c] = 0]
      /\ ActionEnds(c, "ok")
      /\ UNCHANGED <<entries, file, folder, made, open, busy, closed, retire, todo, restarts>>
  BY DEF Saved, DirectorySynced
<1>2. Running(c) /\ AtWork(c) /\ file = entries
  BY <1>1 DEF ChainInv, AtWork, FileInv
<1>3. \/ IsAppearance(c) /\ UNCHANGED <<hosts, fresh, acked>>
      \/ /\ Saving(c) /\ hosts' = [hosts EXCEPT ![i] = at[c]]
         /\ fresh' = fresh \cup {i} /\ acked' = acked \cup {AddRoot(c)}
  BY <1>1 DEF Saved, Saving
<1>4. i \in Ids
  BY OpType, IdType
<1> HIDE DEF i
<1>5. /\ mutations' \in Seq(Callers)
      /\ pc' \in [Callers -> {"new", "queued", "listing", "calling", "awaiting",
                                 "resolving", "initialising", "saving", "renamed", "ok",
                                 "error", "gone"}]
      /\ pc'[c] \in {"ok", "error", "listing"}
      /\ pc'[c] = "listing" => Op[c].kind \in {"list", "invoke", "all"}
      /\ \A d \in Callers \ {c} : pc'[d] = pc[d]
  BY <1>1, <1>2, EndsType DEF Running
<1>6. at' \in [Callers -> 0..made] /\ \A d \in Callers \ {c} : at'[d] = at[d]
  BY <1>1, OpAssumption DEF TypeOK
<1>7. TypeOK'
  <2>1. at[c] \in 0..MaxHosts
    BY OpAssumption DEF TypeOK
  <2>2. hosts' \in [Ids -> 0..MaxHosts]
    BY <1>3, <2>1 DEF TypeOK
  <2> QED
    BY <1>1, <1>5, <1>6, <2>2 DEF TypeOK
<1>8. ChainInv'
  BY <1>1, <1>2, ChainEnds
<1>9. KindInv'
  BY <1>1, <1>5 DEF KindInv
<1>10. FileInv'
  <2>1. \A d \in Callers : pc'[d] \notin {"initialising", "saving", "renamed"}
    BY <1>2, <1>5, OneAtWork DEF AtWork
  <2>2. Firm' = entries
    BY <1>1, <2>1 DEF Firm, Saving
  <2>3. LoadAccepts(entries') /\ LoadAccepts(file') /\ LoadAccepts(synced')
    BY <1>1 DEF FileInv
  <2>4. ToSet(Firm) \subseteq ToSet(entries)
    BY FrontLemma DEF Firm, FileInv, TypeOK
  <2>5. acked' \subseteq ToSet(entries)
    BY <1>3, <2>4 DEF FileInv
  <2> QED
    BY <1>1, <1>2, <2>1, <2>2, <2>3, <2>5 DEF FileInv, Saving
<1>11. CASE IsAppearance(c) /\ UNCHANGED <<hosts, fresh, acked>>
  <2>1. HostInv'
    BY <1>1, <1>5, <1>6, <1>11, HostFrame DEF Saving, HostInv, TypeOK
  <2>2. RetireInv'
    BY <1>1, <1>5, <1>6, <1>11, RetireFrame DEF Waits
  <2> QED
    BY <1>7, <1>8, <1>9, <1>10, <2>1, <2>2
<1>12. CASE Saving(c) /\ hosts' = [hosts EXCEPT ![i] = at[c]] /\ fresh' = fresh \cup {i}
  <2>1. at[c] # 0 /\ at[c] <= made /\ folder[at[c]] = AddRoot(c)
    BY <1>12, OpAssumption DEF HostInv, TypeOK
  <2>2. hosts'[i] = at[c] /\ \A j \in Ids \ {i} : hosts'[j] = hosts[j]
    BY <1>4, <1>12 DEF TypeOK
  <2>3. HostInv'
    <3>1. ASSUME NEW j \in Ids, hosts'[j] # 0
          PROVE  hosts'[j] <= made' /\ Id[folder'[hosts'[j]]] = j
      <4>1. CASE j = i
        BY <4>1, <1>1, <2>1, <2>2 DEF i
      <4>2. CASE j # i
        BY <3>1, <4>2, <1>1, <2>2 DEF HostInv
      <4> QED
        BY <4>1, <4>2
    <3>2. ASSUME NEW d \in Callers
          PROVE  ~Saving(d)' /\ pc'[d] \notin {"initialising", "saving", "renamed"}
      BY <1>2, <1>5, OneAtWork DEF AtWork, Saving
    <3> QED
      BY <3>1, <3>2 DEF HostInv
  <2>4. RetireInv'
    <3> SUFFICES ASSUME retire # NoRetire, ~closed, retire.id \notin fresh'
                 PROVE  /\ hosts'[retire.id] = retire.host /\ retire.host # 0
                        /\ Idle(retire.host)'
                        /\ retire.safe => retire.host \notin busy
      BY <1>1 DEF RetireInv
    <3>1. /\ hosts[retire.id] = retire.host /\ retire.host # 0 /\ Idle(retire.host)
          /\ retire.safe => retire.host \notin busy
      BY <1>12 DEF RetireInv
    <3>2. retire.id \in Ids /\ retire.id # i
      BY <1>12 DEF TypeOK
    <3>3. Idle(retire.host)'
      BY <1>1, <1>5, <1>6, <3>1 DEF Idle
    <3> QED
      BY <2>2, <3>1, <3>2, <3>3
  <2> QED
    BY <1>7, <1>8, <1>9, <1>10, <2>3, <2>4
<1> QED
  BY <1>3, <1>11, <1>12

(* Time passes, backends finish, and retireIdle asks and decides. *)
LEMMA RetireStepsInv ==
  ASSUME RegistryInv,
         \/ \E i \in Ids : Ages(i) \/ RetireAsks(i)
         \/ \E h \in Hosts : BackendFinishes(h)
         \/ SuspendAnswered \/ RetireDecides \/ Close
  PROVE  RegistryInv'
<1> USE DEF RegistryInv
<1>1. UNCHANGED <<entries, file, synced, folder, made, mutations, pc, at, todo, acked, restarts>>
  BY DEF Ages, RetireAsks, BackendFinishes, SuspendAnswered, RetireDecides, Close
<1>2. ChainInv'
  BY <1>1 DEF ChainInv, AtWork, Running
<1>3. KindInv'
  BY <1>1 DEF KindInv
<1>4. FileInv'
  BY <1>1, FileFrame DEF Saving
<1>5. \A d \in Callers :
        /\ Saving(d)' <=> Saving(d)
        /\ Waits(d)' <=> Waits(d)
  BY <1>1 DEF Saving, Waits
<1>6. \A h : Idle(h)' <=> Idle(h)
  BY <1>1 DEF Idle
<1>7. ASSUME NEW i \in Ids, Ages(i) PROVE TypeOK' /\ HostInv' /\ RetireInv'
  <2>1. TypeOK'
    BY <1>1, <1>7 DEF Ages, TypeOK
  <2>2. HostInv'
    BY <1>1, <1>5, <1>7, HostFrame DEF Ages, HostInv, TypeOK
  <2>3. RetireInv'
    BY <1>1, <1>6, <1>7 DEF Ages, RetireInv
  <2> QED
    BY <2>1, <2>2, <2>3
<1>8. ASSUME NEW i \in Ids, RetireAsks(i) PROVE TypeOK' /\ HostInv' /\ RetireInv'
  <2>1. hosts[i] \in Hosts
    BY <1>8, OpAssumption DEF RetireAsks, TypeOK, Hosts
  <2>2. TypeOK'
    BY <1>1, <1>8, <2>1 DEF RetireAsks, TypeOK
  <2>3. HostInv'
    BY <1>1, <1>5, <1>8, HostFrame DEF RetireAsks, HostInv, TypeOK
  <2>4. RetireInv'
    BY <1>6, <1>8 DEF RetireAsks, RetireInv
  <2> QED
    BY <2>2, <2>3, <2>4
<1>9. ASSUME NEW h \in Hosts, BackendFinishes(h) PROVE TypeOK' /\ HostInv' /\ RetireInv'
  <2>1. TypeOK'
    BY <1>1, <1>9 DEF BackendFinishes, TypeOK
  <2>2. HostInv'
    BY <1>1, <1>5, <1>9, HostFrame DEF BackendFinishes, HostInv, TypeOK
  <2>3. RetireInv'
    BY <1>6, <1>9 DEF BackendFinishes, RetireInv
  <2> QED
    BY <2>1, <2>2, <2>3
<1>10. CASE SuspendAnswered
  <2>1. retire # NoRetire
    BY <1>10, OpAssumption DEF SuspendAnswered, NoRetire, TypeOK, Hosts
  <2>2. /\ retire \in [id : Ids, host : Hosts, safe : BOOLEAN]
        /\ retire' \in [id : Ids, host : Hosts, safe : BOOLEAN]
        /\ retire'.id = retire.id /\ retire'.host = retire.host
    BY <1>10, <2>1 DEF SuspendAnswered, TypeOK
  <2>3. TypeOK'
    BY <1>1, <1>10, <2>2 DEF SuspendAnswered, TypeOK
  <2>4. HostInv'
    BY <1>1, <1>5, <1>10, HostFrame DEF SuspendAnswered, HostInv, TypeOK
  <2>5. RetireInv'
    BY <1>6, <1>10, <2>1, <2>2 DEF SuspendAnswered, RetireInv
  <2> QED
    BY <1>2, <1>3, <1>4, <2>3, <2>4, <2>5
<1>11. CASE RetireDecides
  <2>1. /\ hosts' \in [Ids -> 0..MaxHosts] /\ open' \in SUBSET Hosts
        /\ \A j \in Ids : hosts'[j] = hosts[j] \/ hosts'[j] = 0
    BY <1>11, OpAssumption DEF RetireDecides, TypeOK
  <2>2. TypeOK'
    BY <1>1, <1>11, <2>1 DEF RetireDecides, TypeOK
  <2>3. HostInv'
    BY <1>1, <1>5, <2>1 DEF HostInv, AddRoot, IsAppearance
  <2>4. RetireInv'
    BY <1>11 DEF RetireDecides, RetireInv
  <2> QED
    BY <1>2, <1>3, <1>4, <2>2, <2>3, <2>4
<1>12. CASE Close
  <2>1. hosts' = [j \in Ids |-> 0] /\ hosts' \in [Ids -> 0..MaxHosts] /\ open' \in SUBSET Hosts
    BY <1>12, OpAssumption DEF Close, TypeOK
  <2>2. TypeOK'
    BY <1>1, <1>12, <2>1 DEF Close, TypeOK
  <2>3. HostInv'
    BY <1>1, <1>5, <2>1 DEF HostInv, AddRoot, IsAppearance
  <2>4. RetireInv'
    BY <1>12 DEF Close, RetireInv
  <2> QED
    BY <1>2, <1>3, <1>4, <2>2, <2>3, <2>4
<1> QED
  BY <1>2, <1>3, <1>4, <1>7, <1>8, <1>9, <1>10, <1>11, <1>12

LEMMA RestartInv ==
  ASSUME RegistryInv, Restart
  PROVE  RegistryInv'
<1> USE DEF RegistryInv
<1>1. PICK kept \in {file, synced} : entries' = kept /\ file' = kept /\ synced' = kept
  BY DEF Restart
<1>2. \A c \in Callers : pc'[c] \in {"new", "ok", "error", "gone"} /\ at'[c] = 0
  BY DEF Restart
<1>3. pc' \in [Callers -> {"new", "queued", "listing", "calling", "awaiting", "resolving",
                         "initialising", "saving", "renamed", "ok", "error", "gone"}]
  BY <1>2 DEF Restart
<1>4. TypeOK'
  BY <1>1, <1>3, OpAssumption DEF Restart, TypeOK
<1>5. ChainInv'
  BY <1>2, EmptyElements DEF Restart, ChainInv, AtWork
<1>6. KindInv'
  BY <1>2 DEF KindInv
<1>7. FileInv'
  <2>1. Firm' = kept /\ LoadAccepts(kept) /\ acked \subseteq ToSet(kept)
    BY <1>1, <1>2 DEF Firm, Saving, FileInv
  <2> QED
    BY <1>1, <1>2, <2>1 DEF FileInv, Saving, Restart
<1>8. HostInv' /\ RetireInv'
  BY <1>2 DEF HostInv, RetireInv, Restart, Saving
<1> QED
  BY <1>4, <1>5, <1>6, <1>7, <1>8

LEMMA StepInv ==
  ASSUME RegistryInv, [Next]_vars
  PROVE  RegistryInv'
<1>1. ASSUME NEW c \in Callers, Advances(c)
      PROVE  RegistryInv'
  BY <1>1, StartsInv, CallsInv, AnsweredInv, CallFailsInv, AddBeginsInv, AddOpensInv,
     AddInitialisedInv, AppearanceBeginsInv, RenamesInv, SaveFailsInv, SavedInv DEF Advances
<1>2. CASE UNCHANGED vars
  BY <1>2 DEF vars, RegistryInv, TypeOK, ChainInv, KindInv, FileInv, HostInv, RetireInv,
       AtWork, Saving, Running, Firm, LoadAccepts, Idle, AddRoot, IsAppearance
<1>3. CASE Next
  BY <1>1, <1>2, <1>3, StartsInv, RetireStepsInv, RestartInv DEF Next, Done
<1> QED
  BY <1>2, <1>3

LEMMA InvHolds == Spec => []RegistryInv
BY InitInv, StepInv, PTL DEF Spec

-----------------------------------------------------------------------------
(* The theorems *)

(* Whatever the callers of add, list, invoke and setAppearance do, and        *)
(* however often the application crashes or the power fails, a workspace      *)
(* whose add returned is in the list and in the file, and load() accepts the  *)
(* file.                                                                      *)
THEOREM AddedIsForGood == Spec => []AddedForGood
<1>1. RegistryInv => AddedForGood
  <2> SUFFICES ASSUME RegistryInv PROVE AddedForGood
    OBVIOUS
  <2>1. ToSet(Firm) \subseteq ToSet(entries)
    BY FrontLemma DEF RegistryInv, Firm, FileInv, TypeOK
  <2> QED
    BY <2>1 DEF RegistryInv, FileInv, AddedForGood
<1> QED
  BY <1>1, InvHolds, PTL

(* The promise chain `mutations' never hangs behind an operation that ended,  *)
(* in whichever way it ended.                                                 *)
THEOREM ChainNeverHangs == Spec => []WaitsOnlyForRunning
<1>1. RegistryInv => WaitsOnlyForRunning
  <2> SUFFICES ASSUME RegistryInv, NEW c \in Callers, pc[c] = "queued"
               PROVE  /\ c \in ToSet(mutations)
                      /\ \A d \in ToSet(mutations) :
                           pc[d] \in {"queued", "resolving", "awaiting", "initialising",
                                      "saving", "renamed"}
    BY DEF WaitsOnlyForRunning
  <2>1. ToSet(mutations) \subseteq Callers
    BY DEF RegistryInv, TypeOK, ToSet
  <2> QED
    BY <2>1 DEF RegistryInv, ChainInv, AtWork
<1> QED
  BY <1>1, InvHolds, PTL

(* What one step takes out of the map of backends, retireIdle alone takes     *)
(* out while the application goes on, and then nothing was at work there.     *)
LEMMA RetireStep ==
  ASSUME RegistryInv, [Next]_vars, NEW i \in Ids, hosts[i] # 0, hosts'[i] = 0,
         ~closed', restarts' = restarts
  PROVE  hosts[i] \notin busy /\ Idle(hosts[i])
<1> USE DEF RegistryInv
<1>1. CASE RetireDecides
  <2>1. /\ retire # NoRetire /\ StillUnused
        /\ hosts' = [hosts EXCEPT ![retire.id] = 0]
    BY <1>1 DEF RetireDecides
  <2>2. retire.safe /\ ~closed /\ retire.id \notin fresh /\ Idle(retire.host)
    BY <2>1 DEF StillUnused
  <2>3. hosts[retire.id] = retire.host /\ retire.host \notin busy
    BY <2>1, <2>2 DEF RetireInv
  <2>4. i = retire.id
    BY <2>1 DEF TypeOK
  <2> QED
    BY <2>2, <2>3, <2>4
<1>2. ASSUME NEW c \in Callers, NEW r \in Roots, UsesHost(c, r)
      PROVE  FALSE
  <2>1. /\ \A j \in Ids \ {Id[r]} : hosts'[j] = hosts[j]
        /\ hosts'[Id[r]] \in 1..made'
    BY <1>2, UsesHostLemma
  <2> QED
    BY <2>1
<1>3. ASSUME NEW c \in Callers, Calls(c) \/ AppearanceBegins(c)
      PROVE  FALSE
  <2>1. CASE UNCHANGED hosts
    BY <2>1
  <2>2. CASE Calls(c) /\ UsesHost(c, Head(todo[c]))
    <3>1. Head(todo[c]) \in Roots
      BY <2>2 DEF Calls, KindInv, TypeOK
    <3> QED
      BY <2>2, <3>1, <1>2
  <2>3. CASE UsesHost(c, Op[c].root)
    BY <2>3, <1>2, OpType
  <2> QED
    BY <1>3, <2>1, <2>2, <2>3 DEF Calls, AppearanceBegins
<1>4. ASSUME NEW c \in Callers, Saved(c)
      PROVE  FALSE
  <2>1. CASE IsAppearance(c)
    BY <1>4, <2>1 DEF Saved
  <2>2. CASE ~IsAppearance(c)
    <3>1. hosts' = [hosts EXCEPT ![Id[AddRoot(c)]] = at[c]] /\ at[c] # 0
      BY <1>4, <2>2 DEF Saved, HostInv, Saving
    <3> QED
      BY <3>1 DEF TypeOK
  <2> QED
    BY <2>1, <2>2
<1>5. CASE Close \/ Restart
  BY <1>5 DEF Close, Restart, TypeOK
<1>6. ASSUME UNCHANGED hosts PROVE FALSE
  BY <1>6
<1>7. ASSUME NEW c \in Callers, Advances(c) PROVE FALSE
  <2>1. CASE Calls(c) \/ AppearanceBegins(c) \/ Saved(c)
    BY <2>1, <1>3, <1>4
  <2>2. CASE ~(Calls(c) \/ AppearanceBegins(c) \/ Saved(c))
    BY <1>7, <2>2, <1>6 DEF Advances, Lists, Answered, CallFails, AddBegins, AddRefused,
         AddOpens, AddInitialised, InitialiseFails, Renames, SaveFails
  <2> QED
    BY <2>1, <2>2
<1> QED
  BY <1>1, <1>5, <1>6, <1>7 DEF Next, Starts, Ages, RetireAsks, BackendFinishes,
       SuspendAnswered, Done, vars

(* retireIdle never closes a backend that somebody waits on or that has work   *)
(* of its own, however the calls fall around its question.                     *)
THEOREM RetireIsSafe == Spec => RetireInterruptsNothing
<1>1. RegistryInv /\ [Next]_vars =>
        [\A i \in Ids : (hosts[i] # 0 /\ hosts'[i] = 0 /\ ~closed' /\ restarts' = restarts)
           => hosts[i] \notin busy /\ Idle(hosts[i])]_vars
  BY RetireStep
<1> QED
  BY <1>1, InvHolds, PTL DEF Spec, RetireInterruptsNothing

(* A backend stays in reach when the map keeps it and its add keeps it. *)
LEMMA ReachableFrame ==
  ASSUME NEW h, Reachable(h),
         h \in Range(hosts) => h \in Range(hosts'),
         \A d \in Callers : at[d] = h /\ pc[d] \in {"initialising", "saving", "renamed"} =>
           at'[d] = h /\ pc'[d] \in {"initialising", "saving", "renamed"}
  PROVE  Reachable(h)'
BY DEF Reachable

LEMMA LosesStep ==
  ASSUME RegistryInv, [Next]_vars, NEW h \in open \cap open', Reachable(h), ~Reachable(h)'
  PROVE  \E c \in Callers : /\ pc[c] = "renamed" /\ Id[AddRoot(c)] = Id[folder[h]]
                            /\ hosts[Id[folder[h]]] = h
<1> USE DEF RegistryInv
<1>1. h \in Hosts /\ h # 0
  BY OpAssumption DEF TypeOK, Hosts
<1>2. ASSUME NEW c \in Callers, UNCHANGED hosts,
             \A d \in Callers \ {c} : pc'[d] = pc[d] /\ at'[d] = at[d],
             \/ pc[c] \notin {"initialising", "saving", "renamed"}
             \/ at'[c] = at[c] /\ pc'[c] \in {"initialising", "saving", "renamed"}
             \/ at[c] # h
      PROVE  FALSE
  BY <1>2, ReachableFrame
<1>3. ASSUME NEW c \in Callers, NEW r \in Roots, UsesHost(c, r),
             pc[c] \in {"calling", "queued"}, pc' = [pc EXCEPT ![c] = "awaiting"]
      PROVE  FALSE
  <2>1. /\ \A j \in Ids \ {Id[r]} : hosts'[j] = hosts[j]
        /\ hosts'[Id[r]] \in 1..made => hosts' = hosts
        /\ hosts' \in [Ids -> 0..MaxHosts]
        /\ at' = [at EXCEPT ![c] = hosts'[Id[r]]]
    BY <1>3, UsesHostLemma
  <2>2. ASSUME NEW j \in Ids, hosts[j] = h PROVE hosts'[j] = h
    BY <2>1, <2>2, <1>1, <1>3 DEF UsesHost, TypeOK
  <2>3. h \in Range(hosts) => h \in Range(hosts')
    BY <2>1, <2>2 DEF Range, TypeOK
  <2>4. \A d \in Callers : at[d] = h /\ pc[d] \in {"initialising", "saving", "renamed"} =>
           at'[d] = h /\ pc'[d] \in {"initialising", "saving", "renamed"}
    BY <1>3, <2>1 DEF TypeOK
  <2> QED
    BY <2>3, <2>4, ReachableFrame
<1>4. ASSUME NEW c \in Callers, NEW result \in {"ok", "error"}, ActionEnds(c, result),
             UNCHANGED hosts, at' = at \/ at' = [at EXCEPT ![c] = 0],
             pc[c] \notin {"initialising", "saving", "renamed"} \/ at[c] # h
      PROVE  FALSE
  <2>1. \A d \in Callers \ {c} : pc'[d] = pc[d] /\ at'[d] = at[d]
    BY <1>4 DEF ActionEnds, TypeOK
  <2> QED
    BY <1>2, <1>4, <2>1
<1>5. ASSUME NEW c \in Callers, Starts(c) \/ Lists(c) \/ Answered(c) \/ Renames(c)
      PROVE  FALSE
  <2>1. UNCHANGED hosts /\ \A d \in Callers \ {c} : pc'[d] = pc[d] /\ at'[d] = at[d]
    BY <1>5 DEF Starts, Lists, Answered, Renames, TypeOK
  <2>2. \/ pc[c] \notin {"initialising", "saving", "renamed"}
        \/ at'[c] = at[c] /\ pc'[c] \in {"initialising", "saving", "renamed"}
    BY <1>5 DEF Starts, Lists, Answered, Renames, TypeOK
  <2> QED
    BY <2>1, <2>2, <1>2
<1>6. ASSUME NEW c \in Callers, Calls(c) \/ AppearanceBegins(c)
      PROVE  FALSE
  <2>1. CASE Calls(c) /\ closed
    BY <2>1, <1>2 DEF Calls, TypeOK
  <2>2. CASE Calls(c) /\ ~closed
    <3>1. Head(todo[c]) \in Roots
      BY <2>2 DEF Calls, KindInv, TypeOK
    <3> QED
      BY <2>2, <3>1, <1>3 DEF Calls
  <2>3. CASE AppearanceBegins(c)
    BY <2>3, <1>3, <1>4, OpType DEF AppearanceBegins
  <2> QED
    BY <1>6, <2>1, <2>2, <2>3
<1>7. ASSUME NEW c \in Callers, CallFails(c) \/ AddBegins(c) \/ AddRefused(c)
      PROVE  FALSE
  <2>1. CASE CallFails(c)
    BY <2>1, <1>2, <1>4 DEF CallFails, TypeOK
  <2>2. CASE AddBegins(c) \/ AddRefused(c)
    BY <2>2, <1>2, <1>4 DEF AddBegins, AddRefused, TypeOK
  <2> QED
    BY <1>7, <2>1, <2>2
<1>8. ASSUME NEW c \in Callers, AddOpens(c)
      PROVE  FALSE
  <2>1. pc[c] = "resolving" /\ UNCHANGED hosts
    BY <1>8 DEF AddOpens
  <2>2. \A d \in Callers \ {c} : pc'[d] = pc[d] /\ at'[d] = at[d]
    BY <1>8 DEF AddOpens, ActionEnds, TypeOK
  <2> QED
    BY <2>1, <2>2, <1>2
<1>9. ASSUME NEW c \in Callers, AddInitialised(c) \/ InitialiseFails(c) \/ SaveFails(c)
      PROVE  FALSE
  <2>1. CASE AddInitialised(c)
    <3>1. CASE at[c] = h
      BY <2>1, <3>1, <1>2 DEF AddInitialised, TypeOK
    <3>2. CASE at[c] # h
      BY <2>1, <3>2, <1>2, <1>4 DEF AddInitialised, TypeOK
    <3> QED
      BY <3>1, <3>2
  <2>2. CASE InitialiseFails(c)
    BY <2>2, <1>4 DEF InitialiseFails
  <2>3. CASE SaveFails(c)
    <3>1. at[c] # h
      BY <2>3, <1>1 DEF SaveFails, HostInv
    <3> QED
      BY <2>3, <3>1, <1>4 DEF SaveFails
  <2> QED
    BY <1>9, <2>1, <2>2, <2>3
<1>10. ASSUME NEW c \in Callers, Saved(c)
       PROVE  \E d \in Callers : /\ pc[d] = "renamed" /\ Id[AddRoot(d)] = Id[folder[h]]
                                 /\ hosts[Id[folder[h]]] = h
  <2>1. pc[c] = "renamed" /\ at' = [at EXCEPT ![c] = 0] /\ ActionEnds(c, "ok")
    BY <1>10 DEF Saved
  <2>2. CASE IsAppearance(c)
    <3>1. UNCHANGED hosts /\ at[c] # h
      BY <1>1, <1>10, <2>1, <2>2 DEF Saved, HostInv
    <3> QED
      BY <2>1, <3>1, <1>4
  <2>3. CASE ~IsAppearance(c)
    <3>1. hosts' = [hosts EXCEPT ![Id[AddRoot(c)]] = at[c]] /\ Id[AddRoot(c)] \in Ids
      BY <1>10, <2>3, OpType, IdType DEF Saved
    <3>2. hosts'[Id[AddRoot(c)]] = at[c] /\ DOMAIN hosts' = Ids
          /\ \A j \in Ids \ {Id[AddRoot(c)]} : hosts'[j] = hosts[j]
      BY <3>1 DEF TypeOK
    <3>3. at[c] # h
      BY <3>1, <3>2 DEF Reachable, Range
    <3>4. \A d \in Callers \ {c} : pc'[d] = pc[d] /\ at'[d] = at[d]
      BY <2>1 DEF ActionEnds, TypeOK
    <3>5. h \in Range(hosts) /\ h \notin Range(hosts')
      BY <3>3, <3>4, ReachableFrame DEF Reachable
    <3>6. PICK j \in Ids : hosts[j] = h
      BY <3>5 DEF Range, TypeOK
    <3>7. j = Id[AddRoot(c)]
      BY <3>2, <3>5, <3>6 DEF Range
    <3>8. Id[folder[h]] = j
      BY <1>1, <3>6 DEF HostInv
    <3> QED
      BY <2>1, <3>6, <3>7, <3>8
  <2> QED
    BY <2>2, <2>3
<1>11. ASSUME RetireDecides PROVE FALSE
  <2>1. UNCHANGED <<pc, at>>
    BY <1>11 DEF RetireDecides
  <2>2. CASE StillUnused
    <3>1. /\ open' = open \ {retire.host} /\ hosts' = [hosts EXCEPT ![retire.id] = 0]
          /\ hosts[retire.id] = retire.host
      BY <1>11, <2>2 DEF RetireDecides, StillUnused, RetireInv
    <3>2. h # retire.host
      BY <3>1
    <3>3. \A j \in Ids : hosts[j] = h => hosts'[j] = h
      BY <3>1, <3>2 DEF TypeOK
    <3>4. h \in Range(hosts) => h \in Range(hosts')
      BY <3>1, <3>3 DEF Range, TypeOK
    <3> QED
      BY <2>1, <3>4, ReachableFrame
  <2>3. CASE ~StillUnused
    BY <1>11, <2>1, <2>3, ReachableFrame DEF RetireDecides
  <2> QED
    BY <2>2, <2>3
<1>12. ASSUME Close PROVE FALSE
  BY <1>12, ReachableFrame DEF Close
<1>13. ASSUME Restart PROVE FALSE
  BY <1>13 DEF Restart
<1>14. ASSUME UNCHANGED <<hosts, pc, at>> PROVE FALSE
  BY <1>14, ReachableFrame
<1>15. CASE Next
  <2>1. CASE \E i \in Ids : Ages(i) \/ RetireAsks(i)
    BY <2>1, <1>14 DEF Ages, RetireAsks
  <2>2. CASE (\E g \in Hosts : BackendFinishes(g)) \/ SuspendAnswered \/ Done
    BY <2>2, <1>14 DEF BackendFinishes, SuspendAnswered, Done, vars
  <2> QED
    BY <1>15, <2>1, <2>2, <1>5, <1>6, <1>7, <1>8, <1>9, <1>10, <1>11, <1>12, <1>13
       DEF Next, Advances
<1> QED
  BY <1>14, <1>15 DEF vars

(* The registry loses sight of an open backend in one way only: an add puts   *)
(* its own backend into the map over one that host() has made meanwhile.      *)
THEOREM LossesAreOverlaps == Spec => LosesOnlyAtOverlap
<1>1. RegistryInv /\ [Next]_vars =>
        [\A h \in open \cap open' : (Reachable(h) /\ ~Reachable(h)')
           => \E c \in Callers : pc[c] = "renamed" /\ Id[AddRoot(c)] = Id[folder[h]]
                                 /\ hosts[Id[folder[h]]] = h]_vars
  BY LosesStep
<1> QED
  BY <1>1, InvHolds, PTL DEF Spec, LosesOnlyAtOverlap
=============================================================================
