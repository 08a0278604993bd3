------------------------ MODULE ProjectStoreProofs ------------------------
(***************************************************************************)
(* Proofs about ProjectStore, for any documents, paths and projects and any  *)
(* number of events and crashes.                                             *)
(*                                                                           *)
(* - Chats stay apart (StoreInv).  Every chat id has owners: the documents    *)
(*   that have had the path it is the hash of, or the one document of a       *)
(*   temporary id.  Whatever the store holds under an id, in files, buffers   *)
(*   or panels, is of its owners; every operation keeps it so after each of   *)
(*   its writes, hence also where a crash cuts it off.                        *)
(* - Nothing said is lost (KeptInv).  As long as nothing fails and no path    *)
(*   changes hands, every message said about a document is in the chat its    *)
(*   path resolves to, on disk or in its buffer, in the trash, or late.       *)
(* - Losses are moves (DiskInv).  An operation is a trail of disks; along it  *)
(*   no line leaves a file but into another, and torn lines are last ones.    *)
(* - Seqs stay distinct (WellNumbered).  The seqs of the lines of a chat, in    *)
(*   its file and in its buffer, are distinct and below its counter; along a   *)
(*   trail those of each file stay distinct, which is all a restart needs.     *)
(***************************************************************************)
EXTENDS ProjectStore, SequenceLemmas

-----------------------------------------------------------------------------
(* The files of chats *)

(* Sorting puts the elements in another order and does nothing else. *)
LEMMA SortAt ==
  ASSUME NEW M, \A r \in M : r.seq \in Nat, NEW s \in Seq(M)
  PROVE  /\ BySeq(s) \in Seq(M) /\ Len(BySeq(s)) = Len(s)
         /\ Range(BySeq(s)) = Range(s)
<1> DEFINE n == Len(s)
           D == DOMAIN s
           q == [i \in D |-> s[i].seq]
           Upto(i) == {j \in DOMAIN s : s[j].seq < s[i].seq \/ (s[j].seq = s[i].seq /\ j <= i)}
           R == [i \in D |-> Cardinality(Upto(i))]
           f == [j \in D |-> CHOOSE i \in D : Cardinality(Upto(i)) = j]
<1>1. n \in Nat /\ D = 1..n /\ \A i \in D : s[i] \in M /\ i \in Nat
  OBVIOUS
<1>2. q \in [D -> Nat]
  BY <1>1
<1>3. IsFiniteSet(D) /\ Cardinality(D) = n
  BY <1>1, FS_Interval
<1>4. BySeq(s) = [j \in D |-> s[f[j]]]
  BY DEF BySeq, Count
<1>0. \A i, j \in D : j \in Upto(i) <=> q[j] < q[i] \/ (q[j] = q[i] /\ j <= i)
  OBVIOUS
<1>14. \A i \in D : Upto(i) \in SUBSET D
  OBVIOUS
<1> HIDE DEF q, D, Upto
<1>5. ASSUME NEW i \in D PROVE IsFiniteSet(Upto(i)) /\ Cardinality(Upto(i)) \in 1..n
  <2>1. i \in Upto(i)
    BY <1>0, <1>1, <1>2
  <2>2. Upto(i) \in SUBSET D
    BY <1>14
  <2>3. IsFiniteSet(Upto(i)) /\ Cardinality(Upto(i)) <= n
    BY <1>3, <2>2, FS_Subset
  <2>4. Cardinality(Upto(i)) \in Nat /\ Cardinality(Upto(i)) # 0
    BY <2>1, <2>3, FS_CardinalityType, FS_EmptySet
  <2> QED
    BY <1>1, <2>3, <2>4
<1>6. ASSUME NEW i \in D, NEW j \in D, i # j PROVE Cardinality(Upto(i)) # Cardinality(Upto(j))
  <2> DEFINE Less(x, y) == q[x] < q[y] \/ (q[x] = q[y] /\ x < y)
  <2>1. ASSUME NEW x \in D, NEW y \in D, Less(x, y)
        PROVE  Cardinality(Upto(x)) # Cardinality(Upto(y))
    <3>1. Upto(x) \in SUBSET Upto(y) /\ y \in Upto(y) /\ y \notin Upto(x)
      <4>1. x \in Nat /\ y \in Nat /\ q[x] \in Nat /\ q[y] \in Nat
        BY <1>1, <1>2
      <4>2. ASSUME NEW z \in Upto(x) PROVE z \in Upto(y)
        <5>1. z \in D /\ z \in Nat /\ q[z] \in Nat /\ (q[z] < q[x] \/ (q[z] = q[x] /\ z <= x))
          BY <1>0, <1>1, <1>2, <1>14
        <5> QED
          BY <1>0, <2>1, <4>1, <5>1
      <4>3. y \notin Upto(x)
        BY <1>0, <2>1, <4>1
      <4>4. y \in Upto(y)
        BY <1>0, <4>1
      <4> QED
        BY <4>2, <4>3, <4>4
    <3>2. IsFiniteSet(Upto(y))
      BY <1>5
    <3> QED
      BY <3>1, <3>2, FS_Subset
  <2>2. Less(i, j) \/ Less(j, i)
    BY <1>1, <1>2, <1>6
  <2> HIDE DEF Less
  <2> QED
    BY <2>1, <2>2
<1>7. R \in Injection(D, 1..n)
  <2>1. R \in [D -> 1..n]
    BY <1>5
  <2>2. \A i, j \in D : R[i] = R[j] => i = j
    BY <1>6
  <2> HIDE DEF R
  <2> QED
    BY <2>1, <2>2 DEF Injection, IsInjective
<1>8. R \in Surjection(D, 1..n)
  <2> HIDE DEF R
  <2>1. IsFiniteSet(1..n) /\ Cardinality(1..n) = n
    BY <1>1, <1>3
  <2> QED
    BY <1>3, <1>7, <2>1, FS_Injection
<1>9. \A j \in D : \E i \in D : Cardinality(Upto(i)) = j
  BY <1>1, <1>8 DEF Surjection
<1>10. \A j \in D : f[j] \in D /\ Cardinality(Upto(f[j])) = j
  BY <1>9
<1>11. \A i \in D : \E j \in D : f[j] = i
  <2> SUFFICES ASSUME NEW i \in D PROVE \E j \in D : f[j] = i
    OBVIOUS
  <2>1. Cardinality(Upto(i)) \in D
    BY <1>1, <1>5
  <2>2. f[Cardinality(Upto(i))] = i
    BY <1>6, <1>10, <2>1
  <2> QED
    BY <2>1, <2>2
<1> HIDE DEF f, R
<1>12. BySeq(s) \in Seq(M) /\ Len(BySeq(s)) = n
  <2>1. \A j \in D : s[f[j]] \in M
    BY <1>1, <1>10
  <2> QED
    BY <1>1, <1>4, <2>1
<1>13. Range(BySeq(s)) = Range(s)
  <2>1. Range(BySeq(s)) = {s[f[j]] : j \in D}
    BY <1>4 DEF Range
  <2>2. Range(s) = {s[i] : i \in D}
    BY DEF Range, D
  <2> QED
    BY <1>10, <1>11, <2>1, <2>2
<1> QED
  BY <1>12, <1>13

LEMMA RecordsAt ==
  ASSUME NEW R, NEW file \in Seq(R \cup {Torn})
  PROVE  Records(file) \in Seq(R \ {Torn}) /\ Range(Records(file)) = Range(file) \ {Torn}
<1> DEFINE S == {i \in DOMAIN file : file[i] # Torn}
           k == Kept(file, S)
           n == Len(k)
<1>1. DOMAIN file = 1..Len(file) /\ \A i \in 1..Len(file) : file[i] \in R \cup {Torn}
  OBVIOUS
<1>2. S \in SUBSET (1..Len(file)) /\ \A i \in S : file[i] \in R \ {Torn}
  BY <1>1
<1>3. Range(file) \ {Torn} = {file[i] : i \in S}
  BY DEF Range
<1>4. Records(file) = k
  BY DEF Records
<1> HIDE DEF S
<1>5. k \in Seq(R \cup {Torn}) /\ \E f : Picks(f, k, file, S)
  BY <1>2, KeptPicks
<1> HIDE DEF k
<1>6. PICK f \in [1..n -> S] :
           /\ \A j \in 1..n : k[j] = file[f[j]]
           /\ \A x \in S : \E j \in 1..n : f[j] = x
  BY <1>5 DEF Picks
<1>7. \A j \in 1..n : k[j] \in R \ {Torn}
  BY <1>2, <1>6
<1>8. DOMAIN k = 1..n /\ n \in Nat
  BY <1>5
<1>9. k \in Seq(R \ {Torn})
  BY <1>5, <1>7, <1>8
<1>10. Range(k) = {file[i] : i \in S}
  <2>1. Range(k) = {file[f[j]] : j \in 1..n}
    BY <1>6, <1>8 DEF Range
  <2> QED
    BY <1>6, <2>1
<1> QED
  BY <1>3, <1>4, <1>9, <1>10

LEMMA MaxSeqType ==
  ASSUME NEW M, \A r \in M : r.seq \in Nat, NEW s \in Seq(M)
  PROVE  MaxSeq(s) \in Nat /\ \A r \in Range(s) : r.seq < MaxSeq(s)
<1> DEFINE S == {r.seq + 1 : r \in Range(s)} \cup {0}
           T == {r.seq + 1 : r \in Range(s)}
           D == 1..Len(s)
           f == [i \in D |-> s[i].seq + 1]
<1>1. Len(s) \in Nat /\ DOMAIN s = D /\ \A i \in D : s[i] \in M
  OBVIOUS
<1>2. T \in SUBSET Nat /\ S \in SUBSET Nat /\ S # {}
  BY <1>1 DEF Range
<1>3. f \in Surjection(D, T)
  BY <1>1 DEF Range, Surjection
<1>4. IsFiniteSet(D)
  BY <1>1, FS_Interval
<1>5. IsFiniteSet(T)
  <2> HIDE DEF f, T, D
  <2> QED
    BY <1>3, <1>4, FS_Surjection
<1>6. PICK n \in Nat : \A x \in T : x <= n
  <2> HIDE DEF T
  <2> QED
    BY <1>2, <1>5, FiniteBound
<1>7. \A x \in S : x <= n
  BY <1>6
<1>8. MaxSeq(s) = Max(S)
  BY DEF MaxSeq
<1>9. \A r \in Range(s) : r.seq + 1 \in S /\ r.seq \in Nat
  BY <1>1 DEF Range
<1> HIDE DEF S
<1>10. Max(S) \in S /\ \A x \in S : Max(S) >= x
  BY <1>2, <1>7, MaxLemma
<1>11. Max(S) \in Nat
  BY <1>2, <1>10
<1> QED
  BY <1>8, <1>9, <1>10, <1>11

LEMMA SeqSub ==
  ASSUME NEW S, NEW T, S \subseteq T
  PROVE  Seq(S) \subseteq Seq(T)
<1> SUFFICES ASSUME NEW s \in Seq(S) PROVE s \in Seq(T)
  OBVIOUS
<1>1. \A i \in 1..Len(s) : s[i] \in T
  OBVIOUS
<1>2. s = [i \in 1..Len(s) |-> s[i]] /\ Len(s) \in Nat
  OBVIOUS
<1> QED
  BY <1>1, <1>2

LEMMA AppendLinesType ==
  ASSUME NEW L, NEW file \in Seq(L), NEW lines \in Seq(L)
  PROVE  AppendLines(file, lines) \in Seq(L)
<1>1. CASE IsTorn(file) /\ lines # <<>>
  <2>1. file # <<>>
    BY <1>1 DEF IsTorn
  <2>2. Front(file) \in Seq(L)
    BY <2>1, FrontLemma
  <2>3. Tail(lines) \in Seq(L)
    BY <1>1, TailAt
  <2>4. Front(file) \o Tail(lines) \in Seq(L)
    BY <2>2, <2>3, CatAt
  <2> QED
    BY <1>1, <2>4 DEF AppendLines
<1>2. CASE ~(IsTorn(file) /\ lines # <<>>)
  <2>1. file \o lines \in Seq(L)
    BY CatAt
  <2> QED
    BY <1>2, <2>1 DEF AppendLines
<1> QED
  BY <1>1, <1>2

LEMMA PartialType ==
  ASSUME NEW L, Torn \in L, NEW file \in Seq(L), NEW lines \in Seq(L)
  PROVE  Partial(file, lines) \subseteq Seq(L)
<1> SUFFICES ASSUME NEW g \in Partial(file, lines) PROVE g \in Seq(L)
  OBVIOUS
<1> DEFINE got(i) == AppendLines(file, SubSeq(lines, 1, i))
<1>1. ASSUME NEW i \in 0..(Len(lines) - 1) PROVE got(i) \in Seq(L)
  <2>1. i \in 0..Len(lines)
    OBVIOUS
  <2>2. SubSeq(lines, 1, i) \in Seq(L)
    BY <2>1, CutAt
  <2> QED
    BY <2>2, AppendLinesType
<1>2. g = file \/ \E i \in 0..(Len(lines) - 1) : g = got(i) \/ g = Append(got(i), Torn)
  BY DEF Partial
<1> HIDE DEF got
<1>3. \A i \in 0..(Len(lines) - 1) : Append(got(i), Torn) \in Seq(L)
  BY <1>1, AppendAt
<1> QED
  BY <1>1, <1>2, <1>3

LEMMA RenumberedType ==
  ASSUME NEW D, NEW s \in Seq([msg : D, seq : Nat]), NEW from \in Nat
  PROVE  /\ Renumbered(s, from) \in Seq([msg : D, seq : Nat])
         /\ Len(Renumbered(s, from)) = Len(s)
         /\ \A i \in 1..Len(s) : Renumbered(s, from)[i].msg = s[i].msg
<1> DEFINE M == [msg : D, seq : Nat]
           q == Renumbered(s, from)
<1>1. Len(s) \in Nat /\ DOMAIN s = 1..Len(s) /\ \A i \in 1..Len(s) : s[i] \in M
  <2>1. s \in Seq(M)
    OBVIOUS
  <2> HIDE DEF M
  <2> QED
    BY <2>1
<1>2. q = [i \in 1..Len(s) |-> [s[i] EXCEPT !.seq = from + i - 1]]
  BY <1>1 DEF Renumbered
<1>3. ASSUME NEW i \in 1..Len(s)
      PROVE  [s[i] EXCEPT !.seq = from + i - 1] \in M /\ [s[i] EXCEPT !.seq = from + i - 1].msg = s[i].msg
  <2>1. from + i - 1 \in Nat
    BY <1>1
  <2>2. s[i] \in M
    BY <1>1
  <2> DEFINE n == from + i - 1
  <2> HIDE DEF n
  <2>3. [s[i] EXCEPT !.seq = n] \in M /\ [s[i] EXCEPT !.seq = n].msg = s[i].msg
    BY <2>1, <2>2 DEF n
  <2> QED
    BY <2>3 DEF n
<1> HIDE DEF q
<1>4. \A i \in 1..Len(s) : q[i] \in M /\ q[i].msg = s[i].msg
  BY <1>2, <1>3
<1>5. q \in Seq(M) /\ Len(q) = Len(s)
  BY <1>1, <1>2, <1>4
<1> QED
  BY <1>4, <1>5 DEF q

-----------------------------------------------------------------------------
(* Maps that grow and shrink *)

Maps(S, T) == UNION {[D -> T] : D \in SUBSET S}

LEMMA MapIs ==
  ASSUME NEW S, NEW T, NEW f
  PROVE  f \in Maps(S, T) <=>
           /\ DOMAIN f \subseteq S /\ f = [x \in DOMAIN f |-> f[x]]
           /\ \A x \in DOMAIN f : f[x] \in T
BY DEF Maps

LEMMA PutMap ==
  \A S, T : \A f \in Maps(S, T), k \in S, v \in T : Put(f, k, v) \in Maps(S, T)
<1> TAKE S, T
<1> TAKE f \in Maps(S, T), k \in S, v \in T
<1>1. DOMAIN f \subseteq S /\ \A x \in DOMAIN f : f[x] \in T
  BY MapIs
<1> QED
  BY <1>1, MapIs DEF Put

LEMMA RestrictMap ==
  ASSUME NEW S, NEW T, NEW f \in Maps(S, T), NEW D \in SUBSET DOMAIN f
  PROVE  /\ Restrict(f, D) \in Maps(S, T) /\ DOMAIN Restrict(f, D) = D
         /\ \A x \in D : Restrict(f, D)[x] = f[x]
<1>1. DOMAIN f \subseteq S /\ \A x \in DOMAIN f : f[x] \in T
  BY MapIs
<1> QED
  BY <1>1, MapIs DEF Restrict

LEMMA DropMap ==
  \A S, T, k : \A f \in Maps(S, T) : Drop(f, k) \in Maps(S, T)
<1> TAKE S, T, k
<1> TAKE f \in Maps(S, T)
<1>1. DOMAIN f \ {k} \in SUBSET DOMAIN f
  OBVIOUS
<1> QED
  BY <1>1, RestrictMap DEF Drop

LEMMA DropAt ==
  ASSUME NEW f, NEW k
  PROVE  DOMAIN Drop(f, k) = DOMAIN f \ {k} /\ \A x \in DOMAIN f \ {k} : Drop(f, k)[x] = f[x]
BY DEF Drop, Restrict

LEMMA GetMap ==
  ASSUME NEW S, NEW T, NEW f \in Maps(S, T), NEW k, NEW other \in T
  PROVE  Get(f, k, other) \in T
BY MapIs DEF Get

LEMMA EmptyMap ==
  ASSUME NEW S, NEW T
  PROVE  Empty \in Maps(S, T) /\ DOMAIN Empty = {}
<1>1. DOMAIN Empty = {} /\ Empty = [x \in DOMAIN Empty |-> Empty[x]]
  BY DEF Empty
<1> QED
  BY <1>1, MapIs

-----------------------------------------------------------------------------
(* Disks, and the trails of disks a call leaves *)

Hashes == {HashOf(f) : f \in Paths}
ChatIds == Hashes \cup {TempOf(d) : d \in Docs}
Keys == Projects \X ChatIds
RecordsOf(D) == [msg : D \X Nat, seq : Nat]
LinesOf(D) == RecordsOf(D) \cup {Torn}

ProjectSets == SUBSET Projects
FileMaps == Maps(Paths, Projects)
IdMaps == Maps(Paths, Hashes)
FileLists == Maps(Projects, SUBSET Paths)
ChatMaps == Maps(Keys, Seq(LinesOf(Docs)))
Trashes == Maps(Projects, SUBSET LinesOf(Docs))
Disks == [projects : ProjectSets, fileMap : FileMaps, chatIdByPath : IdMaps,
          files : FileLists, chats : ChatMaps, trash : Trashes]

WithIndex(d, ps, fm, ci) == [d EXCEPT !.projects = ps, !.fileMap = fm, !.chatIdByPath = ci]
WithFiles(d, fs) == [d EXCEPT !.files = fs]
WithChats(d, cs) == [d EXCEPT !.chats = cs]

LEMMA DiskFields ==
  ASSUME NEW d \in Disks
  PROVE  /\ d.projects \in ProjectSets /\ d.fileMap \in FileMaps /\ d.chatIdByPath \in IdMaps
         /\ d.files \in FileLists /\ d.chats \in ChatMaps /\ d.trash \in Trashes
BY DEF Disks

LEMMA WithIndexIs ==
  ASSUME NEW d \in Disks, NEW ps \in ProjectSets, NEW fm \in FileMaps, NEW ci \in IdMaps
  PROVE  LET e == WithIndex(d, ps, fm, ci)
         IN  /\ e \in Disks /\ e.projects = ps /\ e.fileMap = fm /\ e.chatIdByPath = ci
             /\ e.files = d.files /\ e.chats = d.chats /\ e.trash = d.trash
<1> DEFINE d1 == [d EXCEPT !.projects = ps]
           d2 == [d1 EXCEPT !.fileMap = fm]
           e == [d2 EXCEPT !.chatIdByPath = ci]
<1>1. WithIndex(d, ps, fm, ci) = e
  BY DEF WithIndex
<1>2. /\ d1 \in Disks /\ d1.projects = ps
      /\ d1.files = d.files /\ d1.chats = d.chats /\ d1.trash = d.trash
  BY DEF Disks
<1> HIDE DEF d1
<1>3. /\ d2 \in Disks /\ d2.projects = ps /\ d2.fileMap = fm
      /\ d2.files = d.files /\ d2.chats = d.chats /\ d2.trash = d.trash
  BY <1>2 DEF Disks
<1> HIDE DEF d2
<1>4. /\ e \in Disks /\ e.projects = ps /\ e.fileMap = fm /\ e.chatIdByPath = ci
      /\ e.files = d.files /\ e.chats = d.chats /\ e.trash = d.trash
  BY <1>3 DEF Disks
<1> HIDE DEF e
<1> QED
  BY <1>1, <1>4

LEMMA WithFilesIs ==
  ASSUME NEW d \in Disks, NEW fs \in FileLists
  PROVE  LET e == WithFiles(d, fs)
         IN  /\ e \in Disks /\ e.files = fs /\ e.projects = d.projects /\ e.fileMap = d.fileMap
             /\ e.chatIdByPath = d.chatIdByPath /\ e.chats = d.chats /\ e.trash = d.trash
BY DEF WithFiles, Disks

LEMMA WithChatsIs ==
  ASSUME NEW d \in Disks, NEW cs \in ChatMaps
  PROVE  LET e == WithChats(d, cs)
         IN  /\ e \in Disks /\ e.chats = cs /\ e.projects = d.projects /\ e.fileMap = d.fileMap
             /\ e.chatIdByPath = d.chatIdByPath /\ e.files = d.files /\ e.trash = d.trash
BY DEF WithChats, Disks

TrailIn(G, t) == t \in Seq(G) /\ t # <<>>

LEMMA TrailFacts ==
  ASSUME NEW G, NEW t, TrailIn(G, t)
  PROVE  /\ Now(t) \in G /\ \A i \in 1..Len(t) : t[i] \in G
         /\ \A x \in G : TrailIn(G, Append(t, x)) /\ Now(Append(t, x)) = x
<1>1. t \in Seq(G) /\ Len(t) \in Nat \ {0}
  BY EmptySeq DEF TrailIn
<1>2. t[Len(t)] \in G
  BY <1>1
<1>3. ASSUME NEW x \in G PROVE TrailIn(G, Append(t, x)) /\ Now(Append(t, x)) = x
  <2>1. /\ Append(t, x) \in Seq(G) /\ Append(t, x) # <<>> /\ Len(Append(t, x)) = Len(t) + 1
        /\ Append(t, x)[Len(t) + 1] = x
    BY <1>1, AppendAt
  <2> QED
    BY <2>1 DEF TrailIn, Now, Last
<1> QED
  BY <1>1, <1>2, <1>3 DEF Now, Last

LEMMA TrailStarts ==
  ASSUME NEW G, NEW d \in G
  PROVE  TrailIn(G, <<d>>) /\ Now(<<d>>) = d
BY DEF TrailIn, Now, Last

LEMMA WritesAre ==
  /\ \A t, ps, fm, ci : writeIndex(t, ps, fm, ci) = Append(t, WithIndex(Now(t), ps, fm, ci))
  /\ \A t, p, fs : writeProject(t, p, fs) = Append(t, WithFiles(Now(t), Put(Now(t).files, p, fs)))
  /\ \A t, k, lines : writeChat(t, k, lines) = Append(t, WithChats(Now(t), Put(Now(t).chats, k, lines)))
  /\ \A t, k : Unlink(t, k) = Append(t, WithChats(Now(t), Drop(Now(t).chats, k)))
  /\ \A t, from, to :
       RenameChat(t, from, to) =
         Append(t, WithChats(Now(t), Drop(Put(Now(t).chats, to, Now(t).chats[from]), from)))
BY DEF writeIndex, writeProject, writeChat, Unlink, RenameChat, WithIndex, WithFiles, WithChats

LEMMA CatRange ==
  ASSUME NEW S, NEW q \in Seq(S), NEW r \in Seq(S)
  PROVE  q \o r \in Seq(S) /\ Range(q \o r) = Range(q) \cup Range(r)
<1> DEFINE n == Len(q)
           m == Len(r)
           c == q \o r
<1>1. /\ c \in Seq(S) /\ n \in Nat /\ m \in Nat /\ Len(c) = n + m
      /\ \A i \in 1..n : c[i] = q[i]
      /\ \A i \in 1..m : c[n + i] = r[i]
  BY CatAt
<1>2. DOMAIN q = 1..n /\ DOMAIN r = 1..m
  OBVIOUS
<1> HIDE DEF n, m, c
<1>3. DOMAIN c = 1..(n + m)
  BY <1>1
<1>4. \A j \in 1..(n + m) : j \in 1..n \/ \E i \in 1..m : j = n + i
  <2> SUFFICES ASSUME NEW j \in 1..(n + m), j \notin 1..n PROVE \E i \in 1..m : j = n + i
    OBVIOUS
  <2>1. j - n \in 1..m /\ j = n + (j - n)
    BY <1>1
  <2> QED
    BY <2>1
<1>5. \A i \in 1..m : n + i \in 1..(n + m)
  BY <1>1
<1>6. \A i \in 1..n : i \in 1..(n + m)
  BY <1>1
<1>7. Range(c) \subseteq Range(q) \cup Range(r)
  <2> SUFFICES ASSUME NEW j \in 1..(n + m) PROVE c[j] \in Range(q) \cup Range(r)
    BY <1>3 DEF Range
  <2>1. CASE j \in 1..n
    BY <1>1, <1>2, <2>1 DEF Range
  <2>2. ASSUME NEW i \in 1..m, j = n + i PROVE c[j] \in Range(r)
    BY <1>1, <1>2, <2>2 DEF Range
  <2> QED
    BY <1>4, <2>1, <2>2
<1>8. Range(q) \cup Range(r) \subseteq Range(c)
  BY <1>1, <1>2, <1>3, <1>5, <1>6 DEF Range
<1> QED
  BY <1>1, <1>7, <1>8 DEF c

-----------------------------------------------------------------------------
(* Whose chat it is.  The chat of a path belongs to the documents that were     *)
(* ever saved there, a temporary one to the document it was made for.  A file    *)
(* or a buffer of a chat holds messages of its owners only, and the id that the  *)
(* index gives for a path is the hash of a path that has had one of the same     *)
(* documents.                                                                   *)
Owners(hd, c) ==
  {d \in Docs : c = TempOf(d) \/ \E f \in Paths : c = HashOf(f) /\ d \in hd[f]}
OwnChatMap(hd, cs) == \A k \in DOMAIN cs : cs[k] \in Seq(LinesOf(Owners(hd, k[2])))
OwnIdMap(hd, ci) ==
  \A f \in DOMAIN ci : \E g \in Paths : ci[f] = HashOf(g) /\ hd[f] \cap hd[g] # {}
GoodDisks(hd) == {d \in Disks : OwnChatMap(hd, d.chats) /\ OwnIdMap(hd, d.chatIdByPath)}
Buffers == Maps(Keys, Seq(RecordsOf(Docs)))
OwnBuffer(hd, buf) == \A k \in DOMAIN buf : buf[k] \in Seq(RecordsOf(Owners(hd, k[2])))

LEMMA LinesGrow ==
  ASSUME NEW C, NEW D, C \subseteq D
  PROVE  /\ Seq(RecordsOf(C)) \subseteq Seq(RecordsOf(D)) /\ Seq(LinesOf(C)) \subseteq Seq(LinesOf(D))
         /\ Seq(RecordsOf(C)) \subseteq Seq(LinesOf(D))
<1>1. RecordsOf(C) \subseteq RecordsOf(D)
  BY DEF RecordsOf
<1>2. LinesOf(C) \subseteq LinesOf(D) /\ RecordsOf(C) \subseteq LinesOf(D)
  BY <1>1 DEF LinesOf
<1> QED
  BY <1>1, <1>2, SeqSub

LEMMA OwnersAreDocs ==
  ASSUME NEW hd, NEW c
  PROVE  /\ Owners(hd, c) \subseteq Docs
         /\ Seq(LinesOf(Owners(hd, c))) \subseteq Seq(LinesOf(Docs))
         /\ Seq(RecordsOf(Owners(hd, c))) \subseteq Seq(RecordsOf(Docs))
         /\ Seq(RecordsOf(Owners(hd, c))) \subseteq Seq(LinesOf(Owners(hd, c)))
<1>1. Owners(hd, c) \subseteq Docs
  BY DEF Owners
<1> QED
  BY <1>1, LinesGrow

(* What is read of a chat is what its owners said. *)
LEMMA LoadChatType ==
  ASSUME NEW hd, NEW d \in GoodDisks(hd), NEW buf, OwnBuffer(hd, buf), NEW k
  PROVE  /\ loadChat(d, buf, k) \in Seq(RecordsOf(Owners(hd, k[2])))
         /\ Range(loadChat(d, buf, k)) =
              Range(Get(buf, k, <<>>)) \cup (Range(Get(d.chats, k, <<>>)) \ {Torn})
         /\ MaxSeq(loadChat(d, buf, k)) \in Nat
<1> DEFINE R == RecordsOf(Owners(hd, k[2]))
           b == Get(buf, k, <<>>)
           file == Get(d.chats, k, <<>>)
           r == Records(file)
<1>1. b \in Seq(R)
  <2>1. CASE k \in DOMAIN buf
    BY <2>1 DEF Get, OwnBuffer
  <2>2. CASE k \notin DOMAIN buf
    BY <2>2 DEF Get
  <2> QED
    BY <2>1, <2>2
<1>2. file \in Seq(R \cup {Torn})
  <2>1. CASE k \in DOMAIN d.chats
    BY <2>1 DEF Get, GoodDisks, OwnChatMap, LinesOf
  <2>2. CASE k \notin DOMAIN d.chats
    BY <2>2 DEF Get
  <2> QED
    BY <2>1, <2>2
<1>3. \A x \in R : x.seq \in Nat
  BY DEF RecordsOf
<1>4. loadChat(d, buf, k) = BySeq(b \o r)
  BY DEF loadChat
<1> HIDE DEF R, b, file
<1>5. r \in Seq(R \ {Torn}) /\ Range(r) = Range(file) \ {Torn}
  BY <1>2, RecordsAt
<1> HIDE DEF r
<1>6. r \in Seq(R)
  BY <1>5, SeqSub
<1>7. b \o r \in Seq(R) /\ Range(b \o r) = Range(b) \cup Range(r)
  BY <1>1, <1>6, CatRange
<1>8. /\ BySeq(b \o r) \in Seq(R) /\ Range(BySeq(b \o r)) = Range(b \o r)
  BY <1>3, <1>7, SortAt
<1>9. MaxSeq(BySeq(b \o r)) \in Nat
  BY <1>3, <1>8, MaxSeqType
<1> QED
  BY <1>4, <1>5, <1>7, <1>8, <1>9 DEF R, b, file

LEMMA WriteIndexGood ==
  ASSUME NEW hd, NEW t, TrailIn(GoodDisks(hd), t), NEW ps \in ProjectSets, NEW fm \in FileMaps,
         NEW ci \in IdMaps, OwnIdMap(hd, ci)
  PROVE  LET u == writeIndex(t, ps, fm, ci)
             d == Now(u)
         IN  /\ TrailIn(GoodDisks(hd), u) /\ d.projects = ps /\ d.fileMap = fm /\ d.chatIdByPath = ci
             /\ d.files = Now(t).files /\ d.chats = Now(t).chats /\ d.trash = Now(t).trash
<1> DEFINE x == WithIndex(Now(t), ps, fm, ci)
<1>1. Now(t) \in GoodDisks(hd) /\ Now(t) \in Disks
  BY TrailFacts DEF GoodDisks
<1>2. /\ x \in Disks /\ x.projects = ps /\ x.fileMap = fm /\ x.chatIdByPath = ci
      /\ x.files = Now(t).files /\ x.chats = Now(t).chats /\ x.trash = Now(t).trash
  BY <1>1, WithIndexIs
<1> HIDE DEF x
<1>3. x \in GoodDisks(hd)
  BY <1>1, <1>2 DEF GoodDisks
<1>4. writeIndex(t, ps, fm, ci) = Append(t, x)
  BY WritesAre DEF x
<1>5. TrailIn(GoodDisks(hd), Append(t, x)) /\ Now(Append(t, x)) = x
  BY <1>3, TrailFacts
<1> QED
  BY <1>2, <1>4, <1>5

LEMMA WriteProjectGood ==
  ASSUME NEW hd, NEW t, TrailIn(GoodDisks(hd), t), NEW p \in Projects, NEW fs \in SUBSET Paths
  PROVE  LET u == writeProject(t, p, fs)
             d == Now(u)
         IN  /\ TrailIn(GoodDisks(hd), u) /\ DOMAIN d.files = DOMAIN Now(t).files \cup {p}
             /\ d.projects = Now(t).projects /\ d.fileMap = Now(t).fileMap
             /\ d.chatIdByPath = Now(t).chatIdByPath
             /\ d.chats = Now(t).chats /\ d.trash = Now(t).trash
<1> DEFINE q == Put(Now(t).files, p, fs)
           x == WithFiles(Now(t), q)
<1>1. Now(t) \in GoodDisks(hd) /\ Now(t) \in Disks
  BY TrailFacts DEF GoodDisks
<1>2. Now(t).files \in Maps(Projects, SUBSET Paths)
  BY <1>1, DiskFields DEF FileLists
<1> DEFINE T == SUBSET Paths
           f == Now(t).files
<1>3. q \in FileLists /\ DOMAIN q = DOMAIN Now(t).files \cup {p}
  <2>1. f \in Maps(Projects, T) /\ fs \in T
    BY <1>2
  <2>3. q = Put(f, p, fs)
    OBVIOUS
  <2> HIDE DEF T, f, q
  <2>4. q \in Maps(Projects, T) 
    BY <2>1, <2>3, PutMap
  <2>5. DOMAIN q = DOMAIN f \cup {p}
    BY <2>3 DEF Put
  <2> QED
    BY <2>4, <2>5 DEF T, f, FileLists
<1>5. writeProject(t, p, fs) = Append(t, x)
  BY WritesAre
<1> HIDE DEF q
<1>6. /\ x \in Disks /\ x.files = q /\ x.projects = Now(t).projects /\ x.fileMap = Now(t).fileMap
      /\ x.chatIdByPath = Now(t).chatIdByPath /\ x.chats = Now(t).chats /\ x.trash = Now(t).trash
  BY <1>1, <1>3, WithFilesIs
<1> HIDE DEF x
<1>7. x \in GoodDisks(hd)
  BY <1>1, <1>6 DEF GoodDisks
<1>8. TrailIn(GoodDisks(hd), Append(t, x)) /\ Now(Append(t, x)) = x
  BY <1>7, TrailFacts
<1> QED
  BY <1>3, <1>5, <1>6, <1>8

(* Any change of the chats that keeps them with their owners. *)
LEMMA ChatsGood ==
  ASSUME NEW hd, NEW t, TrailIn(GoodDisks(hd), t), NEW cs \in ChatMaps, OwnChatMap(hd, cs)
  PROVE  LET u == Append(t, WithChats(Now(t), cs))
             d == Now(u)
         IN  /\ TrailIn(GoodDisks(hd), u) /\ d.chats = cs /\ d.files = Now(t).files
             /\ d.projects = Now(t).projects /\ d.fileMap = Now(t).fileMap
             /\ d.chatIdByPath = Now(t).chatIdByPath /\ d.trash = Now(t).trash
<1> DEFINE x == WithChats(Now(t), cs)
<1>1. Now(t) \in GoodDisks(hd) /\ Now(t) \in Disks
  BY TrailFacts DEF GoodDisks
<1>2. /\ x \in Disks /\ x.chats = cs /\ x.projects = Now(t).projects /\ x.fileMap = Now(t).fileMap
      /\ x.chatIdByPath = Now(t).chatIdByPath /\ x.files = Now(t).files /\ x.trash = Now(t).trash
  BY <1>1, WithChatsIs
<1> HIDE DEF x
<1>3. x \in GoodDisks(hd)
  BY <1>1, <1>2 DEF GoodDisks
<1>4. TrailIn(GoodDisks(hd), Append(t, x)) /\ Now(Append(t, x)) = x
  BY <1>3, TrailFacts
<1>5. WithChats(Now(t), cs) = x
  BY DEF x
<1> QED
  BY <1>2, <1>4, <1>5

LEMMA IdsDistinct ==
  /\ \A f, g : HashOf(f) = HashOf(g) => f = g
  /\ \A d, e : TempOf(d) = TempOf(e) => d = e
  /\ \A f, d : HashOf(f) # TempOf(d)
BY DEF HashOf, TempOf

(* Two disks that answer the same: the chats, the trash and the ids of every   *)
(* path are the same, the maps may hold the paths F more.                       *)
SameAnswers(d, e, F) ==
  /\ e.chats = d.chats /\ e.trash = d.trash
  /\ \A x : Get(e.fileMap, x, Default) = Get(d.fileMap, x, Default)
  /\ \A x : chatIdForPath(e, x) = chatIdForPath(d, x)
  /\ DOMAIN e.fileMap \subseteq DOMAIN d.fileMap \cup F
  /\ DOMAIN e.files \subseteq DOMAIN d.files \cup {Default}

LEMMA SameTwice ==
  ASSUME NEW c, NEW d, NEW e, NEW F, SameAnswers(c, d, F), SameAnswers(d, e, F)
  PROVE  SameAnswers(c, e, F)
BY DEF SameAnswers

LEMMA SameFields ==
  ASSUME NEW d, NEW e, NEW F, e.chats = d.chats, e.trash = d.trash, e.fileMap = d.fileMap,
         e.chatIdByPath = d.chatIdByPath, DOMAIN e.files \subseteq DOMAIN d.files \cup {Default}
  PROVE  SameAnswers(d, e, F)
BY DEF SameAnswers, chatIdForPath

LEMMA EnsureDefaultGood ==
  ASSUME NEW hd, NEW t, TrailIn(GoodDisks(hd), t)
  PROVE  LET u == ensureDefaultProject(t)
             d == Now(u)
         IN  /\ TrailIn(GoodDisks(hd), u) /\ Default \in DOMAIN d.files
             /\ DOMAIN d.files \subseteq DOMAIN Now(t).files \cup {Default}
             /\ d.fileMap = Now(t).fileMap /\ d.chatIdByPath = Now(t).chatIdByPath
             /\ d.chats = Now(t).chats /\ d.trash = Now(t).trash
<1> DEFINE d == Now(t)
           made == writeProject(t, Default, {})
           full == writeIndex(made, d.projects \cup {Default}, d.fileMap, d.chatIdByPath)
           Goal(u) == /\ TrailIn(GoodDisks(hd), u) /\ Default \in DOMAIN Now(u).files
                      /\ DOMAIN Now(u).files \subseteq DOMAIN d.files \cup {Default}
                      /\ Now(u).fileMap = d.fileMap /\ Now(u).trash = d.trash
                      /\ Now(u).chatIdByPath = d.chatIdByPath /\ Now(u).chats = d.chats
<1>1. d \in GoodDisks(hd)
  BY TrailFacts
<1>2. d \in Disks /\ OwnIdMap(hd, d.chatIdByPath)
  BY <1>1 DEF GoodDisks
<1>3. Default \in Projects /\ {} \in SUBSET Paths
  BY DEF Projects
<1>4. /\ TrailIn(GoodDisks(hd), made) /\ DOMAIN Now(made).files = DOMAIN d.files \cup {Default}
      /\ Now(made).fileMap = d.fileMap /\ Now(made).chatIdByPath = d.chatIdByPath
      /\ Now(made).chats = d.chats /\ Now(made).trash = d.trash
  BY <1>3, WriteProjectGood
<1>5. /\ d.projects \cup {Default} \in ProjectSets /\ d.fileMap \in FileMaps
      /\ d.chatIdByPath \in IdMaps
  BY <1>2, <1>3, DiskFields DEF ProjectSets
<1>6. ensureDefaultProject(t) =
        IF Default \in DOMAIN d.files THEN t ELSE IF Default \in d.projects THEN made ELSE full
  BY DEF ensureDefaultProject
<1> HIDE DEF made, d
<1>7. /\ TrailIn(GoodDisks(hd), full) /\ Now(full).fileMap = d.fileMap
      /\ Now(full).chatIdByPath = d.chatIdByPath /\ Now(full).trash = Now(made).trash
      /\ Now(full).files = Now(made).files /\ Now(full).chats = Now(made).chats
  BY <1>2, <1>4, <1>5, WriteIndexGood
<1> HIDE DEF full
<1>8. Goal(made) /\ Goal(full)
  BY <1>4, <1>7
<1>9. Default \in DOMAIN d.files => Goal(t)
  BY DEF d
<1> HIDE DEF Goal
<1>10. Goal(ensureDefaultProject(t))
  BY <1>6, <1>8, <1>9
<1> QED
  BY <1>10 DEF Goal, d

LEMMA ResolveProjectGood ==
  ASSUME NEW hd, NEW t, TrailIn(GoodDisks(hd), t), NEW f \in Paths
  PROVE  LET u == resolveProjectForFile(t, f)
         IN  TrailIn(GoodDisks(hd), u) /\ SameAnswers(Now(t), Now(u), {f})
<1> DEFINE e == ensureDefaultProject(t)
           d == Now(e)
           mapped == writeIndex(e, d.projects, Put(d.fileMap, f, Default), d.chatIdByPath)
           full == writeProject(mapped, Default, d.files[Default] \cup {f})
           Goal(u) == TrailIn(GoodDisks(hd), u) /\ SameAnswers(d, Now(u), {f})
<1>1. /\ TrailIn(GoodDisks(hd), e) /\ Default \in DOMAIN d.files
      /\ SameAnswers(Now(t), d, {f})
  <2> HIDE DEF d, e
  <2>1. /\ TrailIn(GoodDisks(hd), e) /\ Default \in DOMAIN d.files
        /\ DOMAIN d.files \subseteq DOMAIN Now(t).files \cup {Default}
        /\ d.fileMap = Now(t).fileMap /\ d.chatIdByPath = Now(t).chatIdByPath
        /\ d.chats = Now(t).chats /\ d.trash = Now(t).trash
    BY EnsureDefaultGood DEF d, e
  <2> QED
    BY <2>1, SameFields
<1>2. resolveProjectForFile(t, f) =
        IF f \in DOMAIN d.fileMap THEN e ELSE IF f \in d.files[Default] THEN mapped ELSE full
  BY DEF resolveProjectForFile
<1>3. Goal(e)
  <2>1. SameAnswers(d, d, {f})
    BY SameFields
  <2> QED
    BY <1>1, <2>1
<1> HIDE DEF e
<1>4. d \in Disks /\ OwnIdMap(hd, d.chatIdByPath)
  BY <1>1, TrailFacts DEF GoodDisks
<1>5. Default \in Projects
  BY DEF Projects
<1>6. d.projects \in ProjectSets /\ d.fileMap \in FileMaps /\ d.chatIdByPath \in IdMaps /\ d.files \in FileLists
  BY <1>4, DiskFields
<1> DEFINE fm == Put(d.fileMap, f, Default)
           fs == d.files[Default] \cup {f}
<1>7. fm \in FileMaps
  BY <1>5, <1>6, PutMap DEF FileMaps
<1>8. fs \in SUBSET Paths
  <2>1. d.files[Default] \in SUBSET Paths
    BY <1>1, <1>6, MapIs DEF FileLists
  <2> QED
    BY <2>1
<1>13. DOMAIN fm = DOMAIN d.fileMap \cup {f} /\ fm[f] = Default
       /\ \A x \in DOMAIN d.fileMap \ {f} : fm[x] = d.fileMap[x]
  <2> DEFINE old == d.fileMap
  <2> HIDE DEF old
  <2>1. DOMAIN Put(old, f, Default) = DOMAIN old \cup {f} /\ Put(old, f, Default)[f] = Default
        /\ \A x \in DOMAIN old \ {f} : Put(old, f, Default)[x] = old[x]
    BY DEF Put
  <2> QED
    BY <2>1 DEF old
<1> HIDE DEF fm, fs, d
<1>14. f \notin DOMAIN d.fileMap => \A x : Get(fm, x, Default) = Get(d.fileMap, x, Default)
  BY <1>13 DEF Get
<1>9. /\ TrailIn(GoodDisks(hd), mapped) /\ Now(mapped).chatIdByPath = d.chatIdByPath
      /\ Now(mapped).fileMap = fm /\ Now(mapped).files = d.files
      /\ Now(mapped).chats = d.chats /\ Now(mapped).trash = d.trash
  <2>1. writeIndex(e, d.projects, fm, d.chatIdByPath) = mapped
    BY DEF fm
  <2> HIDE DEF mapped
  <2>3. LET u == writeIndex(e, d.projects, fm, d.chatIdByPath)
        IN  /\ TrailIn(GoodDisks(hd), u) /\ Now(u).chatIdByPath = d.chatIdByPath
            /\ Now(u).fileMap = fm /\ Now(u).files = Now(e).files
            /\ Now(u).chats = Now(e).chats /\ Now(u).trash = Now(e).trash
    BY <1>1, <1>4, <1>6, <1>7, WriteIndexGood
  <2> QED
    BY <2>1, <2>3 DEF d
<1> HIDE DEF mapped
<1>10. /\ TrailIn(GoodDisks(hd), full) /\ Now(full).chatIdByPath = Now(mapped).chatIdByPath
       /\ Now(full).fileMap = Now(mapped).fileMap
       /\ DOMAIN Now(full).files = DOMAIN Now(mapped).files \cup {Default}
       /\ Now(full).chats = Now(mapped).chats /\ Now(full).trash = Now(mapped).trash
  <2>1. full = writeProject(mapped, Default, fs)
    BY DEF fs
  <2> HIDE DEF full
  <2> QED
    BY <1>5, <1>8, <1>9, <2>1, WriteProjectGood
<1> HIDE DEF full
<1>11. f \notin DOMAIN d.fileMap => Goal(mapped) /\ Goal(full)
  BY <1>9, <1>10, <1>13, <1>14 DEF SameAnswers, chatIdForPath
<1> HIDE DEF Goal
<1>12. Goal(resolveProjectForFile(t, f))
  BY <1>2, <1>3, <1>11
<1>15. SameAnswers(d, Now(resolveProjectForFile(t, f)), {f})
  BY <1>12 DEF Goal
<1>16. SameAnswers(Now(t), Now(resolveProjectForFile(t, f)), {f})
  BY <1>1, <1>15, SameTwice
<1> QED
  BY <1>12, <1>16 DEF Goal

LEMMA ResolveChatGood ==
  ASSUME NEW hd, NEW t, TrailIn(GoodDisks(hd), t), NEW f \in Paths, hd[f] # {}
  PROVE  LET u == resolveChatForFile(t, f)
         IN  TrailIn(GoodDisks(hd), u) /\ SameAnswers(Now(t), Now(u), {f})
<1> DEFINE e == resolveProjectForFile(t, f)
           d == Now(e)
           ci == Put(d.chatIdByPath, f, HashOf(f))
           full == writeIndex(e, d.projects, d.fileMap, ci)
<1>1. TrailIn(GoodDisks(hd), e) /\ SameAnswers(Now(t), d, {f})
  BY ResolveProjectGood
<1>2. resolveChatForFile(t, f) = IF f \in DOMAIN d.chatIdByPath THEN e ELSE full
  BY DEF resolveChatForFile
<1> HIDE DEF e
<1>3. d \in Disks /\ OwnIdMap(hd, d.chatIdByPath)
  BY <1>1, TrailFacts DEF GoodDisks
<1>4. d.projects \in ProjectSets /\ d.fileMap \in FileMaps /\ d.chatIdByPath \in IdMaps
  BY <1>3, DiskFields
<1>5. HashOf(f) \in Hashes
  BY DEF Hashes
<1>6. ci \in IdMaps
  BY <1>4, <1>5, PutMap DEF IdMaps
<1>9. /\ DOMAIN ci = DOMAIN d.chatIdByPath \cup {f} /\ ci[f] = HashOf(f)
      /\ \A x \in DOMAIN d.chatIdByPath \ {f} : ci[x] = d.chatIdByPath[x]
  <2> HIDE DEF d
  <2> DEFINE old == d.chatIdByPath
             h == HashOf(f)
  <2> HIDE DEF old, h
  <2>0. DOMAIN Put(old, f, h) = DOMAIN old \cup {f} /\ Put(old, f, h)[f] = h
        /\ \A x \in DOMAIN old \ {f} : Put(old, f, h)[x] = old[x]
    BY DEF Put
  <2> QED
    BY <2>0 DEF old, h
<1> HIDE DEF ci
<1>7. OwnIdMap(hd, ci)
  <2> HIDE DEF d
  <2> SUFFICES ASSUME NEW x \in DOMAIN ci
               PROVE  \E g \in Paths : ci[x] = HashOf(g) /\ hd[x] \cap hd[g] # {}
    BY DEF OwnIdMap
  <2>2. CASE x = f
    BY <1>9, <2>2
  <2>3. CASE x # f
    BY <1>3, <1>9, <2>3 DEF OwnIdMap
  <2> QED
    BY <2>2, <2>3
<1>8. /\ TrailIn(GoodDisks(hd), full) /\ Now(full).chats = d.chats /\ Now(full).trash = d.trash
      /\ Now(full).files = d.files /\ Now(full).fileMap = d.fileMap /\ Now(full).chatIdByPath = ci
  BY <1>1, <1>4, <1>6, <1>7, WriteIndexGood
<1> HIDE DEF full, d
<1>10. f \notin DOMAIN d.chatIdByPath => SameAnswers(d, Now(full), {f})
  <2>1. f \notin DOMAIN d.chatIdByPath => \A x : Get(ci, x, HashOf(x)) = Get(d.chatIdByPath, x, HashOf(x))
    BY <1>9 DEF Get
  <2> QED
    BY <1>8, <2>1 DEF SameAnswers, chatIdForPath
<1>11. f \notin DOMAIN d.chatIdByPath => SameAnswers(Now(t), Now(full), {f})
  BY <1>1, <1>10, SameTwice
<1> QED
  BY <1>1, <1>2, <1>8, <1>11 DEF d

(* No path has had two documents. *)
Single(hd) == \A f \in Paths : \A a, b \in hd[f] : a = b
(* Two paths have had the same documents or none in common: what the lemmas on  *)
(* single steps need, and true as well if every path may have had any document. *)
Parted(hd) == \A f, g \in Paths : hd[f] \cap hd[g] # {} => hd[f] = hd[g]

LEMMA TempOwners ==
  ASSUME NEW hd, NEW x \in Docs
  PROVE  Owners(hd, TempOf(x)) = {x}
BY IdsDistinct DEF Owners

LEMMA HashOwners ==
  ASSUME NEW hd \in [Paths -> SUBSET Docs], NEW g \in Paths
  PROVE  Owners(hd, HashOf(g)) = hd[g]
BY IdsDistinct DEF Owners

(* The id the index gives for a path is the hash of a path of the same document. *)
LEMMA ChatIdHeld ==
  ASSUME NEW hd \in [Paths -> SUBSET Docs], Parted(hd), NEW d \in GoodDisks(hd),
         NEW f \in Paths, NEW x \in hd[f]
  PROVE  /\ chatIdForPath(d, f) \in Hashes
         /\ \E g \in Paths : chatIdForPath(d, f) = HashOf(g) /\ x \in hd[g]
<1>1. d \in Disks /\ OwnIdMap(hd, d.chatIdByPath)
  BY DEF GoodDisks
<1>2. d.chatIdByPath \in IdMaps
  BY <1>1, DiskFields
<1>3. HashOf(f) \in Hashes
  BY DEF Hashes
<1>5. chatIdForPath(d, f) \in Hashes
  BY <1>2, <1>3, GetMap DEF IdMaps, chatIdForPath
<1>6. \E g \in Paths : chatIdForPath(d, f) = HashOf(g) /\ x \in hd[g]
  <2>1. CASE f \in DOMAIN d.chatIdByPath
    <3>1. PICK g \in Paths : d.chatIdByPath[f] = HashOf(g) /\ hd[f] \cap hd[g] # {}
      BY <1>1, <2>1 DEF OwnIdMap
    <3>4. f \in Paths /\ g \in Paths
      BY <3>1
    <3>2. x \in hd[g]
      BY <2>1, <3>1, <3>4 DEF Parted
    <3>3. chatIdForPath(d, f) = HashOf(g)
      BY <2>1, <3>1 DEF chatIdForPath, Get
    <3> QED
      BY <3>2, <3>3
  <2>2. CASE f \notin DOMAIN d.chatIdByPath
    <3>1. chatIdForPath(d, f) = HashOf(f)
      BY <2>2 DEF chatIdForPath, Get
    <3> QED
      BY <3>1
  <2> QED
    BY <2>1, <2>2
<1> QED
  BY <1>5, <1>6

LEMMA SingleParted ==
  ASSUME NEW hd, Single(hd)
  PROVE  Parted(hd)
BY DEF Single, Parted

LEMMA ChatIdOwner ==
  ASSUME NEW hd \in [Paths -> SUBSET Docs], Single(hd), NEW d \in GoodDisks(hd),
         NEW f \in Paths, NEW x \in hd[f]
  PROVE  /\ chatIdForPath(d, f) \in Hashes
         /\ \E g \in Paths : chatIdForPath(d, f) = HashOf(g) /\ x \in hd[g]
BY SingleParted, ChatIdHeld

LEMMA ResolvedHeld ==
  ASSUME NEW hd \in [Paths -> SUBSET Docs], Parted(hd), NEW d \in GoodDisks(hd),
         NEW f \in Paths, NEW x \in hd[f]
  PROVE  Resolved(d, f) \in Keys /\ x \in Owners(hd, Resolved(d, f)[2])
<1>1. d \in Disks
  BY DEF GoodDisks
<1>2. d.fileMap \in FileMaps
  BY <1>1, DiskFields
<1>3. Default \in Projects
  BY DEF Projects
<1>4. Get(d.fileMap, f, Default) \in Projects
  BY <1>2, <1>3, GetMap DEF FileMaps
<1>5. chatIdForPath(d, f) \in Hashes
  BY ChatIdHeld
<1>6. PICK g \in Paths : chatIdForPath(d, f) = HashOf(g) /\ x \in hd[g]
  BY ChatIdHeld
<1>7. x \in Owners(hd, chatIdForPath(d, f))
  BY <1>6, HashOwners
<1> DEFINE a == Get(d.fileMap, f, Default)
           c == chatIdForPath(d, f)
<1>8. Resolved(d, f) = <<a, c>>
  BY DEF Resolved
<1> HIDE DEF a, c
<1>9. <<a, c>> \in Keys /\ <<a, c>>[2] = c
  BY <1>4, <1>5 DEF a, c, Keys, ChatIds
<1> QED
  BY <1>7, <1>8, <1>9 DEF c

LEMMA ResolvedOwner ==
  ASSUME NEW hd \in [Paths -> SUBSET Docs], Single(hd), NEW d \in GoodDisks(hd),
         NEW f \in Paths, NEW x \in hd[f]
  PROVE  Resolved(d, f) \in Keys /\ Owners(hd, Resolved(d, f)[2]) = {x}
<1>1. d \in Disks
  BY DEF GoodDisks
<1>2. d.fileMap \in FileMaps
  BY <1>1, DiskFields
<1>3. Default \in Projects
  BY DEF Projects
<1>4. Get(d.fileMap, f, Default) \in Projects
  BY <1>2, <1>3, GetMap DEF FileMaps
<1>5. chatIdForPath(d, f) \in Hashes
  BY ChatIdOwner
<1>7. PICK g \in Paths : chatIdForPath(d, f) = HashOf(g) /\ x \in hd[g]
  BY ChatIdOwner
<1>8. Owners(hd, chatIdForPath(d, f)) = {x}
  <2>1. Owners(hd, HashOf(g)) = hd[g]
    BY HashOwners
  <2>2. hd[g] = {x}
    BY <1>7 DEF Single
  <2> QED
    BY <1>7, <2>1, <2>2
<1>9. Resolved(d, f) = <<Get(d.fileMap, f, Default), chatIdForPath(d, f)>>
  BY DEF Resolved
<1> DEFINE a == Get(d.fileMap, f, Default)
           c == chatIdForPath(d, f)
<1> HIDE DEF a, c
<1>10. <<a, c>> \in Keys /\ <<a, c>>[2] = c
  BY <1>4, <1>5 DEF a, c, Keys, ChatIds
<1> QED
  BY <1>8, <1>9, <1>10 DEF a, c

LEMMA PutOwn ==
  ASSUME NEW hd, NEW cs \in ChatMaps, OwnChatMap(hd, cs), NEW k \in Keys,
         NEW lines \in Seq(LinesOf(Owners(hd, k[2])))
  PROVE  Put(cs, k, lines) \in ChatMaps /\ OwnChatMap(hd, Put(cs, k, lines))
         /\ DOMAIN Put(cs, k, lines) = DOMAIN cs \cup {k}
<1>1. lines \in Seq(LinesOf(Docs))
  BY OwnersAreDocs
<1>2. Put(cs, k, lines) \in ChatMaps /\ DOMAIN Put(cs, k, lines) = DOMAIN cs \cup {k}
  <2> DEFINE T == Seq(LinesOf(Docs))
  <2>1. cs \in Maps(Keys, T) /\ lines \in T /\ k \in Keys
    BY <1>1 DEF ChatMaps
  <2> HIDE DEF T
  <2>2. Put(cs, k, lines) \in Maps(Keys, T)
    BY ONLY <2>1, PutMap
  <2>3. DOMAIN Put(cs, k, lines) = DOMAIN cs \cup {k}
    BY DEF Put
  <2> QED
    BY <2>2, <2>3 DEF ChatMaps, T
<1>3. /\ Put(cs, k, lines)[k] = lines
      /\ \A x \in DOMAIN cs \ {k} : Put(cs, k, lines)[x] = cs[x]
  BY DEF Put
<1> DEFINE q == Put(cs, k, lines)
<1> HIDE DEF q
<1>4. OwnChatMap(hd, q)
  <2> SUFFICES ASSUME NEW x \in DOMAIN q PROVE q[x] \in Seq(LinesOf(Owners(hd, x[2])))
    BY DEF OwnChatMap
  <2>1. CASE x = k
    BY <1>3, <2>1 DEF q
  <2>2. CASE x # k
    <3>1. x \in DOMAIN cs /\ q[x] = cs[x]
      BY <1>2, <1>3, <2>2 DEF q
    <3> QED
      BY <3>1 DEF OwnChatMap
  <2> QED
    BY <2>1, <2>2
<1> QED
  BY <1>2, <1>4 DEF q

LEMMA DropOwn ==
  ASSUME NEW hd, NEW cs \in ChatMaps, OwnChatMap(hd, cs), NEW D \in SUBSET DOMAIN cs
  PROVE  Restrict(cs, D) \in ChatMaps /\ OwnChatMap(hd, Restrict(cs, D)) /\ DOMAIN Restrict(cs, D) = D
<1>1. /\ Restrict(cs, D) \in ChatMaps /\ DOMAIN Restrict(cs, D) = D
      /\ \A x \in D : Restrict(cs, D)[x] = cs[x]
  BY RestrictMap DEF ChatMaps
<1> DEFINE q == Restrict(cs, D)
<1> HIDE DEF q
<1>2. OwnChatMap(hd, q)
  BY <1>1 DEF q, OwnChatMap
<1> QED
  BY <1>1, <1>2 DEF q

LEMMA GoodChats ==
  ASSUME NEW hd, NEW t, TrailIn(GoodDisks(hd), t)
  PROVE  /\ Now(t) \in GoodDisks(hd) /\ Now(t).chats \in ChatMaps /\ OwnChatMap(hd, Now(t).chats)
         /\ DOMAIN Now(t).chats \subseteq Keys
<1>1. Now(t) \in GoodDisks(hd)
  BY TrailFacts
<1>2. Now(t) \in Disks /\ OwnChatMap(hd, Now(t).chats)
  BY <1>1 DEF GoodDisks
<1>3. Now(t).chats \in ChatMaps
  BY <1>2, DiskFields
<1>4. DOMAIN Now(t).chats \subseteq Keys
  BY <1>3, MapIs DEF ChatMaps
<1> QED
  BY <1>1, <1>2, <1>3, <1>4

LEMMA OwnFile ==
  ASSUME NEW hd, NEW cs, OwnChatMap(hd, cs), NEW k
  PROVE  Get(cs, k, <<>>) \in Seq(LinesOf(Owners(hd, k[2])))
<1>1. CASE k \in DOMAIN cs
  BY <1>1 DEF Get, OwnChatMap
<1>2. CASE k \notin DOMAIN cs
  BY <1>2 DEF Get
<1> QED
  BY <1>1, <1>2

(* Nothing but the chats was written. *)
OnlyChats(d, e) ==
  /\ e.fileMap = d.fileMap /\ e.chatIdByPath = d.chatIdByPath
  /\ e.files = d.files /\ e.trash = d.trash

LEMMA WriteChatGood ==
  ASSUME NEW hd, NEW t, TrailIn(GoodDisks(hd), t), NEW k \in Keys,
         NEW lines \in Seq(LinesOf(Owners(hd, k[2])))
  PROVE  LET u == writeChat(t, k, lines)
         IN  /\ TrailIn(GoodDisks(hd), u) /\ OnlyChats(Now(t), Now(u))
             /\ Now(u).chats = Put(Now(t).chats, k, lines)
<1>1. Now(t).chats \in ChatMaps /\ OwnChatMap(hd, Now(t).chats)
  BY GoodChats
<1> DEFINE q == Put(Now(t).chats, k, lines)
<1>2. q \in ChatMaps /\ OwnChatMap(hd, q)
  BY <1>1, PutOwn
<1>3. writeChat(t, k, lines) = Append(t, WithChats(Now(t), q))
  BY WritesAre
<1> HIDE DEF q
<1>4. LET u == Append(t, WithChats(Now(t), q))
      IN  TrailIn(GoodDisks(hd), u) /\ OnlyChats(Now(t), Now(u)) /\ Now(u).chats = q
  BY <1>2, ChatsGood DEF OnlyChats
<1> QED
  BY <1>3, <1>4 DEF q

LEMMA UnlinkGood ==
  ASSUME NEW hd, NEW t, TrailIn(GoodDisks(hd), t), NEW k
  PROVE  LET u == Unlink(t, k)
         IN  /\ TrailIn(GoodDisks(hd), u) /\ OnlyChats(Now(t), Now(u))
             /\ Now(u).chats = Drop(Now(t).chats, k)
<1>1. Now(t).chats \in ChatMaps /\ OwnChatMap(hd, Now(t).chats)
  BY GoodChats
<1> DEFINE D == DOMAIN Now(t).chats \ {k}
           q == Restrict(Now(t).chats, D)
<1>2. q \in ChatMaps /\ OwnChatMap(hd, q)
  <2>1. D \in SUBSET DOMAIN Now(t).chats
    OBVIOUS
  <2> QED
    BY <1>1, <2>1, DropOwn
<1>3. Unlink(t, k) = Append(t, WithChats(Now(t), q))
  BY WritesAre DEF Drop
<1> HIDE DEF q
<1>4. LET u == Append(t, WithChats(Now(t), q))
      IN  TrailIn(GoodDisks(hd), u) /\ OnlyChats(Now(t), Now(u)) /\ Now(u).chats = q
  BY <1>2, ChatsGood DEF OnlyChats
<1> QED
  BY <1>3, <1>4 DEF q, Drop

LEMMA RenameChatGood ==
  ASSUME NEW hd, NEW t, TrailIn(GoodDisks(hd), t), NEW from \in DOMAIN Now(t).chats, NEW to \in Keys,
         Owners(hd, from[2]) \subseteq Owners(hd, to[2])
  PROVE  LET u == RenameChat(t, from, to)
         IN  /\ TrailIn(GoodDisks(hd), u) /\ OnlyChats(Now(t), Now(u))
             /\ Now(u).chats = Drop(Put(Now(t).chats, to, Now(t).chats[from]), from)
<1> DEFINE cs == Now(t).chats
           lines == cs[from]
           put == Put(cs, to, lines)
           D == DOMAIN put \ {from}
           q == Restrict(put, D)
<1>1. cs \in ChatMaps /\ OwnChatMap(hd, cs)
  BY GoodChats
<1>2. lines \in Seq(LinesOf(Owners(hd, from[2])))
  BY <1>1 DEF OwnChatMap
<1>3. lines \in Seq(LinesOf(Owners(hd, to[2])))
  <2> DEFINE A == Owners(hd, from[2])
             B == Owners(hd, to[2])
  <2>1. A \subseteq B /\ lines \in Seq(LinesOf(A))
    BY <1>2
  <2> HIDE DEF A, B, lines
  <2>2. lines \in Seq(LinesOf(B))
    BY <2>1, LinesGrow
  <2> QED
    BY <2>2 DEF B
<1>4. RenameChat(t, from, to) = Append(t, WithChats(Now(t), q))
  BY WritesAre DEF Drop
<1> HIDE DEF lines, cs
<1>5. put \in ChatMaps /\ OwnChatMap(hd, put)
  BY <1>1, <1>3, PutOwn
<1> HIDE DEF put
<1>6. q \in ChatMaps /\ OwnChatMap(hd, q)
  <2>1. D \in SUBSET DOMAIN put
    OBVIOUS
  <2> QED
    BY <1>5, <2>1, DropOwn
<1> HIDE DEF q
<1>7. LET u == Append(t, WithChats(Now(t), q))
      IN  TrailIn(GoodDisks(hd), u) /\ OnlyChats(Now(t), Now(u)) /\ Now(u).chats = q
  BY <1>6, ChatsGood DEF OnlyChats
<1> QED
  BY <1>4, <1>7 DEF q, put, lines, cs, Drop

LEMMA FlushGood ==
  ASSUME NEW hd, NEW t, TrailIn(GoodDisks(hd), t), NEW buf \in Buffers, OwnBuffer(hd, buf), NEW k
  PROVE  TrailIn(GoodDisks(hd), flushPending(t, buf, k))
<1>1. CASE Get(buf, k, <<>>) = <<>>
  BY <1>1 DEF flushPending
<1>2. CASE Get(buf, k, <<>>) # <<>>
  <2> DEFINE file == Get(Now(t).chats, k, <<>>)
             lines == AppendLines(file, buf[k])
  <2>1. k \in DOMAIN buf
    BY <1>2 DEF Get
  <2>2. k \in Keys
    BY <2>1, MapIs DEF Buffers
  <2>3. buf[k] \in Seq(RecordsOf(Owners(hd, k[2])))
    BY <2>1 DEF OwnBuffer
  <2>4. buf[k] \in Seq(LinesOf(Owners(hd, k[2])))
    BY <2>3, OwnersAreDocs
  <2>5. OwnChatMap(hd, Now(t).chats)
    BY GoodChats
  <2>6. file \in Seq(LinesOf(Owners(hd, k[2])))
    BY <2>5, OwnFile
  <2>7. flushPending(t, buf, k) = writeChat(t, k, lines)
    BY <1>2 DEF flushPending
  <2> DEFINE L == LinesOf(Owners(hd, k[2]))
             b == buf[k]
  <2> HIDE DEF file, L, b
  <2>8. AppendLines(file, b) \in Seq(L)
    BY <2>4, <2>6, AppendLinesType DEF L, b
  <2>9. lines \in Seq(LinesOf(Owners(hd, k[2])))
    BY <2>8 DEF L, b
  <2> HIDE DEF lines
  <2> QED
    BY <2>2, <2>7, <2>9, WriteChatGood
<1> QED
  BY <1>1, <1>2

LEMMA DropBuffer ==
  ASSUME NEW hd, NEW buf \in Buffers, OwnBuffer(hd, buf), NEW k
  PROVE  Drop(buf, k) \in Buffers /\ OwnBuffer(hd, Drop(buf, k))
<1> DEFINE T == Seq(RecordsOf(Docs))
<1>3. buf \in Maps(Keys, T)
  BY DEF Buffers
<1> HIDE DEF T
<1>1. DOMAIN Drop(buf, k) = DOMAIN buf \ {k} /\ \A x \in DOMAIN buf \ {k} : Drop(buf, k)[x] = buf[x]
  BY DropAt
<1>5. Drop(buf, k) \in Maps(Keys, T)
  BY <1>3, DropMap
<1>4. Drop(buf, k) \in Buffers
  BY <1>5 DEF T, Buffers
<1> DEFINE q == Drop(buf, k)
<1> HIDE DEF q
<1>2. OwnBuffer(hd, q)
  BY <1>1 DEF q, OwnBuffer
<1> QED
  BY <1>2, <1>4 DEF q

(* What a merge appends is still of the owners of the source. *)
LEMMA RenumberedOwn ==
  ASSUME NEW A, NEW B, A \subseteq B, NEW s \in Seq(RecordsOf(A)), NEW n \in Nat
  PROVE  Renumbered(s, n) \in Seq(LinesOf(B))
<1>1. Renumbered(s, n) \in Seq(RecordsOf(A))
  <2>1. s \in Seq([msg : A \X Nat, seq : Nat])
    BY DEF RecordsOf
  <2> DEFINE D == A \X Nat
  <2> HIDE DEF D
  <2>2. s \in Seq([msg : D, seq : Nat])
    BY <2>1 DEF D
  <2>3. Renumbered(s, n) \in Seq([msg : D, seq : Nat])
    BY <2>2, RenumberedType
  <2> QED
    BY <2>3 DEF D, RecordsOf
<1> QED
  BY <1>1, LinesGrow

LEMMA MergeGood ==
  ASSUME NEW hd, NEW t, TrailIn(GoodDisks(hd), t), NEW buf \in Buffers, OwnBuffer(hd, buf),
         NEW from, NEW to \in Keys, Owners(hd, from[2]) \subseteq Owners(hd, to[2])
  PROVE  TrailIn(GoodDisks(hd), renameOrMergeChat(t, buf, from, to))
<1> DEFINE G == GoodDisks(hd)
           u == flushPending(t, buf, from)
           d == Now(u)
           moved == loadChat(d, Drop(buf, from), from)
           n == MaxSeq(loadChat(d, buf, to))
           lines == AppendLines(d.chats[to], Renumbered(moved, n))
           merged == writeChat(u, to, lines)
<1>1. renameOrMergeChat(t, buf, from, to) =
        IF from = to THEN t
        ELSE IF from \notin DOMAIN d.chats THEN u
        ELSE IF to \notin DOMAIN d.chats THEN RenameChat(u, from, to)
        ELSE IF moved = <<>> THEN Unlink(u, from)
        ELSE Unlink(merged, from)
  BY DEF renameOrMergeChat
<1>2. TrailIn(G, u)
  BY FlushGood
<1> HIDE DEF u
<1>3. d \in GoodDisks(hd) /\ OwnChatMap(hd, d.chats)
  BY <1>2, GoodChats
<1>4. from \in DOMAIN d.chats => TrailIn(G, RenameChat(u, from, to))
  BY <1>2, RenameChatGood
<1>5. TrailIn(G, Unlink(u, from))
  BY <1>2, UnlinkGood
<1>6. ASSUME to \in DOMAIN d.chats PROVE TrailIn(G, Unlink(merged, from))
  <2>1. Drop(buf, from) \in Buffers /\ OwnBuffer(hd, Drop(buf, from))
    BY DropBuffer
  <2> HIDE DEF d
  <2>2. moved \in Seq(RecordsOf(Owners(hd, from[2])))
    BY <1>3, <2>1, LoadChatType
  <2>3. n \in Nat
    BY <1>3, LoadChatType
  <2> DEFINE A == Owners(hd, from[2])
             B == Owners(hd, to[2])
             L == LinesOf(B)
             r == Renumbered(moved, n)
             file == d.chats[to]
  <2>4. A \subseteq B /\ moved \in Seq(RecordsOf(A)) /\ file \in Seq(L)
    BY <1>3, <1>6, <2>2 DEF OwnChatMap
  <2>5. lines = AppendLines(file, r)
    OBVIOUS
  <2> HIDE DEF A, B, moved, n, file
  <2>6. r \in Seq(LinesOf(B))
    BY <2>3, <2>4, RenumberedOwn
  <2> HIDE DEF r
  <2>7. r \in Seq(L)
    BY <2>6
  <2> HIDE DEF L
  <2>8. AppendLines(file, r) \in Seq(L)
    BY <2>4, <2>7, AppendLinesType
  <2> HIDE DEF lines
  <2>9. lines \in Seq(LinesOf(Owners(hd, to[2])))
    BY <2>5, <2>8 DEF L, B
  <2>10. TrailIn(G, merged)
    BY <1>2, <2>9, WriteChatGood
  <2> HIDE DEF merged
  <2> QED
    BY <2>10, UnlinkGood
<1> HIDE DEF d, merged, moved
<1> QED
  BY <1>1, <1>2, <1>4, <1>5, <1>6

Counters == Maps(Keys, Nat)

LEMMA MergedSeqsType ==
  ASSUME NEW hd, NEW d \in GoodDisks(hd), NEW buf \in Buffers, OwnBuffer(hd, buf),
         NEW seqs \in Counters, NEW from, NEW to \in Keys
  PROVE  MergedSeqs(seqs, d, buf, from, to) \in Counters
<1> DEFINE t == Now(flushPending(<<d>>, buf, from))
           both == {from, to} \subseteq DOMAIN t.chats
           one == Drop(seqs, from)
           rest == Drop(one, to)
           moved == loadChat(t, Drop(buf, from), from)
           n == MaxSeq(loadChat(t, buf, to))
           m == n + Len(moved)
<1>1. MergedSeqs(seqs, d, buf, from, to) =
        IF from = to THEN seqs
        ELSE IF both THEN Put(rest, to, m)
        ELSE IF from \in DOMAIN seqs THEN Put(rest, to, seqs[from]) ELSE rest
  BY DEF MergedSeqs
<1>2. TrailIn(GoodDisks(hd), <<d>>)
  BY TrailStarts
<1>3. TrailIn(GoodDisks(hd), flushPending(<<d>>, buf, from))
  BY <1>2, FlushGood
<1>4. t \in GoodDisks(hd)
  BY <1>3, TrailFacts
<1> HIDE DEF t
<1>5. Drop(buf, from) \in Buffers /\ OwnBuffer(hd, Drop(buf, from))
  BY DropBuffer
<1>6. moved \in Seq(RecordsOf(Owners(hd, from[2])))
  BY <1>4, <1>5, LoadChatType
<1>7. n \in Nat
  BY <1>4, LoadChatType
<1> DEFINE R == RecordsOf(Owners(hd, from[2]))
<1> HIDE DEF moved, n, R
<1>8. Len(moved) \in Nat
  <2>1. moved \in Seq(R)
    BY <1>6 DEF R
  <2> QED
    BY <2>1
<1>9. m \in Nat
  BY <1>7, <1>8
<1> HIDE DEF m, both
<1>10. one \in Maps(Keys, Nat)
  BY DropMap DEF Counters
<1> HIDE DEF one
<1>11. rest \in Maps(Keys, Nat)
  BY <1>10, DropMap
<1> HIDE DEF rest
<1>12. Put(rest, to, m) \in Maps(Keys, Nat)
  BY <1>9, <1>11, PutMap
<1>13. ASSUME from \in DOMAIN seqs PROVE Put(rest, to, seqs[from]) \in Maps(Keys, Nat)
  <2>1. seqs[from] \in Nat
    BY <1>13, MapIs DEF Counters
  <2> DEFINE v == seqs[from]
  <2> HIDE DEF v
  <2>2. Put(rest, to, v) \in Maps(Keys, Nat)
    BY <1>11, <2>1, PutMap DEF v
  <2> QED
    BY <2>2 DEF v
<1>14. seqs \in Maps(Keys, Nat)
  BY DEF Counters
<1>15. MergedSeqs(seqs, d, buf, from, to) \in Maps(Keys, Nat)
  BY <1>1, <1>11, <1>12, <1>13, <1>14
<1> QED
  BY <1>15 DEF Counters

ChatsIn(d, p) == {k \in DOMAIN d.chats : k[1] = p}
LinesIn(d, p) == UNION {Range(d.chats[k]) : k \in ChatsIn(d, p)}

LEMMA ToTrashGood ==
  ASSUME NEW hd, NEW t, TrailIn(GoodDisks(hd), t), NEW p \in Projects
  PROVE  LET d == Now(t)
             u == ToTrash(t, p)
             e == Now(u)
         IN  /\ TrailIn(GoodDisks(hd), u) /\ e.files = Drop(d.files, p)
             /\ e.fileMap = d.fileMap /\ e.chatIdByPath = d.chatIdByPath
             /\ e.chats = Restrict(d.chats, DOMAIN d.chats \ ChatsIn(d, p))
             /\ e.trash = Put(d.trash, p, LinesIn(d, p))
<1> DEFINE d == Now(t)
           its == ChatsIn(d, p)
           fs == Drop(d.files, p)
           D == DOMAIN d.chats \ its
           cs == Restrict(d.chats, D)
           lost == LinesIn(d, p)
           tr == Put(d.trash, p, lost)
           d1 == WithFiles(d, fs)
           d2 == WithChats(d1, cs)
           d3 == [d2 EXCEPT !.trash = tr]
<1>1. d \in GoodDisks(hd) /\ d.chats \in ChatMaps /\ OwnChatMap(hd, d.chats)
  BY GoodChats
<1>2. d \in Disks /\ OwnIdMap(hd, d.chatIdByPath)
  BY <1>1 DEF GoodDisks
<1>3. ToTrash(t, p) = Append(t, d3)
  BY DEF ToTrash, WithFiles, WithChats, ChatsIn, LinesIn
<1>4. d.files \in FileLists /\ d.trash \in Trashes
  BY <1>2, DiskFields
<1>5. lost \in SUBSET LinesOf(Docs)
  <2>1. ASSUME NEW k \in its PROVE Range(d.chats[k]) \subseteq LinesOf(Docs)
    <3>1. k \in DOMAIN d.chats
      BY DEF ChatsIn
    <3>2. d.chats[k] \in Seq(LinesOf(Docs))
      BY <1>1, <3>1, MapIs DEF ChatMaps
    <3> DEFINE s == d.chats[k]
               L == LinesOf(Docs)
    <3> HIDE DEF s, L
    <3>3. s \in Seq(L)
      BY <3>2 DEF s, L
    <3>4. Range(s) \subseteq L
      BY <3>3 DEF Range
    <3> QED
      BY <3>4 DEF s, L
  <2> QED
    BY <2>1 DEF LinesIn
<1>6. cs \in ChatMaps /\ OwnChatMap(hd, cs)
  <2>1. D \in SUBSET DOMAIN d.chats
    OBVIOUS
  <2> QED
    BY <1>1, <2>1, DropOwn
<1> HIDE DEF d, lost, cs
<1>7. fs \in FileLists
  BY <1>4, DropMap DEF FileLists
<1>8. tr \in Trashes
  <2> DEFINE T == SUBSET LinesOf(Docs)
             old == d.trash
  <2>1. old \in Maps(Projects, T) /\ lost \in T
    BY <1>4, <1>5 DEF Trashes
  <2> HIDE DEF T, old
  <2>2. Put(old, p, lost) \in Maps(Projects, T)
    BY <2>1, PutMap
  <2> QED
    BY <2>2 DEF T, old, Trashes
<1> HIDE DEF fs, tr
<1>9. /\ d1 \in Disks /\ d1.chatIdByPath = d.chatIdByPath /\ d1.files = fs
      /\ d1.fileMap = d.fileMap
  BY <1>2, <1>7, WithFilesIs
<1> HIDE DEF d1
<1>10. /\ d2 \in Disks /\ d2.chats = cs /\ d2.chatIdByPath = d.chatIdByPath /\ d2.files = fs
       /\ d2.fileMap = d.fileMap
  BY <1>6, <1>9, WithChatsIs
<1> HIDE DEF d2
<1>11. /\ d3 \in Disks /\ d3.chats = cs /\ d3.chatIdByPath = d.chatIdByPath /\ d3.files = fs
       /\ d3.fileMap = d.fileMap /\ d3.trash = tr
  BY <1>8, <1>10 DEF Disks
<1> HIDE DEF d3
<1>12. d3 \in GoodDisks(hd)
  BY <1>2, <1>6, <1>11 DEF GoodDisks
<1>13. TrailIn(GoodDisks(hd), Append(t, d3)) /\ Now(Append(t, d3)) = d3
  BY <1>12, TrailFacts
<1> QED
  BY <1>3, <1>11, <1>13 DEF d, fs, cs, tr, lost

-----------------------------------------------------------------------------
(* The invariant.  A document has what it was ever saved at, a panel holds ids  *)
(* of a chat its document owns, and everything in the store is with its owners. *)
Grown(h1, h2) ==
  /\ h1 \in [Paths -> SUBSET Docs] /\ h2 \in [Paths -> SUBSET Docs]
  /\ \A f \in Paths : h1[f] \subseteq h2[f]

LEMMA OwnersGrow ==
  ASSUME NEW h1, NEW h2, Grown(h1, h2), NEW c
  PROVE  Owners(h1, c) \subseteq Owners(h2, c)
BY DEF Owners, Grown

LEMMA GoodDisksGrow ==
  ASSUME NEW h1, NEW h2, Grown(h1, h2)
  PROVE  GoodDisks(h1) \subseteq GoodDisks(h2)
<1> SUFFICES ASSUME NEW d \in GoodDisks(h1) PROVE d \in GoodDisks(h2)
  OBVIOUS
<1>1. d \in Disks /\ OwnChatMap(h1, d.chats) /\ OwnIdMap(h1, d.chatIdByPath)
  BY DEF GoodDisks
<1>2. OwnChatMap(h2, d.chats)
  <2> SUFFICES ASSUME NEW k \in DOMAIN d.chats
               PROVE  d.chats[k] \in Seq(LinesOf(Owners(h2, k[2])))
    BY DEF OwnChatMap
  <2> DEFINE A == Owners(h1, k[2])
             B == Owners(h2, k[2])
  <2>1. A \subseteq B
    BY OwnersGrow
  <2>2. d.chats[k] \in Seq(LinesOf(A))
    BY <1>1 DEF OwnChatMap
  <2> HIDE DEF A, B
  <2>3. Seq(LinesOf(A)) \subseteq Seq(LinesOf(B))
    BY <2>1, LinesGrow
  <2>4. d.chats[k] \in Seq(LinesOf(B))
    BY <2>2, <2>3
  <2> QED
    BY <2>4 DEF B
<1>3. OwnIdMap(h2, d.chatIdByPath)
  <2> SUFFICES ASSUME NEW f \in DOMAIN d.chatIdByPath
               PROVE  \E g \in Paths : d.chatIdByPath[f] = HashOf(g) /\ h2[f] \cap h2[g] # {}
    BY DEF OwnIdMap
  <2>1. PICK g \in Paths : d.chatIdByPath[f] = HashOf(g) /\ h1[f] \cap h1[g] # {}
    BY <1>1 DEF OwnIdMap
  <2>2. f \in Paths
    BY <1>1, DiskFields, MapIs DEF IdMaps
  <2>3. h2[f] \cap h2[g] # {}
    BY <2>1, <2>2 DEF Grown
  <2> QED
    BY <2>1, <2>3
<1> QED
  BY <1>1, <1>2, <1>3 DEF GoodDisks

StoreGood(hd, dk, sq, buf) ==
  dk \in GoodDisks(hd) /\ sq \in Counters /\ buf \in Buffers /\ OwnBuffer(hd, buf)

LEMMA StoreGrow ==
  ASSUME NEW h1, NEW h2, Grown(h1, h2), NEW dk, NEW sq, NEW buf, StoreGood(h1, dk, sq, buf)
  PROVE  StoreGood(h2, dk, sq, buf)
<1>1. dk \in GoodDisks(h2)
  BY GoodDisksGrow DEF StoreGood
<1>2. OwnBuffer(h2, buf)
  <2> SUFFICES ASSUME NEW k \in DOMAIN buf PROVE buf[k] \in Seq(RecordsOf(Owners(h2, k[2])))
    BY DEF OwnBuffer
  <2> DEFINE A == Owners(h1, k[2])
             B == Owners(h2, k[2])
  <2>1. A \subseteq B
    BY OwnersGrow
  <2>2. buf[k] \in Seq(RecordsOf(A))
    BY DEF StoreGood, OwnBuffer
  <2> HIDE DEF A, B
  <2>3. Seq(RecordsOf(A)) \subseteq Seq(RecordsOf(B))
    BY <2>1, LinesGrow
  <2>4. buf[k] \in Seq(RecordsOf(B))
    BY <2>2, <2>3
  <2> QED
    BY <2>4 DEF B
<1> QED
  BY <1>1, <1>2 DEF StoreGood

Held(hd, k, d) == k # None => k \in Keys /\ d \in Owners(hd, k[2])
PanelsGood(hd, pa, held, answer) ==
  /\ pa \in [Docs -> Paths \cup {None}]
  /\ held \in [Docs -> Keys \cup {None}] /\ answer \in [Docs -> Keys \cup {None}]
  /\ \A d \in Docs :
       /\ Held(hd, held[d], d) /\ Held(hd, answer[d], d)
       /\ pa[d] = None => answer[d] = None /\ held[d] \in {None, <<Default, TempOf(d)>>}
       /\ pa[d] # None => d \in hd[pa[d]]
SaidGood(sa) ==
  sa \in [Docs -> SUBSET (Docs \X Nat)]
  /\ \A d \in Docs : IsFiniteSet(sa[d]) /\ sa[d] \subseteq {d} \X Nat
HadGood(hd) == hd \in [Paths -> SUBSET Docs] /\ \A f \in Paths : IsFiniteSet(hd[f])

StoreInv ==
  /\ HadGood(had)
  /\ NoReuse => /\ StoreGood(had, disk, seqCounters, pending)
                /\ PanelsGood(had, path, ids, reply) /\ SaidGood(said)

LEMMA HeldGrow ==
  ASSUME NEW h1, NEW h2, Grown(h1, h2), NEW k, NEW d, Held(h1, k, d)
  PROVE  Held(h2, k, d)
BY OwnersGrow DEF Held

LEMMA PanelsGrow ==
  ASSUME NEW h1, NEW h2, Grown(h1, h2), NEW pa, NEW held, NEW answer, PanelsGood(h1, pa, held, answer)
  PROVE  PanelsGood(h2, pa, held, answer)
<1>1. ASSUME NEW d \in Docs PROVE Held(h2, held[d], d) /\ Held(h2, answer[d], d)
  BY HeldGrow DEF PanelsGood
<1>2. ASSUME NEW d \in Docs, pa[d] # None PROVE d \in h2[pa[d]]
  BY <1>2 DEF PanelsGood, Grown
<1> QED
  BY <1>1, <1>2 DEF PanelsGood

(* Panels that are gone. *)
LEMMA NoPanels ==
  ASSUME NEW hd, NEW pa, NEW held, NEW answer, PanelsGood(hd, pa, held, answer)
  PROVE  PanelsGood(hd, pa, [x \in Docs |-> None], [x \in Docs |-> None])
BY DEF PanelsGood, Held

LEMMA OneReuse ==
  ASSUME NEW S, IsFiniteSet(S)
  PROVE  Cardinality(S) <= 1 <=> \A a, b \in S : a = b
<1>1. Cardinality(S) \in Nat
  BY FS_CardinalityType
<1>2. ASSUME \A a, b \in S : a = b PROVE Cardinality(S) <= 1
  <2>1. CASE S = {}
    BY <2>1, FS_EmptySet
  <2>2. CASE S # {}
    <3>1. PICK a \in S : S = {a}
      BY <1>2, <2>2
    <3> QED
      BY <3>1, FS_Singleton
  <2> QED
    BY <2>1, <2>2
<1>3. ASSUME NEW a \in S, NEW b \in S, a # b PROVE Cardinality(S) > 1
  <2>2. IsFiniteSet({a}) /\ Cardinality({a}) = 1
    BY FS_Singleton
  <2>3. {a} \in SUBSET S /\ {a} # S
    BY <1>3
  <2> DEFINE T == {a}
  <2>5. T \in SUBSET S /\ T # S /\ Cardinality(T) = 1
    BY <2>2, <2>3
  <2> HIDE DEF T
  <2>4. Cardinality(T) <= Cardinality(S) /\ Cardinality(T) # Cardinality(S)
    BY <2>5, FS_Subset
  <2> QED
    BY <1>1, <2>4, <2>5
<1> QED
  BY <1>1, <1>2, <1>3

LEMMA NoReuseIs ==
  ASSUME HadGood(had)
  PROVE  NoReuse <=> Single(had)
BY OneReuse DEF NoReuse, Single, HadGood, Count

LEMMA CallGood ==
  ASSUME NEW hd, NEW t, TrailIn(GoodDisks(hd), t)
  PROVE  /\ Now(t) \in GoodDisks(hd)
         /\ \A i \in 1..(Len(t) - 1) : StoreGood(hd, t[i], Empty, Empty)
<1>1. /\ Now(t) \in GoodDisks(hd) /\ \A i \in 1..Len(t) : t[i] \in GoodDisks(hd)
  BY TrailFacts
<1>2. Empty \in Counters /\ Empty \in Buffers /\ DOMAIN Empty = {}
  BY EmptyMap DEF Counters, Buffers
<1>3. OwnBuffer(hd, Empty)
  BY <1>2 DEF OwnBuffer
<1>4. Len(t) \in Nat
  BY DEF TrailIn
<1> QED
  BY <1>1, <1>2, <1>3, <1>4 DEF StoreGood

LEMMA PanelMoves ==
  ASSUME NEW hd, NEW pa, NEW held, NEW answer, PanelsGood(hd, pa, held, answer),
         NEW d \in Docs, NEW f \in Paths, d \in hd[f]
  PROVE  PanelsGood(hd, [pa EXCEPT ![d] = f], held, answer)
<1>1. f # None
  BY StoreAssumption
<1> QED
  BY <1>1 DEF PanelsGood

LEMMA PanelHolds ==
  ASSUME NEW hd, NEW pa, NEW held, NEW answer, PanelsGood(hd, pa, held, answer),
         NEW d \in Docs, NEW k \in Keys \cup {None}, Held(hd, k, d),
         pa[d] = None => k \in {None, <<Default, TempOf(d)>>}
  PROVE  PanelsGood(hd, pa, [held EXCEPT ![d] = k], answer)
<1> DEFINE h == [held EXCEPT ![d] = k]
<1>1. h \in [Docs -> Keys \cup {None}] /\ h[d] = k /\ \A e \in Docs : e # d => h[e] = held[e]
  BY DEF PanelsGood
<1> HIDE DEF h
<1>2. \A e \in Docs : Held(hd, h[e], e)
  BY <1>1 DEF PanelsGood
<1>3. \A e \in Docs : pa[e] = None => h[e] \in {None, <<Default, TempOf(e)>>}
  BY <1>1 DEF PanelsGood
<1>4. PanelsGood(hd, pa, h, answer)
  BY <1>1, <1>2, <1>3 DEF PanelsGood
<1> QED
  BY <1>4 DEF h

LEMMA PanelAwaits ==
  ASSUME NEW hd, NEW pa, NEW held, NEW answer, PanelsGood(hd, pa, held, answer),
         NEW d \in Docs, NEW k \in Keys \cup {None}, Held(hd, k, d), pa[d] = None => k = None
  PROVE  PanelsGood(hd, pa, held, [answer EXCEPT ![d] = k])
<1> DEFINE h == [answer EXCEPT ![d] = k]
<1>1. h \in [Docs -> Keys \cup {None}] /\ h[d] = k /\ \A e \in Docs : e # d => h[e] = answer[e]
  BY DEF PanelsGood
<1> HIDE DEF h
<1>2. \A e \in Docs : Held(hd, h[e], e)
  BY <1>1 DEF PanelsGood
<1>3. \A e \in Docs : pa[e] = None => h[e] = None
  BY <1>1 DEF PanelsGood
<1>4. PanelsGood(hd, pa, held, h)
  BY <1>1, <1>2, <1>3 DEF PanelsGood
<1> QED
  BY <1>4 DEF h

(* What a step finds, for documents hd that own the chats, and what it leaves. *)
Ready(hd) ==
  /\ StoreGood(hd, disk, seqCounters, pending) /\ PanelsGood(hd, path, ids, reply)
  /\ SaidGood(said) /\ hd \in [Paths -> SUBSET Docs] /\ Parted(hd)
Done(hd) ==
  /\ StoreGood(hd, disk', seqCounters', pending') /\ PanelsGood(hd, path', ids', reply')
  /\ SaidGood(said')

LEMMA GoneGood ==
  ASSUME NEW hd, NEW t, TrailIn(GoodDisks(hd), t), Interrupted(t), PanelsGood(hd, path', ids, reply)
  PROVE  StoreGood(hd, disk', seqCounters', pending') /\ PanelsGood(hd, path', ids', reply')
<1>1. PICK i \in 1..(Len(t) - 1) : EndsOn(t[i])
  BY DEF Interrupted
<1>2. StoreGood(hd, t[i], Empty, Empty)
  BY CallGood
<1>3. /\ disk' = t[i] /\ seqCounters' = Empty /\ pending' = Empty
      /\ ids' = [x \in Docs |-> None] /\ reply' = [x \in Docs |-> None]
  BY <1>1 DEF EndsOn
<1>4. PanelsGood(hd, path', [x \in Docs |-> None], [x \in Docs |-> None])
  BY NoPanels
<1> QED
  BY <1>2, <1>3, <1>4

LEMMA OpenChatGood ==
  ASSUME NEW hd, NEW d \in Docs, Ready(hd), OpenChat(d)
  PROVE  Done(hd)
<1> DEFINE G == GoodDisks(hd)
           start == ensureDefaultProject(<<disk>>)
           trail == IF path[d] = None THEN start ELSE resolveChatForFile(start, path[d])
           found == IF path[d] = None THEN <<Default, TempOf(d)>> ELSE Resolved(Now(trail), path[d])
<1>1. /\ \/ Completes(trail, seqCounters, pending) /\ ids' = [ids EXCEPT ![d] = found]
            /\ UNCHANGED reply
         \/ Interrupted(trail)
      /\ UNCHANGED <<path, said>>
  BY DEF OpenChat, history
<1>2. /\ disk \in G /\ seqCounters \in Counters /\ pending \in Buffers /\ OwnBuffer(hd, pending)
      /\ PanelsGood(hd, path, ids, reply) /\ SaidGood(said)
      /\ hd \in [Paths -> SUBSET Docs] /\ Parted(hd)
  BY DEF Ready, StoreGood
<1>3. TrailIn(G, <<disk>>)
  BY <1>2, TrailStarts
<1>4. TrailIn(G, start)
  BY <1>3, EnsureDefaultGood
<1>5. path[d] # None => path[d] \in Paths /\ d \in hd[path[d]]
  BY <1>2 DEF PanelsGood
<1> HIDE DEF start, G
<1>6. TrailIn(G, trail)
  <2>1. CASE path[d] = None
    BY <1>4, <2>1
  <2>2. CASE path[d] # None
    <3>1. TrailIn(GoodDisks(hd), resolveChatForFile(start, path[d]))
      BY <1>4, <1>5, <2>2, ResolveChatGood DEF G
    <3> QED
      BY <2>2, <3>1 DEF G
  <2> QED
    BY <2>1, <2>2
<1>7. Now(trail) \in GoodDisks(hd)
  BY <1>6, CallGood DEF G
<1> HIDE DEF trail
<1>8. found \in Keys /\ d \in Owners(hd, found[2])
  <2>1. CASE path[d] = None
    <3>1. Owners(hd, TempOf(d)) = {d}
      BY TempOwners
    <3>2. Default \in Projects /\ TempOf(d) \in ChatIds
      BY DEF Projects, ChatIds
    <3> DEFINE c == TempOf(d)
    <3> HIDE DEF c
    <3>3. <<Default, c>> \in Keys /\ <<Default, c>>[2] = c
      BY <3>2 DEF c, Keys
    <3> QED
      BY <2>1, <3>1, <3>3 DEF c
  <2>2. CASE path[d] # None
    <3>1. Resolved(Now(trail), path[d]) \in Keys /\ d \in Owners(hd, Resolved(Now(trail), path[d])[2])
      BY <1>2, <1>5, <1>7, <2>2, ResolvedHeld
    <3>2. found = Resolved(Now(trail), path[d])
      BY <2>2
    <3> QED
      BY <3>1, <3>2
  <2> QED
    BY <2>1, <2>2
<1>9. path[d] = None => found = <<Default, TempOf(d)>>
  OBVIOUS
<1> HIDE DEF found
<1>10. CASE Completes(trail, seqCounters, pending) /\ ids' = [ids EXCEPT ![d] = found] /\ UNCHANGED reply
  <2>1. disk' = Now(trail) /\ seqCounters' = seqCounters /\ pending' = pending
    BY <1>10 DEF Completes
  <2>2. StoreGood(hd, disk', seqCounters', pending')
    BY <1>2, <1>7, <2>1 DEF StoreGood
  <2>3. PanelsGood(hd, path, [ids EXCEPT ![d] = found], reply)
    <3>1. Held(hd, found, d) /\ found \in Keys \cup {None}
      BY <1>8 DEF Held
    <3>2. path[d] = None => found \in {None, <<Default, TempOf(d)>>}
      BY <1>9
    <3> QED
      BY <1>2, <3>1, <3>2, PanelHolds
  <2> QED
    BY <1>1, <1>2, <1>10, <2>2, <2>3 DEF Done
<1>11. CASE Interrupted(trail)
  <2>1. PanelsGood(hd, path', ids, reply)
    BY <1>1, <1>2
  <2>2. StoreGood(hd, disk', seqCounters', pending') /\ PanelsGood(hd, path', ids', reply')
    BY <1>6, <1>11, <2>1, GoneGood DEF G
  <2> QED
    BY <1>1, <1>2, <2>2 DEF Done
<1> QED
  BY <1>1, <1>10, <1>11

LEMMA ClosePanelGood ==
  ASSUME NEW hd, NEW d \in Docs, Ready(hd), ClosePanel(d)
  PROVE  Done(hd)
<1>1. /\ path[d] # None
      /\ ids' = [ids EXCEPT ![d] = None] /\ reply' = [reply EXCEPT ![d] = None]
      /\ UNCHANGED <<disk, seqCounters, pending, path, said>>
  BY DEF ClosePanel, mem, history
<1>2. Held(hd, None, d) /\ None \in Keys \cup {None}
  BY DEF Held
<1>3. PanelsGood(hd, path, [ids EXCEPT ![d] = None], reply)
  BY <1>1, <1>2, PanelHolds DEF Ready
<1>4. PanelsGood(hd, path, [ids EXCEPT ![d] = None], [reply EXCEPT ![d] = None])
  BY <1>1, <1>2, <1>3, PanelAwaits
<1> QED
  BY <1>1, <1>4 DEF Ready, Done

LEMMA AnsweredGood ==
  ASSUME NEW hd, NEW d \in Docs, Ready(hd), Answered(d)
  PROVE  Done(hd)
<1>1. /\ reply[d] # None
      /\ ids' = [ids EXCEPT ![d] = reply[d]] /\ reply' = [reply EXCEPT ![d] = None]
      /\ UNCHANGED <<disk, seqCounters, pending, path, said>>
  BY DEF Answered, mem, history
<1>2. Held(hd, reply[d], d) /\ reply[d] \in Keys \cup {None} /\ path[d] # None
  BY <1>1 DEF Ready, PanelsGood
<1>3. PanelsGood(hd, path, [ids EXCEPT ![d] = reply[d]], reply)
  BY <1>2, PanelHolds DEF Ready
<1>4. Held(hd, None, d) /\ None \in Keys \cup {None}
  BY DEF Held
<1>5. PanelsGood(hd, path, [ids EXCEPT ![d] = reply[d]], [reply EXCEPT ![d] = None])
  BY <1>2, <1>3, <1>4, PanelAwaits
<1> QED
  BY <1>1, <1>5 DEF Ready, Done

LEMMA ProcessEndsGood ==
  ASSUME NEW hd, Ready(hd), ProcessEnds
  PROVE  Done(hd)
<1>1. /\ disk' = disk /\ seqCounters' = Empty /\ pending' = Empty
      /\ ids' = [x \in Docs |-> None] /\ reply' = [x \in Docs |-> None]
      /\ UNCHANGED <<path, said>>
  BY DEF ProcessEnds, EndsOn, history
<1>2. PanelsGood(hd, path, [x \in Docs |-> None], [x \in Docs |-> None])
  BY NoPanels DEF Ready
<1>3. Empty \in Counters /\ Empty \in Buffers /\ DOMAIN Empty = {}
  BY EmptyMap DEF Counters, Buffers
<1>4. OwnBuffer(hd, Empty)
  BY <1>3 DEF OwnBuffer
<1>5. StoreGood(hd, disk, Empty, Empty)
  BY <1>3, <1>4 DEF Ready, StoreGood
<1> QED
  BY <1>1, <1>2, <1>5 DEF Ready, Done

(* A call that leaves the panels alone if it completes. *)
LEMMA CallDone ==
  ASSUME NEW hd, Ready(hd), NEW t, TrailIn(GoodDisks(hd), t), NEW sq \in Counters, NEW buf \in Buffers,
         OwnBuffer(hd, buf), PanelsGood(hd, path', ids, reply), UNCHANGED said,
         (Completes(t, sq, buf) /\ UNCHANGED <<ids, reply>>) \/ Interrupted(t)
  PROVE  Done(hd)
<1>1. CASE Completes(t, sq, buf) /\ UNCHANGED <<ids, reply>>
  <2>1. disk' = Now(t) /\ seqCounters' = sq /\ pending' = buf
    BY <1>1 DEF Completes
  <2>2. Now(t) \in GoodDisks(hd)
    BY CallGood
  <2>3. StoreGood(hd, disk', seqCounters', pending')
    BY <2>1, <2>2 DEF StoreGood
  <2>4. PanelsGood(hd, path', ids', reply')
    BY <1>1
  <2> QED
    BY <2>3, <2>4 DEF Ready, Done
<1>2. CASE Interrupted(t)
  <2>1. StoreGood(hd, disk', seqCounters', pending') /\ PanelsGood(hd, path', ids', reply')
    BY <1>2, GoneGood
  <2> QED
    BY <2>1 DEF Ready, Done
<1> QED
  BY <1>1, <1>2

LEMMA CreateProjectGood ==
  ASSUME NEW hd, NEW p \in Extra, Ready(hd), createProject(p)
  PROVE  Done(hd)
<1> DEFINE G == GoodDisks(hd)
           made == writeProject(<<disk>>, p, {})
           trail == writeIndex(made, disk.projects \cup {p}, disk.fileMap, disk.chatIdByPath)
<1>1. /\ (Completes(trail, seqCounters, pending) /\ UNCHANGED <<ids, reply>>) \/ Interrupted(trail)
      /\ UNCHANGED <<path, said>>
  BY DEF createProject, history
<1>2. disk \in G /\ disk \in Disks /\ OwnIdMap(hd, disk.chatIdByPath)
  BY DEF Ready, StoreGood, GoodDisks
<1>3. TrailIn(G, <<disk>>)
  BY <1>2, TrailStarts
<1>4. p \in Projects /\ {} \in SUBSET Paths
  BY DEF Projects
<1>5. TrailIn(G, made)
  BY <1>3, <1>4, WriteProjectGood
<1>6. /\ disk.projects \cup {p} \in ProjectSets /\ disk.fileMap \in FileMaps
      /\ disk.chatIdByPath \in IdMaps
  BY <1>2, <1>4, DiskFields DEF ProjectSets
<1> HIDE DEF made
<1>7. TrailIn(G, trail)
  BY <1>2, <1>5, <1>6, WriteIndexGood
<1> HIDE DEF trail
<1>8. PanelsGood(hd, path', ids, reply)
  BY <1>1 DEF Ready
<1>9. seqCounters \in Counters /\ pending \in Buffers /\ OwnBuffer(hd, pending)
  BY DEF Ready, StoreGood
<1> QED
  BY <1>1, <1>7, <1>8, <1>9, CallDone

LEMMA DeleteProjectGood ==
  ASSUME NEW hd, NEW p \in Extra, Ready(hd), deleteProject(p)
  PROVE  Done(hd)
<1> DEFINE G == GoodDisks(hd)
           gone == ToTrash(<<disk>>, p)
           t == ensureDefaultProject(gone)
           d == Now(t)
           moved == {f \in DOMAIN d.fileMap : d.fileMap[f] = p}
           fm == [f \in DOMAIN d.fileMap |-> IF f \in moved THEN Default ELSE d.fileMap[f]]
           fs == d.files[Default] \cup moved
           listed == IF moved = {} THEN t ELSE writeProject(t, Default, fs)
           trail == writeIndex(listed, d.projects \ {p}, fm, d.chatIdByPath)
<1>1. /\ (Completes(trail, seqCounters, pending) /\ UNCHANGED <<ids, reply>>) \/ Interrupted(trail)
      /\ UNCHANGED <<path, said>>
  BY DEF deleteProject, history
<1>2. disk \in G
  BY DEF Ready, StoreGood
<1>3. TrailIn(G, <<disk>>)
  BY <1>2, TrailStarts
<1>4. p \in Projects /\ Default \in Projects
  BY DEF Projects
<1>5. TrailIn(G, gone)
  BY <1>3, <1>4, ToTrashGood
<1> HIDE DEF gone
<1>6. TrailIn(G, t) /\ Default \in DOMAIN d.files
  BY <1>5, EnsureDefaultGood
<1> HIDE DEF t
<1>7. d \in Disks /\ OwnIdMap(hd, d.chatIdByPath)
  BY <1>6, TrailFacts DEF GoodDisks
<1>8. d.projects \in ProjectSets /\ d.fileMap \in FileMaps /\ d.chatIdByPath \in IdMaps /\ d.files \in FileLists
  BY <1>7, DiskFields
<1>9. DOMAIN d.fileMap \subseteq Paths /\ \A f \in DOMAIN d.fileMap : d.fileMap[f] \in Projects
  BY <1>8, MapIs DEF FileMaps
<1>10. d.files[Default] \subseteq Paths
  BY <1>6, <1>8, MapIs DEF FileLists
<1> HIDE DEF d
<1>11. moved \subseteq Paths /\ fs \in SUBSET Paths
  BY <1>9, <1>10
<1>12. fm \in FileMaps
  <2>1. DOMAIN fm = DOMAIN d.fileMap /\ fm = [f \in DOMAIN fm |-> fm[f]]
    OBVIOUS
  <2>2. \A f \in DOMAIN fm : fm[f] \in Projects
    BY <1>4, <1>9
  <2> HIDE DEF fm
  <2> QED
    BY <1>9, <2>1, <2>2, MapIs DEF FileMaps
<1> HIDE DEF fm, fs, moved
<1>13. TrailIn(G, listed)
  <2>1. TrailIn(G, writeProject(t, Default, fs))
    BY <1>4, <1>6, <1>11, WriteProjectGood
  <2> QED
    BY <1>6, <2>1
<1> HIDE DEF listed
<1>14. d.projects \ {p} \in ProjectSets
  BY <1>8 DEF ProjectSets
<1>15. TrailIn(G, trail)
  BY <1>7, <1>8, <1>12, <1>13, <1>14, WriteIndexGood
<1> HIDE DEF trail
<1>16. PanelsGood(hd, path', ids, reply)
  BY <1>1 DEF Ready
<1>17. seqCounters \in Counters /\ pending \in Buffers /\ OwnBuffer(hd, pending)
  BY DEF Ready, StoreGood
<1> QED
  BY <1>1, <1>15, <1>16, <1>17, CallDone

LEMMA PutBuffer ==
  ASSUME NEW hd, NEW buf \in Buffers, OwnBuffer(hd, buf), NEW k \in Keys,
         NEW lines \in Seq(RecordsOf(Owners(hd, k[2])))
  PROVE  Put(buf, k, lines) \in Buffers /\ OwnBuffer(hd, Put(buf, k, lines))
<1>1. lines \in Seq(RecordsOf(Docs))
  BY OwnersAreDocs
<1>2. Put(buf, k, lines) \in Buffers
  <2> DEFINE T == Seq(RecordsOf(Docs))
  <2>1. buf \in Maps(Keys, T) /\ lines \in T /\ k \in Keys
    BY <1>1 DEF Buffers
  <2> HIDE DEF T
  <2>2. Put(buf, k, lines) \in Maps(Keys, T)
    BY ONLY <2>1, PutMap
  <2> QED
    BY <2>2 DEF Buffers, T
<1>3. /\ DOMAIN Put(buf, k, lines) = DOMAIN buf \cup {k} /\ Put(buf, k, lines)[k] = lines
      /\ \A x \in DOMAIN buf \ {k} : Put(buf, k, lines)[x] = buf[x]
  BY DEF Put
<1> DEFINE q == Put(buf, k, lines)
<1> HIDE DEF q
<1>4. OwnBuffer(hd, q)
  <2> SUFFICES ASSUME NEW x \in DOMAIN q PROVE q[x] \in Seq(RecordsOf(Owners(hd, x[2])))
    BY DEF OwnBuffer
  <2>1. CASE x = k
    BY <1>3, <2>1 DEF q
  <2>2. CASE x # k
    <3>1. x \in DOMAIN buf /\ q[x] = buf[x]
      BY <1>3, <2>2 DEF q
    <3> QED
      BY <3>1 DEF OwnBuffer
  <2> QED
    BY <2>1, <2>2
<1> QED
  BY <1>2, <1>4 DEF q

LEMMA AppendGood ==
  ASSUME NEW hd, NEW d \in Docs, Ready(hd), appendChatMessage(d)
  PROVE  Done(hd)
<1> DEFINE k == ids[d]
           O == Owners(hd, k[2])
           n == Cardinality(said[d]) + 1
           seq == Get(seqCounters, k, MaxSeq(loadChat(disk, pending, k)))
           record == [msg |-> <<d, n>>, seq |-> seq]
           buffered == Get(pending, k, <<>>)
           lines == Append(buffered, record)
           file == Get(disk.chats, k, <<>>)
<1>1. /\ k # None /\ said' = [said EXCEPT ![d] = @ \cup {record.msg}]
      /\ seqCounters' = Put(seqCounters, k, seq + 1)
      /\ \/ pending' = Put(pending, k, lines) /\ disk' = disk
         \/ /\ pending' = Drop(pending, k)
            /\ \/ disk' = Now(writeChat(<<disk>>, k, AppendLines(file, lines)))
               \/ \E left \in Partial(file, lines) :
                    disk' = IF left = <<>> THEN disk ELSE Now(writeChat(<<disk>>, k, left))
      /\ UNCHANGED <<path, ids, reply>>
  BY DEF appendChatMessage, Count
<1>2. /\ disk \in GoodDisks(hd) /\ seqCounters \in Counters /\ pending \in Buffers
      /\ OwnBuffer(hd, pending) /\ PanelsGood(hd, path, ids, reply) /\ SaidGood(said)
  BY DEF Ready, StoreGood
<1>3. k \in Keys /\ d \in O
  BY <1>1, <1>2 DEF PanelsGood, Held
<1>4. IsFiniteSet(said[d]) /\ said[d] \in SUBSET ({d} \X Nat)
  BY <1>2 DEF SaidGood
<1>5. n \in Nat
  BY <1>4, FS_CardinalityType
<1> HIDE DEF n
<1>6. seq \in Nat
  <2>1. MaxSeq(loadChat(disk, pending, k)) \in Nat
    BY <1>2, LoadChatType
  <2> DEFINE m == MaxSeq(loadChat(disk, pending, k))
  <2> HIDE DEF m, k
  <2>2. Get(seqCounters, k, m) \in Nat
    BY <1>2, <2>1, GetMap DEF Counters, m
  <2> QED
    BY <2>2 DEF m
<1> HIDE DEF seq
<1>7. record \in RecordsOf(O) /\ record.msg = <<d, n>>
  BY <1>3, <1>5, <1>6 DEF RecordsOf
<1>8. buffered \in Seq(RecordsOf(O))
  <2>1. CASE k \in DOMAIN pending
    BY <1>2, <2>1 DEF Get, OwnBuffer
  <2>2. CASE k \notin DOMAIN pending
    BY <2>2 DEF Get
  <2> QED
    BY <2>1, <2>2
<1>9. file \in Seq(LinesOf(O))
  <2>1. OwnChatMap(hd, disk.chats)
    BY <1>2 DEF GoodDisks
  <2> QED
    BY <2>1, OwnFile
<1> HIDE DEF record, buffered, file, k
<1>10. lines \in Seq(RecordsOf(O))
  <2> DEFINE R == RecordsOf(O)
  <2> HIDE DEF R
  <2>1. Append(buffered, record) \in Seq(R)
    BY <1>7, <1>8, AppendAt DEF R
  <2> QED
    BY <2>1 DEF R
<1> HIDE DEF lines
<1>11. lines \in Seq(LinesOf(O))
  BY <1>10, OwnersAreDocs
<1>12. StoreGood(hd, disk', seqCounters', pending')
  <2>1. seqCounters' \in Counters
    <3>1. seq + 1 \in Nat
      BY <1>6
    <3> DEFINE m == seq + 1
    <3> HIDE DEF m
    <3>2. Put(seqCounters, k, m) \in Maps(Keys, Nat)
      BY <1>2, <1>3, <3>1, PutMap DEF Counters, m
    <3> QED
      BY <1>1, <3>2 DEF Counters, m
  <2>2. Put(pending, k, lines) \in Buffers /\ OwnBuffer(hd, Put(pending, k, lines))
    BY <1>2, <1>3, <1>10, PutBuffer
  <2>3. Drop(pending, k) \in Buffers /\ OwnBuffer(hd, Drop(pending, k))
    BY <1>2, DropBuffer
  <2>4. ASSUME NEW x \in Seq(LinesOf(O)) PROVE Now(writeChat(<<disk>>, k, x)) \in GoodDisks(hd)
    <3>1. TrailIn(GoodDisks(hd), <<disk>>)
      BY <1>2, TrailStarts
    <3>2. TrailIn(GoodDisks(hd), writeChat(<<disk>>, k, x))
      BY <1>3, <3>1, WriteChatGood
    <3> QED
      BY <3>2, TrailFacts
  <2> DEFINE L == LinesOf(O)
  <2>5. Torn \in L
    BY DEF LinesOf
  <2>9. file \in Seq(L) /\ lines \in Seq(L)
    BY <1>9, <1>11
  <2> HIDE DEF L
  <2>6. AppendLines(file, lines) \in Seq(L)
    BY <2>9, AppendLinesType
  <2>7. Partial(file, lines) \subseteq Seq(L)
    BY <2>5, <2>9, PartialType
  <2>8. disk' \in GoodDisks(hd)
    <3>1. CASE disk' = disk
      BY <1>2, <3>1
    <3>2. CASE disk' = Now(writeChat(<<disk>>, k, AppendLines(file, lines)))
      <4> DEFINE x == AppendLines(file, lines)
      <4> HIDE DEF x
      <4>1. x \in Seq(LinesOf(O))
        BY <2>6 DEF L, x
      <4>2. disk' = Now(writeChat(<<disk>>, k, x))
        BY <3>2 DEF x
      <4> QED
        BY <2>4, <4>1, <4>2
    <3>3. ASSUME NEW left \in Partial(file, lines),
                 disk' = IF left = <<>> THEN disk ELSE Now(writeChat(<<disk>>, k, left))
          PROVE  disk' \in GoodDisks(hd)
      <4>1. left \in Seq(LinesOf(O))
        BY <2>7 DEF L
      <4>2. Now(writeChat(<<disk>>, k, left)) \in GoodDisks(hd)
        BY <2>4, <4>1
      <4> QED
        BY <1>2, <3>3, <4>2
    <3> QED
      BY <1>1, <3>1, <3>2, <3>3
  <2> QED
    BY <1>1, <2>1, <2>2, <2>3, <2>8 DEF StoreGood
<1>13. SaidGood(said')
  <2> DEFINE m == <<d, n>>
             s == [said EXCEPT ![d] = @ \cup {m}]
  <2>1. m \in {d} \X Nat /\ m \in Docs \X Nat
    BY <1>5
  <2>2. said' = s
    BY <1>1, <1>7
  <2> HIDE DEF m
  <2>3. /\ s \in [Docs -> SUBSET (Docs \X Nat)] /\ s[d] = said[d] \cup {m}
        /\ \A e \in Docs : e # d => s[e] = said[e]
    BY <1>2, <2>1 DEF SaidGood
  <2> HIDE DEF s
  <2>4. IsFiniteSet(said[d] \cup {m})
    BY <1>4, FS_AddElement
  <2>5. SaidGood(s)
    <3> SUFFICES ASSUME NEW e \in Docs PROVE IsFiniteSet(s[e]) /\ s[e] \subseteq {e} \X Nat
      BY <2>3 DEF SaidGood
    <3>1. CASE e = d
      BY <1>4, <2>1, <2>3, <2>4, <3>1
    <3>2. CASE e # d
      BY <1>2, <2>3, <3>2 DEF SaidGood
    <3> QED
      BY <3>1, <3>2
  <2> QED
    BY <2>2, <2>5
<1>14. PanelsGood(hd, path', ids', reply')
  BY <1>1, <1>2
<1> QED
  BY <1>12, <1>13, <1>14 DEF Done

LEMMA FirstSaveGood ==
  ASSUME NEW hd, NEW d \in Docs, NEW f \in Paths, Ready(hd), FirstSave(d, f), d \in hd[f]
  PROVE  Done(hd)
<1> DEFINE G == GoodDisks(hd)
           resolved == resolveChatForFile(<<disk>>, f)
           to == Resolved(Now(resolved), f)
           k == ids[d]
           trail == renameOrMergeChat(resolved, pending, k, to)
           sq == MergedSeqs(seqCounters, Now(resolved), pending, k, to)
           buf == Drop(pending, k)
<1>1. /\ path[d] = None /\ path' = [path EXCEPT ![d] = f]
      /\ \/ UNCHANGED <<disk, seqCounters, pending, ids, reply>>
         \/ /\ k # None
            /\ \/ Completes(trail, sq, buf) /\ reply' = [reply EXCEPT ![d] = to] /\ UNCHANGED ids
               \/ Interrupted(trail)
      /\ said' = said
  BY DEF FirstSave, mem
<1>2. /\ disk \in G /\ seqCounters \in Counters /\ pending \in Buffers /\ OwnBuffer(hd, pending)
      /\ PanelsGood(hd, path, ids, reply) /\ SaidGood(said)
      /\ hd \in [Paths -> SUBSET Docs] /\ Parted(hd)
  BY DEF Ready, StoreGood
<1>3. d \in hd[f]
  OBVIOUS
<1>4. PanelsGood(hd, path', ids, reply)
  <2>1. PanelsGood(hd, [path EXCEPT ![d] = f], ids, reply)
    BY <1>2, <1>3, PanelMoves
  <2> QED
    BY <1>1, <2>1
<1>5. CASE UNCHANGED <<disk, seqCounters, pending, ids, reply>>
  BY <1>1, <1>2, <1>4, <1>5 DEF Done, StoreGood
<1>6. ASSUME k # None,
             \/ Completes(trail, sq, buf) /\ reply' = [reply EXCEPT ![d] = to] /\ UNCHANGED ids
             \/ Interrupted(trail)
      PROVE  Done(hd)
  <2>1. TrailIn(G, <<disk>>)
    BY <1>2, TrailStarts
  <2>2. TrailIn(G, resolved)
    BY <1>3, <2>1, ResolveChatGood
  <2> HIDE DEF resolved
  <2>3. Now(resolved) \in GoodDisks(hd)
    BY <2>2, TrailFacts
  <2>4. to \in Keys /\ d \in Owners(hd, to[2])
    BY <1>2, <1>3, <2>3, ResolvedHeld
  <2> HIDE DEF to
  <2>5. Owners(hd, k[2]) = {d}
    <3>1. k = <<Default, TempOf(d)>>
      BY <1>1, <1>2, <1>6 DEF PanelsGood
    <3>2. Owners(hd, TempOf(d)) = {d}
      BY TempOwners
    <3>3. k[2] = TempOf(d)
      BY <3>1
    <3> QED
      BY <3>2, <3>3
  <2> HIDE DEF k
  <2>6. TrailIn(G, trail)
    BY <1>2, <2>2, <2>4, <2>5, MergeGood
  <2>7. sq \in Counters
    BY <1>2, <2>3, <2>4, MergedSeqsType
  <2>8. buf \in Buffers /\ OwnBuffer(hd, buf)
    BY <1>2, DropBuffer
  <2> HIDE DEF trail, sq, buf
  <2>9. CASE Completes(trail, sq, buf) /\ reply' = [reply EXCEPT ![d] = to] /\ UNCHANGED ids
    <3>1. disk' = Now(trail) /\ seqCounters' = sq /\ pending' = buf
      BY <2>9 DEF Completes
    <3>2. Now(trail) \in GoodDisks(hd)
      BY <2>6, TrailFacts
    <3>3. StoreGood(hd, disk', seqCounters', pending')
      BY <2>7, <2>8, <3>1, <3>2 DEF StoreGood
    <3>4. Held(hd, to, d) /\ to \in Keys \cup {None}
      BY <2>4 DEF Held
    <3>5. path'[d] # None
      <4>1. path'[d] = f
        BY <1>1, <1>2 DEF PanelsGood
      <4> QED
        BY <4>1, StoreAssumption
    <3> DEFINE pa == path'
    <3>6. PanelsGood(hd, pa, ids, reply) /\ pa[d] # None
      BY <1>4, <3>5
    <3> HIDE DEF pa
    <3>7. PanelsGood(hd, pa, ids, [reply EXCEPT ![d] = to])
      BY <3>4, <3>6, PanelAwaits
    <3>8. PanelsGood(hd, path', ids', reply')
      BY <2>9, <3>7 DEF pa
    <3> QED
      BY <1>1, <1>2, <3>3, <3>8 DEF Done
  <2>10. CASE Interrupted(trail)
    <3>1. StoreGood(hd, disk', seqCounters', pending') /\ PanelsGood(hd, path', ids', reply')
      BY <1>4, <2>6, <2>10, GoneGood
    <3> QED
      BY <1>1, <1>2, <3>1 DEF Done
  <2> QED
    BY <1>6, <2>9, <2>10
<1> QED
  BY <1>1, <1>5, <1>6

LEMMA MoveGood ==
  ASSUME NEW hd, NEW f \in Paths, NEW p \in Projects, Ready(hd), moveFileToProject(f, p)
  PROVE  Done(hd)
<1> DEFINE G == GoodDisks(hd)
           t == ensureDefaultProject(<<disk>>)
           d == Now(t)
           from == Get(d.fileMap, f, Default)
           fm == Put(d.fileMap, f, p)
           indexed == writeIndex(t, d.projects, fm, d.chatIdByPath)
           less == d.files[from] \ {f}
           left == IF from \in DOMAIN d.files THEN writeProject(indexed, from, less) ELSE indexed
           more == d.files[p] \cup {f}
           entered == writeProject(left, p, more)
           c == chatIdForPath(d, f)
           old == <<from, c>>
           new == <<p, c>>
           flushed == flushPending(entered, pending, old)
           trail == IF old \in DOMAIN Now(flushed).chats THEN RenameChat(flushed, old, new) ELSE flushed
           sq == IF old \in DOMAIN seqCounters
                 THEN Put(Drop(seqCounters, old), new, seqCounters[old]) ELSE seqCounters
           buf == Drop(pending, old)
<1>1. /\ (Completes(trail, sq, buf) /\ UNCHANGED <<ids, reply>>) \/ Interrupted(trail)
      /\ UNCHANGED <<path, said>> /\ p \in DOMAIN d.files
  BY DEF moveFileToProject, history
<1>2. /\ disk \in G /\ seqCounters \in Counters /\ pending \in Buffers /\ OwnBuffer(hd, pending)
      /\ PanelsGood(hd, path, ids, reply)
  BY DEF Ready, StoreGood
<1>3. TrailIn(G, <<disk>>)
  BY <1>2, TrailStarts
<1>4. TrailIn(G, t)
  BY <1>3, EnsureDefaultGood
<1> HIDE DEF t
<1>5. d \in Disks /\ OwnIdMap(hd, d.chatIdByPath)
  BY <1>4, TrailFacts DEF GoodDisks
<1>6. d.projects \in ProjectSets /\ d.fileMap \in FileMaps /\ d.chatIdByPath \in IdMaps /\ d.files \in FileLists
  BY <1>5, DiskFields
<1> HIDE DEF d
<1>7. Default \in Projects /\ HashOf(f) \in Hashes
  BY DEF Projects, Hashes
<1>8. from \in Projects
  BY <1>6, <1>7, GetMap DEF FileMaps
<1>9. c \in Hashes
  BY <1>6, <1>7, GetMap DEF IdMaps, chatIdForPath
<1> HIDE DEF from, c
<1>10. old \in Keys /\ new \in Keys /\ old[2] = c /\ new[2] = c
  BY <1>8, <1>9 DEF Keys, ChatIds
<1> HIDE DEF old, new
<1>11. fm \in FileMaps
  BY <1>6, PutMap DEF FileMaps
<1>12. more \in SUBSET Paths /\ (from \in DOMAIN d.files => less \in SUBSET Paths)
  <2>1. \A x \in DOMAIN d.files : d.files[x] \in SUBSET Paths
    BY <1>6, MapIs DEF FileLists
  <2> QED
    BY <1>1, <2>1
<1> HIDE DEF fm, more, less
<1>13. TrailIn(G, indexed)
  BY <1>4, <1>5, <1>6, <1>11, WriteIndexGood
<1> HIDE DEF indexed
<1>14. TrailIn(G, left)
  <2>1. from \in DOMAIN d.files => TrailIn(G, writeProject(indexed, from, less))
    BY <1>8, <1>12, <1>13, WriteProjectGood
  <2> QED
    BY <1>13, <2>1
<1> HIDE DEF left
<1>15. TrailIn(G, entered)
  BY <1>12, <1>14, WriteProjectGood
<1> HIDE DEF entered
<1>16. TrailIn(G, flushed)
  BY <1>2, <1>15, FlushGood
<1> HIDE DEF flushed
<1>17. TrailIn(G, trail)
  <2>1. Owners(hd, old[2]) \subseteq Owners(hd, new[2])
    BY <1>10
  <2>2. old \in DOMAIN Now(flushed).chats => TrailIn(G, RenameChat(flushed, old, new))
    BY <1>10, <1>16, <2>1, RenameChatGood
  <2> QED
    BY <1>16, <2>2
<1> HIDE DEF trail
<1>18. sq \in Counters
  <2>1. CASE old \notin DOMAIN seqCounters
    BY <1>2, <2>1
  <2>2. CASE old \in DOMAIN seqCounters
    <3> DEFINE rest == Drop(seqCounters, old)
               n == seqCounters[old]
    <3>1. rest \in Maps(Keys, Nat)
      BY <1>2, DropMap DEF Counters
    <3>2. n \in Nat
      BY <1>2, <2>2, MapIs DEF Counters
    <3>3. sq = Put(rest, new, n)
      BY <2>2
    <3> HIDE DEF rest, n, sq
    <3>4. Put(rest, new, n) \in Maps(Keys, Nat)
      BY <1>10, <3>1, <3>2, PutMap
    <3> QED
      BY <3>3, <3>4 DEF Counters
  <2> QED
    BY <2>1, <2>2
<1> HIDE DEF sq
<1>19. buf \in Buffers /\ OwnBuffer(hd, buf)
  BY <1>2, DropBuffer
<1> HIDE DEF buf
<1>20. PanelsGood(hd, path', ids, reply)
  BY <1>1, <1>2
<1> QED
  BY <1>1, <1>17, <1>18, <1>19, <1>20, CallDone

LEMMA FileRenamedGood ==
  ASSUME NEW hd, NEW d \in Docs, NEW f \in Paths, Ready(hd), fileRenamed(d, f), d \in hd[f]
  PROVE  Done(hd)
<1> DEFINE G == GoodDisks(hd)
           old == path[d]
           p == Get(disk.fileMap, old, None)
           fm == IF p = None THEN disk.fileMap ELSE Put(Drop(disk.fileMap, old), f, p)
           fs == {IF g = old THEN f ELSE g : g \in disk.files[p]}
           listed == IF p = None \/ p \notin DOMAIN disk.files THEN <<disk>>
                     ELSE writeProject(<<disk>>, p, fs)
           c == chatIdForPath(disk, old)
           rest == Drop(disk.chatIdByPath, old)
           ci == Put(rest, f, c)
           trail == writeIndex(listed, disk.projects, fm, ci)
<1>1. /\ old # None /\ path' = [path EXCEPT ![d] = f]
      /\ (Completes(trail, seqCounters, pending) /\ UNCHANGED <<ids, reply>>) \/ Interrupted(trail)
      /\ said' = said
  BY DEF fileRenamed
<1>2. /\ disk \in G /\ seqCounters \in Counters /\ pending \in Buffers /\ OwnBuffer(hd, pending)
      /\ PanelsGood(hd, path, ids, reply)
      /\ hd \in [Paths -> SUBSET Docs] /\ Parted(hd)
  BY DEF Ready, StoreGood
<1>3. d \in hd[f]
  OBVIOUS
<1>4. PanelsGood(hd, path', ids, reply)
  <2>1. PanelsGood(hd, [path EXCEPT ![d] = f], ids, reply)
    BY <1>2, <1>3, PanelMoves
  <2> QED
    BY <1>1, <2>1
<1>5. old \in Paths /\ d \in hd[old]
  BY <1>1, <1>2 DEF PanelsGood
<1> HIDE DEF old
<1>6. disk \in Disks /\ OwnIdMap(hd, disk.chatIdByPath)
  BY <1>2 DEF GoodDisks
<1>7. /\ disk.projects \in ProjectSets /\ disk.fileMap \in FileMaps /\ disk.chatIdByPath \in IdMaps
      /\ disk.files \in FileLists
  BY <1>6, DiskFields
<1>8. c \in Hashes
  BY <1>2, <1>5, ChatIdHeld
<1>9. PICK g \in Paths : c = HashOf(g) /\ d \in hd[g]
  BY <1>2, <1>5, ChatIdHeld
<1> HIDE DEF c
<1>10. p # None => p \in Projects
  BY <1>7, MapIs DEF FileMaps, Get
<1> HIDE DEF p
<1>11. fm \in FileMaps
  <2>1. CASE p = None
    BY <1>7, <2>1
  <2>2. CASE p # None
    <3> DEFINE q == Drop(disk.fileMap, old)
    <3>1. q \in Maps(Paths, Projects)
      BY <1>7, DropMap DEF FileMaps
    <3> HIDE DEF q
    <3>2. Put(q, f, p) \in Maps(Paths, Projects)
      BY <1>10, <2>2, <3>1, PutMap
    <3> QED
      BY <2>2, <3>2 DEF q, FileMaps
  <2> QED
    BY <2>1, <2>2
<1>12. p \in DOMAIN disk.files => fs \in SUBSET Paths
  <2>1. \A x \in DOMAIN disk.files : disk.files[x] \in SUBSET Paths
    BY <1>7, MapIs DEF FileLists
  <2> QED
    BY <2>1
<1> HIDE DEF fm, fs
<1>13. TrailIn(G, listed)
  <2>1. TrailIn(G, <<disk>>)
    BY <1>2, TrailStarts
  <2>2. p # None /\ p \in DOMAIN disk.files => TrailIn(G, writeProject(<<disk>>, p, fs))
    BY <1>10, <1>12, <2>1, WriteProjectGood
  <2> QED
    BY <2>1, <2>2
<1> HIDE DEF listed
<1>14. rest \in Maps(Paths, Hashes)
  BY <1>7, DropMap DEF IdMaps
<1>15. OwnIdMap(hd, ci)
  <2>1. /\ DOMAIN rest = DOMAIN disk.chatIdByPath \ {old}
        /\ \A x \in DOMAIN disk.chatIdByPath \ {old} : rest[x] = disk.chatIdByPath[x]
    BY DropAt
  <2> HIDE DEF rest
  <2>2. DOMAIN ci = DOMAIN rest \cup {f} /\ ci[f] = c /\ \A x \in DOMAIN rest \ {f} : ci[x] = rest[x]
    BY DEF Put
  <2> HIDE DEF ci
  <2> SUFFICES ASSUME NEW x \in DOMAIN ci
               PROVE  \E h \in Paths : ci[x] = HashOf(h) /\ hd[x] \cap hd[h] # {}
    BY DEF OwnIdMap
  <2>3. CASE x = f
    BY <1>3, <1>9, <2>2, <2>3
  <2>4. CASE x # f
    <3>1. x \in DOMAIN disk.chatIdByPath /\ ci[x] = disk.chatIdByPath[x]
      BY <2>1, <2>2, <2>4
    <3> QED
      BY <1>6, <3>1 DEF OwnIdMap
  <2> QED
    BY <2>3, <2>4
<1>16. ci \in IdMaps
  <2> HIDE DEF rest
  <2> QED
    BY <1>8, <1>14, PutMap DEF IdMaps
<1> HIDE DEF ci
<1>17. TrailIn(G, trail)
  BY <1>7, <1>11, <1>13, <1>15, <1>16, WriteIndexGood
<1> HIDE DEF trail
<1> QED
  BY <1>1, <1>2, <1>4, <1>17, CallDone

(* Paths are only ever taken: a document that had one has had it for good. *)
LEMMA HadGrows ==
  ASSUME HadGood(had), [Next]_vars
  PROVE  HadGood(had') /\ Grown(had, had')
<1>1. had' = had \/ \E d \in Docs, f \in Paths : had' = [had EXCEPT ![f] = @ \cup {d}]
  <2>1. CASE Next
    <3>1. ASSUME NEW d \in Docs, OpenChat(d) \/ ClosePanel(d) \/ Answered(d) \/ appendChatMessage(d)
          PROVE  had' = had
      BY <3>1 DEF OpenChat, ClosePanel, Answered, appendChatMessage, history
    <3>2. ASSUME NEW d \in Docs, NEW f \in Paths, FirstSave(d, f) \/ fileRenamed(d, f)
          PROVE  had' = [had EXCEPT ![f] = @ \cup {d}]
      BY <3>2 DEF FirstSave, fileRenamed
    <3>3. ASSUME NEW p \in Extra, createProject(p) \/ deleteProject(p)
          PROVE  had' = had
      BY <3>3 DEF createProject, deleteProject, history
    <3>4. ASSUME NEW f \in Paths, NEW p \in Projects, moveFileToProject(f, p)
          PROVE  had' = had
      BY <3>4 DEF moveFileToProject, history
    <3>5. CASE ProcessEnds
      BY <3>5 DEF ProcessEnds, history
    <3> QED
      BY <2>1, <3>1, <3>2, <3>3, <3>4, <3>5 DEF Next
  <2>2. CASE UNCHANGED vars
    BY <2>2 DEF vars
  <2> QED
    BY <2>1, <2>2
<1>2. CASE had' = had
  BY <1>2 DEF HadGood, Grown
<1>3. ASSUME NEW d \in Docs, NEW f \in Paths, had' = [had EXCEPT ![f] = @ \cup {d}]
      PROVE  HadGood(had') /\ Grown(had, had')
  <2>1. /\ had' \in [Paths -> SUBSET Docs] /\ had'[f] = had[f] \cup {d}
        /\ \A g \in Paths : g # f => had'[g] = had[g]
    BY <1>3 DEF HadGood
  <2>2. IsFiniteSet(had[f] \cup {d})
    BY FS_AddElement DEF HadGood
  <2> QED
    BY <2>1, <2>2 DEF HadGood, Grown
<1> QED
  BY <1>1, <1>2, <1>3

LEMMA StoreInvInit == Init => StoreInv
<1> SUFFICES ASSUME Init PROVE StoreInv
  OBVIOUS
<1> USE DEF Init
<1>1. HadGood(had)
  BY FS_EmptySet DEF HadGood
<1>2. SaidGood(said)
  BY FS_EmptySet DEF SaidGood
<1>3. PanelsGood(had, path, ids, reply)
  BY DEF PanelsGood, Held
<1>4. /\ Empty \in FileMaps /\ Empty \in IdMaps /\ Empty \in FileLists /\ Empty \in ChatMaps
      /\ Empty \in Trashes /\ Empty \in Counters /\ Empty \in Buffers /\ DOMAIN Empty = {}
  BY EmptyMap DEF FileMaps, IdMaps, FileLists, ChatMaps, Trashes, Counters, Buffers
<1>5. disk \in Disks /\ disk.chats = Empty /\ disk.chatIdByPath = Empty
  BY <1>4 DEF Disks, ProjectSets
<1>6. OwnChatMap(had, Empty) /\ OwnIdMap(had, Empty) /\ OwnBuffer(had, Empty)
  BY <1>4 DEF OwnChatMap, OwnIdMap, OwnBuffer
<1>7. StoreGood(had, disk, seqCounters, pending)
  BY <1>4, <1>5, <1>6 DEF StoreGood, GoodDisks
<1> QED
  BY <1>1, <1>2, <1>3, <1>7 DEF StoreInv

LEMMA StepGood ==
  ASSUME NEW hd, Ready(hd), [Next]_vars,
         \A d \in Docs, f \in Paths : FirstSave(d, f) \/ fileRenamed(d, f) => d \in hd[f]
  PROVE  Done(hd)
<1>1. CASE Next
  <2>1. ASSUME NEW d \in Docs, OpenChat(d) \/ ClosePanel(d) \/ Answered(d) \/ appendChatMessage(d)
        PROVE  Done(hd)
    BY <2>1, OpenChatGood, ClosePanelGood, AnsweredGood, AppendGood
  <2>2. ASSUME NEW d \in Docs, NEW f \in Paths, FirstSave(d, f) \/ fileRenamed(d, f)
        PROVE  Done(hd)
    BY <2>2, FirstSaveGood, FileRenamedGood
  <2>3. ASSUME NEW p \in Extra, createProject(p) \/ deleteProject(p)
        PROVE  Done(hd)
    BY <2>3, CreateProjectGood, DeleteProjectGood
  <2>4. ASSUME NEW f \in Paths, NEW p \in Projects, moveFileToProject(f, p)
        PROVE  Done(hd)
    BY <2>4, MoveGood
  <2>5. CASE ProcessEnds
    BY <2>5, ProcessEndsGood
  <2> QED
    BY <1>1, <2>1, <2>2, <2>3, <2>4, <2>5 DEF Next
<1>2. CASE UNCHANGED vars
  BY <1>2 DEF vars, Ready, Done
<1> QED
  BY <1>1, <1>2

(* The step finds a good store, once the paths it takes are taken. *)
LEMMA StoreReady ==
  ASSUME StoreInv, [Next]_vars, Single(had')
  PROVE  /\ Ready(had') /\ NoReuse /\ had \in [Paths -> SUBSET Docs]
         /\ \A d \in Docs, f \in Paths : FirstSave(d, f) \/ fileRenamed(d, f) => d \in had'[f]
<1>1. HadGood(had) /\ HadGood(had') /\ Grown(had, had')
  BY HadGrows DEF StoreInv
<1>2. Single(had)
  BY <1>1 DEF Single, Grown
<1>3. NoReuse
  BY <1>1, <1>2, NoReuseIs
<1>4. StoreGood(had', disk, seqCounters, pending)
  BY <1>1, <1>3, StoreGrow DEF StoreInv
<1>5. PanelsGood(had', path, ids, reply)
  BY <1>1, <1>3, PanelsGrow DEF StoreInv
<1>6. SaidGood(said)
  BY <1>3 DEF StoreInv
<1>7. Parted(had')
  BY DEF Single, Parted
<1>8. Ready(had')
  BY <1>1, <1>4, <1>5, <1>6, <1>7 DEF Ready, HadGood
<1>9. ASSUME NEW d \in Docs, NEW f \in Paths, FirstSave(d, f) \/ fileRenamed(d, f)
      PROVE  d \in had'[f]
  <2>1. had' = [had EXCEPT ![f] = @ \cup {d}]
    BY <1>9 DEF FirstSave, fileRenamed
  <2> QED
    BY <1>1, <2>1 DEF HadGood
<1> QED
  BY <1>1, <1>3, <1>8, <1>9 DEF HadGood

LEMMA StoreInvNext == StoreInv /\ [Next]_vars => StoreInv'
<1> SUFFICES ASSUME StoreInv, [Next]_vars PROVE StoreInv'
  OBVIOUS
<1>1. HadGood(had') /\ (NoReuse' <=> Single(had'))
  BY HadGrows, OneReuse DEF StoreInv, NoReuse, Single, HadGood, Count
<1> SUFFICES ASSUME Single(had')
             PROVE  Done(had')
  BY <1>1 DEF StoreInv, Done
<1>2. /\ Ready(had')
      /\ \A d \in Docs, f \in Paths : FirstSave(d, f) \/ fileRenamed(d, f) => d \in had'[f]
  BY StoreReady
<1> DEFINE hd == had'
<1> HIDE DEF hd
<1>3. Done(hd)
  BY <1>2, StepGood DEF hd
<1> QED
  BY <1>3 DEF hd

LEMMA StoreInvIsOwn == StoreInv => OwnHistoryOnly
<1> SUFFICES ASSUME StoreInv, NoReuse, NEW d \in Docs, NEW e \in Docs, d # e, path[d] # None
             PROVE  Shown(d) \cap said[e] = {}
  BY DEF OwnHistoryOnly
<1> DEFINE k == Resolved(disk, path[d])
           s == loadChat(disk, pending, k)
<1>1. had \in [Paths -> SUBSET Docs] /\ Single(had)
  BY NoReuseIs DEF StoreInv, HadGood
<1>2. disk \in GoodDisks(had) /\ OwnBuffer(had, pending)
  BY DEF StoreInv, StoreGood
<1>3. path[d] \in Paths /\ d \in had[path[d]]
  BY DEF StoreInv, PanelsGood
<1>4. Owners(had, k[2]) = {d}
  BY <1>1, <1>2, <1>3, ResolvedOwner
<1>5. s \in Seq(RecordsOf(Owners(had, k[2])))
  BY <1>2, LoadChatType
<1>6. Shown(d) = {r.msg : r \in Range(s)}
  BY DEF Shown, Msgs
<1> DEFINE R == RecordsOf({d})
<1> HIDE DEF s
<1>7. s \in Seq(R)
  BY <1>4, <1>5
<1>8. \A r \in R : r.msg \in {d} \X Nat
  BY DEF RecordsOf
<1> HIDE DEF R
<1>9. \A r \in Range(s) : r \in R
  BY <1>7 DEF Range
<1>10. said[e] \subseteq {e} \X Nat
  BY DEF StoreInv, SaidGood
<1>11. \A x \in Shown(d) : x \in {d} \X Nat
  BY <1>6, <1>8, <1>9
<1> QED
  BY <1>10, <1>11

(* One document's chat never shows what was said about another, for any number *)
(* of documents, paths and projects, through every crash and failed append, as  *)
(* long as no path is given up by one document and taken by another.            *)
THEOREM ChatsStayApart == Spec => []OwnHistoryOnly
<1>1. Init => StoreInv
  BY StoreInvInit
<1>2. StoreInv /\ [Next]_vars => StoreInv'
  BY StoreInvNext
<1>3. StoreInv => OwnHistoryOnly
  BY StoreInvIsOwn
<1> QED
  BY <1>1, <1>2, <1>3, PTL DEF Spec

-----------------------------------------------------------------------------
(* What is kept.  The messages of a chat are those in its file and its buffer.  *)
Heard(cs, buf, k) == Msgs(Get(buf, k, <<>>)) \cup Msgs(Get(cs, k, <<>>))
Clean(cs) == \A k \in DOMAIN cs : Torn \notin Range(cs[k])

LEMMA GetPut ==
  ASSUME NEW f, NEW k, NEW v, NEW x, NEW other
  PROVE  Get(Put(f, k, v), x, other) = IF x = k THEN v ELSE Get(f, x, other)
BY DEF Get, Put

LEMMA GetDrop ==
  ASSUME NEW f, NEW k, NEW x, NEW other
  PROVE  Get(Drop(f, k), x, other) = IF x = k THEN other ELSE Get(f, x, other)
BY DEF Get, Drop, Restrict

LEMMA MsgsCat ==
  ASSUME NEW S, NEW q \in Seq(S), NEW r \in Seq(S)
  PROVE  Msgs(q \o r) = Msgs(q) \cup Msgs(r)
<1>1. Range(q \o r) = Range(q) \cup Range(r)
  BY CatRange
<1> DEFINE c == q \o r
<1> HIDE DEF c
<1>2. Range(c) = Range(q) \cup Range(r)
  BY <1>1 DEF c
<1>3. Msgs(c) = Msgs(q) \cup Msgs(r)
  BY <1>2 DEF Msgs
<1> QED
  BY <1>3 DEF c

LEMMA MsgsNone == Msgs(<<>>) = {}
BY DEF Msgs, Range

LEMMA MsgsRenumbered ==
  ASSUME NEW A, NEW s \in Seq(RecordsOf(A)), NEW n \in Nat
  PROVE  Msgs(Renumbered(s, n)) = Msgs(s)
<1> DEFINE D == A \X Nat
           q == Renumbered(s, n)
<1>1. s \in Seq([msg : D, seq : Nat])
  BY DEF RecordsOf
<1> HIDE DEF D
<1>2. /\ q \in Seq([msg : D, seq : Nat]) /\ Len(q) = Len(s)
      /\ \A i \in 1..Len(s) : q[i].msg = s[i].msg
  BY <1>1, RenumberedType
<1> HIDE DEF q
<1>3. DOMAIN q = 1..Len(s) /\ DOMAIN s = 1..Len(s)
  <2> DEFINE R == [msg : D, seq : Nat]
  <2>1. q \in Seq(R) /\ s \in Seq(R) /\ Len(q) = Len(s)
    BY <1>1, <1>2
  <2> HIDE DEF R
  <2> QED
    BY <2>1
<1>4. Msgs(q) = {q[i].msg : i \in 1..Len(s)}
  BY <1>3 DEF Msgs, Range
<1>5. Msgs(s) = {s[i].msg : i \in 1..Len(s)}
  BY <1>3 DEF Msgs, Range
<1>6. Msgs(q) = Msgs(s)
  BY <1>2, <1>4, <1>5
<1> QED
  BY <1>6 DEF q

LEMMA RecordNotTorn ==
  ASSUME NEW A \in SUBSET Docs, NEW s \in Seq(RecordsOf(A))
  PROVE  Torn \notin Range(s)
<1>1. \A r \in RecordsOf(A) : r # Torn
  <2> SUFFICES ASSUME NEW r \in RecordsOf(A), r = Torn PROVE FALSE
    OBVIOUS
  <2>1. r.msg \in A \X Nat /\ r.msg = <<None, 0>>
    BY DEF RecordsOf, Torn
  <2>2. None \in A
    BY <2>1
  <2> QED
    BY <2>2, StoreAssumption
<1> DEFINE R == RecordsOf(A)
<1>2. s \in Seq(R)
  OBVIOUS
<1> HIDE DEF R
<1>3. Range(s) \subseteq R
  BY <1>2 DEF Range
<1> QED
  BY <1>1, <1>3 DEF R

LEMMA CleanAppend ==
  ASSUME NEW L, NEW file \in Seq(L), NEW lines \in Seq(L), Torn \notin Range(file), Torn \notin Range(lines)
  PROVE  /\ AppendLines(file, lines) = file \o lines
         /\ Torn \notin Range(AppendLines(file, lines))
         /\ Msgs(AppendLines(file, lines)) = Msgs(file) \cup Msgs(lines)
<1>1. ~IsTorn(file)
  <2> SUFFICES ASSUME file # <<>> PROVE Last(file) # Torn
    BY DEF IsTorn
  <2>1. Len(file) \in Nat \ {0} /\ DOMAIN file = 1..Len(file)
    BY EmptySeq
  <2>2. file[Len(file)] \in Range(file)
    BY <2>1 DEF Range
  <2> QED
    BY <2>2 DEF Last
<1>2. AppendLines(file, lines) = file \o lines
  BY <1>1 DEF AppendLines
<1>3. Range(file \o lines) = Range(file) \cup Range(lines)
  BY CatRange
<1>4. Msgs(file \o lines) = Msgs(file) \cup Msgs(lines)
  BY MsgsCat
<1> QED
  BY <1>2, <1>3, <1>4

LEMMA LoadMsgs ==
  ASSUME NEW hd, NEW d \in GoodDisks(hd), NEW buf, OwnBuffer(hd, buf), NEW k, Clean(d.chats)
  PROVE  Msgs(loadChat(d, buf, k)) = Heard(d.chats, buf, k)
<1>1. Range(loadChat(d, buf, k)) = Range(Get(buf, k, <<>>)) \cup (Range(Get(d.chats, k, <<>>)) \ {Torn})
  BY LoadChatType
<1>2. Torn \notin Range(Get(d.chats, k, <<>>))
  <2>1. CASE k \in DOMAIN d.chats
    BY <2>1 DEF Get, Clean
  <2>2. CASE k \notin DOMAIN d.chats
    BY <2>2 DEF Get, Range
  <2> QED
    BY <2>1, <2>2
<1> DEFINE s == loadChat(d, buf, k)
           a == Get(buf, k, <<>>)
           b == Get(d.chats, k, <<>>)
<1> HIDE DEF s, a, b
<1>3. Range(s) = Range(a) \cup Range(b)
  BY <1>1, <1>2 DEF s, a, b
<1>4. Msgs(s) = Msgs(a) \cup Msgs(b)
  BY <1>3 DEF Msgs
<1> QED
  BY <1>4 DEF s, a, b, Heard

(* Writing the buffer out moves its messages and loses none. *)
LEMMA FlushHears ==
  ASSUME NEW hd, NEW t, TrailIn(GoodDisks(hd), t), NEW buf \in Buffers, OwnBuffer(hd, buf), NEW k,
         Clean(Now(t).chats)
  PROVE  LET u == flushPending(t, buf, k)
             cs == Now(u).chats
         IN  /\ OnlyChats(Now(t), Now(u)) /\ Clean(cs)
             /\ \A x : Heard(cs, Drop(buf, k), x) = Heard(Now(t).chats, buf, x)
             /\ k \notin DOMAIN cs => Heard(Now(t).chats, buf, k) = {}
<1> DEFINE c0 == Now(t).chats
           b == Drop(buf, k)
<1>1. \A x : Get(b, x, <<>>) = IF x = k THEN <<>> ELSE Get(buf, x, <<>>)
  BY GetDrop
<1>2. CASE Get(buf, k, <<>>) = <<>>
  <2>1. flushPending(t, buf, k) = t
    BY <1>2 DEF flushPending
  <2>2. \A x : Get(b, x, <<>>) = Get(buf, x, <<>>)
    BY <1>1, <1>2
  <2> HIDE DEF b
  <2>3. \A x : Heard(c0, b, x) = Heard(c0, buf, x)
    BY <2>2 DEF Heard
  <2>4. k \notin DOMAIN c0 => Heard(c0, buf, k) = {}
    BY <1>2, MsgsNone DEF Heard, Get
  <2> QED
    BY <2>1, <2>3, <2>4 DEF OnlyChats, b
<1>3. CASE Get(buf, k, <<>>) # <<>>
  <2> DEFINE file == Get(c0, k, <<>>)
             new == buf[k]
             lines == AppendLines(file, new)
             u == writeChat(t, k, lines)
             O == Owners(hd, k[2])
             L == LinesOf(O)
  <2>1. k \in DOMAIN buf /\ Get(buf, k, <<>>) = new
    BY <1>3 DEF Get
  <2>2. k \in Keys
    BY <2>1, MapIs DEF Buffers
  <2>3. new \in Seq(RecordsOf(O))
    BY <2>1 DEF OwnBuffer
  <2>4. new \in Seq(L)
    BY <2>3, OwnersAreDocs
  <2>5. OwnChatMap(hd, c0)
    BY GoodChats
  <2>6. file \in Seq(L)
    BY <2>5, OwnFile
  <2>7. flushPending(t, buf, k) = u
    BY <1>3 DEF flushPending
  <2>8. Torn \notin Range(new)
    <3>1. O \in SUBSET Docs
      BY OwnersAreDocs
    <3> QED
      BY <2>3, <3>1, RecordNotTorn
  <2>9. Torn \notin Range(file)
    <3>1. CASE k \in DOMAIN c0
      BY <3>1 DEF Get, Clean
    <3>2. CASE k \notin DOMAIN c0
      BY <3>2 DEF Get, Range
    <3> QED
      BY <3>1, <3>2
  <2> HIDE DEF file, new, L
  <2>10. /\ Torn \notin Range(lines) /\ Msgs(lines) = Msgs(file) \cup Msgs(new)
    BY <2>4, <2>6, <2>8, <2>9, CleanAppend
  <2>11. lines \in Seq(L)
    BY <2>4, <2>6, AppendLinesType
  <2> HIDE DEF lines
  <2>12. OnlyChats(Now(t), Now(u)) /\ Now(u).chats = Put(c0, k, lines)
    BY <2>2, <2>11, WriteChatGood DEF L
  <2> HIDE DEF c0, u, b
  <2> DEFINE cs == Put(c0, k, lines)
  <2>13. \A x : Get(cs, x, <<>>) = IF x = k THEN lines ELSE Get(c0, x, <<>>)
    BY GetPut
  <2>14. /\ DOMAIN cs = DOMAIN c0 \cup {k} /\ cs[k] = lines
         /\ \A x \in DOMAIN c0 \ {k} : cs[x] = c0[x]
    BY DEF Put
  <2> HIDE DEF cs
  <2>15. Clean(cs)
    BY <2>10, <2>14 DEF Clean, c0
  <2>16. ASSUME NEW x PROVE Heard(cs, b, x) = Heard(c0, buf, x)
    <3>1. CASE x = k
      <4>1. Get(b, x, <<>>) = <<>> /\ Get(cs, x, <<>>) = lines
        BY <1>1, <2>13, <3>1
      <4>2. Get(buf, x, <<>>) = new /\ Get(c0, x, <<>>) = file
        BY <2>1, <3>1 DEF file
      <4> QED
        BY <2>10, <4>1, <4>2, MsgsNone DEF Heard
    <3>2. CASE x # k
      <4>1. Get(b, x, <<>>) = Get(buf, x, <<>>) /\ Get(cs, x, <<>>) = Get(c0, x, <<>>)
        BY <1>1, <2>13, <3>2
      <4> QED
        BY <4>1 DEF Heard
    <3> QED
      BY <3>1, <3>2
  <2>17. Now(u).chats = cs
    BY <2>12 DEF cs
  <2> QED
    BY <2>7, <2>12, <2>14, <2>15, <2>16, <2>17 DEF b, c0
<1> QED
  BY <1>2, <1>3

(* A merge brings together what the two chats held. *)
LEMMA MergeHears ==
  ASSUME NEW hd, NEW t, TrailIn(GoodDisks(hd), t), NEW buf \in Buffers, OwnBuffer(hd, buf),
         NEW from, NEW to \in Keys, from # to, Owners(hd, from[2]) \subseteq Owners(hd, to[2]),
         Clean(Now(t).chats)
  PROVE  LET u == renameOrMergeChat(t, buf, from, to)
             cs == Now(u).chats
         IN  /\ OnlyChats(Now(t), Now(u)) /\ Clean(cs)
             /\ Heard(Now(t).chats, buf, from) \subseteq Heard(cs, Drop(buf, from), to)
             /\ \A x : x # from => Heard(Now(t).chats, buf, x) \subseteq Heard(cs, Drop(buf, from), x)
<1> DEFINE c0 == Now(t).chats
           b == Drop(buf, from)
           v == flushPending(t, buf, from)
           d == Now(v)
           c1 == d.chats
           moved == loadChat(d, b, from)
           n == MaxSeq(loadChat(d, buf, to))
           r == Renumbered(moved, n)
           lines == AppendLines(c1[to], r)
           merged == writeChat(v, to, lines)
           Good(u) == /\ OnlyChats(Now(t), Now(u)) /\ Clean(Now(u).chats)
                      /\ Heard(c0, buf, from) \subseteq Heard(Now(u).chats, b, to)
                      /\ \A x : x # from => Heard(c0, buf, x) \subseteq Heard(Now(u).chats, b, x)
<1>1. renameOrMergeChat(t, buf, from, to) =
        IF from \notin DOMAIN c1 THEN v
        ELSE IF to \notin DOMAIN c1 THEN RenameChat(v, from, to)
        ELSE IF moved = <<>> THEN Unlink(v, from)
        ELSE Unlink(merged, from)
  BY DEF renameOrMergeChat
<1>2. TrailIn(GoodDisks(hd), v)
  BY FlushGood
<1>3. /\ OnlyChats(Now(t), d) /\ Clean(c1)
      /\ \A x : Heard(c1, b, x) = Heard(c0, buf, x)
      /\ from \notin DOMAIN c1 => Heard(c0, buf, from) = {}
  BY FlushHears
<1>4. b \in Buffers /\ OwnBuffer(hd, b)
  BY DropBuffer
<1>5. \A x : Get(b, x, <<>>) = IF x = from THEN <<>> ELSE Get(buf, x, <<>>)
  BY GetDrop
<1>6. d \in GoodDisks(hd) /\ OwnChatMap(hd, c1)
  BY <1>2, GoodChats
<1> HIDE DEF v, c0
<1>7. from \notin DOMAIN c1 => Good(v)
  BY <1>3
<1> HIDE DEF b
<1>20. ASSUME NEW u, NEW cs, Now(u).chats = cs, OnlyChats(d, Now(u)), Clean(cs),
              Heard(c1, b, from) \subseteq Heard(cs, b, to),
              \A x : x # from => Heard(c1, b, x) \subseteq Heard(cs, b, x)
       PROVE  Good(u)
  BY <1>3, <1>20 DEF OnlyChats
<1> HIDE DEF Good
<1>8. ASSUME from \in DOMAIN c1, to \notin DOMAIN c1 PROVE Good(RenameChat(v, from, to))
  <2> DEFINE u == RenameChat(v, from, to)
             file == c1[from]
             put == Put(c1, to, file)
             cs == Drop(put, from)
  <2>1. OnlyChats(d, Now(u)) /\ Now(u).chats = cs
    BY <1>2, <1>8, RenameChatGood
  <2> HIDE DEF u, d, file
  <2>2. \A x : Get(put, x, <<>>) = IF x = to THEN file ELSE Get(c1, x, <<>>)
    BY GetPut
  <2>3. /\ DOMAIN put = DOMAIN c1 \cup {to} /\ put[to] = file
        /\ \A x \in DOMAIN c1 \ {to} : put[x] = c1[x]
    BY DEF Put
  <2> HIDE DEF put
  <2>4. \A x : Get(cs, x, <<>>) = IF x = from THEN <<>> ELSE Get(put, x, <<>>)
    BY GetDrop
  <2>5. DOMAIN cs = DOMAIN put \ {from} /\ \A x \in DOMAIN put \ {from} : cs[x] = put[x]
    BY DropAt
  <2> HIDE DEF cs
  <2>6. Clean(cs)
    BY <1>3, <1>8, <2>3, <2>5 DEF Clean, file
  <2>7. Heard(c1, b, from) \subseteq Heard(cs, b, to)
    <3>1. Get(cs, to, <<>>) = file
      BY <2>2, <2>4
    <3>2. Get(c1, from, <<>>) = file
      BY <1>8 DEF Get, file
    <3>3. Get(b, from, <<>>) = <<>>
      BY <1>5
    <3> QED
      BY <3>1, <3>2, <3>3, MsgsNone DEF Heard
  <2>8. ASSUME NEW x, x # from PROVE Heard(c1, b, x) \subseteq Heard(cs, b, x)
    <3>1. CASE x = to
      <4>1. Get(c1, x, <<>>) = <<>>
        BY <1>8, <3>1 DEF Get
      <4> QED
        BY <4>1, MsgsNone DEF Heard
    <3>2. CASE x # to
      <4>1. Get(c1, x, <<>>) = Get(cs, x, <<>>)
        BY <2>2, <2>4, <2>8, <3>2
      <4> QED
        BY <4>1 DEF Heard
    <3> QED
      BY <3>1, <3>2
  <2>9. Good(u)
    BY <1>20, <2>1, <2>6, <2>7, <2>8
  <2> QED
    BY <2>9 DEF u
<1>9. Msgs(moved) = Heard(c1, b, from)
  BY <1>3, <1>4, <1>6, LoadMsgs
<1>10. ASSUME moved = <<>> PROVE Good(Unlink(v, from))
  <2> DEFINE u == Unlink(v, from)
             cs == Drop(c1, from)
  <2>1. OnlyChats(d, Now(u)) /\ Now(u).chats = cs
    BY <1>2, UnlinkGood
  <2> HIDE DEF u, d
  <2>4. \A x : Get(cs, x, <<>>) = IF x = from THEN <<>> ELSE Get(c1, x, <<>>)
    BY GetDrop
  <2>5. DOMAIN cs = DOMAIN c1 \ {from} /\ \A x \in DOMAIN c1 \ {from} : cs[x] = c1[x]
    BY DropAt
  <2> HIDE DEF cs
  <2>6. Clean(cs)
    BY <1>3, <2>5 DEF Clean
  <2>7. Heard(c1, b, from) = {}
    BY <1>9, <1>10, MsgsNone
  <2>8. ASSUME NEW x, x # from PROVE Heard(c1, b, x) \subseteq Heard(cs, b, x)
    <3>1. Get(c1, x, <<>>) = Get(cs, x, <<>>)
      BY <2>4, <2>8
    <3> QED
      BY <3>1 DEF Heard
  <2>9. Good(u)
    BY <1>20, <2>1, <2>6, <2>7, <2>8
  <2> QED
    BY <2>9 DEF u
<1>11. ASSUME to \in DOMAIN c1 PROVE Good(Unlink(merged, from))
  <2> DEFINE u == Unlink(merged, from)
             A == Owners(hd, from[2])
             B == Owners(hd, to[2])
             L == LinesOf(B)
             file == c1[to]
             put == Put(c1, to, lines)
             cs == Drop(put, from)
  <2>1. moved \in Seq(RecordsOf(A))
    BY <1>4, <1>6, LoadChatType
  <2>2. n \in Nat
    BY <1>6, LoadChatType
  <2>3. file \in Seq(L) /\ Torn \notin Range(file)
    BY <1>3, <1>6, <1>11 DEF OwnChatMap, Clean
  <2>4. A \subseteq B /\ A \in SUBSET Docs
    BY OwnersAreDocs
  <2> HIDE DEF moved, n, A, B, d
  <2>5. r \in Seq(LinesOf(B)) /\ Msgs(r) = Msgs(moved)
    BY <2>1, <2>2, <2>4, RenumberedOwn, MsgsRenumbered
  <2>6. Torn \notin Range(r)
    <3> DEFINE D == A \X Nat
    <3>1. moved \in Seq([msg : D, seq : Nat])
      BY <2>1 DEF RecordsOf
    <3> HIDE DEF D
    <3>2. r \in Seq([msg : D, seq : Nat])
      BY <2>2, <3>1, RenumberedType
    <3>3. r \in Seq(RecordsOf(A))
      BY <3>2 DEF D, RecordsOf
    <3> HIDE DEF r
    <3> QED
      BY <2>4, <3>3, RecordNotTorn
  <2>7. lines = AppendLines(file, r)
    OBVIOUS
  <2>8. r \in Seq(L)
    BY <2>5
  <2> HIDE DEF r, file, L, lines
  <2>9. Torn \notin Range(lines) /\ Msgs(lines) = Msgs(file) \cup Msgs(r)
    BY <2>3, <2>6, <2>7, <2>8, CleanAppend
  <2>10. lines \in Seq(LinesOf(Owners(hd, to[2])))
    <3>1. AppendLines(file, r) \in Seq(L)
      BY <2>3, <2>8, AppendLinesType
    <3> QED
      BY <2>7, <3>1 DEF L, B
  <2>11. /\ TrailIn(GoodDisks(hd), merged) /\ OnlyChats(Now(v), Now(merged))
         /\ Now(merged).chats = Put(Now(v).chats, to, lines)
    BY <1>2, <2>10, WriteChatGood
  <2> HIDE DEF merged
  <2>12. OnlyChats(Now(merged), Now(u)) /\ Now(u).chats = Drop(Now(merged).chats, from)
    BY <2>11, UnlinkGood
  <2>13. OnlyChats(d, Now(u)) /\ Now(u).chats = cs
    BY <2>11, <2>12 DEF OnlyChats, d
  <2> HIDE DEF u
  <2>14. \A x : Get(put, x, <<>>) = IF x = to THEN lines ELSE Get(c1, x, <<>>)
    BY GetPut
  <2>15. /\ DOMAIN put = DOMAIN c1 \cup {to} /\ put[to] = lines
         /\ \A x \in DOMAIN c1 \ {to} : put[x] = c1[x]
    BY DEF Put
  <2> HIDE DEF put
  <2>16. \A x : Get(cs, x, <<>>) = IF x = from THEN <<>> ELSE Get(put, x, <<>>)
    BY GetDrop
  <2>17. DOMAIN cs = DOMAIN put \ {from} /\ \A x \in DOMAIN put \ {from} : cs[x] = put[x]
    BY DropAt
  <2> HIDE DEF cs
  <2>18. Clean(cs)
    BY <1>3, <2>9, <2>15, <2>17 DEF Clean
  <2>19. Get(cs, to, <<>>) = lines /\ Get(c1, to, <<>>) = file
    BY <1>11, <2>14, <2>16 DEF Get, file
  <2>20. Heard(c1, b, from) \subseteq Heard(cs, b, to)
    BY <1>9, <2>5, <2>9, <2>19 DEF Heard
  <2>21. ASSUME NEW x, x # from PROVE Heard(c1, b, x) \subseteq Heard(cs, b, x)
    <3>1. CASE x = to
      BY <2>9, <2>19, <3>1 DEF Heard
    <3>2. CASE x # to
      <4>1. Get(c1, x, <<>>) = Get(cs, x, <<>>)
        BY <2>14, <2>16, <2>21, <3>2
      <4> QED
        BY <4>1 DEF Heard
    <3> QED
      BY <3>1, <3>2
  <2>22. Good(u)
    BY <1>20, <2>13, <2>18, <2>20, <2>21
  <2> QED
    BY <2>22 DEF u
<1>12. Good(renameOrMergeChat(t, buf, from, to))
  <2> HIDE DEF moved, merged, d
  <2> QED
    BY <1>1, <1>7, <1>8, <1>10, <1>11
<1> QED
  BY <1>12 DEF Good, b, c0

(* Deleted with its project, or left in the directory of a deleted one. *)
InBin(dk, buf, m) ==
  \/ \E p \in DOMAIN dk.trash : \E r \in dk.trash[p] : m = r.msg
  \/ \E k \in Keys : k[1] \in DOMAIN dk.trash /\ m \in Heard(dk.chats, buf, k)
KeptDoc(dk, buf, pa, sa, la, d) ==
  /\ pa[d] = None => sa[d] \subseteq Heard(dk.chats, buf, <<Default, TempOf(d)>>)
  /\ pa[d] # None =>
       \A m \in sa[d] \ la : m \in Heard(dk.chats, buf, Resolved(dk, pa[d])) \/ InBin(dk, buf, m)
KeptGood(dk, buf, pa, sa, la) ==
  /\ Clean(dk.chats) /\ DOMAIN dk.trash \subseteq Extra
  /\ \A d \in Docs : KeptDoc(dk, buf, pa, sa, la, d)
(* Projects in use are not deleted ones, and only the paths of documents are in *)
(* the file map, each the path of one document.                                *)
Placed(dk, pa) ==
  /\ DOMAIN dk.files \cap DOMAIN dk.trash = {}
  /\ \A f \in DOMAIN dk.fileMap : \E d \in Docs : pa[d] = f
  /\ \A d, e \in Docs : pa[d] = pa[e] /\ pa[d] # None => d = e
KeptInv ==
  /\ crashes \in Nat /\ faults \in Nat
  /\ Quiet /\ NoReuse => KeptGood(disk, pending, path, said, late) /\ Placed(disk, path)

(* A disk that gives the same answers and holds at least the same messages. *)
LEMMA KeptOn ==
  ASSUME NEW dk, NEW buf, NEW pa, NEW sa, NEW la, KeptGood(dk, buf, pa, sa, la),
         NEW e, NEW b, Clean(e.chats), e.trash = dk.trash,
         \A x : Resolved(e, x) = Resolved(dk, x),
         \A k : Heard(dk.chats, buf, k) \subseteq Heard(e.chats, b, k)
  PROVE  KeptGood(e, b, pa, sa, la)
<1>1. \A m : InBin(dk, buf, m) => InBin(e, b, m)
  BY DEF InBin
<1>2. ASSUME NEW d \in Docs PROVE KeptDoc(e, b, pa, sa, la, d)
  <2>1. KeptDoc(dk, buf, pa, sa, la, d)
    BY DEF KeptGood
  <2> QED
    BY <1>1, <2>1 DEF KeptDoc
<1> QED
  BY <1>2 DEF KeptGood

LEMMA KeptSaid ==
  ASSUME NEW dk, NEW buf, NEW pa, NEW sa, NEW la, KeptGood(dk, buf, pa, sa, la), DOMAIN sa = Docs,
         NEW d \in Docs, NEW m, NEW more, la \subseteq more,
         pa[d] = None => m \in Heard(dk.chats, buf, <<Default, TempOf(d)>>),
         pa[d] # None => m \in more \/ m \in Heard(dk.chats, buf, Resolved(dk, pa[d]))
  PROVE  KeptGood(dk, buf, pa, [sa EXCEPT ![d] = @ \cup {m}], more)
<1> DEFINE s == [sa EXCEPT ![d] = @ \cup {m}]
<1>1. s[d] = sa[d] \cup {m} /\ \A e \in Docs : e # d => s[e] = sa[e]
  OBVIOUS
<1> HIDE DEF s
<1>2. ASSUME NEW e \in Docs PROVE KeptDoc(dk, buf, pa, s, more, e)
  <2>1. KeptDoc(dk, buf, pa, sa, la, e)
    BY DEF KeptGood
  <2>2. CASE e = d
    <3>1. pa[e] = None => s[e] \subseteq Heard(dk.chats, buf, <<Default, TempOf(e)>>)
      BY <1>1, <2>1, <2>2 DEF KeptDoc
    <3>2. ASSUME pa[e] # None, NEW x \in s[e] \ more
          PROVE  x \in Heard(dk.chats, buf, Resolved(dk, pa[e])) \/ InBin(dk, buf, x)
      BY <1>1, <2>1, <2>2, <3>2 DEF KeptDoc
    <3> QED
      BY <3>1, <3>2 DEF KeptDoc
  <2>3. CASE e # d
    <3>1. s[e] = sa[e] /\ s[e] \ more \subseteq sa[e] \ la
      BY <1>1, <2>3
    <3> QED
      BY <2>1, <3>1 DEF KeptDoc
  <2> QED
    BY <2>2, <2>3
<1>3. KeptGood(dk, buf, pa, s, more)
  BY <1>2 DEF KeptGood
<1> QED
  BY <1>3 DEF s

(* What is heard of a chat is from its owners. *)
LEMMA HeardOwn ==
  ASSUME NEW hd, NEW cs, OwnChatMap(hd, cs), Clean(cs), NEW buf, OwnBuffer(hd, buf), NEW k
  PROVE  Heard(cs, buf, k) \subseteq Owners(hd, k[2]) \X Nat
<1> DEFINE O == Owners(hd, k[2])
           R == RecordsOf(O)
           L == LinesOf(O)
           a == Get(buf, k, <<>>)
           b == Get(cs, k, <<>>)
<1>1. a \in Seq(R)
  <2>1. CASE k \in DOMAIN buf
    BY <2>1 DEF Get, OwnBuffer
  <2>2. CASE k \notin DOMAIN buf
    BY <2>2 DEF Get
  <2> QED
    BY <2>1, <2>2
<1>2. b \in Seq(L)
  BY OwnFile
<1>3. Torn \notin Range(b)
  <2>1. CASE k \in DOMAIN cs
    BY <2>1 DEF Get, Clean
  <2>2. CASE k \notin DOMAIN cs
    BY <2>2 DEF Get, Range
  <2> QED
    BY <2>1, <2>2
<1>4. L = R \cup {Torn} /\ \A r \in R : r.msg \in O \X Nat
  BY DEF LinesOf, RecordsOf
<1>5. Heard(cs, buf, k) = Msgs(a) \cup Msgs(b)
  BY DEF Heard
<1> HIDE DEF O, R, L, a, b
<1>6. Range(a) \subseteq R /\ Range(b) \subseteq R
  <2>1. Range(a) \subseteq R
    BY <1>1 DEF Range
  <2>2. Range(b) \subseteq L
    BY <1>2 DEF Range
  <2> QED
    BY <1>3, <1>4, <2>1, <2>2
<1>7. Msgs(a) \subseteq O \X Nat /\ Msgs(b) \subseteq O \X Nat
  BY <1>4, <1>6 DEF Msgs
<1> QED
  BY <1>5, <1>7 DEF O

KeptReady ==
  /\ Ready(had') /\ Single(had') /\ had \in [Paths -> SUBSET Docs]
  /\ KeptGood(disk, pending, path, said, late) /\ Placed(disk, path)
  /\ crashes \in Nat /\ faults \in Nat /\ crashes' = 0 /\ faults' = 0
KeptDone == KeptGood(disk', pending', path', said', late') /\ Placed(disk', path')

LEMMA NotInterrupted ==
  ASSUME KeptReady, NEW t
  PROVE  ~Interrupted(t)
BY DEF KeptReady, Interrupted, EndsOn

LEMMA PlacedOn ==
  ASSUME NEW dk, NEW pa, NEW e, NEW F, Placed(dk, pa), SameAnswers(dk, e, F),
         DOMAIN dk.trash \subseteq Extra, \A f \in F : \E d \in Docs : pa[d] = f
  PROVE  Placed(e, pa)
<1>1. Default \notin Extra
  BY StoreAssumption
<1> QED
  BY <1>1 DEF Placed, SameAnswers

LEMMA OpenChatKept ==
  ASSUME NEW d \in Docs, KeptReady, OpenChat(d)
  PROVE  KeptDone
<1> DEFINE G == GoodDisks(had')
           start == ensureDefaultProject(<<disk>>)
           trail == IF path[d] = None THEN start ELSE resolveChatForFile(start, path[d])
           F == {path[d]} \ {None}
<1>1. disk' = Now(trail) /\ pending' = pending /\ path' = path /\ said' = said /\ late' = late
  <2>1. Completes(trail, seqCounters, pending) \/ Interrupted(trail)
    BY DEF OpenChat
  <2>2. UNCHANGED <<path, said, late>>
    BY DEF OpenChat, history
  <2>3. ~Interrupted(trail)
    BY NotInterrupted
  <2> QED
    BY <2>1, <2>2, <2>3 DEF Completes
<1>2. disk \in G /\ PanelsGood(had', path, ids, reply)
  BY DEF KeptReady, Ready, StoreGood
<1>3. TrailIn(G, <<disk>>) /\ Now(<<disk>>) = disk
  BY <1>2, TrailStarts
<1>4. TrailIn(G, start) /\ SameAnswers(disk, Now(start), F)
  <2>1. LET e == Now(start)
        IN  /\ TrailIn(G, start)
            /\ DOMAIN e.files \subseteq DOMAIN disk.files \cup {Default}
            /\ e.fileMap = disk.fileMap /\ e.chatIdByPath = disk.chatIdByPath
            /\ e.chats = disk.chats /\ e.trash = disk.trash
    BY <1>3, EnsureDefaultGood
  <2> HIDE DEF start, F
  <2> QED
    BY <2>1, SameFields
<1>5. path[d] # None => path[d] \in Paths /\ d \in had'[path[d]]
  BY <1>2 DEF PanelsGood
<1> HIDE DEF start, G
<1>6. SameAnswers(disk, Now(trail), F)
  <2>1. CASE path[d] = None
    BY <1>4, <2>1
  <2>2. CASE path[d] # None
    <3>1. SameAnswers(Now(start), Now(resolveChatForFile(start, path[d])), {path[d]})
      BY <1>4, <1>5, <2>2, ResolveChatGood DEF G
    <3>2. F = {path[d]} /\ trail = resolveChatForFile(start, path[d])
      BY <2>2
    <3> HIDE DEF F, trail
    <3> QED
      BY <1>4, <3>1, <3>2, SameTwice
  <2> QED
    BY <2>1, <2>2
<1>7. \A f \in F : \E e \in Docs : path[e] = f
  OBVIOUS
<1> HIDE DEF trail, F
<1>8. Placed(disk', path')
  BY <1>1, <1>6, <1>7, PlacedOn DEF KeptReady, KeptGood
<1>9. KeptGood(disk', pending, path, said, late)
  <2>1. disk'.chats = disk.chats /\ disk'.trash = disk.trash
    BY <1>1, <1>6 DEF SameAnswers
  <2>2. \A x : Resolved(disk', x) = Resolved(disk, x)
    BY <1>1, <1>6 DEF SameAnswers, Resolved
  <2>3. Clean(disk'.chats) /\ KeptGood(disk, pending, path, said, late)
    BY <2>1 DEF KeptReady, KeptGood
  <2>4. \A k : Heard(disk.chats, pending, k) \subseteq Heard(disk'.chats, pending, k)
    BY <2>1
  <2> DEFINE e == disk'
  <2> HIDE DEF e
  <2>5. KeptGood(e, pending, path, said, late)
    BY <2>1, <2>2, <2>3, <2>4, KeptOn DEF e
  <2> QED
    BY <2>5 DEF e
<1> QED
  BY <1>1, <1>8, <1>9 DEF KeptDone

LEMMA QuietPanelKept ==
  ASSUME KeptReady, UNCHANGED <<disk, pending, path, said, late>>
  PROVE  KeptDone
BY DEF KeptReady, KeptDone

LEMMA CreateProjectKept ==
  ASSUME NEW p \in Extra, KeptReady, createProject(p)
  PROVE  KeptDone
<1> DEFINE G == GoodDisks(had')
           made == writeProject(<<disk>>, p, {})
           trail == writeIndex(made, disk.projects \cup {p}, disk.fileMap, disk.chatIdByPath)
<1>1. disk' = Now(trail) /\ pending' = pending /\ path' = path /\ said' = said /\ late' = late
  <2>1. Completes(trail, seqCounters, pending) \/ Interrupted(trail)
    BY DEF createProject
  <2>2. UNCHANGED <<path, said, late>>
    BY DEF createProject, history
  <2>3. ~Interrupted(trail)
    BY NotInterrupted
  <2> QED
    BY <2>1, <2>2, <2>3 DEF Completes
<1>10. p \notin DOMAIN disk.trash
  BY DEF createProject
<1>2. disk \in G /\ disk \in Disks /\ OwnIdMap(had', disk.chatIdByPath)
  BY DEF KeptReady, Ready, StoreGood, GoodDisks
<1>3. TrailIn(G, <<disk>>) /\ Now(<<disk>>) = disk
  BY <1>2, TrailStarts
<1>4. p \in Projects /\ {} \in SUBSET Paths
  BY DEF Projects
<1>5. /\ TrailIn(G, made) /\ DOMAIN Now(made).files = DOMAIN disk.files \cup {p}
      /\ Now(made).chats = disk.chats /\ Now(made).trash = disk.trash
  BY <1>3, <1>4, WriteProjectGood
<1>6. /\ disk.projects \cup {p} \in ProjectSets /\ disk.fileMap \in FileMaps
      /\ disk.chatIdByPath \in IdMaps
  BY <1>2, <1>4, DiskFields DEF ProjectSets
<1> HIDE DEF made
<1>7. /\ Now(trail).files = Now(made).files /\ Now(trail).chats = Now(made).chats
      /\ Now(trail).trash = Now(made).trash
      /\ Now(trail).fileMap = disk.fileMap /\ Now(trail).chatIdByPath = disk.chatIdByPath
  BY <1>2, <1>5, <1>6, WriteIndexGood
<1> HIDE DEF trail
<1>8. /\ disk'.chats = disk.chats /\ disk'.trash = disk.trash
      /\ DOMAIN disk'.files = DOMAIN disk.files \cup {p}
      /\ disk'.fileMap = disk.fileMap /\ disk'.chatIdByPath = disk.chatIdByPath
  BY <1>1, <1>5, <1>7
<1>9. Placed(disk', path')
  BY <1>1, <1>8, <1>10 DEF Placed, KeptReady
<1>11. KeptGood(disk', pending, path, said, late)
  <2>2. \A x : Resolved(disk', x) = Resolved(disk, x)
    BY <1>8 DEF Resolved, chatIdForPath
  <2>3. Clean(disk'.chats) /\ KeptGood(disk, pending, path, said, late)
    BY <1>8 DEF KeptReady, KeptGood
  <2>4. \A k : Heard(disk.chats, pending, k) \subseteq Heard(disk'.chats, pending, k)
    BY <1>8
  <2> DEFINE e == disk'
  <2> HIDE DEF e
  <2>5. KeptGood(e, pending, path, said, late)
    BY <1>8, <2>2, <2>3, <2>4, KeptOn DEF e
  <2> QED
    BY <2>5 DEF e
<1> QED
  BY <1>1, <1>9, <1>11 DEF KeptDone

LEMMA AppendKept ==
  ASSUME NEW d \in Docs, KeptReady, appendChatMessage(d)
  PROVE  KeptDone
<1> DEFINE k == ids[d]
           O == Owners(had', k[2])
           n == Cardinality(said[d]) + 1
           seq == Get(seqCounters, k, MaxSeq(loadChat(disk, pending, k)))
           record == [msg |-> <<d, n>>, seq |-> seq]
           m == record.msg
           buffered == Get(pending, k, <<>>)
           lines == Append(buffered, record)
           file == Get(disk.chats, k, <<>>)
<1>1. /\ k # None /\ said' = [said EXCEPT ![d] = @ \cup {m}]
      /\ late' = late \cup {x \in {m} : path[d] # None /\ k # Resolved(disk, path[d])}
      /\ \/ pending' = Put(pending, k, lines) /\ disk' = disk
         \/ /\ pending' = Drop(pending, k)
            /\ disk' = Now(writeChat(<<disk>>, k, AppendLines(file, lines)))
      /\ UNCHANGED <<path, ids, reply>>
  <2>1. faults' # faults + 1
    BY DEF KeptReady
  <2> QED
    BY <2>1 DEF appendChatMessage, Count
<1>2. /\ disk \in GoodDisks(had') /\ seqCounters \in Counters /\ pending \in Buffers
      /\ OwnBuffer(had', pending) /\ PanelsGood(had', path, ids, reply) /\ SaidGood(said)
      /\ KeptGood(disk, pending, path, said, late) /\ Placed(disk, path)
  BY DEF KeptReady, Ready, StoreGood
<1>3. k \in Keys /\ d \in O /\ (path[d] = None => k = <<Default, TempOf(d)>>)
  BY <1>1, <1>2 DEF PanelsGood, Held
<1>4. IsFiniteSet(said[d])
  BY <1>2 DEF SaidGood
<1>5. n \in Nat
  BY <1>4, FS_CardinalityType
<1> HIDE DEF n
<1>6. seq \in Nat
  <2>1. MaxSeq(loadChat(disk, pending, k)) \in Nat
    BY <1>2, LoadChatType
  <2> DEFINE q == MaxSeq(loadChat(disk, pending, k))
  <2> HIDE DEF q, k
  <2>2. Get(seqCounters, k, q) \in Nat
    BY <1>2, <2>1, GetMap DEF Counters, q
  <2> QED
    BY <2>2 DEF q
<1> HIDE DEF seq
<1>7. record \in RecordsOf(O)
  BY <1>3, <1>5, <1>6 DEF RecordsOf
<1>8. buffered \in Seq(RecordsOf(O))
  <2>1. CASE k \in DOMAIN pending
    BY <1>2, <2>1 DEF Get, OwnBuffer
  <2>2. CASE k \notin DOMAIN pending
    BY <2>2 DEF Get
  <2> QED
    BY <2>1, <2>2
<1>9. OwnChatMap(had', disk.chats) /\ file \in Seq(LinesOf(O))
  <2>1. OwnChatMap(had', disk.chats)
    BY <1>2 DEF GoodDisks
  <2> QED
    BY <2>1, OwnFile
<1>10. Clean(disk.chats)
  BY <1>2 DEF KeptGood
<1> HIDE DEF record, k, m
<1>11. lines \in Seq(RecordsOf(O)) /\ Msgs(lines) = Msgs(buffered) \cup {m}
  <2> DEFINE R == RecordsOf(O)
  <2>3. buffered \in Seq(R) /\ record \in R
    BY <1>7, <1>8
  <2> HIDE DEF R, buffered
  <2>1. /\ lines \in Seq(R) /\ Len(lines) = Len(buffered) + 1 /\ Len(buffered) \in Nat
        /\ lines[Len(buffered) + 1] = record
        /\ \A i \in 1..Len(buffered) : lines[i] = buffered[i]
    BY <2>3, AppendAt
  <2>2. DOMAIN buffered = 1..Len(buffered)
    BY <2>3
  <2> HIDE DEF lines
  <2>4. DOMAIN lines = 1..(Len(buffered) + 1)
    BY <2>1
  <2>5. Range(lines) = Range(buffered) \cup {record}
    <3> DEFINE N == Len(buffered)
    <3>1. N \in Nat /\ \A i \in 1..(N + 1) : i \in 1..N \/ i = N + 1
      BY <2>1
    <3>2. \A i \in 1..N : i \in 1..(N + 1)
      BY <2>1
    <3>3. N + 1 \in 1..(N + 1)
      BY <2>1
    <3> HIDE DEF N
    <3> QED
      BY <2>1, <2>2, <2>4, <3>1, <3>2, <3>3 DEF Range, N
  <2>6. Msgs(lines) = Msgs(buffered) \cup {record.msg}
    BY <2>5 DEF Msgs
  <2> QED
    BY <2>1, <2>6 DEF R, m
<1>12. O \in SUBSET Docs
  BY OwnersAreDocs
<1>13. Torn \notin Range(lines)
  BY <1>11, <1>12, RecordNotTorn
<1>14. Torn \notin Range(file)
  <2>1. CASE k \in DOMAIN disk.chats
    BY <1>10, <2>1 DEF Get, Clean
  <2>2. CASE k \notin DOMAIN disk.chats
    BY <2>2 DEF Get, Range
  <2> QED
    BY <2>1, <2>2
<1> HIDE DEF lines
<1>15. /\ Clean(disk'.chats) /\ disk'.trash = disk.trash /\ disk'.files = disk.files
       /\ disk'.fileMap = disk.fileMap /\ disk'.chatIdByPath = disk.chatIdByPath
       /\ \A x : Heard(disk.chats, pending, x) \subseteq Heard(disk'.chats, pending', x)
       /\ m \in Heard(disk'.chats, pending', k)
  <2>1. CASE pending' = Put(pending, k, lines) /\ disk' = disk
    <3>1. \A x : Get(pending', x, <<>>) = IF x = k THEN lines ELSE Get(pending, x, <<>>)
      BY <2>1, GetPut
    <3>2. m \in Heard(disk.chats, pending', k)
      BY <1>11, <3>1 DEF Heard
    <3>3. ASSUME NEW x PROVE Heard(disk.chats, pending, x) \subseteq Heard(disk.chats, pending', x)
      <4>1. CASE x = k
        <5>1. Get(pending', x, <<>>) = lines /\ Get(pending, x, <<>>) = buffered
          BY <3>1, <4>1
        <5> QED
          BY <1>11, <5>1 DEF Heard
      <4>2. CASE x # k
        <5>1. Get(pending', x, <<>>) = Get(pending, x, <<>>)
          BY <3>1, <4>2
        <5> QED
          BY <5>1 DEF Heard
      <4> QED
        BY <4>1, <4>2
    <3> QED
      BY <1>10, <2>1, <3>2, <3>3
  <2>2. CASE /\ pending' = Drop(pending, k)
             /\ disk' = Now(writeChat(<<disk>>, k, AppendLines(file, lines)))
    <3> DEFINE L == LinesOf(O)
               all == AppendLines(file, lines)
               c0 == disk.chats
               cs == Put(c0, k, all)
    <3>1. lines \in Seq(L) /\ file \in Seq(L)
      BY <1>9, <1>11, OwnersAreDocs
    <3> HIDE DEF L
    <3>2. /\ Torn \notin Range(all) /\ Msgs(all) = Msgs(file) \cup Msgs(lines)
      BY <1>13, <1>14, <3>1, CleanAppend
    <3>3. all \in Seq(L)
      BY <3>1, AppendLinesType
    <3> HIDE DEF all
    <3>4. all \in Seq(LinesOf(Owners(had', k[2])))
      BY <3>3 DEF L
    <3>5. TrailIn(GoodDisks(had'), <<disk>>) /\ Now(<<disk>>) = disk
      BY <1>2, TrailStarts
    <3>6. OnlyChats(disk, Now(writeChat(<<disk>>, k, all))) /\ Now(writeChat(<<disk>>, k, all)).chats = cs
      BY <1>3, <3>4, <3>5, WriteChatGood
    <3>7. OnlyChats(disk, disk') /\ disk'.chats = cs
      BY <2>2, <3>6 DEF all
    <3> HIDE DEF c0
    <3>8. \A x : Get(cs, x, <<>>) = IF x = k THEN all ELSE Get(c0, x, <<>>)
      BY GetPut
    <3>9. /\ DOMAIN cs = DOMAIN c0 \cup {k} /\ cs[k] = all /\ \A x \in DOMAIN c0 \ {k} : cs[x] = c0[x]
      BY DEF Put
    <3> HIDE DEF cs
    <3>10. Clean(cs)
      BY <1>10, <3>2, <3>9 DEF Clean, c0
    <3>11. \A x : Get(pending', x, <<>>) = IF x = k THEN <<>> ELSE Get(pending, x, <<>>)
      BY <2>2, GetDrop
    <3>12. m \in Heard(cs, pending', k)
      BY <1>11, <3>2, <3>8 DEF Heard
    <3>13. ASSUME NEW x PROVE Heard(c0, pending, x) \subseteq Heard(cs, pending', x)
      <4>1. CASE x = k
        <5>1. Get(cs, x, <<>>) = all /\ Get(pending, x, <<>>) = buffered /\ Get(c0, x, <<>>) = file
          BY <3>8, <4>1 DEF c0
        <5> QED
          BY <1>11, <3>2, <5>1 DEF Heard
      <4>2. CASE x # k
        <5>1. Get(pending', x, <<>>) = Get(pending, x, <<>>) /\ Get(cs, x, <<>>) = Get(c0, x, <<>>)
          BY <3>8, <3>11, <4>2
        <5> QED
          BY <5>1 DEF Heard
      <4> QED
        BY <4>1, <4>2
    <3> QED
      BY <3>7, <3>10, <3>12, <3>13 DEF OnlyChats, c0
  <2> QED
    BY <1>1, <2>1, <2>2
<1>16. \A x : Resolved(disk', x) = Resolved(disk, x)
  BY <1>15 DEF Resolved, chatIdForPath
<1> DEFINE e == disk'
           b == pending'
           more == late'
<1>17. KeptGood(e, b, path, said, late)
  <2>1. /\ Clean(e.chats) /\ e.trash = disk.trash /\ \A x : Resolved(e, x) = Resolved(disk, x)
        /\ \A x : Heard(disk.chats, pending, x) \subseteq Heard(e.chats, b, x)
    BY <1>15, <1>16
  <2> HIDE DEF e, b
  <2> QED
    BY <1>2, <2>1, KeptOn
<1>18. KeptGood(e, b, path, [said EXCEPT ![d] = @ \cup {m}], more)
  <2>1. late \subseteq more /\ DOMAIN said = Docs
    BY <1>1, <1>2 DEF SaidGood
  <2>2. path[d] = None => m \in Heard(e.chats, b, <<Default, TempOf(d)>>)
    BY <1>3, <1>15
  <2>3. path[d] # None => m \in more \/ m \in Heard(e.chats, b, Resolved(e, path[d]))
    BY <1>1, <1>15, <1>16
  <2> HIDE DEF e, b, more
  <2> QED
    BY <1>17, <2>1, <2>2, <2>3, KeptSaid
<1>19. Placed(disk', path')
  BY <1>1, <1>2, <1>15 DEF Placed
<1> QED
  BY <1>1, <1>18, <1>19 DEF KeptDone

LEMMA TempKey ==
  ASSUME NEW d \in Docs
  PROVE  /\ <<Default, TempOf(d)>> \in Keys
         /\ <<Default, TempOf(d)>>[1] = Default /\ <<Default, TempOf(d)>>[2] = TempOf(d)
<1>1. Default \in Projects /\ TempOf(d) \in ChatIds
  BY DEF Projects, ChatIds
<1> DEFINE c == TempOf(d)
<1> HIDE DEF c
<1>2. <<Default, c>> \in Keys
  BY <1>1 DEF c, Keys
<1> QED
  BY <1>2 DEF c

(* The key of a saved document is not a temporary one. *)
LEMMA ResolvedIsHash ==
  ASSUME NEW hd \in [Paths -> SUBSET Docs], Single(hd), NEW d \in GoodDisks(hd),
         NEW f \in Paths, NEW x \in hd[f], NEW e
  PROVE  Resolved(d, f)[2] # TempOf(e) /\ Resolved(d, f)[2] = chatIdForPath(d, f)
<1>1. PICK g \in Paths : chatIdForPath(d, f) = HashOf(g)
  BY ChatIdOwner
<1>2. HashOf(g) # TempOf(e)
  BY IdsDistinct
<1>3. Resolved(d, f)[2] = chatIdForPath(d, f)
  BY DEF Resolved
<1> QED
  BY <1>1, <1>2, <1>3

LEMMA FirstSaveKept ==
  ASSUME NEW d \in Docs, NEW f \in Paths, KeptReady, FirstSave(d, f)
  PROVE  KeptDone
<1> DEFINE G == GoodDisks(had')
           resolved == resolveChatForFile(<<disk>>, f)
           r == Now(resolved)
           to == Resolved(r, f)
           k == ids[d]
           trail == renameOrMergeChat(resolved, pending, k, to)
           sq == MergedSeqs(seqCounters, r, pending, k, to)
           pa == [path EXCEPT ![d] = f]
<1>1. /\ path[d] = None /\ f \notin Range(path) /\ path' = pa
      /\ had' = [had EXCEPT ![f] = @ \cup {d}]
      /\ \/ said[d] = {} /\ disk' = disk /\ pending' = pending
         \/ k # None /\ (Completes(trail, sq, Drop(pending, k)) \/ Interrupted(trail))
      /\ said' = said /\ late' = late
  BY DEF FirstSave, mem
<1>2. /\ disk \in G /\ pending \in Buffers /\ OwnBuffer(had', pending)
      /\ PanelsGood(had', path, ids, reply) /\ had \in [Paths -> SUBSET Docs]
      /\ had' \in [Paths -> SUBSET Docs] /\ Single(had')
      /\ KeptGood(disk, pending, path, said, late) /\ Placed(disk, path)
  BY DEF KeptReady, Ready, StoreGood
<1>3. d \in had'[f]
  BY <1>1, <1>2
<1>4. f # None
  BY StoreAssumption
<1>5. /\ path \in [Docs -> Paths \cup {None}] /\ pa[d] = f
      /\ \A e \in Docs : e # d => pa[e] = path[e] /\ path[e] # f
  BY <1>1, <1>2 DEF PanelsGood, Range
<1>20. \A e \in Docs : path[e] # None => path[e] \in Paths /\ e \in had'[path[e]]
  BY <1>2 DEF PanelsGood
<1> HIDE DEF pa
<1>8. ASSUME NEW g \in DOMAIN disk.fileMap PROVE \E x \in Docs : pa[x] = g
  <2>1. PICK x \in Docs : path[x] = g
    BY <1>2 DEF Placed
  <2>2. g \in Paths
    <3>1. disk \in Disks
      BY <1>2 DEF GoodDisks
    <3>2. disk.fileMap \in FileMaps
      BY <3>1, DiskFields
    <3> QED
      BY <3>2, MapIs DEF FileMaps
  <2>3. x # d
    BY <1>1, <2>1, <2>2, StoreAssumption
  <2> QED
    BY <1>5, <2>1, <2>3
<1>9. \A x, y \in Docs : pa[x] = pa[y] /\ pa[x] # None => x = y
  BY <1>2, <1>5 DEF Placed
<1>6. CASE said[d] = {} /\ disk' = disk /\ pending' = pending
  <2>1. Placed(disk, pa)
    BY <1>2, <1>8, <1>9 DEF Placed
  <2>2. ASSUME NEW e \in Docs PROVE KeptDoc(disk, pending, pa, said, late, e)
    <3>1. KeptDoc(disk, pending, path, said, late, e)
      BY <1>2 DEF KeptGood
    <3>2. CASE e = d
      BY <1>4, <1>5, <1>6, <3>2 DEF KeptDoc
    <3>3. CASE e # d
      BY <1>5, <3>1, <3>3 DEF KeptDoc
    <3> QED
      BY <3>2, <3>3
  <2>3. KeptGood(disk, pending, pa, said, late)
    BY <1>2, <2>2 DEF KeptGood
  <2> QED
    BY <1>1, <1>6, <2>1, <2>3 DEF KeptDone
<1>7. ASSUME k # None, Completes(trail, sq, Drop(pending, k)) \/ Interrupted(trail) PROVE KeptDone
  <2>1. TrailIn(G, <<disk>>) /\ Now(<<disk>>) = disk
    BY <1>2, TrailStarts
  <2>2. TrailIn(G, resolved) /\ SameAnswers(disk, r, {f})
    BY <1>3, <2>1, ResolveChatGood
  <2> HIDE DEF resolved
  <2>3. r \in GoodDisks(had')
    BY <2>2, TrailFacts
  <2>4. to \in Keys /\ Owners(had', to[2]) = {d}
    BY <1>2, <1>3, <2>3, ResolvedOwner
  <2>5. k = <<Default, TempOf(d)>> /\ k \in Keys /\ k[1] = Default /\ k[2] = TempOf(d)
    <3>1. k = <<Default, TempOf(d)>>
      BY <1>1, <1>2, <1>7 DEF PanelsGood
    <3> QED
      BY <3>1, TempKey
  <2>6. Owners(had', k[2]) = {d}
    BY <2>5, TempOwners
  <2>7. k # to
    <3>1. to[2] # TempOf(d)
      BY <1>2, <1>3, <2>3, ResolvedIsHash
    <3> QED
      BY <2>5, <3>1
  <2>8. disk' = Now(trail) /\ pending' = Drop(pending, k)
    <3>1. ~Interrupted(trail)
      BY NotInterrupted
    <3> QED
      BY <1>7, <3>1 DEF Completes
  <2> DEFINE e == Now(trail)
             b == Drop(pending, k)
  <2>9. r.chats = disk.chats /\ r.trash = disk.trash /\ Clean(r.chats)
    BY <1>2, <2>2 DEF SameAnswers, KeptGood
  <2>10. /\ OnlyChats(r, e) /\ Clean(e.chats)
         /\ Heard(r.chats, pending, k) \subseteq Heard(e.chats, b, to)
         /\ \A x : x # k => Heard(r.chats, pending, x) \subseteq Heard(e.chats, b, x)
    <3> HIDE DEF k, to
    <3> QED
      BY <1>2, <2>2, <2>4, <2>6, <2>7, <2>9, MergeHears
  <2> HIDE DEF trail, b, e
  <2>11. /\ e.trash = disk.trash
         /\ Heard(disk.chats, pending, k) \subseteq Heard(e.chats, b, to)
         /\ \A x : x # k => Heard(disk.chats, pending, x) \subseteq Heard(e.chats, b, x)
    BY <2>9, <2>10 DEF OnlyChats
  <2>12. Resolved(e, f) = to /\ \A x : Resolved(e, x) = Resolved(disk, x)
    BY <2>2, <2>10 DEF SameAnswers, OnlyChats, Resolved, chatIdForPath
  <2> HIDE DEF to, r
  <2>13. \A m : InBin(disk, pending, m) => InBin(e, b, m)
    <3>1. \A x \in Keys : x[1] \in DOMAIN disk.trash => x # k
      BY <1>2, <2>5, StoreAssumption DEF KeptGood
    <3> HIDE DEF k
    <3> QED
      BY <2>11, <3>1 DEF InBin
  <2>14. ASSUME NEW x \in Docs PROVE KeptDoc(e, b, pa, said, late, x)
    <3>1. KeptDoc(disk, pending, path, said, late, x)
      BY <1>2 DEF KeptGood
    <3>2. CASE x = d
      <4>1. said[d] \subseteq Heard(disk.chats, pending, k)
        BY <1>1, <2>5, <3>1, <3>2 DEF KeptDoc
      <4> QED
        BY <1>4, <1>5, <2>11, <2>12, <3>2, <4>1 DEF KeptDoc
    <3>3. CASE x # d
      <4>1. CASE path[x] = None
        <5>1. <<Default, TempOf(x)>> # k
          <6>1. TempOf(x) # TempOf(d)
            BY <3>3, IdsDistinct
          <6>2. <<Default, TempOf(x)>>[2] = TempOf(x)
            BY TempKey
          <6> QED
            BY <2>5, <6>1, <6>2
        <5>2. said[x] \subseteq Heard(e.chats, b, <<Default, TempOf(x)>>)
          BY <2>11, <3>1, <4>1, <5>1 DEF KeptDoc
        <5> QED
          BY <1>5, <3>3, <4>1, <5>2 DEF KeptDoc
      <4>2. CASE path[x] # None
        <5>1. Resolved(disk, path[x]) # k
          <6>1. path[x] \in Paths /\ x \in had'[path[x]]
            BY <1>20, <4>2
          <6>2. Resolved(disk, path[x])[2] # TempOf(d)
            BY <1>2, <6>1, ResolvedIsHash
          <6> QED
            BY <2>5, <6>2
        <5>2. Resolved(e, path[x]) = Resolved(disk, path[x]) /\ pa[x] = path[x]
          BY <1>5, <2>12, <3>3
        <5>3. ASSUME NEW m \in said[x] \ late
              PROVE  m \in Heard(e.chats, b, Resolved(e, path[x])) \/ InBin(e, b, m)
          <6>1. m \in Heard(disk.chats, pending, Resolved(disk, path[x])) \/ InBin(disk, pending, m)
            BY <3>1, <4>2 DEF KeptDoc
          <6>2. Heard(disk.chats, pending, Resolved(disk, path[x])) \subseteq Heard(e.chats, b, Resolved(disk, path[x]))
            BY <2>11, <5>1
          <6> QED
            BY <2>13, <5>2, <6>1, <6>2
        <5> QED
          BY <4>2, <5>2, <5>3 DEF KeptDoc
      <4> QED
        BY <4>1, <4>2
    <3> QED
      BY <3>2, <3>3
  <2>15. KeptGood(e, b, pa, said, late)
    BY <1>2, <2>10, <2>11, <2>14 DEF KeptGood
  <2>16. Placed(e, pa)
    <3>1. DOMAIN e.files \cap DOMAIN e.trash = {}
      <4>1. DOMAIN e.files \subseteq DOMAIN disk.files \cup {Default}
        BY <2>2, <2>10 DEF SameAnswers, OnlyChats, r
      <4> QED
        BY <1>2, <2>11, <4>1, StoreAssumption DEF Placed, KeptGood
    <3>2. ASSUME NEW g \in DOMAIN e.fileMap PROVE \E x \in Docs : pa[x] = g
      <4>1. g = f \/ g \in DOMAIN disk.fileMap
        BY <2>2, <2>10 DEF SameAnswers, OnlyChats, r
      <4>2. CASE g = f
        BY <1>5, <4>2
      <4>3. CASE g \in DOMAIN disk.fileMap
        BY <1>8, <4>3
      <4> QED
        BY <4>1, <4>2, <4>3
    <3> QED
      BY <1>9, <3>1, <3>2 DEF Placed
  <2> QED
    BY <1>1, <2>8, <2>15, <2>16 DEF KeptDone, e, b
<1> QED
  BY <1>1, <1>6, <1>7

LEMMA FileRenamedKept ==
  ASSUME NEW d \in Docs, NEW f \in Paths, KeptReady, fileRenamed(d, f)
  PROVE  KeptDone
<1> DEFINE G == GoodDisks(had')
           old == path[d]
           p == Get(disk.fileMap, old, None)
           fm == IF p = None THEN disk.fileMap ELSE Put(Drop(disk.fileMap, old), f, p)
           fs == {IF g = old THEN f ELSE g : g \in disk.files[p]}
           listed == IF p = None \/ p \notin DOMAIN disk.files THEN <<disk>>
                     ELSE writeProject(<<disk>>, p, fs)
           c == chatIdForPath(disk, old)
           rest == Drop(disk.chatIdByPath, old)
           ci == Put(rest, f, c)
           trail == writeIndex(listed, disk.projects, fm, ci)
           pa == [path EXCEPT ![d] = f]
<1>1. /\ old # None /\ f \notin Range(path) /\ path' = pa /\ had' = [had EXCEPT ![f] = @ \cup {d}]
      /\ Completes(trail, seqCounters, pending) \/ Interrupted(trail)
      /\ said' = said /\ late' = late
  BY DEF fileRenamed
<1>2. /\ disk \in G /\ PanelsGood(had', path, ids, reply) /\ had \in [Paths -> SUBSET Docs]
      /\ had' \in [Paths -> SUBSET Docs] /\ Single(had')
      /\ KeptGood(disk, pending, path, said, late) /\ Placed(disk, path)
  BY DEF KeptReady, Ready, StoreGood
<1>3. disk' = Now(trail) /\ pending' = pending
  <2>1. ~Interrupted(trail)
    BY NotInterrupted
  <2> QED
    BY <1>1, <2>1 DEF Completes
<1>4. d \in had'[f]
  BY <1>1, <1>2
<1>5. /\ path \in [Docs -> Paths \cup {None}] /\ pa[d] = f /\ f # None
      /\ \A x \in Docs : x # d => pa[x] = path[x] /\ path[x] # f
  BY <1>1, <1>2, StoreAssumption DEF PanelsGood, Range
<1>6. old \in Paths /\ d \in had'[old] /\ \A x \in Docs : x # d => path[x] # old
  BY <1>1, <1>2 DEF PanelsGood, Placed
<1>7. old # f
  BY <1>1, <1>5 DEF Range
<1>8. path[d] = old
  OBVIOUS
<1> HIDE DEF old, pa
<1>9. disk \in Disks /\ OwnIdMap(had', disk.chatIdByPath)
  BY <1>2 DEF GoodDisks
<1>10. /\ disk.projects \in ProjectSets /\ disk.fileMap \in FileMaps /\ disk.chatIdByPath \in IdMaps
       /\ disk.files \in FileLists
  BY <1>9, DiskFields
<1>11. c \in Hashes
  BY <1>2, <1>6, ChatIdOwner
<1>12. PICK h \in Paths : c = HashOf(h) /\ d \in had'[h]
  BY <1>2, <1>6, ChatIdOwner
<1>13. /\ p # None => p \in Projects /\ old \in DOMAIN disk.fileMap /\ disk.fileMap[old] = p
       /\ p = None => old \notin DOMAIN disk.fileMap
  <2>1. \A x \in DOMAIN disk.fileMap : disk.fileMap[x] \in Projects
    BY <1>10, MapIs DEF FileMaps
  <2>2. None \notin Projects
    BY StoreAssumption DEF Projects
  <2> QED
    BY <2>1, <2>2 DEF Get
<1>14. f \notin DOMAIN disk.fileMap
  BY <1>1, <1>2, <1>5 DEF Placed, Range
<1> HIDE DEF c, p
<1>15. /\ fm \in FileMaps
       /\ \A x : x # old /\ x # f => Get(fm, x, Default) = Get(disk.fileMap, x, Default)
       /\ Get(fm, f, Default) = Get(disk.fileMap, old, Default)
       /\ \A x \in DOMAIN fm : x = f \/ (x \in DOMAIN disk.fileMap /\ x # old)
  <2>1. CASE p = None
    BY <1>10, <1>13, <1>14, <2>1 DEF Get
  <2>2. CASE p # None
    <3> DEFINE q == Drop(disk.fileMap, old)
    <3>1. q \in Maps(Paths, Projects)
      BY <1>10, DropMap DEF FileMaps
    <3>2. \A x : Get(q, x, Default) = IF x = old THEN Default ELSE Get(disk.fileMap, x, Default)
      BY GetDrop
    <3>3. DOMAIN q = DOMAIN disk.fileMap \ {old}
      BY DropAt
    <3> HIDE DEF q
    <3>4. Put(q, f, p) \in Maps(Paths, Projects)
      BY <1>13, <2>2, <3>1, PutMap
    <3>5. \A x : Get(Put(q, f, p), x, Default) = IF x = f THEN p ELSE Get(q, x, Default)
      BY GetPut
    <3>6. DOMAIN Put(q, f, p) = DOMAIN q \cup {f}
      BY DEF Put
    <3>7. fm = Put(q, f, p)
      BY <2>2 DEF q
    <3>8. Get(disk.fileMap, old, Default) = p
      BY <1>13, <2>2 DEF Get
    <3> HIDE DEF fm
    <3>9. fm \in FileMaps
      BY <3>4, <3>7 DEF FileMaps
    <3> QED
      BY <3>2, <3>3, <3>5, <3>6, <3>7, <3>8, <3>9
  <2> QED
    BY <2>1, <2>2
<1>16. p \in DOMAIN disk.files => fs \in SUBSET Paths
  <2>1. \A x \in DOMAIN disk.files : disk.files[x] \in SUBSET Paths
    BY <1>10, MapIs DEF FileLists
  <2> QED
    BY <2>1
<1> HIDE DEF fm, fs
<1>17. /\ TrailIn(G, listed) /\ DOMAIN Now(listed).files = DOMAIN disk.files
       /\ Now(listed).chats = disk.chats /\ Now(listed).trash = disk.trash
  <2>1. TrailIn(G, <<disk>>) /\ Now(<<disk>>) = disk
    BY <1>2, TrailStarts
  <2>2. ASSUME p # None, p \in DOMAIN disk.files
        PROVE  LET u == writeProject(<<disk>>, p, fs)
               IN  /\ TrailIn(G, u) /\ DOMAIN Now(u).files = DOMAIN disk.files \cup {p}
                   /\ Now(u).chats = disk.chats /\ Now(u).trash = disk.trash
    BY <1>13, <1>16, <2>1, <2>2, WriteProjectGood
  <2> HIDE DEF G
  <2>3. CASE p = None \/ p \notin DOMAIN disk.files
    BY <2>1, <2>3
  <2>4. CASE ~(p = None \/ p \notin DOMAIN disk.files)
    BY <2>2, <2>4
  <2> QED
    BY <2>3, <2>4
<1> HIDE DEF listed
<1>18. rest \in Maps(Paths, Hashes)
  BY <1>10, DropMap DEF IdMaps
<1>19. /\ DOMAIN rest = DOMAIN disk.chatIdByPath \ {old}
       /\ \A x \in DOMAIN disk.chatIdByPath \ {old} : rest[x] = disk.chatIdByPath[x]
  BY DropAt
<1>20. \A x, o : Get(rest, x, o) = IF x = old THEN o ELSE Get(disk.chatIdByPath, x, o)
  BY GetDrop
<1> HIDE DEF rest
<1>21. DOMAIN ci = DOMAIN rest \cup {f} /\ ci[f] = c /\ \A x \in DOMAIN rest \ {f} : ci[x] = rest[x]
  BY DEF Put
<1>22. \A x, o : Get(ci, x, o) = IF x = f THEN c ELSE Get(rest, x, o)
  BY GetPut
<1>23. ci \in IdMaps
  BY <1>11, <1>18, PutMap DEF IdMaps
<1> HIDE DEF ci
<1>24. OwnIdMap(had', ci)
  <2> SUFFICES ASSUME NEW x \in DOMAIN ci
               PROVE  \E g \in Paths : ci[x] = HashOf(g) /\ had'[x] \cap had'[g] # {}
    BY DEF OwnIdMap
  <2>3. CASE x = f
    BY <1>4, <1>12, <1>21, <2>3
  <2>4. CASE x # f
    <3>1. x \in DOMAIN disk.chatIdByPath /\ ci[x] = disk.chatIdByPath[x]
      BY <1>19, <1>21, <2>4
    <3> QED
      BY <1>9, <3>1 DEF OwnIdMap
  <2> QED
    BY <2>3, <2>4
<1> DEFINE e == Now(trail)
<1>25. /\ e.chats = disk.chats /\ e.trash = disk.trash /\ DOMAIN e.files = DOMAIN disk.files
       /\ e.fileMap = fm /\ e.chatIdByPath = ci
  <2>1. /\ Now(trail).files = Now(listed).files /\ Now(trail).chats = Now(listed).chats
        /\ Now(trail).trash = Now(listed).trash
        /\ Now(trail).fileMap = fm /\ Now(trail).chatIdByPath = ci
    BY <1>10, <1>15, <1>17, <1>23, <1>24, WriteIndexGood
  <2> HIDE DEF trail
  <2> QED
    BY <1>17, <2>1
<1> HIDE DEF trail, e
<1>26. Resolved(e, f) = Resolved(disk, old) /\ \A x : x # old /\ x # f => Resolved(e, x) = Resolved(disk, x)
  <2>1. Get(e.fileMap, f, Default) = Get(disk.fileMap, old, Default)
    BY <1>15, <1>25
  <2>2. chatIdForPath(e, f) = chatIdForPath(disk, old)
    BY <1>22, <1>25 DEF chatIdForPath, c
  <2>3. \A x : x # old /\ x # f => Get(e.fileMap, x, Default) = Get(disk.fileMap, x, Default)
    BY <1>15, <1>25
  <2>4. \A x : x # old /\ x # f => chatIdForPath(e, x) = chatIdForPath(disk, x)
    BY <1>20, <1>22, <1>25 DEF chatIdForPath
  <2> QED
    BY <2>1, <2>2, <2>3, <2>4 DEF Resolved
<1>27. \A m : InBin(disk, pending, m) => InBin(e, pending, m)
  BY <1>25 DEF InBin
<1>28. ASSUME NEW x \in Docs PROVE KeptDoc(e, pending, pa, said, late, x)
  <2>1. KeptDoc(disk, pending, path, said, late, x)
    BY <1>2 DEF KeptGood
  <2>2. (pa[x] = None <=> path[x] = None) /\ (path[x] # None => Resolved(e, pa[x]) = Resolved(disk, path[x]))
    BY <1>1, <1>5, <1>6, <1>8, <1>26
  <2> QED
    BY <1>25, <1>27, <2>1, <2>2 DEF KeptDoc
<1>29. KeptGood(e, pending, pa, said, late)
  BY <1>2, <1>25, <1>28 DEF KeptGood
<1>30. Placed(e, pa)
  <2>1. ASSUME NEW g \in DOMAIN fm PROVE \E x \in Docs : pa[x] = g
    <3>1. CASE g = f
      BY <1>5, <3>1
    <3>2. CASE g # f
      <4>1. PICK x \in Docs : path[x] = g
        BY <1>2, <1>15, <3>2 DEF Placed
      <4>2. x # d
        BY <1>8, <1>15, <3>2, <4>1
      <4> QED
        BY <1>5, <4>1, <4>2
    <3> QED
      BY <3>1, <3>2
  <2>2. \A x, y \in Docs : pa[x] = pa[y] /\ pa[x] # None => x = y
    BY <1>2, <1>5 DEF Placed
  <2> QED
    BY <1>2, <1>25, <2>1, <2>2 DEF Placed
<1> QED
  BY <1>1, <1>3, <1>29, <1>30 DEF KeptDone, e

(* A chat renamed is heard under its new key, and only those two keys change. *)
LEMMA RenameHears ==
  ASSUME NEW cs, NEW b, NEW from \in DOMAIN cs, NEW to, from # to, Get(b, from, <<>>) = <<>>, Clean(cs)
  PROVE  LET q == Drop(Put(cs, to, cs[from]), from)
         IN  /\ Clean(q) /\ Heard(cs, b, from) \subseteq Heard(q, b, to)
             /\ \A x : x # from /\ x # to => Heard(q, b, x) = Heard(cs, b, x)
<1> DEFINE lines == cs[from]
           put == Put(cs, to, lines)
           q == Drop(put, from)
<1>1. Get(cs, from, <<>>) = lines
  BY DEF Get
<1>2. Torn \notin Range(lines)
  BY DEF Clean
<1> HIDE DEF lines
<1>3. \A x : Get(put, x, <<>>) = IF x = to THEN lines ELSE Get(cs, x, <<>>)
  BY GetPut
<1>4. DOMAIN put = DOMAIN cs \cup {to} /\ put[to] = lines /\ \A x \in DOMAIN cs \ {to} : put[x] = cs[x]
  BY DEF Put
<1> HIDE DEF put
<1>5. \A x : Get(q, x, <<>>) = IF x = from THEN <<>> ELSE Get(put, x, <<>>)
  BY GetDrop
<1>6. DOMAIN q = DOMAIN put \ {from} /\ \A x \in DOMAIN put \ {from} : q[x] = put[x]
  BY DropAt
<1> HIDE DEF q
<1>7. Clean(q)
  <2> SUFFICES ASSUME NEW x \in DOMAIN q PROVE Torn \notin Range(q[x])
    BY DEF Clean
  <2>1. CASE x = to
    BY <1>2, <1>4, <1>6, <2>1
  <2>2. CASE x # to
    BY <1>4, <1>6, <2>2 DEF Clean
  <2> QED
    BY <2>1, <2>2
<1>8. Heard(cs, b, from) = Msgs(lines)
  BY <1>1, MsgsNone DEF Heard
<1>9. Get(q, to, <<>>) = lines
  BY <1>3, <1>5
<1>10. Heard(cs, b, from) \subseteq Heard(q, b, to)
  BY <1>8, <1>9 DEF Heard
<1>11. ASSUME NEW x, x # from, x # to PROVE Heard(q, b, x) = Heard(cs, b, x)
  <2>1. Get(q, x, <<>>) = Get(cs, x, <<>>)
    BY <1>3, <1>5, <1>11
  <2> QED
    BY <2>1 DEF Heard
<1> QED
  BY <1>7, <1>10, <1>11 DEF q, put, lines

LEMMA MoveKept ==
  ASSUME NEW f \in Paths, NEW p \in Projects, KeptReady, moveFileToProject(f, p)
  PROVE  KeptDone
<1> DEFINE G == GoodDisks(had')
           t == ensureDefaultProject(<<disk>>)
           d == Now(t)
           from == Get(d.fileMap, f, Default)
           fm == Put(d.fileMap, f, p)
           indexed == writeIndex(t, d.projects, fm, d.chatIdByPath)
           less == d.files[from] \ {f}
           left == IF from \in DOMAIN d.files THEN writeProject(indexed, from, less) ELSE indexed
           more == d.files[p] \cup {f}
           entered == writeProject(left, p, more)
           c == chatIdForPath(d, f)
           old == <<from, c>>
           new == <<p, c>>
           flushed == flushPending(entered, pending, old)
           trail == IF old \in DOMAIN Now(flushed).chats THEN RenameChat(flushed, old, new) ELSE flushed
           sq == IF old \in DOMAIN seqCounters
                 THEN Put(Drop(seqCounters, old), new, seqCounters[old]) ELSE seqCounters
           b == Drop(pending, old)
<1>1. /\ Completes(trail, sq, b) \/ Interrupted(trail)
      /\ f \in Range(path) /\ p \in DOMAIN d.files /\ from # p
      /\ path' = path /\ said' = said /\ late' = late
  BY DEF moveFileToProject, history
<1>2. /\ disk \in G /\ pending \in Buffers /\ OwnBuffer(had', pending)
      /\ PanelsGood(had', path, ids, reply) /\ SaidGood(said)
      /\ had' \in [Paths -> SUBSET Docs] /\ Single(had')
      /\ KeptGood(disk, pending, path, said, late) /\ Placed(disk, path)
  BY DEF KeptReady, Ready, StoreGood
<1>3. disk' = Now(trail) /\ pending' = b
  <2>1. ~Interrupted(trail)
    BY NotInterrupted
  <2> QED
    BY <1>1, <2>1 DEF Completes
<1>4. TrailIn(G, <<disk>>) /\ Now(<<disk>>) = disk
  BY <1>2, TrailStarts
<1>5. /\ TrailIn(G, t) /\ DOMAIN d.files \subseteq DOMAIN disk.files \cup {Default}
      /\ d.fileMap = disk.fileMap /\ d.chatIdByPath = disk.chatIdByPath
      /\ d.chats = disk.chats /\ d.trash = disk.trash
  BY <1>4, EnsureDefaultGood
<1>6. p \notin DOMAIN disk.trash
  BY <1>1, <1>2, <1>5, StoreAssumption DEF Placed, KeptGood
<1>7. PICK y \in Docs : path[y] = f
  BY <1>1, <1>2 DEF PanelsGood, Range
<1>8. /\ y \in had'[f] /\ f # None /\ \A x \in Docs : x # y => path[x] # f
      /\ \A x \in Docs : path[x] # None => path[x] \in Paths /\ x \in had'[path[x]]
  BY <1>2, <1>7, StoreAssumption DEF PanelsGood, Placed
<1> HIDE DEF t
<1>9. d \in G /\ d \in Disks /\ OwnIdMap(had', d.chatIdByPath)
  BY <1>5, TrailFacts DEF GoodDisks
<1>10. d.projects \in ProjectSets /\ d.fileMap \in FileMaps /\ d.chatIdByPath \in IdMaps /\ d.files \in FileLists
  BY <1>9, DiskFields
<1> HIDE DEF d
<1>11. Default \in Projects
  BY DEF Projects
<1>12. from \in Projects /\ c \in Hashes
  <2>1. from \in Projects
    BY <1>10, <1>11, GetMap DEF FileMaps
  <2>2. c \in Hashes
    BY <1>2, <1>8, <1>9, ChatIdOwner
  <2> QED
    BY <2>1, <2>2
<1>13. Resolved(disk, f) = old
  BY <1>5 DEF Resolved, chatIdForPath
<1>14. Owners(had', c) = {y}
  <2>1. Owners(had', Resolved(disk, f)[2]) = {y}
    BY <1>2, <1>8, ResolvedOwner
  <2>2. Resolved(disk, f)[2] = c
    BY <1>13
  <2> QED
    BY <2>1, <2>2
<1>40. chatIdForPath(disk, f) = c
  BY <1>5 DEF chatIdForPath
<1> HIDE DEF c
<1>15. /\ old \in Keys /\ new \in Keys /\ old[2] = c /\ new[2] = c /\ old[1] = from /\ new[1] = p
  BY <1>12 DEF Keys, ChatIds
<1>16. old # new
  BY <1>1
<1> HIDE DEF from
<1>17. fm \in FileMaps
  BY <1>10, PutMap DEF FileMaps
<1>18. more \in SUBSET Paths /\ (from \in DOMAIN d.files => less \in SUBSET Paths)
  <2>1. \A x \in DOMAIN d.files : d.files[x] \in SUBSET Paths
    BY <1>10, MapIs DEF FileLists
  <2> QED
    BY <1>1, <2>1
<1>19. \A x : Get(fm, x, Default) = IF x = f THEN p ELSE Get(d.fileMap, x, Default)
  BY GetPut
<1>20. DOMAIN fm = DOMAIN d.fileMap \cup {f}
  <2> DEFINE q == d.fileMap
  <2> HIDE DEF q
  <2>1. DOMAIN Put(q, f, p) = DOMAIN q \cup {f}
    BY DEF Put
  <2> QED
    BY <2>1 DEF q
<1> HIDE DEF fm, more, less, old, new
<1>21. /\ TrailIn(G, indexed) /\ Now(indexed).files = d.files /\ Now(indexed).chats = d.chats
       /\ Now(indexed).trash = d.trash /\ Now(indexed).fileMap = fm
       /\ Now(indexed).chatIdByPath = d.chatIdByPath
  <2>1. LET u == indexed
        IN  /\ TrailIn(G, u) /\ Now(u).files = Now(t).files /\ Now(u).chats = Now(t).chats
            /\ Now(u).trash = Now(t).trash /\ Now(u).fileMap = fm
            /\ Now(u).chatIdByPath = d.chatIdByPath
    BY <1>5, <1>9, <1>10, <1>17, WriteIndexGood
  <2> HIDE DEF indexed
  <2> QED
    BY <2>1 DEF d
<1> HIDE DEF indexed
<1>22. /\ TrailIn(G, left) /\ DOMAIN Now(left).files = DOMAIN d.files /\ Now(left).chats = d.chats
       /\ Now(left).trash = d.trash /\ Now(left).fileMap = fm
       /\ Now(left).chatIdByPath = d.chatIdByPath
  <2>1. ASSUME from \in DOMAIN d.files
        PROVE  LET u == writeProject(indexed, from, less)
               IN  /\ TrailIn(G, u) /\ DOMAIN Now(u).files = DOMAIN Now(indexed).files \cup {from}
                   /\ Now(u).chats = Now(indexed).chats /\ Now(u).trash = Now(indexed).trash
                   /\ Now(u).fileMap = Now(indexed).fileMap
                   /\ Now(u).chatIdByPath = Now(indexed).chatIdByPath
    BY <1>12, <1>18, <1>21, <2>1, WriteProjectGood
  <2> HIDE DEF G
  <2>2. CASE from \in DOMAIN d.files
    BY <1>21, <2>1, <2>2
  <2>3. CASE from \notin DOMAIN d.files
    BY <1>21, <2>3
  <2> QED
    BY <2>2, <2>3
<1> HIDE DEF left
<1> DEFINE e1 == Now(entered)
<1>23. /\ TrailIn(G, entered) /\ DOMAIN e1.files \subseteq DOMAIN disk.files \cup {Default}
       /\ e1.chats = disk.chats /\ e1.trash = disk.trash /\ e1.fileMap = fm
       /\ e1.chatIdByPath = disk.chatIdByPath
  <2>1. /\ TrailIn(G, entered) /\ DOMAIN e1.files = DOMAIN Now(left).files \cup {p}
        /\ e1.chats = Now(left).chats /\ e1.trash = Now(left).trash
        /\ e1.fileMap = Now(left).fileMap /\ e1.chatIdByPath = Now(left).chatIdByPath
    BY <1>18, <1>22, WriteProjectGood
  <2> HIDE DEF e1, entered, G
  <2> QED
    BY <1>1, <1>5, <1>22, <2>1
<1> HIDE DEF entered
<1> DEFINE e2 == Now(flushed)
<1>24. /\ TrailIn(G, flushed) /\ OnlyChats(e1, e2) /\ Clean(e2.chats)
       /\ \A x : Heard(e2.chats, b, x) = Heard(disk.chats, pending, x)
       /\ old \notin DOMAIN e2.chats => Heard(disk.chats, pending, old) = {}
  <2>1. Clean(e1.chats)
    BY <1>2, <1>23 DEF KeptGood
  <2>2. TrailIn(G, flushed)
    BY <1>2, <1>23, FlushGood
  <2>3. /\ OnlyChats(e1, e2) /\ Clean(e2.chats)
        /\ \A x : Heard(e2.chats, b, x) = Heard(e1.chats, pending, x)
        /\ old \notin DOMAIN e2.chats => Heard(e1.chats, pending, old) = {}
    BY <1>2, <1>23, <2>1, FlushHears
  <2> HIDE DEF e1, e2, b, G
  <2> QED
    BY <1>23, <2>2, <2>3
<1> HIDE DEF flushed
<1> DEFINE e == Now(trail)
<1>25. /\ OnlyChats(e1, e) /\ Clean(e.chats)
       /\ Heard(disk.chats, pending, old) \subseteq Heard(e.chats, b, new)
       /\ \A x : x # old /\ x # new => Heard(disk.chats, pending, x) \subseteq Heard(e.chats, b, x)
  <2>1. CASE old \in DOMAIN e2.chats
    <3>1. Owners(had', old[2]) \subseteq Owners(had', new[2])
      BY <1>15
    <3>2. trail = RenameChat(flushed, old, new)
      BY <2>1
    <3>3. LET u == RenameChat(flushed, old, new)
          IN  /\ OnlyChats(Now(flushed), Now(u))
              /\ Now(u).chats = Drop(Put(Now(flushed).chats, new, Now(flushed).chats[old]), old)
      BY <1>15, <1>24, <2>1, <3>1, RenameChatGood
    <3>4. OnlyChats(e2, e) /\ e.chats = Drop(Put(e2.chats, new, e2.chats[old]), old)
      BY <3>2, <3>3
    <3>5. Get(b, old, <<>>) = <<>>
      BY GetDrop
    <3> DEFINE cs == e2.chats
    <3>6. old \in DOMAIN cs /\ Clean(cs) /\ e.chats = Drop(Put(cs, new, cs[old]), old)
      BY <1>24, <2>1, <3>4
    <3> HIDE DEF e, e2, b, trail
    <3>7. /\ Clean(e.chats) /\ Heard(cs, b, old) \subseteq Heard(e.chats, b, new)
          /\ \A x : x # old /\ x # new => Heard(e.chats, b, x) = Heard(cs, b, x)
      <4> HIDE DEF cs
      <4>1. LET q == Drop(Put(cs, new, cs[old]), old)
            IN  /\ Clean(q) /\ Heard(cs, b, old) \subseteq Heard(q, b, new)
                /\ \A x : x # old /\ x # new => Heard(q, b, x) = Heard(cs, b, x)
        BY <1>16, <3>5, <3>6, RenameHears, ZenonT(60)
      <4> DEFINE q == Drop(Put(cs, new, cs[old]), old)
      <4>2. e.chats = q
        BY <3>6
      <4>3. /\ Clean(q) /\ Heard(cs, b, old) \subseteq Heard(q, b, new)
            /\ \A x : x # old /\ x # new => Heard(q, b, x) = Heard(cs, b, x)
        BY <4>1
      <4> HIDE DEF q
      <4> QED
        BY <4>2, <4>3
    <3>8. OnlyChats(e1, e)
      BY <1>24, <3>4 DEF OnlyChats
    <3> QED
      BY <1>24, <3>7, <3>8
  <2>2. CASE old \notin DOMAIN e2.chats
    <3>1. e = e2
      BY <2>2
    <3> HIDE DEF e, e2, b
    <3> QED
      BY <1>24, <2>2, <3>1
  <2> QED
    BY <2>1, <2>2
<1> HIDE DEF trail, e, b, e1, e2
<1>26. /\ e.trash = disk.trash /\ e.fileMap = fm /\ e.chatIdByPath = disk.chatIdByPath
       /\ DOMAIN e.files \subseteq DOMAIN disk.files \cup {Default}
  BY <1>23, <1>25 DEF OnlyChats
<1>27. Resolved(e, f) = new /\ \A x : x # f => Resolved(e, x) = Resolved(disk, x)
  <2>1. Get(e.fileMap, f, Default) = p /\ chatIdForPath(e, f) = c
    BY <1>19, <1>26, <1>40 DEF chatIdForPath
  <2>2. \A x : x # f => Get(e.fileMap, x, Default) = Get(disk.fileMap, x, Default)
    BY <1>5, <1>19, <1>26
  <2>3. \A x : chatIdForPath(e, x) = chatIdForPath(disk, x)
    BY <1>26 DEF chatIdForPath
  <2> QED
    BY <2>1, <2>2, <2>3 DEF Resolved, new
<1>28. Heard(disk.chats, pending, old) \subseteq {y} \X Nat
  <2>1. OwnChatMap(had', disk.chats) /\ Clean(disk.chats)
    BY <1>2 DEF GoodDisks, KeptGood
  <2> DEFINE cs == disk.chats
             h == had'
  <2> HIDE DEF cs, h
  <2>2. Heard(cs, pending, old) \subseteq Owners(h, old[2]) \X Nat
    BY <1>2, <2>1, HeardOwn DEF cs, h
  <2> QED
    BY <1>14, <1>15, <2>2 DEF cs, h
<1>29. ASSUME NEW x \in Docs, NEW m \in said[x], InBin(disk, pending, m)
       PROVE  InBin(e, b, m) \/ (x = y /\ m \in Heard(e.chats, b, new))
  <2>1. m \in {x} \X Nat
    BY <1>2 DEF SaidGood
  <2>2. ASSUME NEW k \in Keys, k[1] \in DOMAIN disk.trash, m \in Heard(disk.chats, pending, k)
        PROVE  InBin(e, b, m) \/ (x = y /\ m \in Heard(e.chats, b, new))
    <3>1. k # new
      BY <1>6, <1>15, <2>2
    <3>2. CASE k = old
      BY <1>25, <1>28, <2>1, <2>2, <3>2
    <3>3. CASE k # old
      <4>1. m \in Heard(e.chats, b, k)
        BY <1>25, <2>2, <3>1, <3>3
      <4> QED
        BY <1>26, <2>2, <4>1 DEF InBin
    <3> QED
      BY <3>2, <3>3
  <2>3. CASE \E q \in DOMAIN disk.trash : \E r \in disk.trash[q] : m = r.msg
    BY <1>26, <2>3 DEF InBin
  <2> QED
    BY <1>29, <2>2, <2>3 DEF InBin
<1>30. ASSUME NEW x \in Docs PROVE KeptDoc(e, b, path, said, late, x)
  <2>1. KeptDoc(disk, pending, path, said, late, x)
    BY <1>2 DEF KeptGood
  <2>2. CASE x = y
    <3>1. ASSUME NEW m \in said[x] \ late
          PROVE  m \in Heard(e.chats, b, Resolved(e, path[x])) \/ InBin(e, b, m)
      <4>1. m \in Heard(disk.chats, pending, old) \/ InBin(disk, pending, m)
        BY <1>7, <1>8, <1>13, <2>1, <2>2, <3>1 DEF KeptDoc
      <4>2. Resolved(e, path[x]) = new
        BY <1>7, <1>27, <2>2
      <4> QED
        BY <1>25, <1>29, <4>1, <4>2
    <3> QED
      BY <1>7, <1>8, <2>2, <3>1 DEF KeptDoc
  <2>3. CASE x # y /\ path[x] = None
    <3> DEFINE k == <<Default, TempOf(x)>>
    <3>1. k[2] = TempOf(x)
      BY TempKey
    <3>2. TempOf(x) # c
      BY <1>12, IdsDistinct DEF Hashes
    <3>3. k # old /\ k # new
      BY <1>15, <3>1, <3>2
    <3>4. said[x] \subseteq Heard(disk.chats, pending, k)
      BY <2>1, <2>3 DEF KeptDoc
    <3> HIDE DEF k
    <3>5. said[x] \subseteq Heard(e.chats, b, k)
      BY <1>25, <3>3, <3>4
    <3> QED
      BY <2>3, <3>5 DEF KeptDoc, k
  <2>4. CASE x # y /\ path[x] # None
    <3> DEFINE k == Resolved(disk, path[x])
    <3>1. Owners(had', k[2]) = {x}
      BY <1>2, <1>8, <2>4, ResolvedOwner
    <3>2. k # old /\ k # new
      BY <1>14, <1>15, <2>4, <3>1
    <3>3. Resolved(e, path[x]) = k
      BY <1>8, <1>27, <2>4
    <3> HIDE DEF k
    <3>4. ASSUME NEW m \in said[x] \ late
          PROVE  m \in Heard(e.chats, b, k) \/ InBin(e, b, m)
      <4>1. m \in Heard(disk.chats, pending, k) \/ InBin(disk, pending, m)
        BY <2>1, <2>4, <3>4 DEF KeptDoc, k
      <4> QED
        BY <1>25, <1>29, <2>4, <3>2, <4>1
    <3> QED
      BY <2>4, <3>3, <3>4 DEF KeptDoc
  <2> QED
    BY <2>2, <2>3, <2>4
<1>31. KeptGood(e, b, path, said, late)
  BY <1>2, <1>25, <1>26, <1>30 DEF KeptGood
<1>32. Placed(e, path)
  <2>1. \A g \in DOMAIN e.fileMap : \E x \in Docs : path[x] = g
    BY <1>2, <1>5, <1>7, <1>20, <1>26 DEF Placed
  <2>2. DOMAIN e.files \cap DOMAIN e.trash = {}
    BY <1>2, <1>26, StoreAssumption DEF Placed, KeptGood
  <2> QED
    BY <1>2, <2>1, <2>2 DEF Placed
<1> QED
  BY <1>1, <1>3, <1>31, <1>32 DEF KeptDone, e, b

LEMMA DeleteProjectKept ==
  ASSUME NEW p \in Extra, KeptReady, deleteProject(p)
  PROVE  KeptDone
<1> DEFINE G == GoodDisks(had')
           gone == ToTrash(<<disk>>, p)
           t == ensureDefaultProject(gone)
           d == Now(t)
           moved == {f \in DOMAIN d.fileMap : d.fileMap[f] = p}
           fm == [f \in DOMAIN d.fileMap |-> IF f \in moved THEN Default ELSE d.fileMap[f]]
           fs == d.files[Default] \cup moved
           listed == IF moved = {} THEN t ELSE writeProject(t, Default, fs)
           trail == writeIndex(listed, d.projects \ {p}, fm, d.chatIdByPath)
           its == ChatsIn(disk, p)
           lost == LinesIn(disk, p)
           cs == Restrict(disk.chats, DOMAIN disk.chats \ its)
           tr == Put(disk.trash, p, lost)
<1>1. /\ Completes(trail, seqCounters, pending) \/ Interrupted(trail)
      /\ p \in DOMAIN disk.files /\ path' = path /\ said' = said /\ late' = late
  BY DEF deleteProject, history
<1>2. /\ disk \in G /\ PanelsGood(had', path, ids, reply)
      /\ had' \in [Paths -> SUBSET Docs] /\ Single(had')
      /\ KeptGood(disk, pending, path, said, late) /\ Placed(disk, path)
  BY DEF KeptReady, Ready, StoreGood
<1>3. disk' = Now(trail) /\ pending' = pending
  <2>1. ~Interrupted(trail)
    BY NotInterrupted
  <2> QED
    BY <1>1, <2>1 DEF Completes
<1>4. TrailIn(G, <<disk>>) /\ Now(<<disk>>) = disk
  BY <1>2, TrailStarts
<1>5. p \in Projects /\ Default \in Projects /\ p # Default /\ p \notin DOMAIN disk.trash
  BY <1>1, <1>2, StoreAssumption DEF Projects, Placed
<1>6. /\ TrailIn(G, gone) /\ Now(gone).files = Drop(disk.files, p)
      /\ Now(gone).fileMap = disk.fileMap /\ Now(gone).chatIdByPath = disk.chatIdByPath
      /\ Now(gone).chats = cs /\ Now(gone).trash = tr
  BY <1>4, <1>5, ToTrashGood
<1>7. DOMAIN Drop(disk.files, p) = DOMAIN disk.files \ {p}
  BY DropAt
<1>8. /\ DOMAIN cs = DOMAIN disk.chats \ its /\ \A k \in DOMAIN cs : cs[k] = disk.chats[k]
  <2> DEFINE q == disk.chats
             D == DOMAIN q \ its
  <2> HIDE DEF q, D
  <2>1. DOMAIN Restrict(q, D) = D /\ \A k \in D : Restrict(q, D)[k] = q[k]
    BY DEF Restrict
  <2> QED
    BY <2>1 DEF q, D
<1>9. /\ DOMAIN tr = DOMAIN disk.trash \cup {p} /\ tr[p] = lost
      /\ \A q \in DOMAIN disk.trash : tr[q] = disk.trash[q]
  <2> DEFINE old == disk.trash
  <2> HIDE DEF old, lost
  <2>1. /\ DOMAIN Put(old, p, lost) = DOMAIN old \cup {p} /\ Put(old, p, lost)[p] = lost
        /\ \A q \in DOMAIN old : q # p => Put(old, p, lost)[q] = old[q]
    BY DEF Put
  <2> QED
    BY <1>5, <2>1 DEF old
<1> HIDE DEF gone, cs, tr, lost
<1>10. /\ TrailIn(G, t) /\ Default \in DOMAIN d.files
       /\ DOMAIN d.files \subseteq (DOMAIN disk.files \ {p}) \cup {Default}
       /\ d.fileMap = disk.fileMap /\ d.chatIdByPath = disk.chatIdByPath
       /\ d.chats = cs /\ d.trash = tr
  <2>1. /\ TrailIn(G, t) /\ Default \in DOMAIN d.files
        /\ DOMAIN d.files \subseteq DOMAIN Now(gone).files \cup {Default}
        /\ d.fileMap = Now(gone).fileMap /\ d.chatIdByPath = Now(gone).chatIdByPath
        /\ d.chats = Now(gone).chats /\ d.trash = Now(gone).trash
    BY <1>6, EnsureDefaultGood
  <2> HIDE DEF t, d, G
  <2> QED
    BY <1>6, <1>7, <2>1
<1> HIDE DEF t
<1>11. d \in Disks /\ OwnIdMap(had', d.chatIdByPath)
  BY <1>10, TrailFacts DEF GoodDisks
<1>12. d.projects \in ProjectSets /\ d.fileMap \in FileMaps /\ d.chatIdByPath \in IdMaps /\ d.files \in FileLists
  BY <1>11, DiskFields
<1>13. DOMAIN d.fileMap \subseteq Paths /\ \A f \in DOMAIN d.fileMap : d.fileMap[f] \in Projects
  BY <1>12, MapIs DEF FileMaps
<1>14. d.files[Default] \subseteq Paths
  BY <1>10, <1>12, MapIs DEF FileLists
<1> HIDE DEF d
<1>15. moved \subseteq Paths /\ fs \in SUBSET Paths
  BY <1>13, <1>14
<1>16. /\ DOMAIN fm = DOMAIN d.fileMap /\ fm = [f \in DOMAIN fm |-> fm[f]]
       /\ \A f \in DOMAIN fm : fm[f] = IF d.fileMap[f] = p THEN Default ELSE d.fileMap[f]
  OBVIOUS
<1> HIDE DEF fm, fs, moved
<1>17. fm \in FileMaps
  <2>1. \A f \in DOMAIN fm : fm[f] \in Projects
    BY <1>5, <1>13, <1>16
  <2> QED
    BY <1>13, <1>16, <2>1, MapIs DEF FileMaps
<1>18. /\ TrailIn(G, listed) /\ DOMAIN Now(listed).files = DOMAIN d.files
       /\ Now(listed).chats = cs /\ Now(listed).trash = tr
  <2>1. LET u == writeProject(t, Default, fs)
        IN  /\ TrailIn(G, u) /\ DOMAIN Now(u).files = DOMAIN Now(t).files \cup {Default}
            /\ Now(u).chats = Now(t).chats /\ Now(u).trash = Now(t).trash
    BY <1>5, <1>10, <1>15, WriteProjectGood
  <2>2. Now(t) = d
    BY DEF d
  <2> HIDE DEF G
  <2>3. CASE moved = {}
    BY <1>10, <2>2, <2>3
  <2>4. CASE moved # {}
    BY <1>10, <2>1, <2>2, <2>4
  <2> QED
    BY <2>3, <2>4
<1> HIDE DEF listed
<1>19. d.projects \ {p} \in ProjectSets
  BY <1>12 DEF ProjectSets
<1> DEFINE e == Now(trail)
<1>20. /\ e.chats = cs /\ e.trash = tr /\ e.fileMap = fm /\ e.chatIdByPath = disk.chatIdByPath
       /\ DOMAIN e.files \subseteq (DOMAIN disk.files \ {p}) \cup {Default}
  <2>1. /\ e.files = Now(listed).files /\ e.chats = Now(listed).chats
        /\ e.trash = Now(listed).trash /\ e.fileMap = fm /\ e.chatIdByPath = d.chatIdByPath
    BY <1>11, <1>12, <1>17, <1>18, <1>19, WriteIndexGood
  <2> HIDE DEF trail, e
  <2> QED
    BY <1>10, <1>18, <2>1
<1> HIDE DEF trail, e
<1>21. ASSUME NEW k, k[1] # p PROVE Heard(e.chats, pending, k) = Heard(disk.chats, pending, k)
  <2>1. Get(cs, k, <<>>) = Get(disk.chats, k, <<>>)
    BY <1>8, <1>21 DEF Get, ChatsIn
  <2> QED
    BY <1>20, <2>1 DEF Heard
(* What the deleted project held is in the trash, or still buffered for it. *)
<1>22. ASSUME NEW k \in Keys, k[1] = p, NEW m \in Heard(disk.chats, pending, k)
       PROVE  InBin(e, pending, m)
  <2>1. CASE m \in Msgs(Get(pending, k, <<>>))
    <3>1. m \in Heard(e.chats, pending, k)
      BY <2>1 DEF Heard
    <3> QED
      BY <1>9, <1>20, <1>22, <3>1 DEF InBin
  <2>2. CASE m \in Msgs(Get(disk.chats, k, <<>>))
    <3>1. k \in DOMAIN disk.chats
      BY <2>2, MsgsNone DEF Get
    <3>2. m \in Msgs(disk.chats[k])
      BY <2>2, <3>1 DEF Get
    <3>3. PICK r \in Range(disk.chats[k]) : m = r.msg
      BY <3>2 DEF Msgs
    <3>4. r \in tr[p]
      BY <1>9, <1>22, <3>1, <3>3 DEF lost, LinesIn, ChatsIn
    <3> QED
      BY <1>9, <1>20, <3>3, <3>4 DEF InBin
  <2> QED
    BY <1>22, <2>1, <2>2 DEF Heard
<1>23. ASSUME NEW m, InBin(disk, pending, m) PROVE InBin(e, pending, m)
  <2>1. ASSUME NEW q \in DOMAIN disk.trash, NEW r \in disk.trash[q], m = r.msg
        PROVE  InBin(e, pending, m)
    BY <1>9, <1>20, <2>1 DEF InBin
  <2>2. ASSUME NEW k \in Keys, k[1] \in DOMAIN disk.trash, m \in Heard(disk.chats, pending, k)
        PROVE  InBin(e, pending, m)
    BY <1>5, <1>9, <1>20, <1>21, <2>2 DEF InBin
  <2> QED
    BY <1>23, <2>1, <2>2 DEF InBin
<1>24. \A x : Get(disk.fileMap, x, Default) # p => Resolved(e, x) = Resolved(disk, x)
  <2>1. \A x : chatIdForPath(e, x) = chatIdForPath(disk, x)
    BY <1>20 DEF chatIdForPath
  <2>2. \A x : Get(disk.fileMap, x, Default) # p => Get(e.fileMap, x, Default) = Get(disk.fileMap, x, Default)
    BY <1>10, <1>16, <1>20 DEF Get
  <2> QED
    BY <2>1, <2>2 DEF Resolved
<1>25. ASSUME NEW x \in Docs PROVE KeptDoc(e, pending, path, said, late, x)
  <2>1. KeptDoc(disk, pending, path, said, late, x)
    BY <1>2 DEF KeptGood
  <2>2. CASE path[x] = None
    <3> DEFINE k == <<Default, TempOf(x)>>
    <3>1. k[1] # p
      BY <1>5, TempKey
    <3>2. said[x] \subseteq Heard(disk.chats, pending, k)
      BY <2>1, <2>2 DEF KeptDoc
    <3> HIDE DEF k
    <3>3. said[x] \subseteq Heard(e.chats, pending, k)
      BY <1>21, <3>1, <3>2
    <3> QED
      BY <2>2, <3>3 DEF KeptDoc, k
  <2>3. CASE path[x] # None
    <3> DEFINE k == Resolved(disk, path[x])
    <3>1. path[x] \in Paths /\ x \in had'[path[x]]
      BY <1>2, <2>3 DEF PanelsGood
    <3>2. k \in Keys
      BY <1>2, <3>1, ResolvedOwner
    <3>3. k[1] = Get(disk.fileMap, path[x], Default)
      BY DEF Resolved
    <3> HIDE DEF k
    <3>4. ASSUME NEW m \in said[x] \ late
          PROVE  m \in Heard(e.chats, pending, Resolved(e, path[x])) \/ InBin(e, pending, m)
      <4>1. m \in Heard(disk.chats, pending, k) \/ InBin(disk, pending, m)
        BY <2>1, <2>3, <3>4 DEF KeptDoc, k
      <4>2. CASE k[1] = p
        BY <1>22, <1>23, <3>2, <4>1, <4>2
      <4>3. CASE k[1] # p
        <5>1. Resolved(e, path[x]) = k
          BY <1>24, <3>3, <4>3 DEF k
        <5> QED
          BY <1>21, <1>23, <4>1, <4>3, <5>1
      <4> QED
        BY <4>2, <4>3
    <3> QED
      BY <2>3, <3>4 DEF KeptDoc
  <2> QED
    BY <2>2, <2>3
<1>26. KeptGood(e, pending, path, said, late)
  <2>1. Clean(cs)
    BY <1>2, <1>8 DEF KeptGood, Clean
  <2>2. DOMAIN e.trash \subseteq Extra
    BY <1>2, <1>9, <1>20 DEF KeptGood
  <2> QED
    BY <1>20, <1>25, <2>1, <2>2 DEF KeptGood
<1>27. Placed(e, path)
  <2>1. \A g \in DOMAIN e.fileMap : \E x \in Docs : path[x] = g
    BY <1>2, <1>10, <1>16, <1>20 DEF Placed
  <2>2. DOMAIN e.files \cap DOMAIN e.trash = {}
    BY <1>2, <1>5, <1>9, <1>20, StoreAssumption DEF Placed, KeptGood
  <2> QED
    BY <1>2, <2>1, <2>2 DEF Placed
<1> QED
  BY <1>1, <1>3, <1>26, <1>27 DEF KeptDone, e

LEMMA KeptInvInit == Init => KeptInv
<1> SUFFICES ASSUME Init PROVE KeptInv
  OBVIOUS
<1>1. DOMAIN Empty = {}
  BY DEF Empty
<1>2. /\ disk.chats = Empty /\ disk.trash = Empty /\ disk.files = Empty /\ disk.fileMap = Empty
      /\ crashes = 0 /\ faults = 0
      /\ \A d \in Docs : path[d] = None /\ said[d] = {}
  BY DEF Init
<1>3. KeptGood(disk, pending, path, said, late)
  BY <1>1, <1>2 DEF KeptGood, Clean, KeptDoc
<1>4. Placed(disk, path)
  BY <1>1, <1>2 DEF Placed
<1> QED
  BY <1>2, <1>3, <1>4 DEF KeptInv

(* Ends of the process and failed appends are counted and never taken back. *)
LEMMA TroubleGrows ==
  ASSUME crashes \in Nat, faults \in Nat, [Next]_vars
  PROVE  /\ crashes' \in {crashes, crashes + 1} /\ faults' \in {faults, faults + 1}
         /\ crashes' \in Nat /\ faults' \in Nat
<1>1. CASE Next
  <2>1. ASSUME NEW d \in Docs, OpenChat(d)
        PROVE  crashes' \in {crashes, crashes + 1} /\ faults' \in {faults, faults + 1}
    BY <2>1 DEF OpenChat, Completes, Interrupted, EndsOn
  <2>2. ASSUME NEW d \in Docs, ClosePanel(d) \/ Answered(d) \/ appendChatMessage(d)
        PROVE  crashes' \in {crashes, crashes + 1} /\ faults' \in {faults, faults + 1}
    BY <2>2 DEF ClosePanel, Answered, appendChatMessage
  <2>3. ASSUME NEW d \in Docs, NEW f \in Paths, FirstSave(d, f)
        PROVE  crashes' \in {crashes, crashes + 1} /\ faults' \in {faults, faults + 1}
    BY <2>3 DEF FirstSave, Completes, Interrupted, EndsOn
  <2>4. ASSUME NEW d \in Docs, NEW f \in Paths, fileRenamed(d, f)
        PROVE  crashes' \in {crashes, crashes + 1} /\ faults' \in {faults, faults + 1}
    BY <2>4 DEF fileRenamed, Completes, Interrupted, EndsOn
  <2>5. ASSUME NEW p \in Extra, createProject(p) \/ deleteProject(p)
        PROVE  crashes' \in {crashes, crashes + 1} /\ faults' \in {faults, faults + 1}
    BY <2>5 DEF createProject, deleteProject, Completes, Interrupted, EndsOn
  <2>6. ASSUME NEW f \in Paths, NEW p \in Projects, moveFileToProject(f, p)
        PROVE  crashes' \in {crashes, crashes + 1} /\ faults' \in {faults, faults + 1}
    BY <2>6 DEF moveFileToProject, Completes, Interrupted, EndsOn
  <2>7. CASE ProcessEnds
    BY <2>7 DEF ProcessEnds, EndsOn
  <2> QED
    BY <1>1, <2>1, <2>2, <2>3, <2>4, <2>5, <2>6, <2>7 DEF Next
<1>2. CASE UNCHANGED vars
  BY <1>2 DEF vars
<1> QED
  BY <1>1, <1>2

LEMMA KeptInvNext == StoreInv /\ KeptInv /\ [Next]_vars => KeptInv'
<1> SUFFICES ASSUME StoreInv, KeptInv, [Next]_vars PROVE KeptInv'
  OBVIOUS
<1>1. HadGood(had) /\ HadGood(had') /\ Grown(had, had')
  BY HadGrows DEF StoreInv
<1>2. /\ crashes \in Nat /\ faults \in Nat /\ crashes' \in Nat /\ faults' \in Nat
      /\ crashes' \in {crashes, crashes + 1} /\ faults' \in {faults, faults + 1}
  BY TroubleGrows DEF KeptInv
<1> SUFFICES ASSUME Single(had'), crashes' = 0, faults' = 0
             PROVE  KeptDone
  <2>1. NoReuse' <=> Single(had')
    BY <1>1, OneReuse DEF NoReuse, Single, HadGood, Count
  <2> QED
    BY <1>2, <2>1 DEF KeptInv, KeptDone, Quiet
<1>5. Ready(had') /\ NoReuse /\ had \in [Paths -> SUBSET Docs]
  BY StoreReady
<1>6. Quiet
  BY <1>2 DEF Quiet
<1>7. KeptReady
  BY <1>2, <1>5, <1>6 DEF KeptInv, KeptReady
<1>8. CASE Next
  <2>1. ASSUME NEW d \in Docs, OpenChat(d) \/ appendChatMessage(d)
        PROVE  KeptDone
    BY <1>7, <2>1, OpenChatKept, AppendKept
  <2>2. ASSUME NEW d \in Docs, ClosePanel(d) \/ Answered(d)
        PROVE  KeptDone
    <3>1. UNCHANGED <<disk, pending, path, said, late>>
      BY <2>2 DEF ClosePanel, Answered, mem, history
    <3> QED
      BY <1>7, <3>1, QuietPanelKept
  <2>3. ASSUME NEW d \in Docs, NEW f \in Paths, FirstSave(d, f) \/ fileRenamed(d, f)
        PROVE  KeptDone
    BY <1>7, <2>3, FirstSaveKept, FileRenamedKept
  <2>4. ASSUME NEW p \in Extra, createProject(p) \/ deleteProject(p)
        PROVE  KeptDone
    BY <1>7, <2>4, CreateProjectKept, DeleteProjectKept
  <2>5. ASSUME NEW f \in Paths, NEW p \in Projects, moveFileToProject(f, p)
        PROVE  KeptDone
    BY <1>7, <2>5, MoveKept
  <2>6. ~ProcessEnds
    BY <1>2 DEF ProcessEnds, EndsOn
  <2> QED
    BY <1>8, <2>1, <2>2, <2>3, <2>4, <2>5, <2>6 DEF Next
<1>9. CASE UNCHANGED vars
  <2>1. UNCHANGED <<disk, pending, path, said, late>>
    BY <1>9 DEF vars
  <2> QED
    BY <1>7, <2>1, QuietPanelKept
<1> QED
  BY <1>8, <1>9

LEMMA KeptInvIsKept == StoreInv /\ KeptInv => HistoryKept
<1> SUFFICES ASSUME StoreInv, KeptInv, Quiet, NoReuse, NEW d \in Docs, path[d] # None
             PROVE  (said[d] \ late) \subseteq Shown(d) \cup Trashed
  BY DEF HistoryKept
<1>1. disk \in GoodDisks(had) /\ pending \in Buffers /\ OwnBuffer(had, pending)
  BY DEF StoreInv, StoreGood
<1>2. KeptGood(disk, pending, path, said, late)
  BY DEF KeptInv
<1>3. Clean(disk.chats)
  BY <1>2 DEF KeptGood
<1>4. \A k : Msgs(loadChat(disk, pending, k)) = Heard(disk.chats, pending, k)
  BY <1>1, <1>3, LoadMsgs
<1>5. ASSUME NEW m, InBin(disk, pending, m) PROVE m \in Trashed
  <2>1. ASSUME NEW p \in DOMAIN disk.trash, NEW r \in disk.trash[p], m = r.msg
        PROVE  m \in Trashed
    <3>1. disk.trash[p] \in Range(disk.trash)
      BY DEF Range
    <3>2. r \in UNION Range(disk.trash)
      BY <3>1
    <3> QED
      BY <2>1, <3>2 DEF Trashed
  <2>2. ASSUME NEW k \in Keys, k[1] \in DOMAIN disk.trash, m \in Heard(disk.chats, pending, k)
        PROVE  m \in Trashed
    <3>1. k \in DOMAIN disk.chats \cup DOMAIN pending
      BY <2>2, MsgsNone DEF Heard, Get
    <3>2. m \in Msgs(loadChat(disk, pending, k))
      BY <1>4, <2>2
    <3> QED
      BY <2>2, <3>1, <3>2 DEF Trashed
  <2> QED
    BY <1>5, <2>1, <2>2 DEF InBin
<1>6. Shown(d) = Heard(disk.chats, pending, Resolved(disk, path[d]))
  BY <1>4 DEF Shown
<1>7. KeptDoc(disk, pending, path, said, late, d)
  BY <1>2 DEF KeptGood
<1> QED
  BY <1>5, <1>6, <1>7 DEF KeptDoc

(* As long as the process does not end and no append fails, whatever a panel    *)
(* said under the ids the index gives for its document's path is still shown in *)
(* the document's chat, or is in the trash with a deleted project: for any      *)
(* number of documents, paths and projects, through every first save, rename,   *)
(* move and deletion, in any order.                                             *)
THEOREM NothingSaidIsLost == Spec => []HistoryKept
<1>1. Init => StoreInv /\ KeptInv
  BY StoreInvInit, KeptInvInit
<1>2. StoreInv /\ KeptInv /\ [Next]_vars => (StoreInv /\ KeptInv)'
  BY StoreInvNext, KeptInvNext
<1>3. StoreInv /\ KeptInv => HistoryKept
  BY KeptInvIsKept
<1> QED
  BY <1>1, <1>2, <1>3, PTL DEF Spec

-----------------------------------------------------------------------------
(* What is lost.  A line that a failed write left torn is the last of its file, *)
(* for the next append swallows it.                                            *)
LinedFile(s) == \A i \in 1..Len(s) : s[i] = Torn => i = Len(s)
Lined(cs) == \A k \in DOMAIN cs : LinedFile(cs[k])

LEMMA LinedEnds ==
  ASSUME NEW L, NEW s \in Seq(L), LinedFile(s)
  PROVE  Torn \notin Range(s) <=> ~IsTorn(s)
<1>1. Len(s) \in Nat /\ DOMAIN s = 1..Len(s) /\ (s # <<>> <=> Len(s) # 0)
  BY EmptySeq
<1>2. s # <<>> => s[Len(s)] \in Range(s)
  BY <1>1 DEF Range
<1>3. ASSUME Torn \in Range(s) PROVE IsTorn(s)
  <2>1. PICK i \in 1..Len(s) : s[i] = Torn
    BY <1>1, <1>3 DEF Range
  <2>2. i = Len(s)
    BY <2>1 DEF LinedFile
  <2>3. s # <<>>
    BY <1>1
  <2> QED
    BY <2>1, <2>2, <2>3 DEF IsTorn, Last
<1>4. IsTorn(s) => Torn \in Range(s)
  BY <1>2 DEF IsTorn, Last
<1> QED
  BY <1>3, <1>4

LEMMA CleanLined ==
  ASSUME NEW L, NEW s \in Seq(L), Torn \notin Range(s)
  PROVE  LinedFile(s)
<1>1. Len(s) \in Nat /\ DOMAIN s = 1..Len(s)
  OBVIOUS
<1> QED
  BY <1>1 DEF LinedFile, Range

LEMMA AppendLined ==
  ASSUME NEW L, NEW file \in Seq(L), NEW lines \in Seq(L), LinedFile(file), Torn \notin Range(lines)
  PROVE  /\ AppendLines(file, lines) \in Seq(L) /\ LinedFile(AppendLines(file, lines))
         /\ lines # <<>> => Torn \notin Range(AppendLines(file, lines))
<1>1. AppendLines(file, lines) \in Seq(L)
  BY AppendLinesType
<1>2. Len(file) \in Nat /\ DOMAIN file = 1..Len(file) /\ DOMAIN lines = 1..Len(lines)
  OBVIOUS
<1>3. CASE ~IsTorn(file)
  <2>1. Torn \notin Range(file)
    BY <1>3, LinedEnds
  <2>2. Torn \notin Range(AppendLines(file, lines))
    BY <2>1, CleanAppend
  <2> QED
    BY <1>1, <2>2, CleanLined
<1>4. CASE IsTorn(file) /\ lines = <<>>
  <2>1. AppendLines(file, lines) = file
    BY <1>4 DEF AppendLines
  <2> QED
    BY <1>1, <1>4, <2>1
<1>5. CASE IsTorn(file) /\ lines # <<>>
  <2> DEFINE a == Front(file)
             b == Tail(lines)
  <2>1. AppendLines(file, lines) = a \o b
    BY <1>5 DEF AppendLines
  <2>2. file # <<>>
    BY <1>5 DEF IsTorn
  <2>3. a \in Seq(L) /\ Len(a) = Len(file) - 1 /\ \A i \in 1..(Len(file) - 1) : a[i] = file[i]
    BY <2>2, FrontLemma
  <2>4. /\ b \in Seq(L) /\ Len(lines) \in Nat \ {0} /\ Len(b) = Len(lines) - 1
        /\ \A i \in 1..Len(b) : i + 1 \in 1..Len(lines) /\ b[i] = lines[i + 1]
    BY <1>5, TailAt
  <2> HIDE DEF a, b
  <2>5. Torn \notin Range(a)
    <3>1. ASSUME NEW i \in 1..Len(a) PROVE a[i] # Torn
      <4> DEFINE n == Len(file)
      <4>1. n \in Nat /\ Len(a) = n - 1
        BY <1>2, <2>3
      <4> HIDE DEF n
      <4>2. i \in 1..n /\ i # n /\ i \in 1..(n - 1)
        BY <4>1
      <4> QED
        BY <2>3, <4>2 DEF LinedFile, n
    <3>2. DOMAIN a = 1..Len(a)
      BY <2>3
    <3> QED
      BY <3>1, <3>2 DEF Range
  <2>6. Torn \notin Range(b)
    <3>1. \A i \in 1..Len(b) : b[i] # Torn
      BY <1>2, <2>4 DEF Range
    <3> QED
      BY <2>4, <3>1 DEF Range
  <2>7. Range(a \o b) = Range(a) \cup Range(b)
    BY <2>3, <2>4, CatRange
  <2>8. Torn \notin Range(AppendLines(file, lines))
    BY <2>1, <2>5, <2>6, <2>7
  <2> QED
    BY <1>1, <2>8, CleanLined
<1> QED
  BY <1>3, <1>4, <1>5

(* A write that fails half-way leaves a torn line at the end and nowhere else, *)
(* and takes nothing from a file that had none.                                *)
LEMMA PartialLined ==
  ASSUME NEW L, Torn \in L, NEW file \in Seq(L), NEW lines \in Seq(L), LinedFile(file),
         Torn \notin Range(lines), NEW left \in Partial(file, lines)
  PROVE  LinedFile(left) /\ (~IsTorn(file) => Range(file) \subseteq Range(left))
<1>1. CASE left = file
  BY <1>1
<1>2. CASE left # file
  <2>1. PICK i \in 0..(Len(lines) - 1) :
          LET g == AppendLines(file, SubSeq(lines, 1, i))
          IN  left = IF IsTorn(g) THEN g ELSE Append(g, Torn)
    BY <1>2 DEF Partial
  <2> DEFINE cut == SubSeq(lines, 1, i)
             g == AppendLines(file, cut)
  <2>2. i \in 0..Len(lines) /\ DOMAIN lines = 1..Len(lines)
    OBVIOUS
  <2>3. cut \in Seq(L) /\ Len(cut) = i /\ \A j \in 1..i : cut[j] = lines[j]
    BY <2>2, CutAt
  <2> HIDE DEF cut
  <2>4. Torn \notin Range(cut)
    BY <2>2, <2>3 DEF Range
  <2>5. g \in Seq(L) /\ LinedFile(g)
    BY <2>3, <2>4, AppendLined
  <2>6. left = IF IsTorn(g) THEN g ELSE Append(g, Torn)
    BY <2>1 DEF cut
  <2>7. ~IsTorn(file) => Range(file) \subseteq Range(g)
    <3> SUFFICES ASSUME ~IsTorn(file) PROVE Range(file) \subseteq Range(g)
      OBVIOUS
    <3>1. g = file \o cut
      BY DEF AppendLines
    <3>2. Range(file \o cut) = Range(file) \cup Range(cut)
      BY <2>3, CatRange
    <3> QED
      BY <3>1, <3>2
  <2> HIDE DEF g
  <2>8. CASE IsTorn(g)
    BY <2>5, <2>6, <2>7, <2>8
  <2>9. CASE ~IsTorn(g)
    <3> DEFINE q == Append(g, Torn)
    <3>1. /\ q \in Seq(L) /\ Len(g) \in Nat /\ Len(q) = Len(g) + 1
          /\ \A j \in 1..Len(g) : q[j] = g[j]
      BY <2>5, AppendAt
    <3>2. left = q
      BY <2>6, <2>9
    <3> HIDE DEF q
    <3>3. Torn \notin Range(g)
      BY <2>5, <2>9, LinedEnds
    <3>4. DOMAIN g = 1..Len(g) /\ DOMAIN q = 1..Len(q)
      BY <2>5, <3>1
    <3>5. LinedFile(q)
      <4> SUFFICES ASSUME NEW j \in 1..Len(q), j # Len(q) PROVE q[j] # Torn
        BY DEF LinedFile
      <4>1. j \in 1..Len(g)
        BY <3>1
      <4> QED
        BY <3>1, <3>3, <3>4, <4>1 DEF Range
    <3>6. Range(g) \subseteq Range(q)
      BY <3>1, <3>4 DEF Range
    <3> QED
      BY <2>7, <3>2, <3>5, <3>6
  <2> QED
    BY <2>8, <2>9
<1> QED
  BY <1>1, <1>2

(* A message is on the disk: a line of a chat, or one in the trash. *)
Stored(cs, m) == \E k \in DOMAIN cs : \E r \in Range(cs[k]) : r # Torn /\ r.msg = m
Binned(tr, m) == \E p \in DOMAIN tr : \E r \in tr[p] : r.msg = m
OnDisk(dk, m) == Stored(dk.chats, m) \/ Binned(dk.trash, m)

(* The disks a call may pass through: projects in use are not deleted ones, and *)
(* torn lines are at the ends of files.  Where no line is torn to begin with,   *)
(* none becomes so, and the messages W stay.                                    *)
Anyone == [f \in Paths |-> Docs]
SafeDisks(torn, W) ==
  {dk \in GoodDisks(Anyone) :
     /\ DOMAIN dk.files \cap DOMAIN dk.trash = {} /\ DOMAIN dk.trash \subseteq Extra
     /\ Lined(dk.chats)
     /\ ~torn => Clean(dk.chats) /\ \A m \in W : OnDisk(dk, m)}

(* A set of disks that writes of the index and of file lists do not leave. *)
Calm(hd, G) ==
  /\ G \subseteq GoodDisks(hd)
  /\ \A d \in G, e \in GoodDisks(hd) :
       /\ e.chats = d.chats /\ e.trash = d.trash
       /\ DOMAIN e.files \subseteq DOMAIN d.files \cup {Default}
       => e \in G

LEMMA SafeCalm ==
  ASSUME NEW torn, NEW W
  PROVE  Calm(Anyone, SafeDisks(torn, W))
<1> DEFINE H == Anyone
<1> HIDE DEF H
<1>1. Default \notin Extra
  BY StoreAssumption
<1>2. SafeDisks(torn, W) \subseteq GoodDisks(H)
  BY DEF SafeDisks, H
<1>3. ASSUME NEW d \in SafeDisks(torn, W), NEW e \in GoodDisks(H),
             e.chats = d.chats, e.trash = d.trash, DOMAIN e.files \subseteq DOMAIN d.files \cup {Default}
      PROVE  e \in SafeDisks(torn, W)
  BY <1>1, <1>3 DEF SafeDisks, OnDisk, H
<1>4. Calm(H, SafeDisks(torn, W))
  BY <1>2, <1>3 DEF Calm
<1> QED
  BY <1>4 DEF H

LEMMA TrailGrow ==
  ASSUME NEW G, NEW H, G \subseteq H, NEW t, TrailIn(G, t)
  PROVE  TrailIn(H, t)
BY SeqSub DEF TrailIn

LEMMA CalmIndex ==
  ASSUME NEW hd, NEW G, Calm(hd, G), NEW t, TrailIn(G, t), NEW ps \in ProjectSets, NEW fm \in FileMaps,
         NEW ci \in IdMaps, OwnIdMap(hd, ci)
  PROVE  TrailIn(G, writeIndex(t, ps, fm, ci)) /\ Now(writeIndex(t, ps, fm, ci)).files = Now(t).files
<1> DEFINE x == WithIndex(Now(t), ps, fm, ci)
           u == writeIndex(t, ps, fm, ci)
<1>1. TrailIn(GoodDisks(hd), t)
  BY TrailGrow DEF Calm
<1>2. /\ TrailIn(GoodDisks(hd), u) /\ Now(u).files = Now(t).files
      /\ Now(u).chats = Now(t).chats /\ Now(u).trash = Now(t).trash
  BY <1>1, WriteIndexGood
<1>3. u = Append(t, x)
  BY WritesAre
<1>4. Now(t) \in G /\ Now(u) \in GoodDisks(hd)
  BY <1>2, TrailFacts
<1> HIDE DEF x, u
<1>5. Now(u) \in G
  BY <1>2, <1>4 DEF Calm
<1>6. Now(u) = x
  <2>1. u # <<>> /\ Len(t) \in Nat /\ Len(u) = Len(t) + 1 /\ u[Len(t) + 1] = x
    <3>1. t \in Seq(G)
      BY DEF TrailIn
    <3> QED
      BY <1>3, <3>1
  <2> QED
    BY <2>1 DEF Now, Last
<1>7. TrailIn(G, Append(t, x))
  BY <1>5, <1>6, TrailFacts
<1> QED
  BY <1>2, <1>3, <1>7 DEF u

LEMMA CalmProject ==
  ASSUME NEW hd, NEW G, Calm(hd, G), NEW t, TrailIn(G, t), NEW p \in Projects,
         p \in DOMAIN Now(t).files \cup {Default}, NEW fs \in SUBSET Paths
  PROVE  /\ TrailIn(G, writeProject(t, p, fs))
         /\ DOMAIN Now(writeProject(t, p, fs)).files = DOMAIN Now(t).files \cup {p}
<1> DEFINE q == Put(Now(t).files, p, fs)
           x == WithFiles(Now(t), q)
           u == writeProject(t, p, fs)
<1>1. TrailIn(GoodDisks(hd), t)
  BY TrailGrow DEF Calm
<1>2. /\ TrailIn(GoodDisks(hd), u) /\ DOMAIN Now(u).files = DOMAIN Now(t).files \cup {p}
      /\ Now(u).chats = Now(t).chats /\ Now(u).trash = Now(t).trash
  BY <1>1, WriteProjectGood
<1>3. u = Append(t, x)
  BY WritesAre
<1>4. Now(t) \in G /\ Now(u) \in GoodDisks(hd)
  BY <1>2, TrailFacts
<1> HIDE DEF x, u
<1>5. Now(u) \in G
  BY <1>2, <1>4 DEF Calm
<1>6. Now(u) = x
  <2>1. u # <<>> /\ Len(t) \in Nat /\ Len(u) = Len(t) + 1 /\ u[Len(t) + 1] = x
    <3>1. t \in Seq(G)
      BY DEF TrailIn
    <3> QED
      BY <1>3, <3>1
  <2> QED
    BY <2>1 DEF Now, Last
<1>7. TrailIn(G, Append(t, x))
  BY <1>5, <1>6, TrailFacts
<1> QED
  BY <1>2, <1>3, <1>7 DEF u

LEMMA CalmDefault ==
  ASSUME NEW hd, NEW G, Calm(hd, G), NEW t, TrailIn(G, t)
  PROVE  TrailIn(G, ensureDefaultProject(t)) /\ Default \in DOMAIN Now(ensureDefaultProject(t)).files
<1> DEFINE d == Now(t)
           none == {}
           made == writeProject(t, Default, none)
           ps == d.projects \cup {Default}
           full == writeIndex(made, ps, d.fileMap, d.chatIdByPath)
<1>1. d \in GoodDisks(hd) /\ d \in Disks /\ OwnIdMap(hd, d.chatIdByPath)
  BY TrailFacts DEF GoodDisks, Calm
<1>2. Default \in Projects /\ none \in SUBSET Paths
  BY DEF Projects
<1>3. ps \in ProjectSets /\ d.fileMap \in FileMaps /\ d.chatIdByPath \in IdMaps
  BY <1>1, <1>2, DiskFields DEF ProjectSets
<1>4. ensureDefaultProject(t) =
        IF Default \in DOMAIN d.files THEN t ELSE IF Default \in d.projects THEN made ELSE full
  BY DEF ensureDefaultProject
<1> HIDE DEF none, ps
<1>5. TrailIn(G, made) /\ DOMAIN Now(made).files = DOMAIN d.files \cup {Default}
  BY <1>2, CalmProject
<1> HIDE DEF made, d
<1>6. TrailIn(G, full) /\ Now(full).files = Now(made).files
  BY <1>1, <1>3, <1>5, CalmIndex
<1> HIDE DEF full
<1>7. CASE Default \in DOMAIN d.files
  BY <1>4, <1>7 DEF d
<1>8. CASE Default \notin DOMAIN d.files
  BY <1>4, <1>5, <1>6, <1>8
<1> QED
  BY <1>7, <1>8

LEMMA CalmResolve ==
  ASSUME NEW hd, NEW G, Calm(hd, G), NEW t, TrailIn(G, t), NEW f \in Paths, hd[f] # {}
  PROVE  TrailIn(G, resolveChatForFile(t, f))
<1> DEFINE e == ensureDefaultProject(t)
           d == Now(e)
           fm == Put(d.fileMap, f, Default)
           fs == d.files[Default] \cup {f}
           mapped == writeIndex(e, d.projects, fm, d.chatIdByPath)
           full == writeProject(mapped, Default, fs)
           r == resolveProjectForFile(t, f)
           b == Now(r)
           ci == Put(b.chatIdByPath, f, HashOf(f))
           last == writeIndex(r, b.projects, b.fileMap, ci)
<1>1. TrailIn(G, e) /\ Default \in DOMAIN d.files
  BY CalmDefault
<1>2. r = IF f \in DOMAIN d.fileMap THEN e ELSE IF f \in d.files[Default] THEN mapped ELSE full
  BY DEF resolveProjectForFile
<1>3. resolveChatForFile(t, f) = IF f \in DOMAIN b.chatIdByPath THEN r ELSE last
  BY DEF resolveChatForFile
<1> HIDE DEF e
<1>4. d \in Disks /\ OwnIdMap(hd, d.chatIdByPath)
  BY <1>1, TrailFacts DEF GoodDisks, Calm
<1>5. Default \in Projects
  BY DEF Projects
<1>6. d.projects \in ProjectSets /\ d.fileMap \in FileMaps /\ d.chatIdByPath \in IdMaps /\ d.files \in FileLists
  BY <1>4, DiskFields
<1>7. fm \in FileMaps
  BY <1>5, <1>6, PutMap DEF FileMaps
<1>8. fs \in SUBSET Paths
  <2>1. d.files[Default] \in SUBSET Paths
    BY <1>1, <1>6, MapIs DEF FileLists
  <2> QED
    BY <2>1
<1> HIDE DEF fm, fs
<1>9. TrailIn(G, mapped)
  BY <1>1, <1>4, <1>6, <1>7, CalmIndex
<1> HIDE DEF mapped
<1>10. TrailIn(G, full)
  BY <1>5, <1>8, <1>9, CalmProject
<1> HIDE DEF full, d
<1>11. TrailIn(G, r)
  BY <1>1, <1>2, <1>9, <1>10
<1> HIDE DEF r
<1>12. b \in Disks /\ OwnIdMap(hd, b.chatIdByPath)
  BY <1>11, TrailFacts DEF GoodDisks, Calm
<1>13. b.projects \in ProjectSets /\ b.fileMap \in FileMaps /\ b.chatIdByPath \in IdMaps
  BY <1>12, DiskFields
<1>14. HashOf(f) \in Hashes
  BY DEF Hashes
<1>15. ci \in IdMaps
  BY <1>13, <1>14, PutMap DEF IdMaps
<1>16. OwnIdMap(hd, ci)
  <2> DEFINE old == b.chatIdByPath
             h == HashOf(f)
  <2>1. OwnIdMap(hd, old) /\ ci = Put(old, f, h) /\ h = HashOf(f)
    BY <1>12
  <2> HIDE DEF old, h, ci
  <2>2. DOMAIN ci = DOMAIN old \cup {f} /\ ci[f] = h /\ \A x \in DOMAIN old \ {f} : ci[x] = old[x]
    BY <2>1 DEF Put
  <2> SUFFICES ASSUME NEW x \in DOMAIN ci
               PROVE  \E g \in Paths : ci[x] = HashOf(g) /\ hd[x] \cap hd[g] # {}
    BY DEF OwnIdMap
  <2>3. CASE x = f
    BY <2>1, <2>2, <2>3
  <2>4. CASE x # f
    BY <2>1, <2>2, <2>4 DEF OwnIdMap
  <2> QED
    BY <2>3, <2>4
<1> HIDE DEF ci
<1>17. TrailIn(G, last)
  BY <1>11, <1>13, <1>15, <1>16, CalmIndex
<1> HIDE DEF last, b
<1> QED
  BY <1>3, <1>11, <1>17

(* Writes of chats. *)
LEMMA SafeFacts ==
  ASSUME NEW torn, NEW W, NEW t, TrailIn(SafeDisks(torn, W), t)
  PROVE  /\ TrailIn(GoodDisks(Anyone), t) /\ Now(t) \in SafeDisks(torn, W) /\ Now(t) \in GoodDisks(Anyone)
         /\ Lined(Now(t).chats) /\ (~torn => Clean(Now(t).chats))
         /\ DOMAIN Now(t).files \cap DOMAIN Now(t).trash = {} /\ DOMAIN Now(t).trash \subseteq Extra
<1>1. SafeDisks(torn, W) \subseteq GoodDisks(Anyone)
  BY DEF SafeDisks
<1>2. TrailIn(GoodDisks(Anyone), t)
  BY <1>1, TrailGrow
<1>3. Now(t) \in SafeDisks(torn, W)
  BY TrailFacts
<1> QED
  BY <1>1, <1>2, <1>3 DEF SafeDisks

LEMMA SafeChats ==
  ASSUME NEW torn, NEW W, NEW t, TrailIn(SafeDisks(torn, W), t), NEW x,
         TrailIn(GoodDisks(Anyone), Append(t, x)), OnlyChats(Now(t), Now(Append(t, x))),
         Lined(Now(Append(t, x)).chats), ~torn => Clean(Now(Append(t, x)).chats),
         ~torn => \A m : Stored(Now(t).chats, m) => Stored(Now(Append(t, x)).chats, m)
  PROVE  TrailIn(SafeDisks(torn, W), Append(t, x))
<1> DEFINE u == Append(t, x)
<1>1. Now(t) \in SafeDisks(torn, W) /\ Now(u) \in GoodDisks(Anyone)
  BY SafeFacts, TrailFacts
<1>2. Now(u) = x
  <2>1. u # <<>> /\ Len(t) \in Nat /\ Len(u) = Len(t) + 1 /\ u[Len(t) + 1] = x
    <3>1. t \in Seq(SafeDisks(torn, W))
      BY DEF TrailIn
    <3> DEFINE S == SafeDisks(torn, W)
    <3> HIDE DEF S
    <3>2. t \in Seq(S)
      BY <3>1 DEF S
    <3> QED
      BY <3>2
  <2> QED
    BY <2>1 DEF Now, Last
<1>4. /\ OnlyChats(Now(t), Now(u)) /\ Lined(Now(u).chats) /\ (~torn => Clean(Now(u).chats))
      /\ ~torn => \A m : Stored(Now(t).chats, m) => Stored(Now(u).chats, m)
  OBVIOUS
<1> DEFINE a == Now(t)
           e == Now(u)
<1> HIDE DEF u, a, e
<1>3. e \in SafeDisks(torn, W)
  <2>1. a \in SafeDisks(torn, W) /\ e \in GoodDisks(Anyone)
    BY <1>1 DEF a, e
  <2>2. /\ e.files = a.files /\ e.trash = a.trash
        /\ Lined(e.chats) /\ (~torn => Clean(e.chats))
        /\ ~torn => \A m : Stored(a.chats, m) => Stored(e.chats, m)
    BY <1>4 DEF OnlyChats, a, e
  <2>3. ~torn => \A m \in W : OnDisk(e, m)
    BY <2>1, <2>2 DEF SafeDisks, OnDisk
  <2>4. DOMAIN e.files \cap DOMAIN e.trash = {} /\ DOMAIN e.trash \subseteq Extra
    BY <2>1, <2>2 DEF SafeDisks
  <2> QED
    BY <2>1, <2>2, <2>3, <2>4 DEF SafeDisks
<1> QED
  BY <1>2, <1>3, TrailFacts DEF u, e

LEMMA StoredPut ==
  ASSUME NEW cs, NEW k, NEW lines, Range(Get(cs, k, <<>>)) \subseteq Range(lines)
  PROVE  \A m : Stored(cs, m) => Stored(Put(cs, k, lines), m)
<1> DEFINE q == Put(cs, k, lines)
<1>1. DOMAIN q = DOMAIN cs \cup {k} /\ q[k] = lines /\ \A x \in DOMAIN cs \ {k} : q[x] = cs[x]
  BY DEF Put
<1>2. k \in DOMAIN cs => Range(cs[k]) \subseteq Range(lines)
  BY DEF Get
<1> HIDE DEF q
<1>3. ASSUME NEW m, Stored(cs, m) PROVE Stored(q, m)
  <2>1. PICK x \in DOMAIN cs : \E r \in Range(cs[x]) : r # Torn /\ r.msg = m
    BY <1>3 DEF Stored
  <2>2. x \in DOMAIN q /\ Range(cs[x]) \subseteq Range(q[x])
    BY <1>1, <1>2
  <2> QED
    BY <2>1, <2>2 DEF Stored
<1> QED
  BY <1>3 DEF q

LEMMA LinedPut ==
  ASSUME NEW cs, NEW k, NEW lines, Lined(cs), LinedFile(lines)
  PROVE  Lined(Put(cs, k, lines)) /\ (Clean(cs) /\ Torn \notin Range(lines) => Clean(Put(cs, k, lines)))
<1> DEFINE q == Put(cs, k, lines)
<1>1. DOMAIN q = DOMAIN cs \cup {k} /\ q[k] = lines /\ \A x \in DOMAIN cs \ {k} : q[x] = cs[x]
  BY DEF Put
<1> HIDE DEF q
<1>2. Lined(q) /\ (Clean(cs) /\ Torn \notin Range(lines) => Clean(q))
  BY <1>1 DEF Lined, Clean
<1> QED
  BY <1>2 DEF q

LEMMA LinedDrop ==
  ASSUME NEW cs, NEW k, Lined(cs)
  PROVE  Lined(Drop(cs, k)) /\ (Clean(cs) => Clean(Drop(cs, k)))
<1> DEFINE q == Drop(cs, k)
<1>1. DOMAIN q = DOMAIN cs \ {k} /\ \A x \in DOMAIN cs \ {k} : q[x] = cs[x]
  BY DropAt
<1> HIDE DEF q
<1>2. Lined(q) /\ (Clean(cs) => Clean(q))
  BY <1>1 DEF Lined, Clean
<1> QED
  BY <1>2 DEF q

(* Dropping a file whose messages another one has. *)
LEMMA StoredDrop ==
  ASSUME NEW cs, NEW k, Clean(cs),
         k \in DOMAIN cs => \E to \in DOMAIN cs : to # k /\ Msgs(cs[k]) \subseteq Msgs(cs[to])
  PROVE  \A m : Stored(cs, m) => Stored(Drop(cs, k), m)
<1> DEFINE q == Drop(cs, k)
<1>1. DOMAIN q = DOMAIN cs \ {k} /\ \A x \in DOMAIN cs \ {k} : q[x] = cs[x]
  BY DropAt
<1> HIDE DEF q
<1>2. ASSUME NEW m, Stored(cs, m) PROVE Stored(q, m)
  <2>1. PICK x \in DOMAIN cs : \E r \in Range(cs[x]) : r # Torn /\ r.msg = m
    BY <1>2 DEF Stored
  <2>2. CASE x # k
    <3>1. x \in DOMAIN q /\ q[x] = cs[x]
      BY <1>1, <2>2
    <3> QED
      BY <2>1, <3>1 DEF Stored
  <2>3. CASE x = k
    <3>1. PICK to \in DOMAIN cs : to # k /\ Msgs(cs[k]) \subseteq Msgs(cs[to])
      BY <2>3
    <3>2. m \in Msgs(cs[to])
      BY <2>1, <2>3, <3>1 DEF Msgs
    <3>3. PICK r \in Range(cs[to]) : r.msg = m
      BY <3>2 DEF Msgs
    <3>4. r # Torn
      BY <3>3 DEF Clean
    <3>5. to \in DOMAIN q /\ q[to] = cs[to]
      BY <1>1, <3>1
    <3> QED
      BY <3>3, <3>4, <3>5 DEF Stored
  <2> QED
    BY <2>2, <2>3
<1> QED
  BY <1>2 DEF q

LEMMA RenamePut ==
  ASSUME NEW cs, NEW from \in DOMAIN cs, NEW to, from # to, Lined(cs)
  PROVE  LET q == Drop(Put(cs, to, cs[from]), from)
         IN  /\ Lined(q) /\ (Clean(cs) => Clean(q))
             /\ DOMAIN q = (DOMAIN cs \cup {to}) \ {from} /\ q[to] = cs[from]
             /\ \A x \in DOMAIN cs \ {from, to} : q[x] = cs[x]
             /\ to \notin DOMAIN cs => \A m : Stored(cs, m) => Stored(q, m)
<1> DEFINE v == cs[from]
           a == Put(cs, to, v)
           q == Drop(a, from)
<1>1. LinedFile(v) /\ (Clean(cs) => Torn \notin Range(v))
  BY DEF Lined, Clean
<1>2. DOMAIN a = DOMAIN cs \cup {to} /\ a[to] = v /\ \A x \in DOMAIN cs \ {to} : a[x] = cs[x]
  BY DEF Put
<1> HIDE DEF v
<1>3. Lined(a) /\ (Clean(cs) => Clean(a))
  BY <1>1, LinedPut
<1> HIDE DEF a
<1>4. Lined(q) /\ (Clean(a) => Clean(q))
  BY <1>3, LinedDrop
<1>5. DOMAIN q = DOMAIN a \ {from} /\ \A x \in DOMAIN a \ {from} : q[x] = a[x]
  BY DropAt
<1> HIDE DEF q
<1>6. ASSUME to \notin DOMAIN cs, NEW m, Stored(cs, m) PROVE Stored(q, m)
  <2>1. PICK x \in DOMAIN cs : \E r \in Range(cs[x]) : r # Torn /\ r.msg = m
    BY <1>6 DEF Stored
  <2>2. CASE x = from
    <3>1. to \in DOMAIN q /\ q[to] = cs[x]
      BY <1>2, <1>5, <2>2 DEF v
    <3> QED
      BY <2>1, <3>1 DEF Stored
  <2>3. CASE x # from
    <3>1. x \in DOMAIN q /\ q[x] = cs[x]
      BY <1>2, <1>5, <1>6, <2>3
    <3> QED
      BY <2>1, <3>1 DEF Stored
  <2> QED
    BY <2>2, <2>3
<1>7. /\ DOMAIN q = (DOMAIN cs \cup {to}) \ {from} /\ q[to] = v
      /\ \A x \in DOMAIN cs \ {from, to} : q[x] = cs[x]
  BY <1>2, <1>5
<1> QED
  BY <1>3, <1>4, <1>6, <1>7 DEF q, a, v

LEMMA FlushSafe ==
  ASSUME NEW torn, NEW W, NEW t, TrailIn(SafeDisks(torn, W), t), NEW buf \in Buffers,
         OwnBuffer(Anyone, buf), NEW k
  PROVE  LET u == flushPending(t, buf, k)
             a == Now(t).chats
             b == Now(u).chats
         IN  /\ TrailIn(SafeDisks(torn, W), u) /\ DOMAIN b \subseteq DOMAIN a \cup {k}
             /\ \A x \in DOMAIN a \ {k} : x \in DOMAIN b /\ b[x] = a[x]
<1>1. CASE Get(buf, k, <<>>) = <<>>
  <2>1. flushPending(t, buf, k) = t
    BY <1>1 DEF flushPending
  <2> QED
    BY <2>1
<1>2. CASE Get(buf, k, <<>>) # <<>>
  <2> DEFINE H == Anyone
             O == Owners(H, k[2])
             L == LinesOf(O)
             cs == Now(t).chats
             file == Get(cs, k, <<>>)
             new == buf[k]
             lines == AppendLines(file, new)
             x == WithChats(Now(t), Put(cs, k, lines))
             u == flushPending(t, buf, k)
  <2>1. k \in DOMAIN buf
    BY <1>2 DEF Get
  <2>2. k \in Keys
    BY <2>1, MapIs DEF Buffers
  <2>3. new \in Seq(RecordsOf(O))
    BY <2>1 DEF OwnBuffer
  <2>4. new \in Seq(L)
    BY <2>3, OwnersAreDocs
  <2>5. /\ TrailIn(GoodDisks(H), t) /\ Now(t) \in GoodDisks(H)
        /\ Lined(cs) /\ (~torn => Clean(cs))
    BY SafeFacts
  <2>6. file \in Seq(L)
    <3>1. OwnChatMap(H, cs)
      BY <2>5 DEF GoodDisks
    <3> QED
      BY <3>1, OwnFile
  <2>7. u = writeChat(t, k, lines)
    BY <1>2 DEF flushPending
  <2>8. Torn \notin Range(new)
    <3>1. O \in SUBSET Docs
      BY OwnersAreDocs
    <3> HIDE DEF O, new
    <3> QED
      BY <2>3, <3>1, RecordNotTorn
  <2>9. LinedFile(file) /\ (~torn => Torn \notin Range(file))
    <3>1. CASE k \in DOMAIN cs
      <4>1. file = cs[k]
        BY <3>1 DEF Get
      <4> QED
        BY <2>5, <3>1, <4>1 DEF Lined, Clean
    <3>2. CASE k \notin DOMAIN cs
      <4>1. file = <<>>
        BY <3>2 DEF Get
      <4> QED
        BY <4>1 DEF LinedFile, Range
    <3> QED
      BY <3>1, <3>2
  <2>10. u = Append(t, x)
    BY <2>7, WritesAre
  <2>18. Get(cs, k, <<>>) = file
    OBVIOUS
  <2> HIDE DEF L, new, file, u
  <2>11. lines \in Seq(L) /\ LinedFile(lines)
    BY <2>4, <2>6, <2>8, <2>9, AppendLined
  <2>12. ~torn => /\ Torn \notin Range(lines) /\ Range(file) \subseteq Range(lines)
    <3> SUFFICES ASSUME ~torn PROVE Torn \notin Range(lines) /\ Range(file) \subseteq Range(lines)
      OBVIOUS
    <3>1. lines = file \o new /\ Torn \notin Range(lines)
      BY <2>4, <2>6, <2>8, <2>9, CleanAppend
    <3>2. Range(file \o new) = Range(file) \cup Range(new)
      BY <2>4, <2>6, CatRange
    <3> QED
      BY <3>1, <3>2
  <2> HIDE DEF lines
  <2>13. lines \in Seq(LinesOf(Owners(H, k[2])))
    BY <2>11 DEF L
  <2>14. /\ TrailIn(GoodDisks(H), u) /\ OnlyChats(Now(t), Now(u)) /\ Now(u).chats = Put(cs, k, lines)
    BY <2>2, <2>5, <2>7, <2>13, WriteChatGood
  <2>15. Lined(Put(cs, k, lines)) /\ (~torn => Clean(Put(cs, k, lines)))
    BY <2>5, <2>11, <2>12, LinedPut
  <2>16. ~torn => \A m : Stored(cs, m) => Stored(Put(cs, k, lines), m)
    BY <2>12, <2>18, StoredPut
  <2>17. DOMAIN Put(cs, k, lines) = DOMAIN cs \cup {k} /\ \A y \in DOMAIN cs \ {k} : Put(cs, k, lines)[y] = cs[y]
    <3> HIDE DEF cs
    <3> QED
      BY DEF Put
  <2> DEFINE q == Put(cs, k, lines)
  <2> HIDE DEF x, q
  <2>19. Now(u).chats = q /\ Lined(q) /\ (~torn => Clean(q)) /\ (~torn => \A m : Stored(cs, m) => Stored(q, m))
         /\ DOMAIN q = DOMAIN cs \cup {k} /\ \A y \in DOMAIN cs \ {k} : q[y] = cs[y]
    BY <2>14, <2>15, <2>16, <2>17 DEF q
  <2>20. TrailIn(SafeDisks(torn, W), Append(t, x))
    BY <2>10, <2>14, <2>19, SafeChats
  <2> QED
    BY <2>10, <2>19, <2>20 DEF u
<1> QED
  BY <1>1, <1>2

LEMMA UnlinkSafe ==
  ASSUME NEW torn, NEW W, NEW t, TrailIn(SafeDisks(torn, W), t), NEW k,
         ~torn /\ k \in DOMAIN Now(t).chats =>
           \E to \in DOMAIN Now(t).chats : to # k /\ Msgs(Now(t).chats[k]) \subseteq Msgs(Now(t).chats[to])
  PROVE  TrailIn(SafeDisks(torn, W), Unlink(t, k))
<1> DEFINE cs == Now(t).chats
           q == Drop(cs, k)
           x == WithChats(Now(t), q)
           u == Unlink(t, k)
<1>1. /\ TrailIn(GoodDisks(Anyone), t) /\ Lined(cs) /\ (~torn => Clean(cs))
  BY SafeFacts
<1>2. TrailIn(GoodDisks(Anyone), u) /\ OnlyChats(Now(t), Now(u)) /\ Now(u).chats = q
  BY <1>1, UnlinkGood
<1>3. u = Append(t, x)
  BY WritesAre
<1>4. Lined(q) /\ (~torn => Clean(q))
  BY <1>1, LinedDrop
<1>5. ~torn => \A m : Stored(cs, m) => Stored(q, m)
  BY <1>1, StoredDrop
<1> HIDE DEF q, x, u
<1>6. TrailIn(SafeDisks(torn, W), Append(t, x))
  BY <1>2, <1>3, <1>4, <1>5, SafeChats
<1> QED
  BY <1>3, <1>6 DEF u

LEMMA RenameSafe ==
  ASSUME NEW torn, NEW W, NEW t, TrailIn(SafeDisks(torn, W), t), NEW from \in DOMAIN Now(t).chats,
         NEW to \in Keys, from # to, Owners(Anyone, from[2]) \subseteq Owners(Anyone, to[2]),
         ~torn => to \notin DOMAIN Now(t).chats
  PROVE  TrailIn(SafeDisks(torn, W), RenameChat(t, from, to))
<1> DEFINE cs == Now(t).chats
           q == Drop(Put(cs, to, cs[from]), from)
           x == WithChats(Now(t), q)
           u == RenameChat(t, from, to)
<1>1. /\ TrailIn(GoodDisks(Anyone), t) /\ Lined(cs) /\ (~torn => Clean(cs))
  BY SafeFacts
<1>2. TrailIn(GoodDisks(Anyone), u) /\ OnlyChats(Now(t), Now(u)) /\ Now(u).chats = q
  BY <1>1, RenameChatGood
<1>3. u = Append(t, x)
  BY WritesAre
<1>4. /\ Lined(q) /\ (Clean(cs) => Clean(q))
      /\ to \notin DOMAIN cs => \A m : Stored(cs, m) => Stored(q, m)
  BY <1>1, RenamePut
<1> HIDE DEF q, x, u
<1>6. TrailIn(SafeDisks(torn, W), Append(t, x))
  BY <1>1, <1>2, <1>3, <1>4, SafeChats
<1> QED
  BY <1>3, <1>6 DEF u

LEMMA MergeSafe ==
  ASSUME NEW torn, NEW W, NEW t, TrailIn(SafeDisks(torn, W), t), NEW buf \in Buffers,
         OwnBuffer(Anyone, buf), NEW from, NEW to \in Keys,
         Owners(Anyone, from[2]) \subseteq Owners(Anyone, to[2])
  PROVE  TrailIn(SafeDisks(torn, W), renameOrMergeChat(t, buf, from, to))
<1> DEFINE H == Anyone
           S == SafeDisks(torn, W)
           u == flushPending(t, buf, from)
           d == Now(u)
           rest == Drop(buf, from)
           moved == loadChat(d, rest, from)
           n == MaxSeq(loadChat(d, buf, to))
           r == Renumbered(moved, n)
           file == d.chats[to]
           lines == AppendLines(file, r)
           merged == writeChat(u, to, lines)
<1>1. renameOrMergeChat(t, buf, from, to) =
        IF from = to THEN t
        ELSE IF from \notin DOMAIN d.chats THEN u
        ELSE IF to \notin DOMAIN d.chats THEN RenameChat(u, from, to)
        ELSE IF moved = <<>> THEN Unlink(u, from)
        ELSE Unlink(merged, from)
  BY DEF renameOrMergeChat
<1>2. TrailIn(S, u)
  BY FlushSafe
<1> HIDE DEF u
<1>3. /\ TrailIn(GoodDisks(H), u) /\ d \in GoodDisks(H) /\ OwnChatMap(H, d.chats)
      /\ Lined(d.chats) /\ (~torn => Clean(d.chats))
  <2>1. /\ TrailIn(GoodDisks(H), u) /\ d \in GoodDisks(H)
        /\ Lined(d.chats) /\ (~torn => Clean(d.chats))
    BY <1>2, SafeFacts
  <2> QED
    BY <2>1 DEF GoodDisks
<1>4. ASSUME from # to, from \in DOMAIN d.chats, to \notin DOMAIN d.chats
      PROVE  TrailIn(S, RenameChat(u, from, to))
  BY <1>2, <1>4, RenameSafe
<1>5. rest \in Buffers /\ OwnBuffer(H, rest)
  BY DropBuffer
<1> HIDE DEF rest
<1>6. moved \in Seq(RecordsOf(Owners(H, from[2]))) /\ n \in Nat
  <2> HIDE DEF d
  <2> QED
    BY <1>3, <1>5, LoadChatType
<1>7. ASSUME ~torn, from \in DOMAIN d.chats PROVE Msgs(d.chats[from]) \subseteq Msgs(moved)
  <2>1. Msgs(moved) = Heard(d.chats, rest, from)
    <3> HIDE DEF d
    <3> QED
      BY <1>3, <1>5, <1>7, LoadMsgs
  <2>2. Get(d.chats, from, <<>>) = d.chats[from]
    BY <1>7 DEF Get
  <2> QED
    BY <2>1, <2>2 DEF Heard
<1> HIDE DEF moved, n, d
<1>8. ASSUME from # to, from \in DOMAIN d.chats, to \in DOMAIN d.chats, moved = <<>>
      PROVE  TrailIn(S, Unlink(u, from))
  <2>1. ~torn => Msgs(d.chats[from]) \subseteq Msgs(d.chats[to])
    BY <1>7, <1>8, MsgsNone
  <2> QED
    BY <1>2, <1>8, <2>1, UnlinkSafe DEF d
<1>9. ASSUME from # to, from \in DOMAIN d.chats, to \in DOMAIN d.chats
      PROVE  TrailIn(S, Unlink(merged, from))
  <2> DEFINE A == Owners(H, from[2])
             B == Owners(H, to[2])
             L == LinesOf(B)
             q == Put(d.chats, to, lines)
             x == WithChats(d, q)
  <2>1. A \subseteq B /\ moved \in Seq(RecordsOf(A)) /\ file \in Seq(L) /\ A \in SUBSET Docs
    BY <1>3, <1>6, <1>9, OwnersAreDocs DEF OwnChatMap
  <2>2. LinedFile(file) /\ (~torn => Torn \notin Range(file)) /\ Get(d.chats, to, <<>>) = file
    BY <1>3, <1>9 DEF Lined, Clean, Get
  <2>3. r \in Seq(LinesOf(B))
    <3> HIDE DEF A, B
    <3> QED
      BY <1>6, <2>1, RenumberedOwn
  <2>4. Msgs(r) = Msgs(moved)
    <3> HIDE DEF A
    <3> QED
      BY <1>6, <2>1, MsgsRenumbered
  <2>5. Torn \notin Range(r)
    <3>1. moved \in Seq([msg : A \X Nat, seq : Nat])
      BY <2>1 DEF RecordsOf
    <3> DEFINE D == A \X Nat
    <3> HIDE DEF D
    <3>2. moved \in Seq([msg : D, seq : Nat])
      BY <3>1 DEF D
    <3>3. r \in Seq([msg : D, seq : Nat])
      BY <1>6, <3>2, RenumberedType
    <3>4. r \in Seq(RecordsOf(A))
      BY <3>3 DEF D, RecordsOf
    <3> HIDE DEF A, r
    <3> QED
      BY <2>1, <3>4, RecordNotTorn
  <2>6. merged = Append(u, x)
    BY WritesAre DEF d
  <2> HIDE DEF L, r, file
  <2>7. r \in Seq(L)
    BY <2>3 DEF L
  <2>8. lines \in Seq(L) /\ LinedFile(lines)
    BY <2>1, <2>2, <2>5, <2>7, AppendLined
  <2>9. ~torn => /\ Torn \notin Range(lines) /\ Range(file) \subseteq Range(lines)
                 /\ Msgs(lines) = Msgs(file) \cup Msgs(r)
    <3> SUFFICES ASSUME ~torn
                 PROVE  /\ Torn \notin Range(lines) /\ Range(file) \subseteq Range(lines)
                        /\ Msgs(lines) = Msgs(file) \cup Msgs(r)
      OBVIOUS
    <3>1. lines = file \o r /\ Torn \notin Range(lines) /\ Msgs(lines) = Msgs(file) \cup Msgs(r)
      BY <2>1, <2>2, <2>5, <2>7, CleanAppend
    <3>2. Range(file \o r) = Range(file) \cup Range(r)
      BY <2>1, <2>7, CatRange
    <3> QED
      BY <3>1, <3>2
  <2> HIDE DEF lines
  <2>10. lines \in Seq(LinesOf(Owners(H, to[2])))
    BY <2>8 DEF L
  <2>11. TrailIn(GoodDisks(H), merged) /\ OnlyChats(Now(u), Now(merged)) /\ Now(merged).chats = q
    BY <1>3, <2>10, WriteChatGood DEF d
  <2>12. Lined(q) /\ (~torn => Clean(q))
    BY <1>3, <2>8, <2>9, LinedPut
  <2>13. ~torn => \A m : Stored(d.chats, m) => Stored(q, m)
    BY <2>2, <2>9, StoredPut
  <2>14. DOMAIN q = DOMAIN d.chats \cup {to} /\ q[to] = lines /\ \A y \in DOMAIN d.chats \ {to} : q[y] = d.chats[y]
    <3> DEFINE cs == d.chats
    <3> HIDE DEF cs
    <3>1. LET p == Put(cs, to, lines)
          IN  DOMAIN p = DOMAIN cs \cup {to} /\ p[to] = lines /\ \A y \in DOMAIN cs \ {to} : p[y] = cs[y]
      BY DEF Put
    <3> QED
      BY <3>1 DEF cs
  <2> HIDE DEF q, x, merged
  <2>15. TrailIn(S, merged)
    BY <1>2, <2>6, <2>11, <2>12, <2>13, SafeChats DEF d
  <2>16. ~torn => Msgs(q[from]) \subseteq Msgs(q[to])
    BY <1>7, <1>9, <2>4, <2>9, <2>14
  <2>17. to \in DOMAIN q /\ from # to
    BY <1>9, <2>14
  <2> QED
    BY <2>11, <2>15, <2>16, <2>17, UnlinkSafe
<1> HIDE DEF merged
<1> QED
  BY <1>1, <1>2, <1>4, <1>8, <1>9

(* A deleted project takes its chats along. *)
LEMMA ToTrashSafe ==
  ASSUME NEW torn, NEW W, NEW t, TrailIn(SafeDisks(torn, W), t), NEW p \in Extra \cap DOMAIN Now(t).files
  PROVE  TrailIn(SafeDisks(torn, W), ToTrash(t, p))
<1> DEFINE S == SafeDisks(torn, W)
           d == Now(t)
           u == ToTrash(t, p)
           e == Now(u)
           its == ChatsIn(d, p)
           cs == Restrict(d.chats, DOMAIN d.chats \ its)
           tr == Put(d.trash, p, LinesIn(d, p))
           fs == Drop(d.files, p)
<1>1. /\ TrailIn(GoodDisks(Anyone), t) /\ d \in S /\ d.chats \in ChatMaps
  BY SafeFacts, GoodChats
<1>2. p \in Projects
  BY DEF Projects
<1>3. TrailIn(GoodDisks(Anyone), u) /\ e.files = fs /\ e.chats = cs /\ e.trash = tr
  BY <1>1, <1>2, ToTrashGood
<1>4. e \in GoodDisks(Anyone)
  BY <1>3, TrailFacts
<1>5. DOMAIN cs = DOMAIN d.chats \ its /\ \A k \in DOMAIN d.chats \ its : cs[k] = d.chats[k]
  <2>1. (DOMAIN d.chats \ its) \in SUBSET DOMAIN d.chats
    OBVIOUS
  <2> QED
    BY <1>1, <2>1, RestrictMap DEF ChatMaps
<1>6. DOMAIN fs = DOMAIN d.files \ {p}
  BY DropAt
<1>7. DOMAIN tr = DOMAIN d.trash \cup {p} /\ tr[p] = LinesIn(d, p) /\ \A x \in DOMAIN d.trash \ {p} : tr[x] = d.trash[x]
  <2> DEFINE old == d.trash
             lost == LinesIn(d, p)
  <2> HIDE DEF old, lost
  <2>1. LET q == Put(old, p, lost)
        IN  DOMAIN q = DOMAIN old \cup {p} /\ q[p] = lost /\ \A x \in DOMAIN old \ {p} : q[x] = old[x]
    BY DEF Put
  <2> QED
    BY <2>1 DEF old, lost
<1>8. /\ DOMAIN d.files \cap DOMAIN d.trash = {} /\ DOMAIN d.trash \subseteq Extra
      /\ Lined(d.chats) /\ (~torn => Clean(d.chats) /\ \A m \in W : OnDisk(d, m))
  BY <1>1 DEF SafeDisks
<1>14. p \in DOMAIN d.files /\ p \in Extra
  OBVIOUS
<1>15. u # <<>> /\ \E x : u = Append(t, x)
  BY <1>3 DEF TrailIn, ToTrash
<1> HIDE DEF cs, tr, fs, d, its
<1>9. \A m : Stored(d.chats, m) => Stored(cs, m) \/ Binned(tr, m)
  <2> SUFFICES ASSUME NEW m, Stored(d.chats, m), ~Stored(cs, m) PROVE Binned(tr, m)
    OBVIOUS
  <2>1. PICK k \in DOMAIN d.chats : \E r \in Range(d.chats[k]) : r # Torn /\ r.msg = m
    BY DEF Stored
  <2>2. k \in its
    BY <1>5, <2>1 DEF Stored
  <2>3. Range(d.chats[k]) \subseteq LinesIn(d, p)
    BY <2>2 DEF LinesIn, its
  <2> QED
    BY <1>7, <2>1, <2>3 DEF Binned
<1>10. \A m : Binned(d.trash, m) => Binned(tr, m)
  BY <1>7, <1>8, <1>14 DEF Binned
<1>11. Lined(cs) /\ (~torn => Clean(cs))
  BY <1>5, <1>8 DEF Lined, Clean
<1>12. DOMAIN fs \cap DOMAIN tr = {} /\ DOMAIN tr \subseteq Extra
  BY <1>6, <1>7, <1>8, <1>14
<1> HIDE DEF e, u
<1>13. e \in S
  <2>1. ~torn => \A m \in W : OnDisk(e, m)
    BY <1>3, <1>8, <1>9, <1>10 DEF OnDisk
  <2> QED
    BY <1>3, <1>4, <1>11, <1>12, <2>1 DEF SafeDisks
<1> QED
  <2>1. PICK x : u = Append(t, x)
    BY <1>15
  <2>2. Now(u) = x
    <3>1. t \in Seq(GoodDisks(Anyone))
      BY <1>1 DEF TrailIn
    <3> DEFINE G == GoodDisks(Anyone)
    <3> HIDE DEF G
    <3>2. t \in Seq(G)
      BY <3>1 DEF G
    <3>3. Len(t) \in Nat /\ Len(u) = Len(t) + 1 /\ u[Len(t) + 1] = x
      BY <2>1, <3>2
    <3> QED
      BY <3>3 DEF Now, Last
  <2>3. TrailIn(S, Append(t, x))
    BY <1>13, <2>2, TrailFacts DEF e
  <2> QED
    BY <2>1, <2>3 DEF u

LEMMA CallIn ==
  ASSUME NEW G, NEW t, TrailIn(G, t), NEW sq, NEW buf,
         Completes(t, sq, buf) \/ Interrupted(t)
  PROVE  disk' \in G
<1>1. /\ Now(t) \in G /\ \A i \in 1..Len(t) : t[i] \in G
  BY TrailFacts
<1>2. CASE Completes(t, sq, buf)
  BY <1>1, <1>2 DEF Completes
<1>3. CASE Interrupted(t)
  <2>1. PICK i \in 1..(Len(t) - 1) : EndsOn(t[i])
    BY <1>3 DEF Interrupted
  <2>2. Len(t) \in Nat
    BY DEF TrailIn
  <2>3. i \in 1..Len(t)
    BY <2>2
  <2> QED
    BY <1>1, <2>1, <2>3 DEF EndsOn
<1> QED
  BY <1>2, <1>3

LEMMA AnyoneIs ==
  Anyone \in [Paths -> SUBSET Docs] /\ Parted(Anyone) /\ \A f \in Paths : Anyone[f] = Docs
BY DEF Anyone, Parted

LEMMA OpenChatIn ==
  ASSUME NEW G, Calm(Anyone, G), Ready(Anyone), disk \in G, NEW d \in Docs, OpenChat(d)
  PROVE  disk' \in G
<1> DEFINE start == ensureDefaultProject(<<disk>>)
           trail == IF path[d] = None THEN start ELSE resolveChatForFile(start, path[d])
<1>1. Completes(trail, seqCounters, pending) \/ Interrupted(trail)
  BY DEF OpenChat
<1>2. TrailIn(G, <<disk>>)
  BY TrailStarts
<1>3. path[d] # None => path[d] \in Paths /\ Anyone[path[d]] # {}
  BY AnyoneIs DEF Ready, PanelsGood
<1>4. TrailIn(G, start)
  BY <1>2, CalmDefault
<1> HIDE DEF start
<1>5. path[d] # None => TrailIn(G, resolveChatForFile(start, path[d]))
  BY <1>2, <1>3, <1>4, CalmResolve
<1>6. TrailIn(G, trail)
  BY <1>4, <1>5
<1> HIDE DEF trail
<1> QED
  BY <1>1, <1>6, CallIn

LEMMA OpenChatSafe ==
  ASSUME NEW torn, NEW W, Ready(Anyone), disk \in SafeDisks(torn, W), NEW d \in Docs, OpenChat(d)
  PROVE  disk' \in SafeDisks(torn, W)
BY SafeCalm, OpenChatIn

LEMMA FirstSaveSafe ==
  ASSUME NEW torn, NEW W, Ready(Anyone), disk \in SafeDisks(torn, W), NEW d \in Docs, NEW f \in Paths,
         FirstSave(d, f)
  PROVE  disk' \in SafeDisks(torn, W)
<1> DEFINE S == SafeDisks(torn, W)
           resolved == resolveChatForFile(<<disk>>, f)
           to == Resolved(Now(resolved), f)
           k == ids[d]
           trail == renameOrMergeChat(resolved, pending, k, to)
           sq == MergedSeqs(seqCounters, Now(resolved), pending, k, to)
           buf == Drop(pending, k)
<1>1. /\ path[d] = None
      /\ disk' = disk \/ (k # None /\ (Completes(trail, sq, buf) \/ Interrupted(trail)))
  BY DEF FirstSave
<1>2. Calm(Anyone, S) /\ TrailIn(S, <<disk>>) /\ d \in Anyone[f] /\ Anyone[f] # {}
  BY SafeCalm, TrailStarts, AnyoneIs
<1>3. TrailIn(S, resolved)
  BY <1>2, CalmResolve
<1> HIDE DEF resolved
<1>4. Now(resolved) \in GoodDisks(Anyone)
  BY <1>3, SafeFacts
<1>5. to \in Keys /\ d \in Owners(Anyone, to[2])
  BY <1>2, <1>4, AnyoneIs, ResolvedHeld
<1> HIDE DEF to
<1>6. pending \in Buffers /\ OwnBuffer(Anyone, pending) /\ PanelsGood(Anyone, path, ids, reply)
  BY DEF Ready, StoreGood
<1>7. CASE disk' = disk
  BY <1>7
<1>8. CASE k # None /\ (Completes(trail, sq, buf) \/ Interrupted(trail))
  <2>1. Owners(Anyone, k[2]) = {d}
    <3>1. k = <<Default, TempOf(d)>>
      BY <1>1, <1>6, <1>8 DEF PanelsGood
    <3>2. Owners(Anyone, TempOf(d)) = {d}
      BY TempOwners
    <3>3. k[2] = TempOf(d)
      BY <3>1
    <3> QED
      BY <3>2, <3>3
  <2> HIDE DEF k
  <2>2. TrailIn(S, trail)
    BY <1>3, <1>5, <1>6, <2>1, MergeSafe
  <2> HIDE DEF trail, sq, buf
  <2> QED
    BY <1>8, <2>2, CallIn
<1> QED
  BY <1>1, <1>7, <1>8

LEMMA CreateProjectIn ==
  ASSUME NEW G, Calm(Anyone, G), Ready(Anyone), disk \in G, NEW p \in Extra, createProject(p),
         \A e \in GoodDisks(Anyone) :
           /\ e.chats = disk.chats /\ e.trash = disk.trash
           /\ DOMAIN e.files = DOMAIN disk.files \cup {p}
           => e \in G
  PROVE  disk' \in G
<1> DEFINE none == {}
           t == <<disk>>
           made == writeProject(t, p, none)
           ps == disk.projects \cup {p}
           trail == writeIndex(made, ps, disk.fileMap, disk.chatIdByPath)
           x == WithFiles(disk, Put(disk.files, p, none))
<1>1. Completes(trail, seqCounters, pending) \/ Interrupted(trail)
  BY DEF createProject
<1>2. /\ TrailIn(G, t) /\ disk \in GoodDisks(Anyone) /\ disk \in Disks
      /\ OwnIdMap(Anyone, disk.chatIdByPath) /\ Now(t) = disk
  <2>1. disk \in GoodDisks(Anyone) /\ disk \in Disks /\ OwnIdMap(Anyone, disk.chatIdByPath)
    BY DEF Calm, GoodDisks
  <2> QED
    BY <2>1, TrailStarts
<1>3. p \in Projects /\ none \in SUBSET Paths
  BY DEF Projects
<1>4. ps \in ProjectSets /\ disk.fileMap \in FileMaps /\ disk.chatIdByPath \in IdMaps
  BY <1>2, <1>3, DiskFields DEF ProjectSets
<1>5. TrailIn(GoodDisks(Anyone), t)
  BY <1>2, TrailStarts
<1> HIDE DEF none, ps
<1>6. /\ TrailIn(GoodDisks(Anyone), made) /\ DOMAIN Now(made).files = DOMAIN Now(t).files \cup {p}
      /\ Now(made).chats = Now(t).chats /\ Now(made).trash = Now(t).trash
  BY <1>3, <1>5, WriteProjectGood
<1>7. made = Append(t, x)
  BY <1>2, WritesAre
<1>8. Now(made) \in GoodDisks(Anyone)
  BY <1>6, TrailFacts
<1> HIDE DEF made, x
<1>9. Now(made) = x
  <2>1. Len(t) \in Nat /\ made = Append(t, x) /\ t = <<disk>>
    BY <1>7
  <2>2. Len(made) = Len(t) + 1 /\ made[Len(t) + 1] = x
    BY <2>1
  <2> QED
    BY <2>2 DEF Now, Last
<1> HIDE DEF t
<1>10. x \in G
  <2>1. DOMAIN x.files = DOMAIN disk.files \cup {p} /\ x.chats = disk.chats /\ x.trash = disk.trash
        /\ x \in GoodDisks(Anyone)
    BY <1>2, <1>6, <1>8, <1>9
  <2> QED
    BY <2>1
<1>11. TrailIn(G, made)
  BY <1>2, <1>7, <1>10, TrailFacts
<1>12. TrailIn(G, trail)
  BY <1>2, <1>4, <1>11, CalmIndex
<1> HIDE DEF trail
<1> QED
  BY <1>1, <1>12, CallIn

LEMMA CreateProjectSafe ==
  ASSUME NEW torn, NEW W, Ready(Anyone), disk \in SafeDisks(torn, W), NEW p \in Extra, createProject(p)
  PROVE  disk' \in SafeDisks(torn, W)
<1> DEFINE G == SafeDisks(torn, W)
<1>1. p \notin DOMAIN disk.trash
  BY DEF createProject
<1>2. ASSUME NEW e \in GoodDisks(Anyone), e.chats = disk.chats, e.trash = disk.trash,
             DOMAIN e.files = DOMAIN disk.files \cup {p}
      PROVE  e \in G
  BY <1>1, <1>2 DEF SafeDisks, OnDisk
<1>3. Calm(Anyone, G)
  BY SafeCalm
<1> HIDE DEF G
<1>4. disk \in G
  BY DEF G
<1>5. disk' \in G
  BY <1>2, <1>3, <1>4, CreateProjectIn
<1> QED
  BY <1>5 DEF G

LEMMA DeleteProjectIn ==
  ASSUME NEW G, Calm(Anyone, G), Ready(Anyone), disk \in G, NEW p \in Extra, deleteProject(p),
         TrailIn(G, ToTrash(<<disk>>, p))
  PROVE  disk' \in G
<1> DEFINE gone == ToTrash(<<disk>>, p)
           t == ensureDefaultProject(gone)
           d == Now(t)
           moved == {f \in DOMAIN d.fileMap : d.fileMap[f] = p}
           fm == [f \in DOMAIN d.fileMap |-> IF f \in moved THEN Default ELSE d.fileMap[f]]
           fs == d.files[Default] \cup moved
           listed == IF moved = {} THEN t ELSE writeProject(t, Default, fs)
           trail == writeIndex(listed, d.projects \ {p}, fm, d.chatIdByPath)
<1>1. Completes(trail, seqCounters, pending) \/ Interrupted(trail)
  BY DEF deleteProject
<1>4. p \in Projects /\ Default \in Projects
  BY DEF Projects
<1>5. TrailIn(G, gone)
  OBVIOUS
<1> HIDE DEF gone
<1>6. TrailIn(G, t) /\ Default \in DOMAIN d.files
  BY <1>5, CalmDefault
<1> HIDE DEF t
<1>7. d \in Disks /\ OwnIdMap(Anyone, d.chatIdByPath)
  BY <1>6, TrailFacts DEF Calm, GoodDisks
<1>8. d.projects \in ProjectSets /\ d.fileMap \in FileMaps /\ d.chatIdByPath \in IdMaps /\ d.files \in FileLists
  BY <1>7, DiskFields
<1>9. DOMAIN d.fileMap \subseteq Paths /\ \A f \in DOMAIN d.fileMap : d.fileMap[f] \in Projects
  BY <1>8, MapIs DEF FileMaps
<1>10. d.files[Default] \subseteq Paths
  BY <1>6, <1>8, MapIs DEF FileLists
<1> HIDE DEF d
<1>11. moved \subseteq Paths /\ fs \in SUBSET Paths
  BY <1>9, <1>10
<1>12. fm \in FileMaps
  <2>1. DOMAIN fm = DOMAIN d.fileMap /\ fm = [f \in DOMAIN fm |-> fm[f]]
    OBVIOUS
  <2>2. \A f \in DOMAIN fm : fm[f] \in Projects
    BY <1>4, <1>9
  <2> HIDE DEF fm
  <2> QED
    BY <1>9, <2>1, <2>2, MapIs DEF FileMaps
<1> HIDE DEF fm, fs, moved
<1>13. TrailIn(G, listed)
  <2>1. TrailIn(G, writeProject(t, Default, fs))
    BY <1>4, <1>6, <1>11, CalmProject
  <2> QED
    BY <1>6, <2>1
<1> HIDE DEF listed
<1>14. d.projects \ {p} \in ProjectSets
  BY <1>8 DEF ProjectSets
<1>15. TrailIn(G, trail)
  BY <1>7, <1>8, <1>12, <1>13, <1>14, CalmIndex
<1> HIDE DEF trail
<1> QED
  BY <1>1, <1>15, CallIn

LEMMA DeleteProjectSafe ==
  ASSUME NEW torn, NEW W, Ready(Anyone), disk \in SafeDisks(torn, W), NEW p \in Extra, deleteProject(p)
  PROVE  disk' \in SafeDisks(torn, W)
<1> DEFINE G == SafeDisks(torn, W)
<1>1. p \in Extra \cap DOMAIN disk.files
  BY DEF deleteProject
<1>2. Calm(Anyone, G) /\ TrailIn(G, <<disk>>) /\ Now(<<disk>>) = disk
  BY SafeCalm, TrailStarts
<1>3. TrailIn(G, ToTrash(<<disk>>, p))
  BY <1>1, <1>2, ToTrashSafe
<1> HIDE DEF G
<1>4. disk \in G
  BY DEF G
<1>5. disk' \in G
  BY <1>2, <1>3, <1>4, DeleteProjectIn
<1> QED
  BY <1>5 DEF G

LEMMA FileRenamedIn ==
  ASSUME NEW G, Calm(Anyone, G), Ready(Anyone), disk \in G, NEW d \in Docs, NEW f \in Paths,
         fileRenamed(d, f)
  PROVE  disk' \in G
<1> DEFINE hd == Anyone
           old == path[d]
           p == Get(disk.fileMap, old, None)
           fm == IF p = None THEN disk.fileMap ELSE Put(Drop(disk.fileMap, old), f, p)
           fs == {IF g = old THEN f ELSE g : g \in disk.files[p]}
           t == <<disk>>
           listed == IF p = None \/ p \notin DOMAIN disk.files THEN t
                     ELSE writeProject(t, p, fs)
           c == chatIdForPath(disk, old)
           rest == Drop(disk.chatIdByPath, old)
           ci == Put(rest, f, c)
           trail == writeIndex(listed, disk.projects, fm, ci)
<1>1. /\ old # None
      /\ Completes(trail, seqCounters, pending) \/ Interrupted(trail)
  BY DEF fileRenamed
<1>2. disk \in GoodDisks(hd) /\ PanelsGood(hd, path, ids, reply)
  BY DEF Ready, StoreGood
<1>3. hd \in [Paths -> SUBSET Docs] /\ Parted(hd) /\ \A g \in Paths : hd[g] = Docs
  BY AnyoneIs
<1>4. Calm(hd, G) /\ TrailIn(G, t) /\ Now(t) = disk
  BY TrailStarts
<1>5. old \in Paths /\ d \in hd[old]
  BY <1>1, <1>2 DEF PanelsGood
<1> HIDE DEF old, t
<1>6. disk \in Disks /\ OwnIdMap(hd, disk.chatIdByPath)
  BY <1>2 DEF GoodDisks
<1>7. /\ disk.projects \in ProjectSets /\ disk.fileMap \in FileMaps /\ disk.chatIdByPath \in IdMaps
      /\ disk.files \in FileLists
  BY <1>6, DiskFields
<1>8. c \in Hashes /\ \E g \in Paths : c = HashOf(g) /\ d \in hd[g]
  BY <1>2, <1>3, <1>5, ChatIdHeld
<1> HIDE DEF c
<1>10. p # None => p \in Projects
  BY <1>7, MapIs DEF FileMaps, Get
<1> HIDE DEF p
<1>11. fm \in FileMaps
  <2>1. CASE p = None
    BY <1>7, <2>1
  <2>2. CASE p # None
    <3> DEFINE q == Drop(disk.fileMap, old)
    <3>1. q \in Maps(Paths, Projects)
      BY <1>7, DropMap DEF FileMaps
    <3> HIDE DEF q
    <3>2. Put(q, f, p) \in Maps(Paths, Projects)
      BY <1>10, <2>2, <3>1, PutMap
    <3> QED
      BY <2>2, <3>2 DEF q, FileMaps
  <2> QED
    BY <2>1, <2>2
<1>12. p \in DOMAIN disk.files => fs \in SUBSET Paths
  <2>1. \A x \in DOMAIN disk.files : disk.files[x] \in SUBSET Paths
    BY <1>7, MapIs DEF FileLists
  <2> QED
    BY <2>1
<1> HIDE DEF fm, fs
<1>13. TrailIn(G, listed)
  <2>2. p # None /\ p \in DOMAIN disk.files => TrailIn(G, writeProject(t, p, fs))
    BY <1>4, <1>10, <1>12, CalmProject
  <2> QED
    BY <1>4, <2>2
<1> HIDE DEF listed
<1>14. rest \in Maps(Paths, Hashes)
  BY <1>7, DropMap DEF IdMaps
<1>15. OwnIdMap(hd, ci)
  <2>1. /\ DOMAIN rest = DOMAIN disk.chatIdByPath \ {old}
        /\ \A x \in DOMAIN disk.chatIdByPath \ {old} : rest[x] = disk.chatIdByPath[x]
    BY DropAt
  <2> HIDE DEF rest
  <2>2. DOMAIN ci = DOMAIN rest \cup {f} /\ ci[f] = c /\ \A x \in DOMAIN rest \ {f} : ci[x] = rest[x]
    BY DEF Put
  <2> HIDE DEF ci, hd
  <2> SUFFICES ASSUME NEW x \in DOMAIN ci
               PROVE  \E h \in Paths : ci[x] = HashOf(h) /\ hd[x] \cap hd[h] # {}
    BY DEF OwnIdMap
  <2>3. CASE x = f
    BY <1>3, <1>8, <2>2, <2>3
  <2>4. CASE x # f
    <3>1. x \in DOMAIN disk.chatIdByPath /\ ci[x] = disk.chatIdByPath[x]
      BY <2>1, <2>2, <2>4
    <3> QED
      BY <1>6, <3>1 DEF OwnIdMap
  <2> QED
    BY <2>3, <2>4
<1>16. ci \in IdMaps
  <2> HIDE DEF rest
  <2> QED
    BY <1>8, <1>14, PutMap DEF IdMaps
<1> HIDE DEF ci
<1>17. TrailIn(G, trail)
  BY <1>4, <1>7, <1>11, <1>13, <1>15, <1>16, CalmIndex
<1> HIDE DEF trail
<1> QED
  BY <1>1, <1>17, CallIn

LEMMA FileRenamedSafe ==
  ASSUME NEW torn, NEW W, Ready(Anyone), disk \in SafeDisks(torn, W), NEW d \in Docs, NEW f \in Paths,
         fileRenamed(d, f)
  PROVE  disk' \in SafeDisks(torn, W)
BY SafeCalm, FileRenamedIn

(* A move that finds a chat in its way takes its place, and the messages that   *)
(* were there are gone.                                                         *)
(* What moveFileToProject does to the chats once the index and the project      *)
(* files are written.                                                           *)
MovedTrail(entered, old, new) ==
  LET flushed == flushPending(entered, pending, old)
  IN  IF old \in DOMAIN Now(flushed).chats THEN RenameChat(flushed, old, new) ELSE flushed
MovedSeqs(old, new) ==
  IF old \in DOMAIN seqCounters THEN Put(Drop(seqCounters, old), new, seqCounters[old]) ELSE seqCounters
MovesChat(entered, old, new) ==
  \/ Completes(MovedTrail(entered, old, new), MovedSeqs(old, new), Drop(pending, old))
  \/ Interrupted(MovedTrail(entered, old, new))

LEMMA MoveStart ==
  ASSUME NEW G, Calm(Anyone, G), Ready(Anyone), disk \in G, NEW f \in Paths, NEW p \in Projects,
         moveFileToProject(f, p)
  PROVE  \E entered \in Seq(G), from \in Projects, c \in Hashes :
           /\ from # p /\ TrailIn(G, entered)
           /\ Now(entered).chats = disk.chats /\ Now(entered).trash = disk.trash
           /\ MovesChat(entered, <<from, c>>, <<p, c>>)
<1> DEFINE hd == Anyone
           t == ensureDefaultProject(<<disk>>)
           d == Now(t)
           from == Get(d.fileMap, f, Default)
           fm == Put(d.fileMap, f, p)
           indexed == writeIndex(t, d.projects, fm, d.chatIdByPath)
           less == d.files[from] \ {f}
           left == IF from \in DOMAIN d.files THEN writeProject(indexed, from, less) ELSE indexed
           more == d.files[p] \cup {f}
           entered == writeProject(left, p, more)
           c == chatIdForPath(d, f)
<1>1. /\ MovesChat(entered, <<from, c>>, <<p, c>>)
      /\ p \in DOMAIN d.files /\ from # p
  BY DEF moveFileToProject, MovesChat, MovedTrail, MovedSeqs
<1>2. G \subseteq GoodDisks(hd)
  BY DEF Calm
<1>3. TrailIn(G, <<disk>>) /\ Now(<<disk>>) = disk
  BY TrailStarts
<1>4. TrailIn(G, t)
  BY <1>3, CalmDefault
<1>5. d.chats = disk.chats /\ d.trash = disk.trash
  <2>1. TrailIn(GoodDisks(hd), <<disk>>)
    BY <1>2, <1>3, TrailGrow
  <2> QED
    BY <1>3, <2>1, EnsureDefaultGood
<1> HIDE DEF t
<1>6. d \in Disks /\ OwnIdMap(hd, d.chatIdByPath)
  BY <1>2, <1>4, TrailFacts DEF GoodDisks
<1>7. d.projects \in ProjectSets /\ d.fileMap \in FileMaps /\ d.chatIdByPath \in IdMaps /\ d.files \in FileLists
  BY <1>6, DiskFields
<1>8. Now(t) = d
  OBVIOUS
<1> HIDE DEF d
<1>9. Default \in Projects /\ HashOf(f) \in Hashes
  BY DEF Projects, Hashes
<1>10. from \in Projects
  BY <1>7, <1>9, GetMap DEF FileMaps
<1>11. c \in Hashes
  BY <1>7, <1>9, GetMap DEF IdMaps, chatIdForPath
<1> HIDE DEF from, c
<1>12. fm \in FileMaps
  BY <1>7, PutMap DEF FileMaps
<1>13. more \in SUBSET Paths /\ (from \in DOMAIN d.files => less \in SUBSET Paths)
  <2>1. \A x \in DOMAIN d.files : d.files[x] \in SUBSET Paths
    BY <1>7, MapIs DEF FileLists
  <2> QED
    BY <1>1, <2>1
<1> HIDE DEF fm, more, less
<1>14. /\ TrailIn(G, indexed) /\ Now(indexed).files = d.files
       /\ Now(indexed).chats = d.chats /\ Now(indexed).trash = d.trash
  <2>1. TrailIn(G, indexed) /\ Now(indexed).files = Now(t).files
    BY <1>4, <1>6, <1>7, <1>12, CalmIndex
  <2>2. TrailIn(GoodDisks(hd), t)
    BY <1>2, <1>4, TrailGrow
  <2>3. Now(indexed).chats = Now(t).chats /\ Now(indexed).trash = Now(t).trash
    BY <1>6, <1>7, <1>12, <2>2, WriteIndexGood
  <2> QED
    BY <1>8, <2>1, <2>3
<1> HIDE DEF indexed
<1>15. /\ TrailIn(G, left) /\ p \in DOMAIN Now(left).files
       /\ Now(left).chats = d.chats /\ Now(left).trash = d.trash
  <2>1. CASE from \in DOMAIN d.files
    <3> DEFINE u == writeProject(indexed, from, less)
    <3>1. TrailIn(G, u) /\ DOMAIN Now(u).files = DOMAIN Now(indexed).files \cup {from}
      BY <1>10, <1>13, <1>14, <2>1, CalmProject
    <3>2. TrailIn(GoodDisks(hd), indexed)
      BY <1>2, <1>14, TrailGrow
    <3>3. Now(u).chats = Now(indexed).chats /\ Now(u).trash = Now(indexed).trash
      BY <1>10, <1>13, <2>1, <3>2, WriteProjectGood
    <3> HIDE DEF u
    <3>4. left = u
      BY <2>1 DEF u
    <3> QED
      BY <1>1, <1>14, <3>1, <3>3, <3>4
  <2>2. CASE from \notin DOMAIN d.files
    BY <1>1, <1>14, <2>2
  <2> QED
    BY <2>1, <2>2
<1> HIDE DEF left
<1>16. TrailIn(G, entered) /\ Now(entered).chats = d.chats /\ Now(entered).trash = d.trash
  <2>1. TrailIn(G, entered)
    BY <1>13, <1>15, CalmProject
  <2>2. TrailIn(GoodDisks(hd), left)
    BY <1>2, <1>15, TrailGrow
  <2>3. Now(entered).chats = Now(left).chats /\ Now(entered).trash = Now(left).trash
    BY <1>13, <2>2, WriteProjectGood
  <2> QED
    BY <1>15, <2>1, <2>3
<1> HIDE DEF entered
<1> QED
  BY <1>1, <1>5, <1>10, <1>11, <1>16 DEF TrailIn

(* The keys between which a chat moves. *)
LEMMA MoveKeys ==
  ASSUME NEW from \in Projects, NEW p \in Projects, NEW c \in Hashes, from # p
  PROVE  LET old == <<from, c>>
             new == <<p, c>>
         IN  /\ old \in Keys /\ new \in Keys /\ old[2] = c /\ new[2] = c /\ old # new
             /\ old = <<from, new[2]>>
BY DEF Keys, ChatIds

Overtakes(k, from) ==
  /\ k \in DOMAIN disk.chats /\ from # k
  /\ \A m : OnDisk(disk, m) /\ ~OnDisk(disk', m) => m \in Msgs(disk.chats[k])
  /\ from \notin DOMAIN disk'.chats /\ k \in DOMAIN disk'.chats
  /\ Msgs(disk'.chats[k]) = Msgs(loadChat(disk, pending, from))

LEMMA MoveSafe ==
  ASSUME NEW torn, NEW W, Ready(Anyone), disk \in SafeDisks(torn, W), NEW f \in Paths, NEW p \in Projects,
         moveFileToProject(f, p)
  PROVE  \/ disk' \in SafeDisks(torn, W)
         \/ ~torn /\ \E k \in Keys, o \in Projects : Overtakes(k, <<o, k[2]>>)
<1> DEFINE hd == Anyone
           G == SafeDisks(torn, W)
<1>2. pending \in Buffers /\ OwnBuffer(hd, pending)
  BY DEF Ready, StoreGood
<1>3. PICK entered \in Seq(G), from \in Projects, c \in Hashes :
        /\ from # p /\ TrailIn(G, entered)
        /\ Now(entered).chats = disk.chats /\ Now(entered).trash = disk.trash
        /\ MovesChat(entered, <<from, c>>, <<p, c>>)
  BY SafeCalm, MoveStart
<1> DEFINE old == <<from, c>>
           new == <<p, c>>
           flushed == flushPending(entered, pending, old)
           trail == IF old \in DOMAIN Now(flushed).chats THEN RenameChat(flushed, old, new) ELSE flushed
           sq == MovedSeqs(old, new)
           buf == Drop(pending, old)
<1>1. Completes(trail, sq, buf) \/ Interrupted(trail)
  BY <1>3 DEF MovesChat, MovedTrail
<1>8. from \in Projects
  OBVIOUS
<1>10. old \in Keys /\ new \in Keys /\ old[2] = c /\ new[2] = c /\ old # new /\ old = <<from, new[2]>>
  BY <1>3, MoveKeys
<1> HIDE DEF old, new
<1>15. TrailIn(G, entered) /\ Now(entered).chats = disk.chats /\ Now(entered).trash = disk.trash
  BY <1>3
<1> DEFINE a == Now(flushed).chats
           o == disk.chats
<1>16. /\ TrailIn(G, flushed) /\ DOMAIN a \subseteq DOMAIN o \cup {old}
       /\ \A x \in DOMAIN o \ {old} : x \in DOMAIN a /\ a[x] = o[x]
  <2>1. /\ TrailIn(G, flushed) /\ DOMAIN a \subseteq DOMAIN Now(entered).chats \cup {old}
        /\ \A x \in DOMAIN Now(entered).chats \ {old} : x \in DOMAIN a /\ a[x] = Now(entered).chats[x]
    BY <1>2, <1>15, FlushSafe
  <2> QED
    BY <1>15, <2>1
<1>17. ~torn => /\ Now(flushed).trash = disk.trash
                /\ Heard(a, buf, old) = Heard(o, pending, old)
  <2> SUFFICES ASSUME ~torn
               PROVE  Now(flushed).trash = disk.trash /\ Heard(a, buf, old) = Heard(o, pending, old)
    OBVIOUS
  <2>1. TrailIn(GoodDisks(hd), entered) /\ Clean(Now(entered).chats)
    BY <1>15, SafeFacts
  <2>2. /\ OnlyChats(Now(entered), Now(flushed))
        /\ Heard(a, buf, old) = Heard(Now(entered).chats, pending, old)
    BY <1>2, <2>1, FlushHears
  <2> QED
    BY <1>15, <2>2 DEF OnlyChats
<1>18. TrailIn(GoodDisks(hd), flushed) /\ Lined(a) /\ (~torn => Clean(a))
  BY <1>16, SafeFacts
<1> HIDE DEF flushed, sq
<1>19. CASE old \notin DOMAIN a
  <2>1. trail = flushed
    BY <1>19
  <2>2. disk' \in G
    BY <1>1, <1>16, <2>1, CallIn
  <2> QED
    BY <2>2
<1>20. Owners(hd, old[2]) \subseteq Owners(hd, new[2])
  BY <1>10
<1>21. CASE old \in DOMAIN a /\ (torn \/ new \notin DOMAIN a)
  <2>1. trail = RenameChat(flushed, old, new)
    BY <1>21
  <2>2. TrailIn(G, RenameChat(flushed, old, new))
    BY <1>10, <1>16, <1>20, <1>21, RenameSafe
  <2> HIDE DEF trail
  <2>3. TrailIn(G, trail)
    BY <2>1, <2>2
  <2>4. disk' \in G
    BY <1>1, <2>3, CallIn
  <2> QED
    BY <2>4
<1>22. CASE old \in DOMAIN a /\ ~torn /\ new \in DOMAIN a
  <2> DEFINE q == Drop(Put(a, new, a[old]), old)
             x == WithChats(Now(flushed), q)
  <2>1. trail = RenameChat(flushed, old, new)
    BY <1>22
  <2>2. RenameChat(flushed, old, new) = Append(flushed, x)
    BY WritesAre
  <2>3. TrailIn(GoodDisks(hd), trail) /\ OnlyChats(Now(flushed), Now(trail)) /\ Now(trail).chats = q
    BY <1>10, <1>18, <1>20, <1>22, <2>1, RenameChatGood
  <2>4. /\ DOMAIN q = (DOMAIN a \cup {new}) \ {old} /\ q[new] = a[old]
        /\ \A y \in DOMAIN a \ {old, new} : q[y] = a[y]
    <3>1. old # new /\ Lined(a) /\ old \in DOMAIN a
      BY <1>10, <1>18, <1>22
    <3> HIDE DEF a
    <3>2. LET z == Drop(Put(a, new, a[old]), old)
          IN  /\ Lined(z) /\ (Clean(a) => Clean(z))
              /\ DOMAIN z = (DOMAIN a \cup {new}) \ {old} /\ z[new] = a[old]
              /\ \A y \in DOMAIN a \ {old, new} : z[y] = a[y]
              /\ new \notin DOMAIN a => \A m : Stored(a, m) => Stored(z, m)
      BY <3>1, RenamePut, Zenon
    <3> QED
      BY <3>2
  <2> HIDE DEF trail, x, q
  <2>5. CASE Interrupted(trail)
    <3>1. PICK i \in 1..(Len(trail) - 1) : EndsOn(trail[i])
      BY <2>5 DEF Interrupted
    <3>2. trail = Append(flushed, x)
      BY <2>1, <2>2
    <3>3. flushed \in Seq(G)
      BY <1>16 DEF TrailIn
    <3> HIDE DEF G
    <3>4. i \in 1..Len(flushed) /\ trail[i] = flushed[i] /\ flushed[i] \in G
      BY <3>1, <3>2, <3>3
    <3>5. disk' \in G
      BY <3>1, <3>4 DEF EndsOn
    <3> QED
      BY <3>5 DEF G
  <2>6. CASE Completes(trail, sq, buf)
    <3>1. disk' = Now(trail)
      BY <2>6 DEF Completes
    <3> DEFINE e == disk'
    <3>2. e.chats = q /\ e.trash = disk.trash
      BY <1>17, <1>22, <2>3, <3>1 DEF OnlyChats
    <3>3. new \in DOMAIN o /\ a[new] = o[new]
      BY <1>10, <1>16, <1>22
    <3>4. old \notin DOMAIN q /\ new \in DOMAIN q
      BY <1>10, <2>4
    <3> HIDE DEF e
    <3>5. ASSUME NEW m, OnDisk(disk, m), ~OnDisk(e, m) PROVE m \in Msgs(o[new])
      <4>1. Stored(o, m) /\ ~Stored(q, m)
        BY <3>2, <3>5 DEF OnDisk
      <4>2. PICK y \in DOMAIN o : \E r \in Range(o[y]) : r # Torn /\ r.msg = m
        BY <4>1 DEF Stored
      <4>3. CASE y = new
        BY <4>2, <4>3 DEF Msgs
      <4>4. CASE y # new /\ y # old
        <5>1. y \in DOMAIN q /\ q[y] = o[y]
          BY <1>16, <2>4, <4>4
        <5> QED
          BY <4>1, <4>2, <5>1 DEF Stored
      <4>5. CASE y = old
        <5>1. m \in Msgs(o[old]) /\ Get(o, old, <<>>) = o[old]
          BY <4>2, <4>5 DEF Msgs, Get
        <5>2. m \in Heard(a, buf, old)
          BY <1>17, <1>22, <5>1 DEF Heard
        <5>3. Get(buf, old, <<>>) = <<>>
          BY GetDrop
        <5>4. Get(a, old, <<>>) = a[old]
          BY <1>22 DEF Get
        <5> HIDE DEF buf
        <5>5. m \in Msgs(a[old])
          BY <5>2, <5>3, <5>4, MsgsNone DEF Heard
        <5>6. PICK r \in Range(a[old]) : r.msg = m
          BY <5>5 DEF Msgs
        <5>7. r # Torn
          BY <1>18, <1>22, <5>6 DEF Clean
        <5>8. new \in DOMAIN q /\ q[new] = a[old]
          BY <2>4, <3>4
        <5> QED
          BY <4>1, <5>6, <5>7, <5>8 DEF Stored
      <4> QED
        BY <4>3, <4>4, <4>5
    <3>6. Msgs(q[new]) = Msgs(loadChat(disk, pending, old))
      <4>1. disk \in GoodDisks(hd) /\ Clean(disk.chats)
        BY <1>22 DEF SafeDisks
      <4>2. Msgs(loadChat(disk, pending, old)) = Heard(o, pending, old)
        BY <1>2, <4>1, LoadMsgs
      <4>3. Get(buf, old, <<>>) = <<>>
        BY GetDrop
      <4>4. Get(a, old, <<>>) = a[old]
        BY <1>22 DEF Get
      <4> HIDE DEF buf
      <4>5. Heard(a, buf, old) = Msgs(a[old])
        BY <4>3, <4>4, MsgsNone DEF Heard
      <4> QED
        BY <1>17, <1>22, <2>4, <4>2, <4>5
    <3>7. Overtakes(new, old)
      BY <1>10, <3>2, <3>3, <3>4, <3>5, <3>6 DEF Overtakes, e
    <3>8. Overtakes(new, <<from, new[2]>>)
      BY <1>10, <3>7
    <3> QED
      BY <1>8, <1>10, <1>22, <3>8
  <2> QED
    BY <1>1, <2>5, <2>6
<1> QED
  BY <1>19, <1>21, <1>22

AllStay == \A m : OnDisk(disk, m) => OnDisk(disk', m)

LEMMA AppendSafe ==
  ASSUME NEW torn, NEW W, Ready(Anyone), disk \in SafeDisks(torn, W), NEW d \in Docs, appendChatMessage(d)
  PROVE  /\ disk' \in SafeDisks(TRUE, {})
         /\ ~torn => AllStay
<1> DEFINE hd == Anyone
           k == ids[d]
           O == Owners(hd, k[2])
           L == LinesOf(O)
           n == Cardinality(said[d]) + 1
           seq == Get(seqCounters, k, MaxSeq(loadChat(disk, pending, k)))
           record == [msg |-> <<d, n>>, seq |-> seq]
           buffered == Get(pending, k, <<>>)
           lines == Append(buffered, record)
           cs == disk.chats
           file == Get(cs, k, <<>>)
<1>1. /\ k # None
      /\ \/ disk' = disk
         \/ \E x \in {AppendLines(file, lines)} \cup Partial(file, lines) :
              disk' = disk \/ disk' = Now(writeChat(<<disk>>, k, x))
  BY DEF appendChatMessage, Count
<1>2. /\ disk \in GoodDisks(hd) /\ seqCounters \in Counters /\ pending \in Buffers
      /\ OwnBuffer(hd, pending) /\ PanelsGood(hd, path, ids, reply) /\ SaidGood(said)
  BY DEF Ready, StoreGood
<1>3. k \in Keys /\ d \in O
  BY <1>1, <1>2 DEF PanelsGood, Held
<1>4. IsFiniteSet(said[d]) /\ said[d] \in SUBSET ({d} \X Nat)
  BY <1>2 DEF SaidGood
<1>5. n \in Nat
  BY <1>4, FS_CardinalityType
<1> HIDE DEF n
<1>6. seq \in Nat
  <2>1. MaxSeq(loadChat(disk, pending, k)) \in Nat
    BY <1>2, LoadChatType
  <2> DEFINE m == MaxSeq(loadChat(disk, pending, k))
  <2> HIDE DEF m, k
  <2>2. Get(seqCounters, k, m) \in Nat
    BY <1>2, <2>1, GetMap DEF Counters, m
  <2> QED
    BY <2>2 DEF m
<1> HIDE DEF seq
<1>7. record \in RecordsOf(O)
  BY <1>3, <1>5, <1>6 DEF RecordsOf
<1>8. buffered \in Seq(RecordsOf(O))
  <2>1. CASE k \in DOMAIN pending
    BY <1>2, <2>1 DEF Get, OwnBuffer
  <2>2. CASE k \notin DOMAIN pending
    BY <2>2 DEF Get
  <2> QED
    BY <2>1, <2>2
<1>9. OwnChatMap(hd, cs) /\ file \in Seq(L)
  <2>1. OwnChatMap(hd, cs)
    BY <1>2 DEF GoodDisks
  <2> QED
    BY <2>1, OwnFile
<1>10. Lined(cs) /\ (~torn => Clean(cs))
  BY DEF SafeDisks
<1>11. LinedFile(file) /\ (~torn => Torn \notin Range(file))
  <2>1. CASE k \in DOMAIN cs
    <3>1. file = cs[k]
      BY <2>1 DEF Get
    <3> QED
      BY <1>10, <2>1, <3>1 DEF Lined, Clean
  <2>2. CASE k \notin DOMAIN cs
    <3>1. file = <<>>
      BY <2>2 DEF Get
    <3> QED
      BY <3>1 DEF LinedFile, Range
  <2> QED
    BY <2>1, <2>2
<1>23. Get(cs, k, <<>>) = file
  OBVIOUS
<1> HIDE DEF record, buffered, file, k
<1>12. lines \in Seq(RecordsOf(O))
  <2> DEFINE R == RecordsOf(O)
  <2> HIDE DEF R
  <2>1. Append(buffered, record) \in Seq(R)
    BY <1>7, <1>8, AppendAt DEF R
  <2> QED
    BY <2>1 DEF R
<1> HIDE DEF lines
<1>13. lines \in Seq(L)
  BY <1>12, OwnersAreDocs
<1>14. Torn \notin Range(lines)
  <2>1. O \in SUBSET Docs
    BY OwnersAreDocs
  <2> HIDE DEF O
  <2> QED
    BY <1>12, <2>1, RecordNotTorn
<1>15. Torn \in L
  BY DEF LinesOf
<1> HIDE DEF L
<1>16. ASSUME NEW x \in {AppendLines(file, lines)} \cup Partial(file, lines)
       PROVE  x \in Seq(L) /\ LinedFile(x) /\ (~torn => Range(file) \subseteq Range(x))
  <2>1. CASE x = AppendLines(file, lines)
    <3>1. AppendLines(file, lines) \in Seq(L) /\ LinedFile(AppendLines(file, lines))
      BY <1>9, <1>11, <1>13, <1>14, AppendLined
    <3>2. ~torn => AppendLines(file, lines) = file \o lines
      BY <1>9, <1>11, <1>13, <1>14, CleanAppend
    <3>3. Range(file \o lines) = Range(file) \cup Range(lines)
      BY <1>9, <1>13, CatRange
    <3> QED
      BY <2>1, <3>1, <3>2, <3>3
  <2>2. CASE x \in Partial(file, lines)
    <3>1. x \in Seq(L)
      BY <1>9, <1>13, <1>15, <2>2, PartialType
    <3>2. LinedFile(x) /\ (~IsTorn(file) => Range(file) \subseteq Range(x))
      BY <1>9, <1>11, <1>13, <1>14, <1>15, <2>2, PartialLined
    <3>3. ~torn => ~IsTorn(file)
      BY <1>9, <1>11, LinedEnds
    <3> QED
      BY <3>1, <3>2, <3>3
  <2> QED
    BY <2>1, <2>2
<1>17. disk \in SafeDisks(TRUE, {})
  BY DEF SafeDisks
<1>18. CASE disk' = disk
  BY <1>17, <1>18 DEF AllStay
<1>19. ASSUME NEW x \in {AppendLines(file, lines)} \cup Partial(file, lines),
              disk' = Now(writeChat(<<disk>>, k, x))
       PROVE  /\ disk' \in SafeDisks(TRUE, {})
              /\ ~torn => AllStay
  <2> DEFINE t == <<disk>>
             u == writeChat(t, k, x)
             q == Put(cs, k, x)
             y == WithChats(disk, q)
  <2>1. TrailIn(SafeDisks(TRUE, {}), t) /\ Now(t) = disk
    BY <1>17, TrailStarts
  <2>2. x \in Seq(LinesOf(Owners(hd, k[2]))) /\ LinedFile(x) /\ (~torn => Range(file) \subseteq Range(x))
    BY <1>16 DEF L
  <2>3. TrailIn(GoodDisks(hd), t)
    BY <2>1, SafeFacts
  <2>4. u = Append(t, y)
    BY <2>1, WritesAre
  <2> HIDE DEF t
  <2>5. TrailIn(GoodDisks(hd), u) /\ OnlyChats(Now(t), Now(u)) /\ Now(u).chats = Put(Now(t).chats, k, x)
    BY <1>3, <2>2, <2>3, WriteChatGood
  <2>6. Lined(q)
    BY <1>10, <2>2, LinedPut
  <2>7. ~torn => \A m : Stored(cs, m) => Stored(q, m)
    BY <1>23, <2>2, StoredPut
  <2>8. Now(u).chats = q /\ disk' = Now(u)
    BY <1>19, <2>1, <2>5 DEF t
  <2> HIDE DEF q, u, y
  <2>9. TrailIn(SafeDisks(TRUE, {}), Append(t, y))
    BY <2>1, <2>4, <2>5, <2>6, <2>8, SafeChats
  <2>10. Now(u) \in SafeDisks(TRUE, {})
    BY <2>4, <2>9, SafeFacts
  <2>11. Now(u).trash = disk.trash
    BY <2>1, <2>5 DEF OnlyChats
  <2> DEFINE e == disk'
  <2>12. e.chats = q /\ e.trash = disk.trash /\ e \in SafeDisks(TRUE, {})
    BY <2>8, <2>10, <2>11
  <2> HIDE DEF e
  <2>13. ~torn => \A m : OnDisk(disk, m) => OnDisk(e, m)
    BY <2>7, <2>12 DEF OnDisk
  <2> QED
    BY <2>12, <2>13 DEF e, AllStay
<1> QED
  BY <1>1, <1>18, <1>19

LEMMA AppendStays ==
  ASSUME NEW W, Ready(Anyone), disk \in SafeDisks(FALSE, W), NEW d \in Docs, appendChatMessage(d)
  PROVE  AllStay
<1>1. ~FALSE => AllStay
  BY AppendSafe
<1> QED
  BY <1>1

(* The store after any step, and what it lost. *)
LEMMA StepSafe ==
  ASSUME NEW torn \in BOOLEAN, NEW W, Ready(Anyone), disk \in SafeDisks(torn, W), [Next]_vars
  PROVE  \/ disk' \in SafeDisks(torn, W)
         \/ disk' \in SafeDisks(TRUE, {}) /\ (~torn => AllStay)
         \/ ~torn /\ \E k \in Keys, o \in Projects : Overtakes(k, <<o, k[2]>>)
<1>1. CASE UNCHANGED vars
  BY <1>1 DEF vars
<1>2. CASE Next
  <2>1. ASSUME NEW d \in Docs, OpenChat(d) PROVE disk' \in SafeDisks(torn, W)
    BY <2>1, OpenChatSafe
  <2>2. ASSUME NEW d \in Docs, ClosePanel(d) \/ Answered(d) PROVE disk' \in SafeDisks(torn, W)
    BY <2>2 DEF ClosePanel, Answered
  <2>3. ASSUME NEW d \in Docs, appendChatMessage(d)
        PROVE  disk' \in SafeDisks(TRUE, {}) /\ (~torn => AllStay)
    <3>1. disk' \in SafeDisks(TRUE, {})
      BY <2>3, AppendSafe
    <3>2. ASSUME ~torn PROVE AllStay
      <4>1. torn = FALSE
        BY <3>2
      <4>2. disk \in SafeDisks(FALSE, W)
        BY <4>1
      <4> QED
        BY <2>3, <4>2, AppendStays
    <3> QED
      BY <3>1, <3>2, Zenon
  <2>4. ASSUME NEW d \in Docs, NEW f \in Paths, FirstSave(d, f) \/ fileRenamed(d, f)
        PROVE  disk' \in SafeDisks(torn, W)
    BY <2>4, FirstSaveSafe, FileRenamedSafe
  <2>5. ASSUME NEW p \in Extra, createProject(p) \/ deleteProject(p) PROVE disk' \in SafeDisks(torn, W)
    BY <2>5, CreateProjectSafe, DeleteProjectSafe
  <2>6. ASSUME NEW f \in Paths, NEW p \in Projects, moveFileToProject(f, p)
        PROVE  \/ disk' \in SafeDisks(torn, W)
               \/ ~torn /\ \E k \in Keys, o \in Projects : Overtakes(k, <<o, k[2]>>)
    BY <2>6, MoveSafe
  <2>7. ASSUME ProcessEnds PROVE disk' \in SafeDisks(torn, W)
    BY <2>7 DEF ProcessEnds, EndsOn
  <2> QED
    BY <1>2, <2>1, <2>2, <2>3, <2>4, <2>5, <2>6, <2>7 DEF Next
<1> QED
  BY <1>1, <1>2

(* The invariant: the store is well formed whoever has had the paths, and its   *)
(* disk is one of the safe ones.                                                *)
DiskInv == Ready(Anyone) /\ disk \in SafeDisks(TRUE, {})

LEMMA DiskInvInit == Init => DiskInv
<1> SUFFICES ASSUME Init PROVE DiskInv
  OBVIOUS
<1> DEFINE hd == Anyone
<1> USE DEF Init
<1>2. SaidGood(said)
  BY FS_EmptySet DEF SaidGood
<1>3. PanelsGood(hd, path, ids, reply)
  BY DEF PanelsGood, Held
<1>4. /\ Empty \in FileMaps /\ Empty \in IdMaps /\ Empty \in FileLists /\ Empty \in ChatMaps
      /\ Empty \in Trashes /\ Empty \in Counters /\ Empty \in Buffers /\ DOMAIN Empty = {}
  BY EmptyMap DEF FileMaps, IdMaps, FileLists, ChatMaps, Trashes, Counters, Buffers
<1>5. /\ disk \in Disks /\ disk.chats = Empty /\ disk.chatIdByPath = Empty
      /\ disk.files = Empty /\ disk.trash = Empty
  BY <1>4 DEF Disks, ProjectSets
<1>6. OwnChatMap(hd, Empty) /\ OwnIdMap(hd, Empty) /\ OwnBuffer(hd, Empty) /\ Lined(Empty)
  BY <1>4 DEF OwnChatMap, OwnIdMap, OwnBuffer, Lined
<1>7. StoreGood(hd, disk, seqCounters, pending)
  BY <1>4, <1>5, <1>6 DEF StoreGood, GoodDisks
<1>8. Ready(hd)
  BY <1>2, <1>3, <1>7, AnyoneIs DEF Ready
<1>9. disk \in SafeDisks(TRUE, {})
  BY <1>4, <1>5, <1>6, <1>7 DEF SafeDisks, StoreGood
<1> QED
  BY <1>8, <1>9 DEF DiskInv

LEMMA DiskInvNext == DiskInv /\ [Next]_vars => DiskInv'
<1> SUFFICES ASSUME DiskInv, [Next]_vars PROVE DiskInv'
  OBVIOUS
<1>1. Ready(Anyone) /\ disk \in SafeDisks(TRUE, {})
  BY DEF DiskInv
<1>2. Done(Anyone)
  BY <1>1, AnyoneIs, StepGood
<1>3. disk' \in SafeDisks(TRUE, {})
  BY <1>1, StepSafe
<1>4. Ready(Anyone)'
  BY <1>2, AnyoneIs DEF Ready, Done
<1> QED
  BY <1>3, <1>4 DEF DiskInv

WrittenOn(dk) == (UNION {Msgs(Records(dk.chats[k])) : k \in DOMAIN dk.chats})
                 \cup {r.msg : r \in UNION Range(dk.trash)}

LEMMA WrittenIs ==
  ASSUME NEW dk \in GoodDisks(Anyone), NEW m
  PROVE  m \in WrittenOn(dk) <=> OnDisk(dk, m)
<1>1. OwnChatMap(Anyone, dk.chats)
  BY DEF GoodDisks
<1>2. ASSUME NEW k \in DOMAIN dk.chats
      PROVE  Range(Records(dk.chats[k])) = Range(dk.chats[k]) \ {Torn}
  <2> DEFINE R == RecordsOf(Owners(Anyone, k[2]))
             file == dk.chats[k]
  <2>1. file \in Seq(R \cup {Torn})
    BY <1>1 DEF OwnChatMap, LinesOf
  <2> HIDE DEF R, file
  <2>2. Range(Records(file)) = Range(file) \ {Torn}
    BY <2>1, RecordsAt
  <2> QED
    BY <2>2 DEF file
<1> DEFINE A == UNION {Msgs(Records(dk.chats[k])) : k \in DOMAIN dk.chats}
           B == {r.msg : r \in UNION Range(dk.trash)}
<1>3. m \in A <=> Stored(dk.chats, m)
  BY <1>2 DEF Msgs, Stored
<1>4. m \in B <=> Binned(dk.trash, m)
  BY DEF Binned, Range
<1>5. WrittenOn(dk) = A \cup B
  BY DEF WrittenOn
<1> HIDE DEF A, B
<1> QED
  BY <1>3, <1>4, <1>5 DEF OnDisk

(* What one step may lose. *)
LEMMA LostStep ==
  ASSUME DiskInv, DiskInv', [Next]_vars, NEW m \in Written \ Written'
  PROVE  \E k \in DOMAIN disk.chats, p \in Projects :
           LET from == <<p, k[2]>> IN
           \/ IsTorn(disk.chats[k])
           \/ /\ from # k /\ m \in Msgs(disk.chats[k])
              /\ from \notin DOMAIN disk'.chats /\ k \in DOMAIN disk'.chats
              /\ Msgs(disk'.chats[k]) = Msgs(loadChat(disk, pending, from))
<1>1. Ready(Anyone) /\ disk \in SafeDisks(TRUE, {}) /\ Ready(Anyone)'
  BY DEF DiskInv
<1>2. CASE \E k \in DOMAIN disk.chats : IsTorn(disk.chats[k])
  BY <1>2 DEF Projects
<1>3. CASE ~\E k \in DOMAIN disk.chats : IsTorn(disk.chats[k])
  <2>1. Clean(disk.chats)
    <3> SUFFICES ASSUME NEW k \in DOMAIN disk.chats PROVE Torn \notin Range(disk.chats[k])
      BY DEF Clean
    <3>1. OwnChatMap(Anyone, disk.chats) /\ Lined(disk.chats)
      BY <1>1 DEF SafeDisks, GoodDisks
    <3> DEFINE L == LinesOf(Owners(Anyone, k[2]))
               s == disk.chats[k]
    <3>2. s \in Seq(L) /\ LinedFile(s) /\ ~IsTorn(s)
      BY <1>3, <3>1 DEF OwnChatMap, Lined
    <3> HIDE DEF L, s
    <3>3. Torn \notin Range(s)
      BY <3>2, LinedEnds
    <3> QED
      BY <3>3 DEF s
  <2>2. disk \in GoodDisks(Anyone) /\ disk' \in GoodDisks(Anyone)
    BY <1>1 DEF Ready, StoreGood
  <2>3. Written = WrittenOn(disk) /\ Written' = WrittenOn(disk')
    BY DEF Written, WrittenOn
  <2>4. \A x \in Written : OnDisk(disk, x)
    BY <2>2, <2>3, WrittenIs
  <2>5. disk \in SafeDisks(FALSE, Written)
    BY <1>1, <2>1, <2>4 DEF SafeDisks
  <2>6. OnDisk(disk, m) /\ ~OnDisk(disk', m)
    <3> DEFINE e == disk'
    <3>1. e \in GoodDisks(Anyone) /\ m \notin WrittenOn(e)
      BY <2>2, <2>3
    <3> HIDE DEF e
    <3>2. ~OnDisk(e, m)
      BY <3>1, WrittenIs
    <3> QED
      BY <2>4, <3>2 DEF e
  <2>7. disk' \notin SafeDisks(FALSE, Written)
    <3> DEFINE e == disk'
               W == Written
    <3>1. m \in W /\ ~OnDisk(e, m)
      BY <2>6
    <3> HIDE DEF e, W
    <3>2. e \notin SafeDisks(FALSE, W)
      BY <3>1 DEF SafeDisks
    <3> QED
      BY <3>2 DEF e, W
  <2>8. PICK k \in Keys, o \in Projects : Overtakes(k, <<o, k[2]>>)
    BY <1>1, <2>5, <2>6, <2>7, StepSafe DEF AllStay
  <2> QED
    BY <2>6, <2>8 DEF Overtakes
<1> QED
  BY <1>2, <1>3

(* A message leaves the disk (chat files and the trash's copies) only in two    *)
(* ways, crashes included: while a failed write has left the last line of a     *)
(* chat file torn, which the next appended line is glued to, or when            *)
(* moveFileToProject renames the chat a file had in another project over the    *)
(* one of the same id in the project it goes to.  With no torn line, no         *)
(* rename, first save, deletion or end of the process loses one.                *)
THEOREM LossesAreMoves == Spec => LostOnlyByMove
<1> DEFINE Lost ==
      \A m \in Written \ Written' :
        \E k \in DOMAIN disk.chats, p \in Projects :
          LET from == <<p, k[2]>> IN
          \/ IsTorn(disk.chats[k])
          \/ /\ from # k /\ m \in Msgs(disk.chats[k])
             /\ from \notin DOMAIN disk'.chats /\ k \in DOMAIN disk'.chats
             /\ Msgs(disk'.chats[k]) = Msgs(loadChat(disk, pending, from))
<1>1. Init => DiskInv
  BY DiskInvInit
<1>2. DiskInv /\ [Next]_vars => DiskInv'
  BY DiskInvNext
<1>3. DiskInv /\ DiskInv' /\ [Next]_vars => [Lost]_vars
  <2> SUFFICES ASSUME DiskInv, DiskInv', [Next]_vars PROVE Lost
    OBVIOUS
  <2> QED
    BY LostStep
<1> HIDE DEF Lost
<1>4. DiskInv /\ [Next]_vars => [Lost]_vars
  BY <1>2, <1>3
<1>5. Spec => [][Lost]_vars
  BY <1>1, <1>2, <1>4, PTL DEF Spec
<1> QED
  BY <1>5 DEF Lost, LostOnlyByMove

-----------------------------------------------------------------------------
(* How messages are numbered.  Of the lines that parse, no two in a file have   *)
(* the same seq, none of one file has the seq of one of another, and all are    *)
(* below a counter.                                                             *)
Apart(s) == \A i, j \in DOMAIN s : s[i] # Torn /\ s[j] # Torn /\ s[i].seq = s[j].seq => i = j
Cross(q, r) == \A x \in Range(q), y \in Range(r) : x # Torn /\ y # Torn => x.seq # y.seq
Under(s, n) == \A r \in Range(s) : r # Torn => r.seq < n

LEMMA ApartNone == Apart(<<>>) /\ Range(<<>>) = {}
BY DEF Apart, Range

LEMMA ApartCat ==
  ASSUME NEW L, NEW q \in Seq(L), NEW r \in Seq(L)
  PROVE  Apart(q \o r) <=> Apart(q) /\ Apart(r) /\ Cross(q, r)
<1> DEFINE c == q \o r
           n == Len(q)
           m == Len(r)
<1>1. /\ c \in Seq(L) /\ n \in Nat /\ m \in Nat /\ Len(c) = n + m
      /\ \A i \in 1..n : c[i] = q[i]
      /\ \A i \in 1..m : c[n + i] = r[i]
  BY CatAt
<1>2. DOMAIN c = 1..(n + m) /\ DOMAIN q = 1..n /\ DOMAIN r = 1..m
  BY <1>1
<1> HIDE DEF c, n, m
<1>3. ASSUME Apart(c) PROVE Apart(q) /\ Apart(r) /\ Cross(q, r)
  <2>1. Apart(q)
    BY <1>1, <1>2, <1>3 DEF Apart
  <2>2. Apart(r)
    <3> SUFFICES ASSUME NEW i \in 1..m, NEW j \in 1..m, r[i] # Torn, r[j] # Torn, r[i].seq = r[j].seq
                 PROVE  i = j
      BY <1>2 DEF Apart
    <3>1. n + i \in 1..(n + m) /\ n + j \in 1..(n + m) /\ c[n + i] = r[i] /\ c[n + j] = r[j]
      BY <1>1
    <3>2. n + i = n + j
      BY <1>2, <1>3, <3>1 DEF Apart
    <3> QED
      BY <1>1, <3>2
  <2>3. Cross(q, r)
    <3> SUFFICES ASSUME NEW i \in 1..n, NEW j \in 1..m, q[i] # Torn, r[j] # Torn, q[i].seq = r[j].seq
                 PROVE  FALSE
      BY <1>2 DEF Cross, Range
    <3>1. i \in 1..(n + m) /\ n + j \in 1..(n + m) /\ c[i] = q[i] /\ c[n + j] = r[j]
      BY <1>1, SMTT(30)
    <3>2. i = n + j
      BY <1>2, <1>3, <3>1 DEF Apart
    <3> QED
      BY <1>1, <3>2
  <2> QED
    BY <2>1, <2>2, <2>3
<1>4. ASSUME Apart(q), Apart(r), Cross(q, r) PROVE Apart(c)
  <2> SUFFICES ASSUME NEW i \in 1..(n + m), NEW j \in 1..(n + m), c[i] # Torn, c[j] # Torn, c[i].seq = c[j].seq
               PROVE  i = j
    BY <1>2 DEF Apart
  <2>1. \A k \in 1..(n + m) : k \in 1..n \/ (k - n \in 1..m /\ c[k] = r[k - n])
    <3> SUFFICES ASSUME NEW k \in 1..(n + m), k \notin 1..n PROVE k - n \in 1..m /\ c[k] = r[k - n]
      OBVIOUS
    <3>1. k - n \in 1..m /\ n + (k - n) = k
      BY <1>1
    <3> QED
      BY <1>1, <3>1
  <2>2. CASE i \in 1..n /\ j \in 1..n
    BY <1>1, <1>2, <1>4, <2>2 DEF Apart
  <2>3. CASE i \notin 1..n /\ j \notin 1..n
    <3>1. i - n = j - n
      BY <1>2, <1>4, <2>1, <2>3 DEF Apart
    <3> QED
      BY <1>1, <3>1
  <2>4. CASE i \in 1..n /\ j \notin 1..n
    <3>1. c[i] = q[i] /\ q[i] \in Range(q)
      BY <1>1, <1>2, <2>4 DEF Range
    <3>2. j - n \in 1..m /\ c[j] = r[j - n]
      BY <2>1, <2>4
    <3>3. r[j - n] \in Range(r)
      BY <1>2, <3>2 DEF Range
    <3> QED
      BY <1>4, <3>1, <3>2, <3>3 DEF Cross
  <2>5. CASE i \notin 1..n /\ j \in 1..n
    <3>1. c[j] = q[j] /\ q[j] \in Range(q)
      BY <1>1, <1>2, <2>5 DEF Range
    <3>2. i - n \in 1..m /\ c[i] = r[i - n]
      BY <2>1, <2>5
    <3>3. r[i - n] \in Range(r)
      BY <1>2, <3>2 DEF Range
    <3> QED
      BY <1>4, <3>1, <3>2, <3>3 DEF Cross
  <2> QED
    BY <2>2, <2>3, <2>4, <2>5
<1> QED
  BY <1>3, <1>4 DEF c

LEMMA UnderCat ==
  ASSUME NEW L, NEW q \in Seq(L), NEW r \in Seq(L), NEW n
  PROVE  Under(q \o r, n) <=> Under(q, n) /\ Under(r, n)
<1>1. Range(q \o r) = Range(q) \cup Range(r)
  BY CatRange
<1> QED
  BY <1>1 DEF Under

LEMMA FrontApart ==
  ASSUME NEW L, NEW s \in Seq(L), s # <<>>, Apart(s)
  PROVE  Front(s) \in Seq(L) /\ Apart(Front(s)) /\ Range(Front(s)) \subseteq Range(s)
<1> DEFINE q == Front(s)
<1>1. q \in Seq(L) /\ Len(q) = Len(s) - 1 /\ \A i \in 1..(Len(s) - 1) : q[i] = s[i]
  BY FrontLemma
<1>2. Len(s) \in Nat \ {0} /\ DOMAIN s = 1..Len(s) /\ DOMAIN q = 1..Len(q)
  BY <1>1
<1> HIDE DEF q
<1>3. \A i \in DOMAIN q : i \in DOMAIN s /\ q[i] = s[i]
  BY <1>1, <1>2
<1> QED
  BY <1>1, <1>3 DEF q, Apart, Range

LEMMA TailApart ==
  ASSUME NEW L, NEW s \in Seq(L), s # <<>>, Apart(s)
  PROVE  Tail(s) \in Seq(L) /\ Apart(Tail(s)) /\ Range(Tail(s)) \subseteq Range(s)
<1> DEFINE q == Tail(s)
<1>1. /\ q \in Seq(L) /\ Len(s) \in Nat \ {0} /\ Len(q) = Len(s) - 1
      /\ \A i \in 1..Len(q) : i + 1 \in 1..Len(s) /\ q[i] = s[i + 1]
  BY TailAt
<1>2. DOMAIN s = 1..Len(s) /\ DOMAIN q = 1..Len(q)
  BY <1>1
<1> HIDE DEF q
<1>3. Apart(q)
  <2> SUFFICES ASSUME NEW i \in 1..Len(q), NEW j \in 1..Len(q), q[i] # Torn, q[j] # Torn, q[i].seq = q[j].seq
               PROVE  i = j
    BY <1>2 DEF Apart
  <2> DEFINE a == i + 1
             b == j + 1
  <2>1. a \in DOMAIN s /\ b \in DOMAIN s /\ q[i] = s[a] /\ q[j] = s[b]
    BY <1>1, <1>2
  <2> HIDE DEF a, b
  <2>2. a = b
    BY <2>1 DEF Apart
  <2> QED
    BY <2>2 DEF a, b
<1>4. Range(q) \subseteq Range(s)
  BY <1>1, <1>2 DEF Range
<1> QED
  BY <1>1, <1>3, <1>4 DEF q

LEMMA CutApart ==
  ASSUME NEW L, NEW s \in Seq(L), NEW n \in 0..Len(s), Apart(s)
  PROVE  LET q == SubSeq(s, 1, n) IN q \in Seq(L) /\ Apart(q) /\ Range(q) \subseteq Range(s)
<1> DEFINE q == SubSeq(s, 1, n)
<1>1. q \in Seq(L) /\ Len(q) = n /\ \A i \in 1..n : q[i] = s[i]
  BY CutAt
<1>2. Len(s) \in Nat /\ DOMAIN s = 1..Len(s) /\ DOMAIN q = 1..n
  BY <1>1
<1> HIDE DEF q
<1>3. \A i \in DOMAIN q : i \in DOMAIN s /\ q[i] = s[i]
  BY <1>1, <1>2
<1>4. q \in Seq(L) /\ Apart(q) /\ Range(q) \subseteq Range(s)
  BY <1>1, <1>3 DEF Apart, Range
<1> QED
  BY <1>4 DEF q

LEMMA AddApart ==
  ASSUME NEW L, NEW s \in Seq(L), NEW e \in L, Apart(s), e # Torn => Under(s, e.seq) /\ e.seq \in Nat,
         \A r \in L : r.seq \in Nat
  PROVE  Append(s, e) \in Seq(L) /\ Apart(Append(s, e)) /\ Range(Append(s, e)) = Range(s) \cup {e}
<1> DEFINE q == Append(s, e)
           n == Len(s)
<1>1. /\ q \in Seq(L) /\ n \in Nat /\ Len(q) = n + 1
      /\ \A i \in 1..n : q[i] = s[i]
      /\ q[n + 1] = e
  BY AppendAt
<1>2. DOMAIN s = 1..n /\ DOMAIN q = 1..(n + 1) /\ \A i \in 1..n : s[i] \in L
  BY <1>1
<1> HIDE DEF q, n
<1>3. \A i \in 1..(n + 1) : i \in 1..n \/ i = n + 1
  BY <1>1
<1>4. Apart(q)
  <2> SUFFICES ASSUME NEW i \in 1..(n + 1), NEW j \in 1..(n + 1), q[i] # Torn, q[j] # Torn, q[i].seq = q[j].seq
               PROVE  i = j
    BY <1>2 DEF Apart
  <2>1. ASSUME NEW k \in 1..n, s[k] # Torn, e # Torn PROVE s[k].seq # e.seq
    <3>1. s[k] \in Range(s) /\ s[k].seq \in Nat /\ e.seq \in Nat
      BY <1>2, <2>1 DEF Range
    <3>2. s[k].seq < e.seq
      BY <2>1, <3>1 DEF Under
    <3> QED
      BY <3>1, <3>2
  <2>2. CASE i \in 1..n /\ j \in 1..n
    BY <1>1, <1>2, <2>2 DEF Apart
  <2>3. CASE i = n + 1 /\ j = n + 1
    BY <2>3
  <2>4. CASE i \in 1..n /\ j = n + 1
    BY <1>1, <2>1, <2>4
  <2>5. CASE i = n + 1 /\ j \in 1..n
    BY <1>1, <2>1, <2>5
  <2> QED
    BY <1>3, <2>2, <2>3, <2>4, <2>5
<1>5. Range(q) = Range(s) \cup {e}
  <2>1. Range(q) \subseteq Range(s) \cup {e}
    BY <1>1, <1>2, <1>3 DEF Range
  <2>2. n + 1 \in 1..(n + 1) /\ 1..n \subseteq 1..(n + 1)
    BY <1>1
  <2>3. Range(s) \cup {e} \subseteq Range(q)
    BY <1>1, <1>2, <2>2 DEF Range
  <2> QED
    BY <2>1, <2>3
<1> QED
  BY <1>1, <1>4, <1>5 DEF q

LEMMA AppendLinesApart ==
  ASSUME NEW L, NEW file \in Seq(L), NEW lines \in Seq(L), Apart(file), Apart(lines), Cross(file, lines)
  PROVE  LET q == AppendLines(file, lines)
         IN  q \in Seq(L) /\ Apart(q) /\ Range(q) \subseteq Range(file) \cup Range(lines)
<1> DEFINE q == AppendLines(file, lines)
<1>1. CASE IsTorn(file) /\ lines # <<>>
  <2> DEFINE a == Front(file)
             b == Tail(lines)
  <2>1. a \in Seq(L) /\ Apart(a) /\ Range(a) \subseteq Range(file)
    BY <1>1, FrontApart DEF IsTorn
  <2>2. b \in Seq(L) /\ Apart(b) /\ Range(b) \subseteq Range(lines)
    BY <1>1, TailApart
  <2>3. q = a \o b
    BY <1>1 DEF AppendLines
  <2> HIDE DEF a, b
  <2>4. Cross(a, b)
    BY <2>1, <2>2 DEF Cross
  <2>5. a \o b \in Seq(L) /\ Range(a \o b) = Range(a) \cup Range(b)
    BY <2>1, <2>2, CatRange
  <2>6. Apart(a \o b)
    BY <2>1, <2>2, <2>4, ApartCat
  <2> HIDE DEF q
  <2>7. q \in Seq(L) /\ Apart(q) /\ Range(q) \subseteq Range(file) \cup Range(lines)
    BY <2>1, <2>2, <2>3, <2>5, <2>6
  <2> QED
    BY <2>7 DEF q
<1>2. CASE ~(IsTorn(file) /\ lines # <<>>)
  <2>1. q = file \o lines
    BY <1>2 DEF AppendLines
  <2>2. file \o lines \in Seq(L) /\ Range(file \o lines) = Range(file) \cup Range(lines)
    BY CatRange
  <2>3. Apart(file \o lines)
    BY ApartCat
  <2> HIDE DEF q
  <2>4. q \in Seq(L) /\ Apart(q) /\ Range(q) \subseteq Range(file) \cup Range(lines)
    BY <2>1, <2>2, <2>3
  <2> QED
    BY <2>4 DEF q
<1> QED
  BY <1>1, <1>2

LEMMA PartialApart ==
  ASSUME NEW L, Torn \in L, \A r \in L : r.seq \in Nat, NEW file \in Seq(L), NEW lines \in Seq(L),
         Apart(file), Apart(lines), Cross(file, lines), NEW left \in Partial(file, lines)
  PROVE  left \in Seq(L) /\ Apart(left) /\ Range(left) \subseteq Range(file) \cup Range(lines) \cup {Torn}
<1>1. CASE left = file
  BY <1>1
<1>2. CASE left # file
  <2>1. PICK i \in 0..(Len(lines) - 1) :
          LET g == AppendLines(file, SubSeq(lines, 1, i))
          IN  left = IF IsTorn(g) THEN g ELSE Append(g, Torn)
    BY <1>2 DEF Partial
  <2> DEFINE cut == SubSeq(lines, 1, i)
             g == AppendLines(file, cut)
  <2>2. i \in 0..Len(lines)
    OBVIOUS
  <2>3. cut \in Seq(L) /\ Apart(cut) /\ Range(cut) \subseteq Range(lines)
    BY <2>2, CutApart
  <2>4. left = IF IsTorn(g) THEN g ELSE Append(g, Torn)
    BY <2>1
  <2> HIDE DEF cut
  <2>5. Cross(file, cut)
    BY <2>3 DEF Cross
  <2>6. g \in Seq(L) /\ Apart(g) /\ Range(g) \subseteq Range(file) \cup Range(cut)
    BY <2>3, <2>5, AppendLinesApart
  <2> HIDE DEF g
  <2>7. Append(g, Torn) \in Seq(L) /\ Apart(Append(g, Torn)) /\ Range(Append(g, Torn)) = Range(g) \cup {Torn}
    BY <2>6, AddApart
  <2> QED
    BY <2>3, <2>4, <2>6, <2>7
<1> QED
  BY <1>1, <1>2

LEMMA RenumberedApart ==
  ASSUME NEW D, NEW s \in Seq([msg : D, seq : Nat]), NEW n \in Nat
  PROVE  LET q == Renumbered(s, n)
         IN  Apart(q) /\ \A r \in Range(q) : r.seq \in Nat /\ n <= r.seq /\ r.seq < n + Len(s)
<1> DEFINE q == Renumbered(s, n)
           M == [msg : D, seq : Nat]
<1>1. s \in Seq(M)
  OBVIOUS
<1>2. DOMAIN q = DOMAIN s /\ \A i \in DOMAIN s : q[i] = [s[i] EXCEPT !.seq = n + i - 1]
  BY DEF Renumbered
<1>3. \A r \in M : \A x : [r EXCEPT !.seq = x].seq = x
  OBVIOUS
<1> HIDE DEF M
<1>4. DOMAIN s = 1..Len(s) /\ Len(s) \in Nat /\ \A i \in DOMAIN s : s[i] \in M
  BY <1>1
<1> HIDE DEF q
<1>5. ASSUME NEW i \in DOMAIN q PROVE q[i].seq = n + i - 1
  <2> DEFINE x == n + i - 1
  <2>1. i \in DOMAIN s /\ s[i] \in M /\ q[i] = [s[i] EXCEPT !.seq = x]
    BY <1>2, <1>4
  <2> HIDE DEF x
  <2>2. q[i].seq = x
    BY <1>3, <2>1
  <2> QED
    BY <2>2 DEF x
<1>6. Apart(q)
  <2> SUFFICES ASSUME NEW i \in DOMAIN q, NEW j \in DOMAIN q, q[i].seq = q[j].seq PROVE i = j
    BY DEF Apart
  <2>1. i \in Nat /\ j \in Nat
    BY <1>2, <1>4
  <2> QED
    BY <1>5, <2>1
<1>7. ASSUME NEW i \in DOMAIN q PROVE q[i].seq \in Nat /\ n <= q[i].seq /\ q[i].seq < n + Len(s)
  <2>1. i \in 1..Len(s) /\ q[i].seq = n + i - 1
    BY <1>2, <1>4, <1>5
  <2> QED
    BY <1>4, <2>1
<1>8. \A r \in Range(q) : r.seq \in Nat /\ n <= r.seq /\ r.seq < n + Len(s)
  BY <1>7 DEF Range
<1> QED
  BY <1>6, <1>8 DEF q

(* What the store holds under one id, and all of it: a chat that is not there   *)
(* has no lines.                                                                *)
Fine(b, file) == Apart(b) /\ Apart(file) /\ Cross(b, file)
WellNumbered(cs, buf, sq) ==
  \A k : /\ Fine(Get(buf, k, <<>>), Get(cs, k, <<>>))
         /\ k \in DOMAIN sq => Under(Get(buf, k, <<>>), sq[k]) /\ Under(Get(cs, k, <<>>), sq[k])

LEMMA NumberedIs ==
  ASSUME NEW hd, StoreGood(hd, disk, seqCounters, pending)
  PROVE  Numbered <=> WellNumbered(disk.chats, pending, seqCounters)
<1> DEFINE b(k) == Get(pending, k, <<>>)
           file(k) == Get(disk.chats, k, <<>>)
<1>1. OwnBuffer(hd, pending) /\ OwnChatMap(hd, disk.chats)
  BY DEF StoreGood, GoodDisks
<1>2. ASSUME NEW k
      PROVE  /\ Apart(Lines(k)) <=> Fine(b(k), file(k))
             /\ \A n : Under(Lines(k), n) <=> Under(b(k), n) /\ Under(file(k), n)
  <2> DEFINE L == LinesOf(Owners(hd, k[2]))
  <2>1. file(k) \in Seq(L)
    BY <1>1, OwnFile
  <2>2. b(k) \in Seq(L)
    <3>1. Seq(RecordsOf(Owners(hd, k[2]))) \subseteq Seq(L)
      BY OwnersAreDocs
    <3> HIDE DEF L
    <3>2. <<>> \in Seq(L)
      OBVIOUS
    <3> QED
      BY <1>1, <3>1, <3>2 DEF OwnBuffer, Get
  <2>3. Lines(k) = b(k) \o file(k)
    BY DEF Lines
  <2> HIDE DEF b, file, L
  <2>4. Apart(b(k) \o file(k)) <=> Apart(b(k)) /\ Apart(file(k)) /\ Cross(b(k), file(k))
    BY <2>1, <2>2, ApartCat
  <2>5. \A n : Under(b(k) \o file(k), n) <=> Under(b(k), n) /\ Under(file(k), n)
    BY <2>1, <2>2, UnderCat
  <2> QED
    BY <2>3, <2>4, <2>5 DEF Fine
<1>3. ASSUME NEW k
      PROVE  /\ Apart(Lines(k)) <=>
                  \A i, j \in Parsed(Lines(k)) : Lines(k)[i].seq = Lines(k)[j].seq => i = j
             /\ \A n : Under(Lines(k), n) <=> \A i \in Parsed(Lines(k)) : Lines(k)[i].seq < n
  BY DEF Apart, Under, Parsed, Range
<1>4. ASSUME NEW k, k \notin DOMAIN disk.chats \cup DOMAIN pending
      PROVE  Fine(b(k), file(k)) /\ \A n : Under(b(k), n) /\ Under(file(k), n)
  <2>1. b(k) = <<>> /\ file(k) = <<>>
    BY <1>4 DEF Get
  <2> HIDE DEF b, file
  <2> QED
    BY <2>1, ApartNone DEF Fine, Cross, Under
<1> HIDE DEF b, file
<1>5. Numbered <=> \A k \in DOMAIN disk.chats \cup DOMAIN pending :
                     Apart(Lines(k)) /\ (k \in DOMAIN seqCounters => Under(Lines(k), seqCounters[k]))
  BY <1>3 DEF Numbered
<1>6. Numbered <=> \A k \in DOMAIN disk.chats \cup DOMAIN pending :
                     /\ Fine(b(k), file(k))
                     /\ k \in DOMAIN seqCounters => Under(b(k), seqCounters[k]) /\ Under(file(k), seqCounters[k])
  BY <1>2, <1>5
<1>7. WellNumbered(disk.chats, pending, seqCounters) <=>
        \A k : /\ Fine(b(k), file(k))
               /\ k \in DOMAIN seqCounters => Under(b(k), seqCounters[k]) /\ Under(file(k), seqCounters[k])
  BY DEF WellNumbered, b, file
<1> QED
  BY <1>4, <1>6, <1>7

FilesApart(cs) == \A k : Apart(Get(cs, k, <<>>))
Fewer(s1, s2) == \A k \in DOMAIN s1 : k \in DOMAIN s2 /\ s1[k] = s2[k]

LEMMA NumberedLess ==
  ASSUME NEW cs, NEW buf, NEW sq, WellNumbered(cs, buf, sq), NEW s1, Fewer(s1, sq)
  PROVE  WellNumbered(cs, buf, s1)
BY DEF WellNumbered, Fewer

LEMMA NumberedFewer ==
  ASSUME NEW cs, NEW buf, NEW sq, WellNumbered(cs, buf, sq),
         NEW e, \A k : Get(e, k, <<>>) \in {<<>>, Get(cs, k, <<>>)},
         NEW b, \A k : Get(b, k, <<>>) \in {<<>>, Get(buf, k, <<>>)}
  PROVE  WellNumbered(e, b, sq)
<1>1. \A n : Under(<<>>, n)
  BY ApartNone DEF Under
<1>2. \A s : Cross(<<>>, s) /\ Cross(s, <<>>)
  BY ApartNone DEF Cross
<1> QED
  BY <1>1, <1>2, ApartNone DEF WellNumbered, Fine

LEMMA NumberedFiles ==
  ASSUME NEW cs, NEW buf, NEW sq, WellNumbered(cs, buf, sq)
  PROVE  FilesApart(cs)
BY DEF WellNumbered, Fine, FilesApart

LEMMA NumberedAfter ==
  ASSUME NEW cs, FilesApart(cs)
  PROVE  WellNumbered(cs, Empty, Empty)
<1>1. DOMAIN Empty = {} /\ \A k : Get(Empty, k, <<>>) = <<>>
  BY DEF Empty, Get
<1>2. \A s : Cross(<<>>, s)
  BY ApartNone DEF Cross
<1> QED
  BY <1>1, <1>2, ApartNone DEF WellNumbered, Fine, FilesApart

(* Two lines that a file and a buffer of the same ids are made of. *)
LEMMA LinesAre ==
  ASSUME NEW hd, NEW c
  PROVE  LET L == LinesOf(Owners(hd, c))
         IN  /\ Torn \in L /\ \A r \in L : r.seq \in Nat
             /\ Seq(RecordsOf(Owners(hd, c))) \subseteq Seq(L) /\ <<>> \in Seq(L)
<1> DEFINE L == LinesOf(Owners(hd, c))
<1>1. Torn \in L
  BY DEF LinesOf
<1>2. Torn.seq = 0
  BY DEF Torn
<1>3. ASSUME NEW r \in L PROVE r.seq \in Nat
  <2>1. CASE r = Torn
    BY <1>2, <2>1
  <2>2. CASE r \in RecordsOf(Owners(hd, c))
    BY <2>2 DEF RecordsOf
  <2> QED
    BY <2>1, <2>2 DEF LinesOf
<1>4. Seq(RecordsOf(Owners(hd, c))) \subseteq Seq(L)
  BY OwnersAreDocs
<1>5. <<>> \in Seq(L)
  <2> HIDE DEF L
  <2> QED
    OBVIOUS
<1> QED
  BY <1>1, <1>3, <1>4, <1>5

LEMMA CatNone ==
  ASSUME NEW L, NEW s \in Seq(L)
  PROVE  s \o <<>> = s /\ AppendLines(s, <<>>) = s
<1>1. s \o <<>> = s
  OBVIOUS
<1> QED
  BY <1>1 DEF AppendLines

(* Chats after the buffer of k is written: k has the buffer at its end. *)
LEMMA FlushAt ==
  ASSUME NEW hd, NEW t, TrailIn(GoodDisks(hd), t), NEW buf \in Buffers, OwnBuffer(hd, buf), NEW k
  PROVE  LET u == flushPending(t, buf, k)
             cs == Now(t).chats
             e == Now(u).chats
             b == Get(buf, k, <<>>)
         IN  /\ Get(e, k, <<>>) = AppendLines(Get(cs, k, <<>>), b)
             /\ \A x : x # k => Get(e, x, <<>>) = Get(cs, x, <<>>)
             /\ \A x : x \in DOMAIN e <=> x \in DOMAIN cs \/ (x = k /\ b # <<>>)
<1> DEFINE u == flushPending(t, buf, k)
           cs == Now(t).chats
           e == Now(u).chats
           b == Get(buf, k, <<>>)
           file == Get(cs, k, <<>>)
           v == AppendLines(file, b)
           L == LinesOf(Owners(hd, k[2]))
           Goal(q) == /\ Get(q, k, <<>>) = v
                      /\ \A x : x # k => Get(q, x, <<>>) = Get(cs, x, <<>>)
                      /\ \A x : x \in DOMAIN q <=> x \in DOMAIN cs \/ (x = k /\ b # <<>>)
<1>1. Now(t) \in GoodDisks(hd) /\ OwnChatMap(hd, cs)
  BY GoodChats
<1>2. file \in Seq(L)
  BY <1>1, OwnFile
<1>3. CASE b = <<>>
  <2>1. u = t
    BY <1>3 DEF flushPending
  <2>2. v = file
    BY <1>2, <1>3, CatNone
  <2>3. Goal(cs)
    BY <1>3, <2>2
  <2> QED
    BY <2>1, <2>3
<1>4. CASE b # <<>>
  <2>1. u = writeChat(t, k, v)
    BY <1>4 DEF flushPending, Get
  <2>2. k \in DOMAIN buf /\ buf[k] = b
    BY <1>4 DEF Get
  <2>3. k \in Keys
    BY <2>2, MapIs DEF Buffers
  <2>4. b \in Seq(L)
    <3>1. Seq(RecordsOf(Owners(hd, k[2]))) \subseteq Seq(L)
      BY LinesAre
    <3> QED
      BY <2>2, <3>1 DEF OwnBuffer
  <2> HIDE DEF u, b, file, L
  <2>5. v \in Seq(L)
    BY <1>2, <2>4, AppendLinesType
  <2> HIDE DEF v
  <2>6. Now(writeChat(t, k, v)).chats = Put(cs, k, v)
    BY <2>3, <2>5, WriteChatGood DEF L
  <2> DEFINE q == Put(cs, k, v)
  <2>7. DOMAIN q = DOMAIN cs \cup {k} /\ \A x : Get(q, x, <<>>) = IF x = k THEN v ELSE Get(cs, x, <<>>)
    <3>1. DOMAIN q = DOMAIN cs \cup {k}
      BY DEF Put
    <3>2. \A x : Get(q, x, <<>>) = IF x = k THEN v ELSE Get(cs, x, <<>>)
      BY GetPut
    <3> QED
      BY <3>1, <3>2
  <2> HIDE DEF q
  <2>8. Goal(q)
    BY <1>4, <2>7
  <2>9. e = q
    BY <2>1, <2>6 DEF q
  <2> HIDE DEF cs, e
  <2>10. Goal(e)
    BY <2>8, <2>9
  <2> QED
    BY <2>10 DEF u, cs, e, b, file, v
<1> QED
  BY <1>3, <1>4

LEMMA FlushNumbers ==
  ASSUME NEW hd, NEW t, TrailIn(GoodDisks(hd), t), NEW buf \in Buffers, OwnBuffer(hd, buf), NEW k, NEW sq,
         WellNumbered(Now(t).chats, buf, sq)
  PROVE  WellNumbered(Now(flushPending(t, buf, k)).chats, Drop(buf, k), sq)
<1> DEFINE u == flushPending(t, buf, k)
           cs == Now(t).chats
           e == Now(u).chats
           b == Get(buf, k, <<>>)
           file == Get(cs, k, <<>>)
           v == AppendLines(file, b)
           L == LinesOf(Owners(hd, k[2]))
<1>1. Get(e, k, <<>>) = v /\ \A x : x # k => Get(e, x, <<>>) = Get(cs, x, <<>>)
  BY FlushAt
<1>2. OwnChatMap(hd, cs)
  BY GoodChats
<1>3. file \in Seq(L)
  BY <1>2, OwnFile
<1>4. b \in Seq(L)
  <2>1. Seq(RecordsOf(Owners(hd, k[2]))) \subseteq Seq(L) /\ <<>> \in Seq(L)
    BY LinesAre
  <2> QED
    BY <2>1 DEF OwnBuffer, Get
<1>5. \A x : Get(Drop(buf, k), x, <<>>) = IF x = k THEN <<>> ELSE Get(buf, x, <<>>)
  BY GetDrop
<1>6. Fine(b, file) /\ (k \in DOMAIN sq => Under(b, sq[k]) /\ Under(file, sq[k]))
  BY DEF WellNumbered
<1> HIDE DEF e, b, file, L
<1>7. Cross(file, b)
  BY <1>6 DEF Fine, Cross
<1>8. Apart(v) /\ Range(v) \subseteq Range(file) \cup Range(b)
  BY <1>3, <1>4, <1>6, <1>7, AppendLinesApart DEF Fine
<1> HIDE DEF v
<1>9. Fine(<<>>, v)
  BY <1>8, ApartNone DEF Fine, Cross
<1>10. k \in DOMAIN sq => Under(<<>>, sq[k]) /\ Under(v, sq[k])
  BY <1>6, <1>8, ApartNone DEF Under
<1> HIDE DEF cs
<1>11. WellNumbered(cs, buf, sq)
  BY DEF cs
<1>12. WellNumbered(e, Drop(buf, k), sq)
  <2> SUFFICES ASSUME NEW x
               PROVE  /\ Fine(Get(Drop(buf, k), x, <<>>), Get(e, x, <<>>))
                      /\ x \in DOMAIN sq =>
                           Under(Get(Drop(buf, k), x, <<>>), sq[x]) /\ Under(Get(e, x, <<>>), sq[x])
    BY DEF WellNumbered
  <2>1. CASE x = k
    BY <1>1, <1>5, <1>9, <1>10, <2>1
  <2>2. CASE x # k
    BY <1>1, <1>5, <1>11, <2>2 DEF WellNumbered
  <2> QED
    BY <2>1, <2>2
<1> QED
  BY <1>12 DEF e

(* A chat that takes another name takes its messages and its counter along. *)
LEMMA RenameNumbers ==
  ASSUME NEW cs, NEW buf, NEW sq, WellNumbered(cs, buf, sq), NEW from \in DOMAIN cs, NEW to, from # to,
         Get(buf, from, <<>>) = <<>>, Get(buf, to, <<>>) = <<>>,
         NEW s1, \A x \in DOMAIN s1 \ {from, to} : x \in DOMAIN sq /\ s1[x] = sq[x],
         to \in DOMAIN s1 => from \in DOMAIN sq /\ s1[to] = sq[from]
  PROVE  WellNumbered(Drop(Put(cs, to, cs[from]), from), buf, s1)
<1> DEFINE v == cs[from]
           p == Put(cs, to, v)
           q == Drop(p, from)
<1>1. \A x : Get(p, x, <<>>) = IF x = to THEN v ELSE Get(cs, x, <<>>)
  BY GetPut
<1>2. Get(cs, from, <<>>) = v
  BY DEF Get
<1> HIDE DEF p, v
<1>3. \A x : Get(q, x, <<>>) = IF x = from THEN <<>> ELSE Get(p, x, <<>>)
  BY GetDrop
<1> HIDE DEF q
<1>4. (\A n : Under(<<>>, n)) /\ \A s : Cross(<<>>, s)
  BY ApartNone DEF Under, Cross
<1> SUFFICES ASSUME NEW x
             PROVE  /\ Fine(Get(buf, x, <<>>), Get(q, x, <<>>))
                    /\ x \in DOMAIN s1 => Under(Get(buf, x, <<>>), s1[x]) /\ Under(Get(q, x, <<>>), s1[x])
  BY DEF WellNumbered, p, q, v
<1>5. CASE x = from
  BY <1>3, <1>4, <1>5, ApartNone DEF Fine
<1>6. CASE x = to
  <2>1. Get(q, x, <<>>) = v
    BY <1>1, <1>3, <1>6
  <2>2. Apart(v) /\ (from \in DOMAIN sq => Under(v, sq[from]))
    BY <1>2 DEF WellNumbered, Fine
  <2> QED
    BY <1>4, <1>6, <2>1, <2>2, ApartNone DEF Fine
<1>7. CASE x # from /\ x # to
  <2>1. Get(q, x, <<>>) = Get(cs, x, <<>>)
    BY <1>1, <1>3, <1>7
  <2> QED
    BY <1>7, <2>1 DEF WellNumbered
<1> QED
  BY <1>5, <1>6, <1>7

LEMMA LoadedRange ==
  ASSUME NEW hd, NEW d \in GoodDisks(hd), NEW buf, OwnBuffer(hd, buf), NEW k
  PROVE  Range(loadChat(d, buf, k)) = Range(Get(buf, k, <<>>)) \cup (Range(Get(d.chats, k, <<>>)) \ {Torn})
BY LoadChatType

(* The messages of a chat that is merged into another are numbered after all    *)
(* that the other holds, buffered messages included.                            *)
LEMMA MergeNumbers ==
  ASSUME NEW hd, NEW dk \in GoodDisks(hd), NEW buf \in Buffers, OwnBuffer(hd, buf), NEW sq,
         NEW from, NEW to \in DOMAIN dk.chats, from # to,
         Owners(hd, from[2]) \subseteq Owners(hd, to[2]),
         WellNumbered(dk.chats, Drop(buf, from), sq)
  PROVE  LET moved == loadChat(dk, Drop(buf, from), from)
             n == MaxSeq(loadChat(dk, buf, to))
             v == AppendLines(dk.chats[to], Renumbered(moved, n))
         IN  /\ n \in Nat /\ Len(moved) \in Nat
             /\ Fine(Get(buf, to, <<>>), v)
             /\ Under(Get(buf, to, <<>>), n + Len(moved)) /\ Under(v, n + Len(moved))
             /\ Under(dk.chats[to], n + Len(moved))
<1> DEFINE b1 == Drop(buf, from)
           moved == loadChat(dk, b1, from)
           all == loadChat(dk, buf, to)
           n == MaxSeq(all)
           ren == Renumbered(moved, n)
           file == dk.chats[to]
           b == Get(buf, to, <<>>)
           v == AppendLines(file, ren)
           A == Owners(hd, from[2])
           B == Owners(hd, to[2])
           L == LinesOf(B)
<1>1. b1 \in Buffers /\ OwnBuffer(hd, b1)
  BY DropBuffer
<1>2. Get(b1, to, <<>>) = b /\ WellNumbered(dk.chats, b1, sq)
  BY GetDrop
<1> HIDE DEF b1
<1>3. moved \in Seq(RecordsOf(A))
  BY <1>1, LoadChatType
<1>4. /\ all \in Seq(RecordsOf(B)) /\ n \in Nat
      /\ Range(all) = Range(b) \cup (Range(Get(dk.chats, to, <<>>)) \ {Torn})
  <2>1. all \in Seq(RecordsOf(B))
    BY LoadChatType
  <2>2. n \in Nat
    BY LoadChatType
  <2>3. Range(all) = Range(b) \cup (Range(Get(dk.chats, to, <<>>)) \ {Torn})
    BY LoadedRange
  <2> QED
    BY <2>1, <2>2, <2>3
<1>5. Get(dk.chats, to, <<>>) = file
  BY DEF Get
<1>6. \A r \in Range(all) : r.seq \in Nat /\ r.seq < n
  <2> DEFINE R == RecordsOf(B)
  <2>1. \A r \in R : r.seq \in Nat
    BY DEF RecordsOf
  <2>2. Range(all) \subseteq R
    BY <1>4 DEF Range
  <2> HIDE DEF R, all
  <2>3. \A r \in Range(all) : r.seq < MaxSeq(all)
    BY <1>4, <2>1, MaxSeqType DEF R
  <2> QED
    BY <2>1, <2>2, <2>3
<1> HIDE DEF all, n
<1>7. file \in Seq(L) /\ b \in Seq(L)
  <2>1. Seq(RecordsOf(B)) \subseteq Seq(L) /\ <<>> \in Seq(L)
    BY LinesAre
  <2>2. OwnChatMap(hd, dk.chats)
    BY DEF GoodDisks
  <2> QED
    BY <2>1, <2>2 DEF OwnBuffer, OwnChatMap, Get
<1>8. ren \in Seq(L)
  BY <1>3, <1>4, RenumberedOwn
<1>9. Len(moved) \in Nat /\ Apart(ren) /\ \A r \in Range(ren) : r.seq \in Nat /\ n <= r.seq /\ r.seq < n + Len(moved)
  <2> DEFINE D == A \X Nat
  <2>1. moved \in Seq([msg : D, seq : Nat])
    BY <1>3 DEF RecordsOf
  <2> HIDE DEF D, moved
  <2>2. Len(moved) \in Nat
    BY <2>1
  <2> QED
    BY <1>4, <2>1, <2>2, RenumberedApart
<1>10. Fine(b, file)
  BY <1>2, <1>5 DEF WellNumbered
<1> HIDE DEF b, file, ren, moved, L, A, B
<1>11. \A r \in Range(file) : r # Torn => r.seq \in Nat /\ r.seq < n
  BY <1>4, <1>5, <1>6
<1>12. \A r \in Range(b) : r.seq \in Nat /\ r.seq < n
  BY <1>4, <1>6
<1>13. Cross(file, ren) /\ Cross(b, ren)
  <2>1. ASSUME NEW x, x \in Range(file) \cup Range(b), x # Torn, NEW y \in Range(ren) PROVE x.seq # y.seq
    <3>1. x.seq \in Nat /\ x.seq < n /\ y.seq \in Nat /\ n <= y.seq
      BY <1>9, <1>11, <1>12, <2>1
    <3> QED
      BY <1>4, <3>1
  <2> QED
    BY <2>1 DEF Cross
<1>14. Apart(v) /\ Range(v) \subseteq Range(file) \cup Range(ren)
  BY <1>7, <1>8, <1>9, <1>10, <1>13, AppendLinesApart DEF Fine
<1> HIDE DEF v
<1>15. Fine(b, v)
  BY <1>10, <1>13, <1>14 DEF Fine, Cross
<1>16. \A x \in Nat : x < n => x < n + Len(moved)
  BY <1>4, <1>9
<1>17. Under(b, n + Len(moved)) /\ Under(file, n + Len(moved))
  BY <1>11, <1>12, <1>16 DEF Under
<1>18. Under(v, n + Len(moved))
  BY <1>9, <1>14, <1>17 DEF Under
<1> QED
  BY <1>4, <1>9, <1>15, <1>17, <1>18 DEF n, all, moved, ren, file, b, v, b1

LEMMA NumberedPut ==
  ASSUME NEW cs, NEW buf, NEW sq, WellNumbered(cs, buf, sq), NEW to, NEW v, Fine(Get(buf, to, <<>>), v),
         NEW s1, \A x \in DOMAIN s1 \ {to} : x \in DOMAIN sq /\ s1[x] = sq[x],
         to \in DOMAIN s1 => Under(Get(buf, to, <<>>), s1[to]) /\ Under(v, s1[to])
  PROVE  WellNumbered(Put(cs, to, v), buf, s1)
<1> DEFINE p == Put(cs, to, v)
<1>1. \A x : Get(p, x, <<>>) = IF x = to THEN v ELSE Get(cs, x, <<>>)
  BY GetPut
<1> HIDE DEF p
<1> SUFFICES ASSUME NEW x
             PROVE  /\ Fine(Get(buf, x, <<>>), Get(p, x, <<>>))
                    /\ x \in DOMAIN s1 => Under(Get(buf, x, <<>>), s1[x]) /\ Under(Get(p, x, <<>>), s1[x])
  BY DEF WellNumbered, p
<1>2. CASE x = to
  BY <1>1, <1>2
<1>3. CASE x # to
  BY <1>1, <1>3 DEF WellNumbered
<1> QED
  BY <1>2, <1>3

(* The disks that a call may pass through, and where it may end. *)
ApartDisks == {dk \in GoodDisks(Anyone) : FilesApart(dk.chats)}

LEMMA ApartCalm == Calm(Anyone, ApartDisks)
<1> DEFINE H == Anyone
<1> HIDE DEF H
<1>1. ApartDisks \subseteq GoodDisks(H)
  BY DEF ApartDisks, H
<1>2. ASSUME NEW d \in ApartDisks, NEW e \in GoodDisks(H), e.chats = d.chats
      PROVE  e \in ApartDisks
  BY <1>2 DEF ApartDisks, H
<1>3. Calm(H, ApartDisks)
  BY <1>1, <1>2 DEF Calm
<1> QED
  BY <1>3 DEF H

LEMMA ApartOn ==
  ASSUME NEW t, TrailIn(ApartDisks, t)
  PROVE  TrailIn(GoodDisks(Anyone), t) /\ Now(t) \in ApartDisks /\ FilesApart(Now(t).chats)
<1>1. ApartDisks \subseteq GoodDisks(Anyone)
  BY DEF ApartDisks
<1>2. TrailIn(GoodDisks(Anyone), t)
  BY <1>1, TrailGrow
<1>3. Now(t) \in ApartDisks
  BY TrailFacts
<1> QED
  BY <1>2, <1>3 DEF ApartDisks

(* One more write whose files are apart. *)
LEMMA ApartMore ==
  ASSUME NEW t, TrailIn(ApartDisks, t), NEW x, TrailIn(GoodDisks(Anyone), Append(t, x)),
         FilesApart(Now(Append(t, x)).chats)
  PROVE  TrailIn(ApartDisks, Append(t, x)) /\ Now(Append(t, x)) = x
<1> DEFINE u == Append(t, x)
<1>1. t \in Seq(ApartDisks)
  BY DEF TrailIn
<1> DEFINE G == ApartDisks
<1> HIDE DEF G
<1>2. Len(t) \in Nat /\ u # <<>> /\ Len(u) = Len(t) + 1 /\ u[Len(t) + 1] = x
  BY <1>1
<1> HIDE DEF u
<1>3. Now(u) = x
  BY <1>2 DEF Now, Last
<1>4. x \in GoodDisks(Anyone)
  <2>1. TrailIn(GoodDisks(Anyone), u)
    BY DEF u
  <2>2. Now(u) \in GoodDisks(Anyone)
    BY <2>1, TrailFacts
  <2> QED
    BY <1>3, <2>2
<1>5. x \in ApartDisks
  BY <1>3, <1>4 DEF ApartDisks, u
<1>6. TrailIn(ApartDisks, Append(t, x))
  BY <1>5, TrailFacts
<1> QED
  BY <1>3, <1>6 DEF u

LEMMA FlushSame ==
  ASSUME NEW G, NEW t, TrailIn(G, t), NEW buf, NEW k
  PROVE  /\ Now(flushPending(<<Now(t)>>, buf, k)) = Now(flushPending(t, buf, k))
         /\ \/ flushPending(t, buf, k) = t
            \/ \E x : flushPending(t, buf, k) = Append(t, x)
<1> DEFINE v == AppendLines(Get(Now(t).chats, k, <<>>), buf[k])
           x == WithChats(Now(t), Put(Now(t).chats, k, v))
           o == <<Now(t)>>
<1>1. Now(o) = Now(t)
  BY DEF Now, Last
<1>2. CASE Get(buf, k, <<>>) = <<>>
  BY <1>1, <1>2 DEF flushPending
<1>3. CASE Get(buf, k, <<>>) # <<>>
  <2>1. flushPending(t, buf, k) = writeChat(t, k, v) /\ flushPending(o, buf, k) = writeChat(o, k, v)
    BY <1>1, <1>3 DEF flushPending
  <2>2. writeChat(t, k, v) = Append(t, x) /\ writeChat(o, k, v) = Append(o, x)
    <3> HIDE DEF o, v
    <3>1. writeChat(t, k, v) = Append(t, WithChats(Now(t), Put(Now(t).chats, k, v)))
      BY WritesAre
    <3>2. writeChat(o, k, v) = Append(o, WithChats(Now(o), Put(Now(o).chats, k, v)))
      BY WritesAre
    <3> QED
      BY <1>1, <3>1, <3>2
  <2>3. t \in Seq(G)
    BY DEF TrailIn
  <2> HIDE DEF x
  <2>4. Now(Append(t, x)) = x
    <3>1. Len(t) \in Nat /\ Append(t, x)[Len(t) + 1] = x /\ Len(Append(t, x)) = Len(t) + 1
      BY <2>3
    <3> QED
      BY <3>1 DEF Now, Last
  <2>5. Now(Append(o, x)) = x
    BY DEF Now, Last
  <2> QED
    BY <2>1, <2>2, <2>4, <2>5
<1> QED
  BY <1>2, <1>3

LEMMA FlushApart ==
  ASSUME NEW t, TrailIn(ApartDisks, t), NEW buf \in Buffers, OwnBuffer(Anyone, buf), NEW sq, NEW k,
         WellNumbered(Now(t).chats, buf, sq)
  PROVE  LET u == flushPending(t, buf, k)
         IN  /\ TrailIn(ApartDisks, u) /\ TrailIn(GoodDisks(Anyone), u)
             /\ WellNumbered(Now(u).chats, Drop(buf, k), sq)
<1> DEFINE u == flushPending(t, buf, k)
           hd == Anyone
<1>1. TrailIn(GoodDisks(hd), t)
  BY ApartOn
<1> HIDE DEF hd
<1>2. OwnBuffer(hd, buf)
  BY DEF hd
<1>3. TrailIn(GoodDisks(hd), u)
  BY <1>1, <1>2, FlushGood
<1>4. WellNumbered(Now(u).chats, Drop(buf, k), sq)
  BY <1>1, <1>2, FlushNumbers
<1>5. u = t \/ \E x : u = Append(t, x)
  BY <1>1, FlushSame
<1> HIDE DEF u
<1>6. FilesApart(Now(u).chats)
  BY <1>4, NumberedFiles
<1>7. TrailIn(ApartDisks, u)
  <2>1. CASE u = t
    BY <2>1
  <2>2. CASE u # t
    <3>1. PICK x : u = Append(t, x)
      BY <1>5, <2>2
    <3>2. TrailIn(GoodDisks(Anyone), Append(t, x)) /\ FilesApart(Now(Append(t, x)).chats)
      BY <1>3, <1>6, <3>1 DEF hd
    <3>3. TrailIn(ApartDisks, Append(t, x))
      BY <3>2, ApartMore
    <3> QED
      BY <3>1, <3>3
  <2> QED
    BY <2>1, <2>2
<1> QED
  BY <1>3, <1>4, <1>7 DEF u, hd

(* A rename of a chat file, from apart files to apart files. *)
LEMMA RenameApart ==
  ASSUME NEW t, TrailIn(ApartDisks, t), NEW from \in DOMAIN Now(t).chats, NEW to \in Keys,
         Owners(Anyone, from[2]) \subseteq Owners(Anyone, to[2])
  PROVE  LET u == RenameChat(t, from, to)
         IN  TrailIn(ApartDisks, u) /\ Now(u).chats = Drop(Put(Now(t).chats, to, Now(t).chats[from]), from)
<1> DEFINE u == RenameChat(t, from, to)
           cs == Now(t).chats
           v == cs[from]
           p == Put(cs, to, v)
           q == Drop(p, from)
           x == WithChats(Now(t), q)
<1>1. TrailIn(GoodDisks(Anyone), t) /\ FilesApart(cs)
  BY ApartOn
<1>2. TrailIn(GoodDisks(Anyone), u) /\ Now(u).chats = q
  BY <1>1, RenameChatGood
<1>3. u = Append(t, x)
  BY WritesAre
<1>4. FilesApart(q)
  <2>1. \A k : Get(p, k, <<>>) = IF k = to THEN v ELSE Get(cs, k, <<>>)
    BY GetPut
  <2>2. Get(cs, from, <<>>) = v
    BY DEF Get
  <2> HIDE DEF p, v
  <2>3. \A k : Get(q, k, <<>>) = IF k = from THEN <<>> ELSE Get(p, k, <<>>)
    BY GetDrop
  <2> HIDE DEF q
  <2> QED
    BY <1>1, <2>1, <2>2, <2>3, ApartNone DEF FilesApart
<1> HIDE DEF u, x, q
<1>5. TrailIn(ApartDisks, Append(t, x))
  BY <1>2, <1>3, <1>4, ApartMore
<1> QED
  BY <1>2, <1>3, <1>5 DEF u, q

LEMMA UnlinkApart ==
  ASSUME NEW t, TrailIn(ApartDisks, t), NEW k
  PROVE  LET u == Unlink(t, k) IN TrailIn(ApartDisks, u) /\ Now(u).chats = Drop(Now(t).chats, k)
<1> DEFINE u == Unlink(t, k)
           cs == Now(t).chats
           q == Drop(cs, k)
           x == WithChats(Now(t), q)
<1>1. TrailIn(GoodDisks(Anyone), t) /\ FilesApart(cs)
  BY ApartOn
<1>2. TrailIn(GoodDisks(Anyone), u) /\ Now(u).chats = q
  BY <1>1, UnlinkGood
<1>3. u = Append(t, x)
  BY WritesAre
<1>4. FilesApart(q)
  <2>1. \A y : Get(q, y, <<>>) = IF y = k THEN <<>> ELSE Get(cs, y, <<>>)
    BY GetDrop
  <2> HIDE DEF q
  <2> QED
    BY <1>1, <2>1, ApartNone DEF FilesApart
<1> HIDE DEF u, x, q
<1>5. TrailIn(ApartDisks, Append(t, x))
  BY <1>2, <1>3, <1>4, ApartMore
<1> QED
  BY <1>2, <1>3, <1>5 DEF u, q

LEMMA WriteApart ==
  ASSUME NEW t, TrailIn(ApartDisks, t), NEW k \in Keys, NEW v \in Seq(LinesOf(Owners(Anyone, k[2]))), Apart(v)
  PROVE  LET u == writeChat(t, k, v) IN TrailIn(ApartDisks, u) /\ Now(u).chats = Put(Now(t).chats, k, v)
<1> DEFINE u == writeChat(t, k, v)
           cs == Now(t).chats
           q == Put(cs, k, v)
           x == WithChats(Now(t), q)
<1>1. TrailIn(GoodDisks(Anyone), t) /\ FilesApart(cs)
  BY ApartOn
<1>2. TrailIn(GoodDisks(Anyone), u) /\ Now(u).chats = q
  BY <1>1, WriteChatGood
<1>3. u = Append(t, x)
  BY WritesAre
<1>4. FilesApart(q)
  <2>1. \A y : Get(q, y, <<>>) = IF y = k THEN v ELSE Get(cs, y, <<>>)
    BY GetPut
  <2> HIDE DEF q
  <2> QED
    BY <1>1, <2>1 DEF FilesApart
<1> HIDE DEF u, x, q
<1>5. TrailIn(ApartDisks, Append(t, x))
  BY <1>2, <1>3, <1>4, ApartMore
<1> QED
  BY <1>2, <1>3, <1>5 DEF u, q

(* A chat without a line gives its counter to another. *)
GivenTo(cs, buf, sq, s1, from, to) ==
  /\ from \in DOMAIN sq \ DOMAIN s1 /\ to \in DOMAIN s1 /\ s1[to] = sq[from]
  /\ Get(buf, from, <<>>) = <<>> /\ from \notin DOMAIN cs

LEMMA MergeTrail ==
  ASSUME NEW t, TrailIn(ApartDisks, t), NEW buf \in Buffers, OwnBuffer(Anyone, buf), NEW sq,
         WellNumbered(Now(t).chats, buf, sq), NEW from, NEW to \in Keys, from # to,
         Owners(Anyone, from[2]) \subseteq Owners(Anyone, to[2])
  PROVE  LET u == renameOrMergeChat(t, buf, from, to)
             s1 == MergedSeqs(sq, Now(t), buf, from, to)
         IN  /\ TrailIn(ApartDisks, u)
             /\ \/ WellNumbered(Now(u).chats, Drop(buf, from), s1)
                \/ to \in DOMAIN Drop(buf, from) /\ to \in DOMAIN Now(u).chats
                \/ GivenTo(Now(t).chats, buf, sq, s1, from, to)
<1> DEFINE hd == Anyone
           w == flushPending(t, buf, from)
           d == Now(w)
           cs == d.chats
           b1 == Drop(buf, from)
           moved == loadChat(d, b1, from)
           n == MaxSeq(loadChat(d, buf, to))
           ren == Renumbered(moved, n)
           one == Drop(sq, from)
           rest == Drop(one, to)
           u == renameOrMergeChat(t, buf, from, to)
           s1 == MergedSeqs(sq, Now(t), buf, from, to)
           Goal == /\ TrailIn(ApartDisks, u)
                   /\ \/ WellNumbered(Now(u).chats, b1, s1)
                      \/ to \in DOMAIN b1 /\ to \in DOMAIN Now(u).chats
                      \/ GivenTo(Now(t).chats, buf, sq, s1, from, to)
<1> SUFFICES Goal
  OBVIOUS
<1>1. TrailIn(ApartDisks, w) /\ TrailIn(GoodDisks(Anyone), w) /\ WellNumbered(cs, b1, sq)
  BY FlushApart
<1>2. TrailIn(GoodDisks(Anyone), t)
  BY ApartOn
<1>3. Now(flushPending(<<Now(t)>>, buf, from)) = d
  BY <1>2, FlushSame
<1>4. \A x : x \in DOMAIN cs <=> x \in DOMAIN Now(t).chats \/ (x = from /\ Get(buf, from, <<>>) # <<>>)
  BY <1>2, FlushAt
<1>5. d \in GoodDisks(Anyone)
  BY <1>1, TrailFacts
<1>6. /\ DOMAIN rest = DOMAIN sq \ {from, to}
      /\ \A x \in DOMAIN rest : rest[x] = sq[x]
  <2>1. DOMAIN one = DOMAIN sq \ {from} /\ \A x \in DOMAIN sq \ {from} : one[x] = sq[x]
    BY DropAt
  <2> HIDE DEF one
  <2>2. DOMAIN rest = DOMAIN one \ {to} /\ \A x \in DOMAIN one \ {to} : rest[x] = one[x]
    BY DropAt
  <2> HIDE DEF rest
  <2> QED
    BY <2>1, <2>2
<1>7. s1 = IF {from, to} \subseteq DOMAIN cs THEN Put(rest, to, n + Len(moved))
           ELSE IF from \in DOMAIN sq THEN Put(rest, to, sq[from]) ELSE rest
  BY <1>3 DEF MergedSeqs
<1>8. u = IF from \notin DOMAIN cs THEN w
          ELSE IF to \notin DOMAIN cs THEN RenameChat(w, from, to)
          ELSE IF moved = <<>> THEN Unlink(w, from)
          ELSE Unlink(writeChat(w, to, AppendLines(cs[to], ren)), from)
  BY DEF renameOrMergeChat
<1>9. \A x : Get(b1, x, <<>>) = IF x = from THEN <<>> ELSE Get(buf, x, <<>>)
  BY GetDrop
<1>10. \A v : LET q == Put(rest, to, v)
             IN  /\ DOMAIN q = (DOMAIN sq \ {from}) \cup {to} /\ q[to] = v
                 /\ \A x \in DOMAIN q \ {to} : x \in DOMAIN sq /\ q[x] = sq[x]
  <2> HIDE DEF rest
  <2> QED
    BY <1>6 DEF Put
<1> HIDE DEF rest, one, w, u, s1, b1
<1>11. CASE from \notin DOMAIN cs
  <2>1. u = w
    BY <1>8, <1>11
  <2>2. CASE from \in DOMAIN sq
    <3>1. s1 = Put(rest, to, sq[from])
      BY <1>7, <1>11, <2>2
    <3>2. DOMAIN s1 = (DOMAIN sq \ {from}) \cup {to} /\ s1[to] = sq[from]
      BY <1>10, <3>1
    <3>3. Get(buf, from, <<>>) = <<>> /\ from \notin DOMAIN Now(t).chats
      BY <1>4, <1>11
    <3>4. GivenTo(Now(t).chats, buf, sq, s1, from, to)
      BY <2>2, <3>2, <3>3 DEF GivenTo
    <3> QED
      BY <1>1, <2>1, <3>4
  <2>3. CASE from \notin DOMAIN sq
    <3>1. s1 = rest
      BY <1>7, <1>11, <2>3
    <3>2. Fewer(s1, sq)
      BY <1>6, <3>1 DEF Fewer
    <3>3. WellNumbered(cs, b1, s1)
      BY <1>1, <3>2, NumberedLess
    <3> QED
      BY <1>1, <2>1, <3>3
  <2> QED
    BY <2>2, <2>3
<1>12. CASE from \in DOMAIN cs /\ to \notin DOMAIN cs
  <2> DEFINE q == Drop(Put(cs, to, cs[from]), from)
  <2>1. u = RenameChat(w, from, to)
    BY <1>8, <1>12
  <2>2. TrailIn(ApartDisks, RenameChat(w, from, to)) /\ Now(RenameChat(w, from, to)).chats = q
    BY <1>1, <1>12, RenameApart
  <2>3. TrailIn(ApartDisks, u) /\ Now(u).chats = q
    BY <2>1, <2>2
  <2>4. to \in DOMAIN q
    <3> DEFINE p == Put(cs, to, cs[from])
    <3>1. to \in DOMAIN p
      BY DEF Put
    <3> HIDE DEF p
    <3>2. DOMAIN Drop(p, from) = DOMAIN p \ {from}
      BY DropAt
    <3> QED
      BY <3>1, <3>2 DEF p
  <2>5. CASE to \in DOMAIN b1
    BY <2>3, <2>4, <2>5
  <2>6. CASE to \notin DOMAIN b1
    <3>1. Get(b1, to, <<>>) = <<>> /\ Get(b1, from, <<>>) = <<>>
      BY <1>9, <2>6 DEF Get
    <3>2. s1 = IF from \in DOMAIN sq THEN Put(rest, to, sq[from]) ELSE rest
      BY <1>7, <1>12
    <3>3. /\ \A x \in DOMAIN s1 \ {from, to} : x \in DOMAIN sq /\ s1[x] = sq[x]
          /\ to \in DOMAIN s1 => from \in DOMAIN sq /\ s1[to] = sq[from]
      BY <1>6, <1>10, <3>2
    <3> HIDE DEF cs
    <3>4. WellNumbered(q, b1, s1)
      BY <1>1, <1>12, <3>1, <3>3, RenameNumbers
    <3> QED
      BY <2>3, <3>4
  <2> QED
    BY <2>5, <2>6
<1>13. CASE from \in DOMAIN cs /\ to \in DOMAIN cs
  <2> DEFINE v == AppendLines(cs[to], ren)
             m == n + Len(moved)
             b == Get(b1, to, <<>>)
  <2>1. /\ n \in Nat /\ Len(moved) \in Nat /\ Fine(Get(buf, to, <<>>), v)
        /\ Under(Get(buf, to, <<>>), m) /\ Under(v, m) /\ Under(cs[to], m)
    BY <1>1, <1>5, <1>13, MergeNumbers DEF b1
  <2>2. b = Get(buf, to, <<>>)
    BY <1>9
  <2>3. s1 = Put(rest, to, m)
    BY <1>7, <1>13
  <2>4. s1[to] = m /\ \A x \in DOMAIN s1 \ {to} : x \in DOMAIN sq /\ s1[x] = sq[x]
    BY <1>10, <2>3
  <2>5. v \in Seq(LinesOf(Owners(hd, to[2])))
    <3>1. OwnBuffer(hd, b1) /\ b1 \in Buffers
      BY DropBuffer DEF b1
    <3>2. moved \in Seq(RecordsOf(Owners(hd, from[2])))
      BY <1>5, <3>1, LoadChatType
    <3> HIDE DEF moved, n
    <3>3. ren \in Seq(LinesOf(Owners(hd, to[2])))
      BY <2>1, <3>2, RenumberedOwn
    <3>4. cs[to] \in Seq(LinesOf(Owners(hd, to[2])))
      BY <1>5, <1>13 DEF GoodDisks, OwnChatMap
    <3> HIDE DEF ren, cs
    <3> QED
      BY <3>3, <3>4, AppendLinesType
  <2> HIDE DEF v, m, b, cs, moved, ren, n
  <2>6. CASE moved = <<>>
    <3>1. u = Unlink(w, from)
      BY <1>8, <1>13, <2>6
    <3>2. TrailIn(ApartDisks, Unlink(w, from)) /\ Now(Unlink(w, from)).chats = Drop(cs, from)
      BY <1>1, UnlinkApart DEF cs
    <3>3. WellNumbered(cs, b1, s1)
      <4>1. Get(cs, to, <<>>) = cs[to]
        BY <1>13 DEF Get
      <4> SUFFICES ASSUME NEW x
                   PROVE  /\ Fine(Get(b1, x, <<>>), Get(cs, x, <<>>))
                          /\ x \in DOMAIN s1 => Under(Get(b1, x, <<>>), s1[x]) /\ Under(Get(cs, x, <<>>), s1[x])
        BY DEF WellNumbered
      <4>2. CASE x = to
        BY <1>1, <2>1, <2>2, <2>4, <4>1, <4>2 DEF WellNumbered, b
      <4>3. CASE x # to
        BY <1>1, <2>4, <4>3 DEF WellNumbered
      <4> QED
        BY <4>2, <4>3
    <3>4. \A x : Get(Drop(cs, from), x, <<>>) \in {<<>>, Get(cs, x, <<>>)}
      BY GetDrop
    <3>5. WellNumbered(Drop(cs, from), b1, s1)
      BY <3>3, <3>4, NumberedFewer
    <3> QED
      BY <3>1, <3>2, <3>5
  <2>7. CASE moved # <<>>
    <3> DEFINE y == writeChat(w, to, v)
               p == Put(cs, to, v)
    <3>1. u = Unlink(y, from)
      BY <1>8, <1>13, <2>7 DEF v
    <3>2. Apart(v)
      BY <2>1 DEF Fine
    <3>3. TrailIn(ApartDisks, y) /\ Now(y).chats = p
      BY <1>1, <2>5, <3>2, WriteApart DEF cs
    <3> HIDE DEF y
    <3>4. TrailIn(ApartDisks, Unlink(y, from)) /\ Now(Unlink(y, from)).chats = Drop(Now(y).chats, from)
      BY <3>3, UnlinkApart
    <3>5. WellNumbered(p, b1, s1)
      <4>1. Fine(Get(b1, to, <<>>), v)
        BY <2>1, <2>2 DEF b
      <4>2. to \in DOMAIN s1 => Under(Get(b1, to, <<>>), s1[to]) /\ Under(v, s1[to])
        BY <2>1, <2>2, <2>4 DEF b
      <4> QED
        BY <1>1, <2>4, <4>1, <4>2, NumberedPut
    <3> HIDE DEF p
    <3>6. \A x : Get(Drop(p, from), x, <<>>) \in {<<>>, Get(p, x, <<>>)}
      BY GetDrop
    <3>7. WellNumbered(Drop(p, from), b1, s1)
      BY <3>5, <3>6, NumberedFewer
    <3> QED
      BY <3>1, <3>3, <3>4, <3>7
  <2> QED
    BY <2>6, <2>7
<1> QED
  BY <1>11, <1>12, <1>13

(* A step from a well-numbered store. *)
NumReady == Ready(Anyone) /\ WellNumbered(disk.chats, pending, seqCounters)
NumNext == WellNumbered(disk'.chats, pending', seqCounters')
NumDone == NumNext \/ Overtaken' \/ CounterKept \/ CounterGiven

LEMMA GoneNumbers ==
  ASSUME NEW t, TrailIn(ApartDisks, t), Interrupted(t)
  PROVE  NumNext
<1>1. disk' \in ApartDisks
  BY CallIn
<1>2. seqCounters' = Empty /\ pending' = Empty
  BY DEF Interrupted, EndsOn
<1> DEFINE e == disk'
<1> HIDE DEF e
<1>3. FilesApart(e.chats)
  BY <1>1 DEF ApartDisks, e
<1>4. WellNumbered(e.chats, Empty, Empty)
  BY <1>3, NumberedAfter
<1> QED
  BY <1>2, <1>4 DEF NumNext, e

(* Disks with the chat files cs, except those that are gone. *)
Shrunk(cs) == {e \in GoodDisks(Anyone) : \A k : Get(e.chats, k, <<>>) \in {<<>>, Get(cs, k, <<>>)}}

LEMMA ShrunkCalm ==
  ASSUME NEW cs
  PROVE  Calm(Anyone, Shrunk(cs))
BY DEF Calm, Shrunk

LEMMA ShrunkNumbers ==
  ASSUME NumReady, disk' \in Shrunk(disk.chats),
         \/ seqCounters' = seqCounters /\ pending' = pending
         \/ seqCounters' = Empty /\ pending' = Empty
  PROVE  NumNext
<1> DEFINE e == disk'
           cs == disk.chats
<1>1. \A k : Get(e.chats, k, <<>>) \in {<<>>, Get(cs, k, <<>>)}
  BY DEF Shrunk
<1>2. WellNumbered(cs, pending, seqCounters)
  BY DEF NumReady
<1> HIDE DEF e, cs
<1>3. WellNumbered(e.chats, pending, seqCounters)
  BY <1>1, <1>2, NumberedFewer
<1>4. FilesApart(e.chats)
  BY <1>3, NumberedFiles
<1>5. WellNumbered(e.chats, Empty, Empty)
  BY <1>4, NumberedAfter
<1> QED
  BY <1>3, <1>5 DEF e, NumNext

LEMMA CallKeeps ==
  ASSUME NEW t, Completes(t, seqCounters, pending) \/ Interrupted(t)
  PROVE  \/ seqCounters' = seqCounters /\ pending' = pending
         \/ seqCounters' = Empty /\ pending' = Empty
BY DEF Completes, Interrupted, EndsOn

LEMMA ShrunkStart ==
  ASSUME NumReady
  PROVE  Ready(Anyone) /\ disk \in Shrunk(disk.chats) /\ Calm(Anyone, Shrunk(disk.chats))
BY ShrunkCalm DEF NumReady, Ready, StoreGood, Shrunk

LEMMA OpenChatNumbers ==
  ASSUME NumReady, NEW d \in Docs, OpenChat(d)
  PROVE  NumNext
<1>1. disk' \in Shrunk(disk.chats)
  BY ShrunkStart, OpenChatIn
<1>2. \E t : Completes(t, seqCounters, pending) \/ Interrupted(t)
  BY DEF OpenChat
<1> QED
  BY <1>1, <1>2, CallKeeps, ShrunkNumbers

LEMMA FileRenamedNumbers ==
  ASSUME NumReady, NEW d \in Docs, NEW f \in Paths, fileRenamed(d, f)
  PROVE  NumNext
<1>1. disk' \in Shrunk(disk.chats)
  BY ShrunkStart, FileRenamedIn
<1>2. \E t : Completes(t, seqCounters, pending) \/ Interrupted(t)
  BY DEF fileRenamed
<1> QED
  BY <1>1, <1>2, CallKeeps, ShrunkNumbers

LEMMA CreateProjectNumbers ==
  ASSUME NumReady, NEW p \in Extra, createProject(p)
  PROVE  NumNext
<1> DEFINE G == Shrunk(disk.chats)
<1>1. \A e \in GoodDisks(Anyone) :
        /\ e.chats = disk.chats /\ e.trash = disk.trash
        /\ DOMAIN e.files = DOMAIN disk.files \cup {p}
        => e \in G
  BY DEF Shrunk
<1>2. Ready(Anyone) /\ disk \in G /\ Calm(Anyone, G)
  BY ShrunkStart
<1> HIDE DEF G
<1>3. disk' \in G
  BY <1>1, <1>2, CreateProjectIn
<1>4. \E t : Completes(t, seqCounters, pending) \/ Interrupted(t)
  BY DEF createProject
<1> QED
  BY <1>3, <1>4, CallKeeps, ShrunkNumbers DEF G

LEMMA DeleteProjectNumbers ==
  ASSUME NumReady, NEW p \in Extra, deleteProject(p)
  PROVE  NumNext
<1> DEFINE cs == disk.chats
           G == Shrunk(cs)
           t == <<disk>>
           u == ToTrash(t, p)
           its == ChatsIn(disk, p)
           q == Restrict(cs, DOMAIN cs \ its)
<1>1. Ready(Anyone) /\ disk \in G /\ Calm(Anyone, G)
  BY ShrunkStart
<1>2. TrailIn(G, t) /\ TrailIn(GoodDisks(Anyone), t) /\ Now(t) = disk /\ p \in Projects
  BY <1>1, TrailStarts DEF Shrunk, Projects
<1>3. TrailIn(GoodDisks(Anyone), u) /\ Now(u).chats = Restrict(Now(t).chats, DOMAIN Now(t).chats \ ChatsIn(Now(t), p))
  BY <1>2, ToTrashGood
<1>4. Now(u).chats = q
  BY <1>2, <1>3
<1>5. \E x : u = Append(t, x)
  BY DEF ToTrash
<1> HIDE DEF t, u
<1>6. Now(u) \in GoodDisks(Anyone)
  BY <1>3, TrailFacts
<1>7. \A k : Get(q, k, <<>>) \in {<<>>, Get(cs, k, <<>>)}
  BY DEF Get, Restrict
<1> HIDE DEF q
<1>8. Now(u) \in G
  BY <1>4, <1>6, <1>7 DEF Shrunk
<1> HIDE DEF G
<1>9. TrailIn(G, u)
  <2>1. PICK x : u = Append(t, x)
    BY <1>5
  <2>2. t \in Seq(G) /\ Len(t) \in Nat
    BY <1>2 DEF TrailIn
  <2>3. Len(u) = Len(t) + 1 /\ u[Len(t) + 1] = x
    BY <2>1, <2>2
  <2>4. Now(u) = x
    BY <2>3 DEF Now, Last
  <2> QED
    BY <1>2, <1>8, <2>1, <2>4, TrailFacts
<1>10. disk' \in G
  BY <1>1, <1>9, DeleteProjectIn DEF t, u
<1>11. \E y : Completes(y, seqCounters, pending) \/ Interrupted(y)
  BY DEF deleteProject
<1> QED
  BY <1>10, <1>11, CallKeeps, ShrunkNumbers DEF G

(* Disks with exactly the chat files cs. *)
Same(cs) == {e \in ApartDisks : e.chats = cs}

LEMMA SameCalm ==
  ASSUME NEW cs
  PROVE  Calm(Anyone, Same(cs))
BY ApartCalm DEF Calm, Same

LEMMA SameStart ==
  ASSUME NumReady
  PROVE  /\ Ready(Anyone) /\ disk \in Same(disk.chats) /\ Calm(Anyone, Same(disk.chats))
         /\ pending \in Buffers /\ OwnBuffer(Anyone, pending) /\ PanelsGood(Anyone, path, ids, reply)
<1>1. FilesApart(disk.chats)
  BY NumberedFiles DEF NumReady
<1> QED
  BY <1>1, SameCalm DEF NumReady, Ready, StoreGood, Same, ApartDisks

LEMMA SameOn ==
  ASSUME NEW cs, NEW t, TrailIn(Same(cs), t)
  PROVE  TrailIn(ApartDisks, t) /\ Now(t).chats = cs /\ Now(t) \in GoodDisks(Anyone)
<1>1. Same(cs) \subseteq ApartDisks
  BY DEF Same
<1>2. TrailIn(ApartDisks, t)
  BY <1>1, TrailGrow
<1>3. Now(t) \in Same(cs)
  BY TrailFacts
<1> QED
  BY <1>2, <1>3 DEF Same, ApartDisks

LEMMA GivenIs ==
  ASSUME NEW from, NEW to, GivenTo(disk.chats, pending, seqCounters, seqCounters', from, to)
  PROVE  CounterGiven
<1>1. Get(pending, from, <<>>) = <<>> /\ Get(disk.chats, from, <<>>) = <<>>
  BY DEF GivenTo, Get
<1>2. Lines(from) = <<>>
  <2>1. <<>> \in Seq({}) 
    OBVIOUS
  <2> QED
    BY <1>1, <2>1, CatNone DEF Lines
<1> QED
  BY <1>2 DEF CounterGiven, GivenTo

LEMMA FirstSaveNumbers ==
  ASSUME NumReady, NEW d \in Docs, NEW f \in Paths, FirstSave(d, f)
  PROVE  NumDone
<1> DEFINE cs == disk.chats
           G == Same(cs)
           resolved == resolveChatForFile(<<disk>>, f)
           r == Now(resolved)
           to == Resolved(r, f)
           k == ids[d]
           trail == renameOrMergeChat(resolved, pending, k, to)
           sq == MergedSeqs(seqCounters, r, pending, k, to)
           buf == Drop(pending, k)
<1>1. /\ path[d] = None
      /\ \/ disk' = disk /\ pending' = pending /\ seqCounters' = seqCounters
         \/ k # None /\ (Completes(trail, sq, buf) \/ Interrupted(trail))
  BY DEF FirstSave, mem
<1>2. /\ Calm(Anyone, G) /\ disk \in G /\ pending \in Buffers /\ OwnBuffer(Anyone, pending)
      /\ PanelsGood(Anyone, path, ids, reply) /\ WellNumbered(cs, pending, seqCounters)
  BY SameStart DEF NumReady
<1>3. TrailIn(G, <<disk>>) /\ d \in Anyone[f] /\ Anyone[f] # {}
  BY <1>2, TrailStarts, AnyoneIs
<1>4. TrailIn(G, resolved)
  BY <1>2, <1>3, CalmResolve
<1> HIDE DEF resolved
<1>5. TrailIn(ApartDisks, resolved) /\ r.chats = cs /\ r \in GoodDisks(Anyone)
  BY <1>4, SameOn
<1>6. to \in Keys /\ d \in Owners(Anyone, to[2])
  BY <1>3, <1>5, AnyoneIs, ResolvedHeld
<1>7. to[2] # TempOf(d)
  <2>1. PICK g \in Paths : chatIdForPath(r, f) = HashOf(g)
    BY <1>5 DEF GoodDisks, OwnIdMap, chatIdForPath, Get
  <2>2. HashOf(g) # TempOf(d)
    BY IdsDistinct
  <2>3. to[2] = chatIdForPath(r, f)
    BY DEF Resolved
  <2> QED
    BY <2>1, <2>2, <2>3
<1> HIDE DEF to
<1>8. CASE disk' = disk /\ pending' = pending /\ seqCounters' = seqCounters
  BY <1>2, <1>8 DEF NumDone, NumNext
<1>9. CASE k # None /\ (Completes(trail, sq, buf) \/ Interrupted(trail))
  <2>1. k = <<Default, TempOf(d)>>
    BY <1>1, <1>2, <1>9 DEF PanelsGood
  <2>2. k[2] = TempOf(d) /\ k # to
    BY <1>7, <2>1
  <2>3. Owners(Anyone, k[2]) \subseteq Owners(Anyone, to[2])
    <3>1. Owners(Anyone, TempOf(d)) = {d}
      BY TempOwners
    <3> QED
      BY <1>6, <2>2, <3>1
  <2> HIDE DEF k
  <2>4. WellNumbered(r.chats, pending, seqCounters)
    BY <1>2, <1>5
  <2>5. /\ TrailIn(ApartDisks, trail)
        /\ \/ WellNumbered(Now(trail).chats, buf, sq)
           \/ to \in DOMAIN buf /\ to \in DOMAIN Now(trail).chats
           \/ GivenTo(r.chats, pending, seqCounters, sq, k, to)
    BY <1>2, <1>5, <1>6, <2>2, <2>3, <2>4, MergeTrail
  <2> HIDE DEF trail, sq, buf, r
  <2>6. CASE Interrupted(trail)
    BY <2>5, <2>6, GoneNumbers DEF NumDone
  <2>7. CASE Completes(trail, sq, buf)
    <3>1. disk' = Now(trail) /\ seqCounters' = sq /\ pending' = buf
      BY <2>7 DEF Completes
    <3>2. CASE WellNumbered(Now(trail).chats, buf, sq)
      BY <3>1, <3>2 DEF NumDone, NumNext
    <3>3. CASE to \in DOMAIN buf /\ to \in DOMAIN Now(trail).chats
      BY <3>1, <3>3 DEF NumDone, Overtaken
    <3>4. CASE GivenTo(r.chats, pending, seqCounters, sq, k, to)
      <4>1. GivenTo(disk.chats, pending, seqCounters, seqCounters', k, to)
        BY <1>5, <3>1, <3>4
      <4> QED
        BY <4>1, GivenIs DEF NumDone
    <3> QED
      BY <2>5, <3>2, <3>3, <3>4
  <2> QED
    BY <1>9, <2>6, <2>7
<1> QED
  BY <1>1, <1>8, <1>9

LEMMA MoveNumbers ==
  ASSUME NumReady, NEW f \in Paths, NEW p \in Projects, moveFileToProject(f, p)
  PROVE  NumDone
<1> DEFINE cs == disk.chats
           G == Same(cs)
           sq == seqCounters
<1>1. /\ Calm(Anyone, G) /\ disk \in G /\ pending \in Buffers /\ OwnBuffer(Anyone, pending)
      /\ WellNumbered(cs, pending, sq) /\ Ready(Anyone)
  BY SameStart DEF NumReady
<1> HIDE DEF G
<1>2. PICK entered \in Seq(G), from \in Projects, c \in Hashes :
        /\ from # p /\ TrailIn(G, entered)
        /\ Now(entered).chats = disk.chats /\ Now(entered).trash = disk.trash
        /\ MovesChat(entered, <<from, c>>, <<p, c>>)
  BY <1>1, MoveStart
<1> DEFINE old == <<from, c>>
           new == <<p, c>>
           w == flushPending(entered, pending, old)
           a == Now(w).chats
           b1 == Drop(pending, old)
           trail == MovedTrail(entered, old, new)
           s1 == MovedSeqs(old, new)
<1>3. /\ old \in Keys /\ new \in Keys /\ old[2] = c /\ new[2] = c /\ old # new
  BY <1>2, MoveKeys
<1>4. Completes(trail, s1, b1) \/ Interrupted(trail)
  BY <1>2 DEF MovesChat
<1> HIDE DEF old, new
<1>5. TrailIn(ApartDisks, entered)
  BY <1>2, SameOn DEF G
<1>6. TrailIn(GoodDisks(Anyone), entered) /\ WellNumbered(Now(entered).chats, pending, sq)
  BY <1>1, <1>2, <1>5, ApartOn
<1>7. TrailIn(ApartDisks, w) /\ WellNumbered(a, b1, sq)
  BY <1>1, <1>5, <1>6, FlushApart
<1>8. \A x : x \in DOMAIN a <=> x \in DOMAIN Now(entered).chats \/ (x = old /\ Get(pending, old, <<>>) # <<>>)
  BY <1>1, <1>6, FlushAt
<1>9. trail = IF old \in DOMAIN a THEN RenameChat(w, old, new) ELSE w
  BY DEF MovedTrail
<1>10. s1 = IF old \in DOMAIN sq THEN Put(Drop(sq, old), new, sq[old]) ELSE sq
  BY DEF MovedSeqs
<1>11. old \in DOMAIN sq =>
         /\ old \notin DOMAIN s1 /\ new \in DOMAIN s1 /\ s1[new] = sq[old]
         /\ \A x \in DOMAIN s1 \ {old, new} : x \in DOMAIN sq /\ s1[x] = sq[x]
  <2> DEFINE one == Drop(sq, old)
  <2>1. DOMAIN one = DOMAIN sq \ {old} /\ \A x \in DOMAIN sq \ {old} : one[x] = sq[x]
    BY DropAt
  <2> HIDE DEF one, s1
  <2>2. old \in DOMAIN sq => s1 = Put(one, new, sq[old])
    BY <1>10 DEF one
  <2> QED
    BY <1>3, <2>1, <2>2 DEF Put
<1>12. Get(b1, old, <<>>) = <<>>
  BY GetDrop
<1> HIDE DEF w, trail, s1, b1
<1>13. CASE old \notin DOMAIN a
  <2>1. trail = w
    BY <1>9, <1>13
  <2>2. CASE Interrupted(trail)
    BY <1>7, <2>1, <2>2, GoneNumbers DEF NumDone
  <2>3. CASE Completes(trail, s1, b1)
    <3>1. disk' = Now(w) /\ seqCounters' = s1 /\ pending' = b1
      BY <2>1, <2>3 DEF Completes
    <3>2. CASE old \in DOMAIN sq
      <4>1. Get(pending, old, <<>>) = <<>> /\ old \notin DOMAIN cs
        BY <1>2, <1>8, <1>13
      <4>2. GivenTo(cs, pending, sq, s1, old, new)
        BY <1>11, <3>2, <4>1 DEF GivenTo
      <4>3. GivenTo(disk.chats, pending, seqCounters, seqCounters', old, new)
        BY <3>1, <4>2
      <4> QED
        BY <4>3, GivenIs DEF NumDone
    <3>3. CASE old \notin DOMAIN sq
      <4>1. s1 = sq
        BY <1>10, <3>3
      <4> QED
        BY <1>7, <3>1, <4>1 DEF NumDone, NumNext
    <3> QED
      BY <3>2, <3>3
  <2> QED
    BY <1>4, <2>2, <2>3
<1>14. CASE old \in DOMAIN a
  <2> DEFINE q == Drop(Put(a, new, a[old]), old)
  <2>1. trail = RenameChat(w, old, new)
    BY <1>9, <1>14
  <2>2. Owners(Anyone, old[2]) \subseteq Owners(Anyone, new[2])
    BY <1>3
  <2>3. TrailIn(ApartDisks, RenameChat(w, old, new)) /\ Now(RenameChat(w, old, new)).chats = q
    BY <1>3, <1>7, <1>14, <2>2, RenameApart
  <2>4. TrailIn(ApartDisks, trail) /\ Now(trail).chats = q
    BY <2>1, <2>3
  <2>5. new \in DOMAIN q /\ old \notin DOMAIN q
    <3> DEFINE o == Put(a, new, a[old])
    <3>1. new \in DOMAIN o
      BY DEF Put
    <3> HIDE DEF o
    <3>2. DOMAIN Drop(o, old) = DOMAIN o \ {old}
      BY DropAt
    <3> QED
      BY <1>3, <3>1, <3>2 DEF o
  <2>6. CASE Interrupted(trail)
    BY <2>4, <2>6, GoneNumbers DEF NumDone
  <2>7. CASE Completes(trail, s1, b1)
    <3>1. disk' = Now(trail) /\ seqCounters' = s1 /\ pending' = b1
      BY <2>7 DEF Completes
    <3>2. CASE new \in DOMAIN b1
      BY <2>4, <2>5, <3>1, <3>2 DEF NumDone, Overtaken
    <3>3. CASE old \notin DOMAIN sq /\ new \in DOMAIN sq
      <4>1. s1 = sq
        BY <1>10, <3>3
      <4>2. old \in DOMAIN disk.chats \cup DOMAIN pending
        BY <1>2, <1>8, <1>14 DEF Get
      <4>3. new \in DOMAIN disk'.chats /\ old \notin DOMAIN disk'.chats
        BY <2>4, <2>5, <3>1
      <4>4. CounterKept
        BY <1>3, <3>1, <3>3, <4>1, <4>2, <4>3 DEF CounterKept
      <4> QED
        BY <4>4 DEF NumDone
    <3>4. CASE new \notin DOMAIN b1 /\ (old \in DOMAIN sq \/ new \notin DOMAIN sq)
      <4>1. Get(b1, new, <<>>) = <<>>
        BY <3>4 DEF Get
      <4>2. /\ \A x \in DOMAIN s1 \ {old, new} : x \in DOMAIN sq /\ s1[x] = sq[x]
            /\ new \in DOMAIN s1 => old \in DOMAIN sq /\ s1[new] = sq[old]
        BY <1>10, <1>11, <3>4
      <4> HIDE DEF a
      <4>3. WellNumbered(q, b1, s1)
        BY <1>3, <1>7, <1>12, <1>14, <4>1, <4>2, RenameNumbers
      <4> QED
        BY <2>4, <3>1, <4>3 DEF NumDone, NumNext
    <3> QED
      BY <3>2, <3>3, <3>4
  <2> QED
    BY <1>4, <2>6, <2>7
<1> QED
  BY <1>13, <1>14

LEMMA NumberedAt ==
  ASSUME NEW cs, NEW buf, NEW sq, WellNumbered(cs, buf, sq), NEW k, NEW e, NEW b,
         \A x : x # k => Get(e, x, <<>>) = Get(cs, x, <<>>) /\ Get(b, x, <<>>) = Get(buf, x, <<>>),
         NEW s1, \A x \in DOMAIN s1 \ {k} : x \in DOMAIN sq /\ s1[x] = sq[x],
         Fine(Get(b, k, <<>>), Get(e, k, <<>>)),
         k \in DOMAIN s1 => Under(Get(b, k, <<>>), s1[k]) /\ Under(Get(e, k, <<>>), s1[k])
  PROVE  WellNumbered(e, b, s1)
<1> SUFFICES ASSUME NEW x
             PROVE  /\ Fine(Get(b, x, <<>>), Get(e, x, <<>>))
                    /\ x \in DOMAIN s1 => Under(Get(b, x, <<>>), s1[x]) /\ Under(Get(e, x, <<>>), s1[x])
  BY DEF WellNumbered
<1>1. CASE x = k
  BY <1>1
<1>2. CASE x # k
  BY <1>2 DEF WellNumbered
<1> QED
  BY <1>1, <1>2

LEMMA AppendNumbers ==
  ASSUME NumReady, NEW d \in Docs, appendChatMessage(d)
  PROVE  NumNext
<1> DEFINE hd == Anyone
           k == ids[d]
           O == Owners(hd, k[2])
           L == LinesOf(O)
           n == Cardinality(said[d]) + 1
           load == loadChat(disk, pending, k)
           seq == Get(seqCounters, k, MaxSeq(load))
           record == [msg |-> <<d, n>>, seq |-> seq]
           buffered == Get(pending, k, <<>>)
           lines == Append(buffered, record)
           cs == disk.chats
           file == Get(cs, k, <<>>)
           s1 == Put(seqCounters, k, seq + 1)
<1>1. /\ k # None /\ seqCounters' = s1
      /\ \/ disk' = disk /\ pending' = Put(pending, k, lines)
         \/ /\ pending' = Drop(pending, k)
            /\ \/ disk' = disk
               \/ \E x \in {AppendLines(file, lines)} \cup Partial(file, lines) :
                    disk' = Now(writeChat(<<disk>>, k, x))
  BY DEF appendChatMessage, Count
<1>2. /\ disk \in GoodDisks(hd) /\ seqCounters \in Counters /\ pending \in Buffers
      /\ OwnBuffer(hd, pending) /\ PanelsGood(hd, path, ids, reply) /\ SaidGood(said)
      /\ WellNumbered(cs, pending, seqCounters)
  BY DEF NumReady, Ready, StoreGood
<1>3. k \in Keys /\ d \in O
  BY <1>1, <1>2 DEF PanelsGood, Held
<1>4. n \in Nat
  <2>1. IsFiniteSet(said[d])
    BY <1>2 DEF SaidGood
  <2> QED
    BY <2>1, FS_CardinalityType
<1> HIDE DEF n
<1>5. Fine(buffered, file) /\ (k \in DOMAIN seqCounters => Under(buffered, seqCounters[k]) /\ Under(file, seqCounters[k]))
  BY <1>2 DEF WellNumbered
<1>6. load \in Seq(RecordsOf(O)) /\ MaxSeq(load) \in Nat
  BY <1>2, LoadChatType
<1>7. Range(load) = Range(buffered) \cup (Range(file) \ {Torn})
  BY <1>2, LoadedRange
<1>8. \A r \in Range(load) : r.seq < MaxSeq(load)
  <2> DEFINE R == RecordsOf(O)
  <2>1. \A r \in R : r.seq \in Nat
    BY DEF RecordsOf
  <2> HIDE DEF R, load
  <2> QED
    BY <1>6, <2>1, MaxSeqType DEF R
<1>9. seq \in Nat /\ Under(buffered, seq) /\ Under(file, seq)
  <2> DEFINE m == MaxSeq(load)
  <2> HIDE DEF m, load, k, buffered, file
  <2>1. CASE k \in DOMAIN seqCounters
    <3>1. Get(seqCounters, k, m) \in Nat
      BY <1>2, <1>6, GetMap DEF Counters, m
    <3>2. seq = seqCounters[k]
      BY <2>1 DEF Get
    <3> QED
      BY <1>5, <2>1, <3>1, <3>2 DEF m
  <2>2. CASE k \notin DOMAIN seqCounters
    <3>1. seq = MaxSeq(load)
      BY <2>2 DEF Get
    <3> HIDE DEF seq
    <3> QED
      BY <1>6, <1>7, <1>8, <3>1 DEF Under
  <2> QED
    BY <2>1, <2>2
<1> HIDE DEF seq, load
<1>10. record \in RecordsOf(O) /\ record.seq = seq
  BY <1>3, <1>4, <1>9 DEF RecordsOf
<1>11. buffered \in Seq(RecordsOf(O))
  <2>1. CASE k \in DOMAIN pending
    BY <1>2, <2>1 DEF Get, OwnBuffer
  <2>2. CASE k \notin DOMAIN pending
    BY <2>2 DEF Get
  <2> QED
    BY <2>1, <2>2
<1>12. file \in Seq(L)
  <2>1. OwnChatMap(hd, cs)
    BY <1>2 DEF GoodDisks
  <2> QED
    BY <2>1, OwnFile
<1>13. Torn \in L /\ (\A r \in L : r.seq \in Nat) /\ buffered \in Seq(L) /\ record \in L
  BY <1>10, <1>11, LinesAre DEF LinesOf
<1>14. \A x : Get(Put(pending, k, lines), x, <<>>) = IF x = k THEN lines ELSE Get(pending, x, <<>>)
  BY GetPut
<1>15. \A x : Get(Drop(pending, k), x, <<>>) = IF x = k THEN <<>> ELSE Get(pending, x, <<>>)
  BY GetDrop
<1>16. s1[k] = seq + 1 /\ \A x \in DOMAIN s1 \ {k} : x \in DOMAIN seqCounters /\ s1[x] = seqCounters[x]
  BY DEF Put
<1>17. Get(cs, k, <<>>) = file
  OBVIOUS
<1> HIDE DEF record, buffered, file, L, s1, k
<1>18. lines \in Seq(L) /\ Apart(lines) /\ Range(lines) = Range(buffered) \cup {record}
  <2>1. Apart(buffered)
    BY <1>5 DEF Fine
  <2>2. record # Torn => Under(buffered, record.seq) /\ record.seq \in Nat
    BY <1>9, <1>10
  <2> QED
    BY <1>13, <2>1, <2>2, AddApart
<1> HIDE DEF lines
<1>19. Cross(lines, file) /\ Cross(file, lines)
  <2>1. Cross(buffered, file)
    BY <1>5 DEF Fine
  <2>2. \A r \in Range(file) : r \in L
    BY <1>12 DEF Range
  <2>3. \A r \in Range(file) : r # Torn => r.seq # record.seq
    BY <1>9, <1>10, <1>13, <2>2 DEF Under
  <2> QED
    BY <1>18, <2>1, <2>3 DEF Cross
<1>20. Under(file, seq + 1) /\ Under(lines, seq + 1)
  <2>1. (\A r \in Range(file) : r \in L) /\ (\A r \in Range(lines) : r \in L)
    BY <1>12, <1>18 DEF Range
  <2>2. Under(file, seq + 1)
    BY <1>9, <1>13, <2>1 DEF Under
  <2>3. Under(lines, seq + 1)
    BY <1>9, <1>10, <1>13, <1>18, <2>1 DEF Under
  <2> QED
    BY <2>2, <2>3
<1>21. Apart(file) /\ Apart(<<>>) /\ Range(<<>>) = {}
  BY <1>5, ApartNone DEF Fine
<1>22. ASSUME disk' = disk, pending' = Put(pending, k, lines) PROVE NumNext
  <2> DEFINE b == Put(pending, k, lines)
  <2>1. /\ \A x : x # k => Get(cs, x, <<>>) = Get(cs, x, <<>>) /\ Get(b, x, <<>>) = Get(pending, x, <<>>)
        /\ Get(b, k, <<>>) = lines
    BY <1>14
  <2> HIDE DEF b
  <2>2. Fine(Get(b, k, <<>>), Get(cs, k, <<>>))
    BY <1>17, <1>18, <1>19, <1>21, <2>1 DEF Fine
  <2>3. k \in DOMAIN s1 => Under(Get(b, k, <<>>), s1[k]) /\ Under(Get(cs, k, <<>>), s1[k])
    BY <1>16, <1>17, <1>20, <2>1
  <2>4. WellNumbered(cs, b, s1)
    BY <1>2, <1>16, <2>1, <2>2, <2>3, NumberedAt
  <2> QED
    BY <1>1, <1>22, <2>4 DEF NumNext, b
<1>23. ASSUME NEW x, Apart(x), Under(x, seq + 1), NEW e, \A y : Get(e, y, <<>>) = IF y = k THEN x ELSE Get(cs, y, <<>>)
       PROVE  WellNumbered(e, Drop(pending, k), s1)
  <2> DEFINE b == Drop(pending, k)
  <2>1. /\ \A y : y # k => Get(e, y, <<>>) = Get(cs, y, <<>>) /\ Get(b, y, <<>>) = Get(pending, y, <<>>)
        /\ Get(b, k, <<>>) = <<>> /\ Get(e, k, <<>>) = x
    BY <1>15, <1>23
  <2> HIDE DEF b
  <2>2. Fine(Get(b, k, <<>>), Get(e, k, <<>>))
    BY <1>21, <1>23, <2>1 DEF Fine, Cross
  <2>3. k \in DOMAIN s1 => Under(Get(b, k, <<>>), s1[k]) /\ Under(Get(e, k, <<>>), s1[k])
    BY <1>16, <1>21, <1>23, <2>1 DEF Under
  <2>4. WellNumbered(e, b, s1)
    BY <1>2, <1>16, <2>1, <2>2, <2>3, NumberedAt
  <2> QED
    BY <2>4 DEF b
<1>24. ASSUME disk' = disk, pending' = Drop(pending, k) PROVE NumNext
  <2>1. \A y : Get(cs, y, <<>>) = IF y = k THEN file ELSE Get(cs, y, <<>>)
    BY <1>17
  <2>2. WellNumbered(cs, Drop(pending, k), s1)
    BY <1>20, <1>21, <1>23, <2>1
  <2> QED
    BY <1>1, <1>24, <2>2 DEF NumNext
<1>25. ASSUME NEW x \in {AppendLines(file, lines)} \cup Partial(file, lines),
              disk' = Now(writeChat(<<disk>>, k, x)), pending' = Drop(pending, k)
       PROVE  NumNext
  <2>1. x \in Seq(L) /\ Apart(x) /\ Range(x) \subseteq Range(file) \cup Range(lines) \cup {Torn}
    <3>1. CASE x = AppendLines(file, lines)
      BY <1>12, <1>18, <1>19, <1>21, <3>1, AppendLinesApart
    <3>2. CASE x \in Partial(file, lines)
      BY <1>12, <1>13, <1>18, <1>19, <1>21, <3>2, PartialApart
    <3> QED
      BY <3>1, <3>2
  <2>2. Under(x, seq + 1)
    BY <1>20, <2>1 DEF Under
  <2> DEFINE t == <<disk>>
             q == Put(cs, k, x)
  <2>3. TrailIn(GoodDisks(hd), t) /\ Now(t) = disk
    BY <1>2, TrailStarts
  <2>4. x \in Seq(LinesOf(Owners(hd, k[2])))
    BY <2>1 DEF L
  <2> HIDE DEF t
  <2>5. Now(writeChat(t, k, x)).chats = Put(Now(t).chats, k, x)
    BY <1>3, <2>3, <2>4, WriteChatGood
  <2>6. disk'.chats = q
    BY <1>25, <2>3, <2>5 DEF t
  <2>7. \A y : Get(q, y, <<>>) = IF y = k THEN x ELSE Get(cs, y, <<>>)
    BY GetPut
  <2> HIDE DEF q
  <2>8. WellNumbered(q, Drop(pending, k), s1)
    BY <1>23, <2>1, <2>2, <2>7
  <2> QED
    BY <1>1, <1>25, <2>6, <2>8 DEF NumNext
<1> QED
  BY <1>1, <1>22, <1>24, <1>25

LEMMA NumStep ==
  ASSUME NumReady, [Next]_vars
  PROVE  NumDone
<1>1. WellNumbered(disk.chats, pending, seqCounters) /\ FilesApart(disk.chats)
  BY NumberedFiles DEF NumReady
<1>2. CASE UNCHANGED <<disk, mem>>
  BY <1>1, <1>2 DEF NumDone, NumNext, mem
<1>3. CASE UNCHANGED vars
  BY <1>1, <1>3 DEF NumDone, NumNext, vars
<1>4. CASE Next
  <2>1. ASSUME NEW d \in Docs, ClosePanel(d) \/ Answered(d) PROVE NumDone
    BY <1>2, <2>1 DEF ClosePanel, Answered
  <2>2. ASSUME NEW d \in Docs, OpenChat(d) \/ appendChatMessage(d) PROVE NumDone
    BY <2>2, OpenChatNumbers, AppendNumbers DEF NumDone
  <2>3. ASSUME NEW d \in Docs, NEW f \in Paths, FirstSave(d, f) \/ fileRenamed(d, f) PROVE NumDone
    BY <2>3, FirstSaveNumbers, FileRenamedNumbers DEF NumDone
  <2>4. ASSUME NEW p \in Extra, createProject(p) \/ deleteProject(p) PROVE NumDone
    BY <2>4, CreateProjectNumbers, DeleteProjectNumbers DEF NumDone
  <2>5. ASSUME NEW f \in Paths, NEW p \in Projects, moveFileToProject(f, p) PROVE NumDone
    BY <2>5, MoveNumbers
  <2>6. ASSUME ProcessEnds PROVE NumDone
    <3>1. disk' = disk /\ seqCounters' = Empty /\ pending' = Empty
      BY <2>6 DEF ProcessEnds, EndsOn
    <3> QED
      BY <1>1, <3>1, NumberedAfter DEF NumDone, NumNext
  <2> QED
    BY <1>4, <2>1, <2>2, <2>3, <2>4, <2>5, <2>6 DEF Next
<1> QED
  BY <1>3, <1>4

LEMMA NumberedInv == DiskInv => (Numbered <=> WellNumbered(disk.chats, pending, seqCounters))
BY NumberedIs DEF DiskInv, Ready

(* No step numbers two messages of a chat alike or leaves its counter behind    *)
(* one of them, whatever appends, first saves, merges, moves, failed writes and *)
(* restarts come before it (appendChatMessage, renameOrMergeChat, nextSeq and   *)
(* flushPending of store.ts), except when a chat is renamed to one whose        *)
(* opening messages are still buffered, or when a move or a rebind leaves a     *)
(* chat with a counter that is not its own.                                     *)
THEOREM SeqsStayDistinct == Spec => SeqsDistinct
<1> DEFINE Step == Numbered => Numbered' \/ Overtaken' \/ CounterKept \/ CounterGiven
<1>1. Init => DiskInv
  BY DiskInvInit
<1>2. DiskInv /\ [Next]_vars => DiskInv'
  BY DiskInvNext
<1>3. DiskInv /\ DiskInv' /\ [Next]_vars => [Step]_vars
  <2> SUFFICES ASSUME DiskInv, DiskInv', [Next]_vars, Numbered
               PROVE  Numbered' \/ Overtaken' \/ CounterKept \/ CounterGiven
    OBVIOUS
  <2>1. Ready(Anyone) /\ Ready(Anyone)'
    BY DEF DiskInv
  <2>2. StoreGood(Anyone, disk, seqCounters, pending)
    BY <2>1 DEF Ready
  <2>3. NumReady
    BY <2>1, <2>2, NumberedIs DEF NumReady
  <2>4. NumDone
    BY <2>3, NumStep
  <2>6. DiskInv' => (Numbered <=> WellNumbered(disk.chats, pending, seqCounters))'
    BY NumberedInv, PTL
  <2>7. Numbered' <=> NumNext
    BY <2>6 DEF NumNext
  <2> QED
    BY <2>4, <2>7 DEF NumDone
<1> HIDE DEF Step
<1>4. DiskInv /\ [Next]_vars => [Step]_vars
  BY <1>2, <1>3
<1>5. Spec => [][Step]_vars
  BY <1>1, <1>2, <1>4, PTL DEF Spec
<1> QED
  BY <1>5 DEF Step, SeqsDistinct
=============================================================================
