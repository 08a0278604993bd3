---------------------------- MODULE ProjectStore ----------------------------
(***************************************************************************)
(* The project and chat store of the office editors                        *)
(* (packages/project-store/src/store.ts) with the chat panels that use it  *)
(* through the project:* IPC handlers.                                     *)
(*                                                                         *)
(* Everything the store does is synchronous, so one call is one step of    *)
(* the main process; but a call makes several writes, and the process may  *)
(* end between two of them.  A call is therefore described by its TRAIL,   *)
(* the sequence of disk contents it passes through: it completes in the    *)
(* last of them or is interrupted in an earlier one.                       *)
(*                                                                         *)
(* A document is identified by itself and not by its path, so that a path  *)
(* can be given up by one document and taken by the next.  Names, dates    *)
(* and texts are left out: a message is its document and a number.         *)
(***************************************************************************)
EXTENDS Naturals, Sequences, FiniteSets, Functions, SequencesExt, ArrayOps

CONSTANTS
  Docs,         \* documents
  Paths,        \* absolute file paths
  Extra,        \* ids createProject can hand out
  None,         \* no path, no ids
  Default,      \* the project "default"
  MaxMsgs,      \* bound: messages said
  MaxEvents,    \* bound: ends of the process, failed appends, renames and moves
  MaxTroubles   \* bound: ends of the process and failed appends

ASSUME StoreAssumption ==
  /\ None \notin Paths \cup Docs \cup Extra \cup {Default} /\ Default \notin Extra
  /\ {MaxMsgs, MaxEvents, MaxTroubles} \subseteq Nat
  /\ MaxMsgs <= 200    \* the least limit loadChat is called with, so its cut takes nothing away

VARIABLES
  disk,         \* index.json, the project.json files, the chats, the trash
  seqCounters,  \* <<project, chat>> -> the seq the next message gets
  pending,      \* <<project, chat>> -> opening messages not yet on disk
  path,         \* document -> its path, None while it is unsaved
  ids,          \* document -> the <<project, chat>> its panel holds, or None
  reply,        \* document -> the ids a rebind answered, not yet received
  said,         \* document -> messages its panel appended
  late,         \* history: messages said under ids the index no longer gives
  had,          \* history: path -> documents that were ever saved there
  crashes, faults, renames

mem == <<seqCounters, pending>>
vars == <<disk, seqCounters, pending, path, ids, reply, said, late, had,
          crashes, faults, renames>>
history == <<said, late, had>>

Projects == Extra \cup {Default}
HashOf(f) == <<"hash", f>>        \* chatIdForFile: distinct paths, distinct hashes
\* Bug: two unsaved documents opened together get the same temporary id.
TempOf_Shared(d) == <<"unsaved", None>>
\* chatKeyFor of the panel: a temporary id of the document's own.
TempOf(d) == <<"unsaved", d>>
Torn == [msg |-> <<None, 0>>, seq |-> 0]    \* what a write that failed half-way leaves: no line end
Count(s) == Cardinality(s)
MoreEvents == crashes + faults + renames < MaxEvents
Trouble == MoreEvents /\ crashes + faults < MaxTroubles

\* Functions with a domain that grows and shrinks, as Map and JSON objects do.
Put(f, k, v) == [x \in DOMAIN f \cup {k} |-> IF x = k THEN v ELSE f[x]]
Drop(f, k) == Restrict(f, DOMAIN f \ {k})
Get(f, k, other) == IF k \in DOMAIN f THEN f[k] ELSE other
Empty == [x \in {} |-> {}]
-----------------------------------------------------------------------------
(***************************************************************************)
(* Writes.  writeJson replaces a file through a rename, so each is one     *)
(* step of the trail; a write into the index covers its three tables.      *)
(***************************************************************************)
Now(trail) == Last(trail)
writeIndex(trail, projects, fileMap, chatIds) ==
  Append(trail, [Now(trail) EXCEPT !.projects = projects, !.fileMap = fileMap,
                                   !.chatIdByPath = chatIds])
writeProject(trail, p, fs) == Append(trail, [Now(trail) EXCEPT !.files = Put(@, p, fs)])
writeChat(trail, k, lines) == Append(trail, [Now(trail) EXCEPT !.chats = Put(@, k, lines)])

\* appendFileSync: a line joins a torn one that has no line end, and both
\* then fail to parse.
IsTorn(file) == file # <<>> /\ Last(file) = Torn
AppendLines(file, lines) ==
  IF IsTorn(file) /\ lines # <<>> THEN Front(file) \o Tail(lines) ELSE file \o lines
\* A write that fails leaves some of its lines and, perhaps, a part of the next.
Partial(file, lines) ==
  LET got == {AppendLines(file, SubSeq(lines, 1, i)) : i \in 0..(Len(lines) - 1)}
  IN  {file} \cup {IF IsTorn(g) THEN g ELSE Append(g, Torn) : g \in got}

Records(file) == Kept(file, {i \in DOMAIN file : file[i] # Torn})
MaxSeq(records) == Max({r.seq + 1 : r \in Range(records)} \cup {0})   \* one more than the largest seq

\* Array.sort by seq, which is stable.
BySeq(s) ==
  LET Rank(i) == Count({j \in DOMAIN s : s[j].seq < s[i].seq \/ (s[j].seq = s[i].seq /\ j <= i)})
  IN  [n \in DOMAIN s |-> s[CHOOSE i \in DOMAIN s : Rank(i) = n]]

\* loadChat: the buffered opening messages and the lines that parse, by seq.
loadChat(d, buf, k) == BySeq(Get(buf, k, <<>>) \o Records(Get(d.chats, k, <<>>)))

ensureDefaultProject(trail) ==
  LET d == Now(trail)
      made == writeProject(trail, Default, {})
  IN  IF Default \in DOMAIN d.files THEN trail
      ELSE IF Default \in d.projects THEN made
      ELSE writeIndex(made, d.projects \cup {Default}, d.fileMap, d.chatIdByPath)

resolveProjectForFile(trail, f) ==
  LET t == ensureDefaultProject(trail)
      d == Now(t)
      mapped == writeIndex(t, d.projects, Put(d.fileMap, f, Default), d.chatIdByPath)
  IN  IF f \in DOMAIN d.fileMap THEN t
      ELSE IF f \in d.files[Default] THEN mapped
      ELSE writeProject(mapped, Default, d.files[Default] \cup {f})

resolveChatForFile(trail, f) ==
  LET t == resolveProjectForFile(trail, f)
      d == Now(t)
  IN  IF f \in DOMAIN d.chatIdByPath THEN t
      ELSE writeIndex(t, d.projects, d.fileMap, Put(d.chatIdByPath, f, HashOf(f)))

chatIdForPath(d, f) == Get(d.chatIdByPath, f, HashOf(f))
\* What resolveChatForFile answers for f on disk d.
Resolved(d, f) == <<Get(d.fileMap, f, Default), chatIdForPath(d, f)>>

\* Bug: the buffer is dropped and not written.
flushPending_Dropped(trail, buf, k) == trail
flushPending(trail, buf, k) ==
  IF Get(buf, k, <<>>) = <<>> THEN trail
  ELSE writeChat(trail, k, AppendLines(Get(Now(trail).chats, k, <<>>), buf[k]))

\* Renumbered after what the target holds, the source's messages go to its end.
Renumbered(records, from) == [i \in DOMAIN records |-> [records[i] EXCEPT !.seq = from + i - 1]]
Unlink(trail, k) == Append(trail, [Now(trail) EXCEPT !.chats = Drop(@, k)])
RenameChat(trail, from, to) ==
  Append(trail, [Now(trail) EXCEPT !.chats = Drop(Put(@, to, @[from]), from)])

\* Bug: a rename although the target exists.
renameOrMergeChat_Overwrites(trail, buf, from, to) ==
  LET t == flushPending(trail, buf, from)
  IN  IF from = to \/ from \notin DOMAIN Now(t).chats THEN t ELSE RenameChat(t, from, to)
renameOrMergeChat(trail, buf, from, to) ==
  LET t == flushPending(trail, buf, from)
      d == Now(t)
      moved == loadChat(d, Drop(buf, from), from)
      renumbered == Renumbered(moved, MaxSeq(loadChat(d, buf, to)))
  IN  IF from = to THEN trail
      ELSE IF from \notin DOMAIN d.chats THEN t
      ELSE IF to \notin DOMAIN d.chats THEN RenameChat(t, from, to)
      ELSE IF moved = <<>> THEN Unlink(t, from)
      ELSE Unlink(writeChat(t, to, AppendLines(d.chats[to], renumbered)), from)

\* Bug: the counter of the source also after a merge.
MergedSeqs_Source(seqs, d, buf, from, to) ==
  IF from \in DOMAIN seqs /\ from # to THEN Put(Drop(seqs, from), to, seqs[from]) ELSE seqs
\* The counter of the target after the move: the renumbered end if the two
\* were merged, else the counter of the source, if it has one.
MergedSeqs(seqs, d, buf, from, to) ==
  LET t == Now(flushPending(<<d>>, buf, from))
      both == {from, to} \subseteq DOMAIN t.chats
      rest == Drop(Drop(seqs, from), to)
  IN  IF from = to THEN seqs
      ELSE IF both
        THEN Put(rest, to, MaxSeq(loadChat(t, buf, to)) + Len(loadChat(t, Drop(buf, from), from)))
      ELSE IF from \in DOMAIN seqs THEN Put(rest, to, seqs[from]) ELSE rest
-----------------------------------------------------------------------------
Init ==
  /\ disk = [projects |-> {}, fileMap |-> Empty, chatIdByPath |-> Empty,
             files |-> Empty, chats |-> Empty, trash |-> Empty]
  /\ seqCounters = Empty /\ pending = Empty
  /\ path = [d \in Docs |-> None]
  /\ ids = [d \in Docs |-> None]
  /\ reply = [d \in Docs |-> None]
  /\ said = [d \in Docs |-> {}]
  /\ late = {} /\ had = [f \in Paths |-> {}]
  /\ crashes = 0 /\ faults = 0 /\ renames = 0

\* The process ends on disk d: memory and panels go, a reload finds the disk.
EndsOn(d) ==
  /\ Trouble
  /\ crashes' = crashes + 1
  /\ disk' = d
  /\ seqCounters' = Empty /\ pending' = Empty
  /\ ids' = [x \in Docs |-> None] /\ reply' = [x \in Docs |-> None]

Completes(trail, seqs, buf) ==
  /\ disk' = Now(trail) /\ seqCounters' = seqs /\ pending' = buf
  /\ UNCHANGED crashes
Interrupted(trail) == Trouble /\ \E i \in 1..(Len(trail) - 1) : EndsOn(trail[i])

\* project:resolveChat when a panel opens; the temp id of an unsaved document is new.
OpenChat(d) ==
  LET start == ensureDefaultProject(<<disk>>)
      trail == IF path[d] = None THEN start ELSE resolveChatForFile(start, path[d])
      found == IF path[d] = None THEN <<Default, TempOf(d)>> ELSE Resolved(Now(trail), path[d])
  IN  /\ ids[d] = None
      /\ path[d] = None => said[d] = {}
      /\ \/ Completes(trail, seqCounters, pending) /\ ids' = [ids EXCEPT ![d] = found]
            /\ UNCHANGED reply
         \/ Interrupted(trail)
      /\ UNCHANGED <<path, history, faults, renames>>

\* The panel of a saved document is closed (an unsaved one goes with its panel
\* and would do nothing any more).
ClosePanel(d) ==
  /\ ids[d] # None /\ path[d] # None
  /\ ids' = [ids EXCEPT ![d] = None] /\ reply' = [reply EXCEPT ![d] = None]
  /\ UNCHANGED <<disk, mem, path, history, crashes, faults, renames>>

\* The first save gives the document a path, and its panel asks to rebind the
\* ids it holds.  A panel that has said nothing may still be waiting for the
\* answer that brings its temporary ids: it asks for nothing and keeps them.
FirstSave(d, f) ==
  LET resolved == resolveChatForFile(<<disk>>, f)
      to == Resolved(Now(resolved), f)
      trail == renameOrMergeChat(resolved, pending, ids[d], to)
  IN  /\ path[d] = None /\ f \notin Range(path)
      /\ ids[d] = None => said[d] = {}   \* an unsaved document does not outlive its panel
      /\ path' = [path EXCEPT ![d] = f] /\ had' = [had EXCEPT ![f] = @ \cup {d}]
      /\ \/ said[d] = {} /\ UNCHANGED <<disk, mem, ids, reply, crashes>>
         \/ /\ ids[d] # None
            /\ \/ /\ Completes(trail, MergedSeqs(seqCounters, Now(resolved), pending, ids[d], to),
                               Drop(pending, ids[d]))
                  /\ reply' = [reply EXCEPT ![d] = to] /\ UNCHANGED ids
               \/ Interrupted(trail)
      /\ UNCHANGED <<said, late, faults, renames>>

\* The answer reaches the panel, which appended under the old ids until now.
Answered(d) ==
  /\ reply[d] # None
  /\ ids' = [ids EXCEPT ![d] = reply[d]] /\ reply' = [reply EXCEPT ![d] = None]
  /\ UNCHANGED <<disk, mem, path, history, crashes, faults, renames>>

Total == Count(UNION Range(said))

\* The user's opening messages are buffered; the first answer, and whatever
\* follows it, is written, after the buffer.
appendChatMessage(d) ==
  LET k == ids[d]
      seq == Get(seqCounters, k, MaxSeq(loadChat(disk, pending, k)))
      record == [msg |-> <<d, Count(said[d]) + 1>>, seq |-> seq]
      lines == Append(Get(pending, k, <<>>), record)
      file == Get(disk.chats, k, <<>>)
  IN  /\ k # None /\ Total < MaxMsgs
      /\ said' = [said EXCEPT ![d] = @ \cup {record.msg}]
      /\ late' = late \cup {m \in {record.msg} : path[d] # None /\ k # Resolved(disk, path[d])}
      /\ seqCounters' = Put(seqCounters, k, seq + 1)
      /\ \/ /\ k \notin DOMAIN disk.chats
            /\ pending' = Put(pending, k, lines) /\ UNCHANGED <<disk, faults>>
         \/ /\ pending' = Drop(pending, k)
            /\ \/ disk' = Now(writeChat(<<disk>>, k, AppendLines(file, lines)))
                  /\ UNCHANGED faults
               \/ /\ Trouble /\ faults' = faults + 1
                  /\ \E left \in Partial(file, lines) :
                       disk' = IF left = <<>> THEN disk ELSE Now(writeChat(<<disk>>, k, left))
      /\ UNCHANGED <<path, ids, reply, had, crashes, renames>>

createProject(p) ==
  LET made == writeProject(<<disk>>, p, {})
      trail == writeIndex(made, disk.projects \cup {p}, disk.fileMap, disk.chatIdByPath)
  IN  /\ p \in Extra
      /\ p \notin DOMAIN disk.files \cup disk.projects \cup DOMAIN disk.trash
      /\ \/ Completes(trail, seqCounters, pending) /\ UNCHANGED <<ids, reply>>
         \/ Interrupted(trail)
      /\ UNCHANGED <<path, history, faults, renames>>

\* The directory goes to the trash before the index is touched.
ToTrash(trail, p) ==
  LET d == Now(trail)
      its == {k \in DOMAIN d.chats : k[1] = p}
  IN  Append(trail, [d EXCEPT !.files = Drop(@, p),
                              !.chats = Restrict(@, DOMAIN @ \ its),
                              !.trash = Put(@, p, UNION {Range(d.chats[k]) : k \in its})])

deleteProject(p) ==
  LET t == ensureDefaultProject(ToTrash(<<disk>>, p))
      d == Now(t)
      moved == {f \in DOMAIN d.fileMap : d.fileMap[f] = p}
      fileMap == [f \in DOMAIN d.fileMap |-> IF f \in moved THEN Default ELSE d.fileMap[f]]
      listed == IF moved = {} THEN t ELSE writeProject(t, Default, d.files[Default] \cup moved)
      trail == writeIndex(listed, d.projects \ {p}, fileMap, d.chatIdByPath)
  IN  /\ p \in Extra \cap DOMAIN disk.files
      /\ \/ Completes(trail, seqCounters, pending) /\ UNCHANGED <<ids, reply>>
         \/ Interrupted(trail)
      /\ UNCHANGED <<path, history, faults, renames>>

moveFileToProject(f, p) ==
  LET t == ensureDefaultProject(<<disk>>)
      d == Now(t)
      from == Get(d.fileMap, f, Default)
      indexed == writeIndex(t, d.projects, Put(d.fileMap, f, p), d.chatIdByPath)
      left == IF from \in DOMAIN d.files THEN writeProject(indexed, from, d.files[from] \ {f})
              ELSE indexed
      entered == writeProject(left, p, d.files[p] \cup {f})
      old == <<from, chatIdForPath(d, f)>>
      new == <<p, chatIdForPath(d, f)>>
      flushed == flushPending(entered, pending, old)
      trail == IF old \in DOMAIN Now(flushed).chats THEN RenameChat(flushed, old, new) ELSE flushed
      seqs == IF old \in DOMAIN seqCounters
              THEN Put(Drop(seqCounters, old), new, seqCounters[old]) ELSE seqCounters
  IN  /\ MoreEvents /\ renames' = renames + 1
      /\ f \in Range(path) /\ p \in DOMAIN d.files /\ from # p
      /\ \/ Completes(trail, seqs, Drop(pending, old)) /\ UNCHANGED <<ids, reply>>
         \/ Interrupted(trail)
      /\ UNCHANGED <<path, history, faults>>

\* A document is renamed on disk and the store is told.
fileRenamed(d, f) ==
  LET old == path[d]
      p == Get(disk.fileMap, old, None)
      fileMap == IF p = None THEN disk.fileMap ELSE Put(Drop(disk.fileMap, old), f, p)
      listed == IF p = None \/ p \notin DOMAIN disk.files THEN <<disk>>
                ELSE writeProject(<<disk>>, p, {IF g = old THEN f ELSE g : g \in disk.files[p]})
      chatIds == Put(Drop(disk.chatIdByPath, old), f, chatIdForPath(disk, old))
      trail == writeIndex(listed, disk.projects, fileMap, chatIds)
  IN  /\ MoreEvents /\ renames' = renames + 1
      /\ old # None /\ f \in Paths \ Range(path)
      /\ path' = [path EXCEPT ![d] = f] /\ had' = [had EXCEPT ![f] = @ \cup {d}]
      /\ \/ Completes(trail, seqCounters, pending) /\ UNCHANGED <<ids, reply>>
         \/ Interrupted(trail)
      /\ UNCHANGED <<said, late, faults>>

ProcessEnds == EndsOn(disk) /\ UNCHANGED <<path, history, faults, renames>>

Next ==
  \/ \E d \in Docs : OpenChat(d) \/ ClosePanel(d) \/ Answered(d) \/ appendChatMessage(d)
  \/ \E d \in Docs, f \in Paths : FirstSave(d, f) \/ fileRenamed(d, f)
  \/ \E p \in Extra : createProject(p) \/ deleteProject(p)
  \/ \E f \in Paths, p \in Projects : moveFileToProject(f, p)
  \/ ProcessEnds

Spec == Init /\ [][Next]_vars
-----------------------------------------------------------------------------
Msgs(records) == {r.msg : r \in Range(records)}
Shown(d) == Msgs(loadChat(disk, pending, Resolved(disk, path[d])))
\* Deleted with their project, or left behind in the directory of a deleted one.
Trashed ==
  {r.msg : r \in UNION Range(disk.trash)}
  \cup UNION {Msgs(loadChat(disk, pending, k)) :
               k \in {k \in DOMAIN disk.chats \cup DOMAIN pending : k[1] \in DOMAIN disk.trash}}
Quiet == crashes = 0 /\ faults = 0
\* No path was given up by one document and taken by another.
NoReuse == \A f \in Paths : Count(had[f]) <= 1

\* What the code does achieve: through first saves, renames, moves and deleted
\* projects, the chat of a document still shows (or the trash still holds) all
\* that was said while its panel held the ids the index gives for its path.
HistoryKept ==
  Quiet /\ NoReuse => \A d \in Docs : path[d] # None => (said[d] \ late) \subseteq Shown(d) \cup Trashed

\* One document's chat never shows what was said about another, whatever
\* crashes in the middle of a rebind, a move or a rename: temporary ids and
\* path hashes are not confused as long as no path changes hands.
OwnHistoryOnly ==
  NoReuse => \A d, e \in Docs : d # e /\ path[d] # None => Shown(d) \cap said[e] = {}

\* The lines of chat k, buffered and on disk, and those of them that parse.
Lines(k) == Get(pending, k, <<>>) \o Get(disk.chats, k, <<>>)
Parsed(lines) == {i \in DOMAIN lines : lines[i] # Torn}
\* No two messages of a chat have the same seq, and its counter is beyond them.
Numbered ==
  \A k \in DOMAIN disk.chats \cup DOMAIN pending :
    /\ \A i, j \in Parsed(Lines(k)) : Lines(k)[i].seq = Lines(k)[j].seq => i = j
    /\ k \in DOMAIN seqCounters => \A i \in Parsed(Lines(k)) : Lines(k)[i].seq < seqCounters[k]

\* A chat was renamed to one whose opening messages were still buffered.
Overtaken == \E k \in DOMAIN pending : k \in DOMAIN disk.chats
\* A move brought the messages of a chat that had no counter to one that kept its own.
CounterKept ==
  \E from \in DOMAIN disk.chats \cup DOMAIN pending, to \in DOMAIN disk'.chats :
    /\ from \notin DOMAIN disk'.chats \cup DOMAIN seqCounters
    /\ to # from /\ to[2] = from[2] /\ to \in DOMAIN seqCounters \cap DOMAIN seqCounters'
\* A chat none of whose messages could be written gave its counter to another.
CounterGiven ==
  \E from \in DOMAIN seqCounters \ DOMAIN seqCounters', to \in DOMAIN seqCounters' :
    /\ Lines(from) = <<>> /\ from \notin DOMAIN disk.chats
    /\ seqCounters'[to] = seqCounters[from]

\* No step gives two messages of one chat the same seq or leaves its counter
\* behind, so loadChat and the timeline order messages as they were said: the
\* counters survive merges, moves, failed appends and restarts, which find
\* them again from the lines that parse.  The exceptions are a chat renamed to
\* one whose opening messages are still buffered, and two counters that end up
\* at a chat they do not belong to.
SeqsDistinct ==
  [][ Numbered => Numbered' \/ Overtaken' \/ CounterKept \/ CounterGiven ]_vars

Written == (UNION {Msgs(Records(disk.chats[k])) : k \in DOMAIN disk.chats})
           \cup {r.msg : r \in UNION Range(disk.trash)}

\* A message that reached the disk is lost in two ways only, crashes included:
\* moveFileToProject renames a chat over one the target project already has,
\* or a merge appends it to a file whose last line a failed write left torn.
LostOnlyByMove ==
  [][ \A m \in Written \ Written' :
        \E k \in DOMAIN disk.chats, p \in Projects :
          LET from == <<p, k[2]>> IN
          \/ IsTorn(disk.chats[k])
          \/ /\ from # k /\ m \in Msgs(disk.chats[k])
             /\ from \notin DOMAIN disk'.chats /\ k \in DOMAIN disk'.chats
             /\ Msgs(disk'.chats[k]) = Msgs(loadChat(disk, pending, from)) ]_vars
=============================================================================
