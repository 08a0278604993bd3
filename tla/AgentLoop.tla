----------------------------- MODULE AgentLoop -----------------------------
(***************************************************************************)
(* The agent loop of the office editors (packages/agent-core/src/loop.ts)  *)
(* over its IPC transport (electron-transport.ts): user message, model     *)
(* turn, tools, model turn, until the model answers in plain text.         *)
(*                                                                         *)
(* The loop is single threaded, but a run is suspended in a model stream,  *)
(* a tool, a retry delay or the summary of a compaction, and the user may  *)
(* stop it, drop the conversation or start the next run in between.  Each  *)
(* suspension is a record that carries the generation it began in, as the  *)
(* closures of the code do; what happens between two suspensions is one    *)
(* step.                                                                   *)
(*                                                                         *)
(* A message is its role, what it is and the number of its tool calls or   *)
(* results (the number of the run for an instruction).  Sizes are left     *)
(* out: whether the history is over its budget, and where it is cut, is    *)
(* any choice.  The hooks of the application are assumed not to throw.     *)
(***************************************************************************)
EXTENDS Naturals, Sequences, FiniteSets, SequencesExt, ArrayOps

CONSTANTS
  Transcripts,              \* what a chat history loaded from disk may be
  maxTurns, maxHistory,     \* AgentLoopOptions
  MAX_INPUT_PARSE_RETRIES, MAX_IDENTICAL_TURNS, MAX_ALL_ERROR_TURNS,
  RETRY_DELAYS,             \* entries of EMPTY_STREAM_RETRY_DELAYS_MS
  MaxRuns, MaxResets,       \* bound: calls of run and reset
  MaxCalls                  \* bound: tool calls of a run's first turn; later ones have one

ASSUME LoopAssumption ==
  /\ {maxTurns, maxHistory, MAX_INPUT_PARSE_RETRIES, MAX_IDENTICAL_TURNS,
      MAX_ALL_ERROR_TURNS} \subseteq Nat \ {0}
  /\ {RETRY_DELAYS, MaxRuns, MaxResets, MaxCalls} \subseteq Nat

VARIABLES
  history, running, cancelled, generation,
  runUserMsg,   \* number of the run whose message it is, 0 for null
  counters,     \* what run() resets: turns, finalizing, verified, parseFails, identical, allErrors, lastSig
  turnText,     \* the turn has text
  toolCalls,    \* the turn's calls: TRUE if the input is usable
  streams,      \* the main process may still send chunks: [gen, kind, retries, settled]
  tools,        \* tools that run: [gen, calls, at, failed, mutated]
  timers,       \* retries that wait: [gen, retries]
  begins,       \* runs that wait for a summary: [gen, cut]
  run,          \* runs ever started
  ends,         \* history: run -> onDone and onError events it got
  dropped,      \* history: runs a reset dropped
  base          \* history: the conversation before the run's message

turn == <<turnText, toolCalls>>
ghosts == <<ends, dropped, base>>
vars == <<history, running, cancelled, generation, runUserMsg, counters, turn, streams,
          tools, timers, begins, run, ghosts>>

Message(role, what, n) == [role |-> role, what |-> what, n |-> n]
Note == Message("user", "note", 0)               \* TURN_LIMIT_NOTE
Summary == <<Message("user", "summary", 0), Message("assistant", "text", 0)>>
IsUser(m) == m.role = "user"
NewRun == [turns |-> 0, finalizing |-> FALSE, verified |-> FALSE, parseFails |-> 0,
           identical |-> 0, allErrors |-> 0, lastSig |-> 0]

Init ==
  /\ history = <<>> /\ running = FALSE /\ cancelled = FALSE /\ generation = 0
  /\ runUserMsg = 0 /\ counters = NewRun /\ turnText = FALSE /\ toolCalls = <<>>
  /\ streams = {} /\ tools = {} /\ timers = {} /\ begins = {}
  /\ run = 0 /\ ends = [r \in 1..MaxRuns |-> 0] /\ dropped = {} /\ base = <<>>
-----------------------------------------------------------------------------
(* Cutting the history, always at a user message. *)
From(h, i) == SubSeq(h, i, Len(h))
Users(h) == {i \in DOMAIN h : IsUser(h[i])}
Cuts(h) == Users(h) \ {1}                        \* findCompactCut, whatever the sizes

Window(h) == {i \in Users(h) : i > Len(h) - maxHistory}

\* Bug: cut to length, wherever that is.
trimHistory_AnyMessage(h) == IF Len(h) <= maxHistory THEN h ELSE From(h, Len(h) - maxHistory + 1)
trimHistory(h) == IF Len(h) <= maxHistory \/ Window(h) = {} THEN h ELSE From(h, Min(Window(h)))

Compacted(h, cut) == Summary \o From(h, cut)

\* What restore makes of a transcript: no notes, a placeholder for text, no
\* instruction without an answer.
Normalized(t) ==
  LET noNotes == Kept(t, {i \in DOMAIN t : t[i] # Note})
      filled == [i \in DOMAIN noNotes |->
                   IF noNotes[i] = Message("assistant", "none", 0)
                   THEN Message("assistant", "text", 0) ELSE noNotes[i]]
  IN  Kept(filled, {i \in DOMAIN filled :
                      IsUser(filled[i]) => i < Len(filled) /\ ~IsUser(filled[i + 1])})

\* The panels load instructions and answers, without tools.  The first is an
\* instruction, unless the chat is longer than the part of it that is loaded:
\* that part then holds more than the loop keeps.
ASSUME TranscriptAssumption ==
  \A t \in Transcripts :
    /\ t \in Seq({Message("user", "ask", 0), Note, Message("assistant", "text", 0),
                 Message("assistant", "none", 0)})
    /\ \/ t = <<>> \/ t[1] = Message("user", "ask", 0)
       \/ Len(Normalized(t)) > maxHistory /\ Window(Normalized(t)) # {}

restore(t) ==
  LET h == Normalized(t) IN
  /\ ~running /\ history = <<>>
  /\ \/ history' = trimHistory(h)
     \/ \E cut \in Cuts(h) : history' = trimHistory(Compacted(h, cut))
  /\ UNCHANGED <<running, cancelled, generation, runUserMsg, counters, turn, streams,
                 tools, timers, begins, run, ghosts>>
-----------------------------------------------------------------------------
(***************************************************************************)
(* Streams.  The transport settles a stream once and then ignores what the *)
(* main process still sends for it.                                        *)
(***************************************************************************)
Stream(gen, kind, retries, settled) ==
  [gen |-> gen, kind |-> kind, retries |-> retries, settled |-> settled]
Open(rest, kind, retries) == streams' = rest \cup {Stream(generation, kind, retries, FALSE)}
Without(s) == streams \ {s}
\* Bound: one given-up stream at a time has a last chunk still to come.
Settled(s) ==
  Without(s) \cup {x \in {Stream(s.gen, s.kind, s.retries, TRUE)} : \A z \in streams : ~z.settled}

startTurn(rest, retries) ==
  /\ turnText' = FALSE /\ toolCalls' = <<>>
  /\ Open(rest, "turn", retries)

\* onDone, or onError, of the run's events.
Ended == running' = FALSE /\ ends' = [ends EXCEPT ![run] = @ + 1] /\ runUserMsg' = 0 /\ base' = <<>>

\* Bug: only the instruction itself is taken out.
rollbackFailedRun_One(h) == SelectSeq(h, LAMBDA m : m # Message("user", "ask", runUserMsg))
rollbackFailedRun(h) ==
  LET at == {i \in DOMAIN h : h[i] = Message("user", "ask", runUserMsg)}
  IN  IF runUserMsg = 0 \/ at = {} THEN h ELSE SubSeq(h, 1, Max(at) - 1)

\* beginRun after the compaction: h is the history it left.
PushAndStart(h, r, rest) ==
  /\ base' = trimHistory(h)
  /\ runUserMsg' = r
  /\ history' = Append(trimHistory(h), Message("user", "ask", r))
  /\ startTurn(rest, 0)

StartRun ==
  /\ ~running /\ run < MaxRuns
  /\ running' = TRUE /\ cancelled' = FALSE /\ counters' = NewRun /\ run' = run + 1
  /\ \/ PushAndStart(history, run + 1, streams) /\ UNCHANGED begins
     \/ \E cut \in Cuts(history) :      \* over the budget: ask for a summary first
          /\ Open(streams, "summary", 0)
          /\ begins' = begins \cup {[gen |-> generation, cut |-> cut]}
          /\ UNCHANGED <<history, runUserMsg, turn, base>>
  /\ UNCHANGED <<generation, tools, timers, ends, dropped>>

\* Bug: the run goes on although it was stopped while it waited.
Resume_Stopped(b, rest) ==
  PushAndStart(Compacted(history, b.cut), run, rest) /\ UNCHANGED <<running, ends>>
\* The summary came, failed or timed out (a digest takes its place then).
Resume(b, rest) ==
  IF cancelled
  THEN /\ history' = Compacted(history, b.cut)
       /\ Ended /\ streams' = rest
       /\ UNCHANGED turn
  ELSE /\ PushAndStart(Compacted(history, b.cut), run, rest)
       /\ UNCHANGED <<running, ends>>

SummaryResolves(b, rest) ==
  /\ begins' = begins \ {b}
  /\ IF b.gen = generation THEN Resume(b, rest)
     ELSE streams' = rest /\ UNCHANGED <<history, running, runUserMsg, turn, ends, base>>
  /\ UNCHANGED <<counters, tools, timers>>
-----------------------------------------------------------------------------
(***************************************************************************)
(* finishTurn, as the set of its outcomes: the history, the counters, what *)
(* comes next (a turn, a tool, or the end of the run).                     *)
(***************************************************************************)
Outcome(h, c, next, tool) == [h |-> h, c |-> c, next |-> next, tool |-> tool]
Tool(gen, calls, at, failed, mutated) ==
  [gen |-> gen, calls |-> calls, at |-> at, failed |-> failed, mutated |-> mutated]
NoTool == Tool(0, <<>>, 0, FALSE, FALSE)

\* All calls have a result; failed says that every one is an error, and bad
\* is the number of unusable inputs in a row.
AfterTools(h, tool, bad) ==
  LET h2 == Append(h, Message("tool", "results", Len(tool.calls)))
      errors == IF tool.failed THEN counters.allErrors + 1 ELSE 0
      limit == counters.turns + 1 >= maxTurns
      After(identical) ==
        IF \/ bad >= MAX_INPUT_PARSE_RETRIES \/ errors >= MAX_ALL_ERROR_TURNS
           \/ identical >= MAX_IDENTICAL_TURNS
        THEN Outcome(rollbackFailedRun(h2), counters, "end", NoTool)
        ELSE Outcome(IF limit THEN Append(h2, Note) ELSE h2,
                     [counters EXCEPT !.turns = @ + 1, !.finalizing = limit, !.parseFails = bad,
                        !.allErrors = errors, !.identical = identical, !.lastSig = Len(tool.calls)],
                     "turn", NoTool)
      mayRepeat == counters.lastSig = Len(tool.calls) /\ ~tool.mutated
  IN  IF cancelled THEN {Outcome(h2, counters, "end", NoTool)}
      ELSE {After(0)} \cup IF mayRepeat THEN {After(counters.identical + 1)} ELSE {}

\* The loop over the calls from the one after tool.at: unusable ones get an
\* error, the next usable one is started.
RunTools(h, tool) ==
  LET usable == {i \in (tool.at + 1)..Len(tool.calls) : tool.calls[i]}
  IN  IF cancelled \/ usable = {}
      THEN AfterTools(h, tool, counters.parseFails + Len(tool.calls) - tool.at)
      ELSE {Outcome(h, [counters EXCEPT !.parseFails = 0], "tool",
                    Tool(tool.gen, tool.calls, Min(usable), tool.failed, tool.mutated))}

\* The turn's text; the placeholder COMPLETED_VIA_TOOLS_TEXT is a text as well.
Answer == Message("assistant", "text", 0)
\* The last note, if there is one, is spliced out.
WithoutNote(h) ==
  LET at == {i \in DOMAIN h : h[i] = Note} IN IF at = {} THEN h ELSE RemoveAt(h, Max(at))
FinalHistory == Append(IF counters.finalizing THEN WithoutNote(history) ELSE history, Answer)

finishTurn ==
  LET final == toolCalls = <<>> \/ cancelled \/ counters.finalizing
      corrected == history \o <<Message("assistant", "text", 0), Message("user", "fix", 0)>>
      mayCorrect == ~cancelled /\ ~counters.finalizing /\ ~counters.verified /\ turnText
      called == Append(history, Message("assistant", "calls", Len(toolCalls)))
  IN  IF final
      THEN {Outcome(FinalHistory, counters, "end", NoTool)}
           \cup IF mayCorrect
                THEN {Outcome(corrected, [counters EXCEPT !.verified = TRUE], "turn", NoTool)} ELSE {}
      ELSE RunTools(called, Tool(generation, toolCalls, 0, TRUE, FALSE))

\* rest and idle: the streams and the tools without the one that just ended.
\* The turn's text and calls, read by nobody until startTurn resets them, are
\* reset at once; so are the counters of a run that ends.
Apply(o, rest, idle) ==
  /\ history' = o.h /\ counters' = IF o.next = "end" THEN NewRun ELSE o.c
  /\ tools' = IF o.next = "tool" THEN idle \cup {o.tool} ELSE idle
  /\ IF o.next = "turn" THEN startTurn(rest, 0)
     ELSE streams' = rest /\ turnText' = FALSE /\ toolCalls' = <<>>
  /\ IF o.next = "end" THEN Ended ELSE UNCHANGED <<running, runUserMsg, ends, base>>

Ignored(rest) ==
  /\ streams' = rest
  /\ UNCHANGED <<history, running, runUserMsg, counters, turn, tools, ends, base>>
-----------------------------------------------------------------------------
(* Chunks of a stream, and what the callbacks of the loop make of them. *)
\* Bug: a settled stream is still listened to.
Listens_Settled(s) == s.gen = generation
Listens(s) == s.gen = generation /\ ~s.settled
others == <<cancelled, generation, run, dropped>>

Delta(s) ==
  /\ Listens(s) /\ s.kind = "turn"
  /\ turnText' = TRUE
  /\ UNCHANGED <<history, running, runUserMsg, counters, toolCalls, streams, tools,
                 timers, begins, ends, base, others>>

ToolCall(s, usable) ==
  /\ Listens(s) /\ s.kind = "turn" /\ Len(toolCalls) < (IF counters.turns = 0 THEN MaxCalls ELSE 1)
  /\ toolCalls' = Append(toolCalls, usable)
  /\ UNCHANGED <<history, running, runUserMsg, counters, turnText, streams, tools,
                 timers, begins, ends, base, others>>

\* A summary resolves the run that waits for it, if it still does.
SummarySettles(s, rest) ==
  \/ \E b \in begins : b.gen = s.gen /\ ~s.settled /\ SummaryResolves(b, rest)
  \/ (s.settled \/ \A b \in begins : b.gen # s.gen) /\ Ignored(rest) /\ UNCHANGED <<timers, begins>>

onDone(s, rest) ==
  /\ IF Listens(s) THEN \E o \in finishTurn : Apply(o, rest, tools) ELSE Ignored(rest)
  /\ UNCHANGED <<timers, begins>>

onError(s, empty, rest) ==
  /\ IF ~Listens(s) THEN Ignored(rest) /\ UNCHANGED timers
     ELSE IF /\ empty /\ s.retries < RETRY_DELAYS
             /\ ~cancelled /\ ~turnText /\ toolCalls = <<>>
     THEN Ignored(rest) /\ timers' = timers \cup {[gen |-> generation, retries |-> s.retries + 1]}
     ELSE /\ Apply(Outcome(rollbackFailedRun(history), counters, "end", NoTool), rest, tools)
          /\ UNCHANGED timers
  /\ UNCHANGED begins

\* The main process sends its last chunk, or refuses the request; late, if the stream is settled.
StreamDone(s) ==
  /\ IF s.kind = "turn" THEN onDone(s, Without(s)) ELSE SummarySettles(s, Without(s))
  /\ UNCHANGED others
StreamFails(s) ==
  /\ \/ s.kind = "turn" /\ \E empty \in BOOLEAN : onError(s, empty, Without(s))
     \/ s.kind = "summary" /\ SummarySettles(s, Without(s))
  /\ UNCHANGED others
\* The watchdog gives a silent stream up; what it still sends comes late.
Silence(s) ==
  /\ ~s.settled
  /\ \/ s.kind = "turn" /\ onError(s, FALSE, Settled(s))
     \/ s.kind = "summary" /\ SummarySettles(s, Settled(s))
  /\ UNCHANGED others

\* SUMMARIZE_TIMEOUT_MS: the run goes on; the stream is left alone and nobody
\* listens to it any more.
SummaryTimesOut(b) ==
  SummaryResolves(b, {s \in streams : s.kind = "turn" \/ s.gen # b.gen}) /\ UNCHANGED others

\* A tool ends, or throws: its result is an error then.
ToolEnds(tool, failed, mutated) ==
  /\ failed => ~mutated
  /\ LET went == Tool(tool.gen, tool.calls, tool.at,
                      tool.failed /\ failed, tool.mutated \/ mutated) IN
     IF tool.gen = generation
     THEN \E o \in RunTools(history, went) : Apply(o, streams, tools \ {tool})
     ELSE /\ tools' = tools \ {tool}
          /\ UNCHANGED <<history, running, runUserMsg, counters, turn, streams, ends, base>>
  /\ UNCHANGED <<timers, begins, others>>

\* Bug: the delay ends and nobody looks at the generation.
TimerFires_Stale(t) ==
  /\ timers' = timers \ {t}
  /\ startTurn(streams, t.retries)
  /\ UNCHANGED <<history, running, runUserMsg, counters, tools, begins, ends, base, others>>
\* Bug: a run stopped during the delay is not finished.
TimerFires_Leaves(t) ==
  /\ timers' = timers \ {t}
  /\ IF t.gen = generation /\ ~cancelled
     THEN startTurn(streams, t.retries)
          /\ UNCHANGED <<history, running, runUserMsg, counters, tools, ends, base>>
     ELSE Ignored(streams)
  /\ UNCHANGED <<begins, others>>
TimerFires(t) ==
  /\ timers' = timers \ {t}
  /\ IF t.gen # generation THEN Ignored(streams)
     ELSE IF cancelled THEN \E o \in finishTurn : Apply(o, streams, tools)
     ELSE startTurn(streams, t.retries)
          /\ UNCHANGED <<history, running, runUserMsg, counters, tools, ends, base>>
  /\ UNCHANGED <<begins, others>>
-----------------------------------------------------------------------------
\* The stream and the tool are told to stop; they end as they always do.
cancel ==
  /\ running /\ ~cancelled /\ cancelled' = TRUE
  /\ UNCHANGED <<history, running, generation, runUserMsg, counters, turn, streams,
                 tools, timers, begins, run, ghosts>>

reset ==
  /\ generation < MaxResets /\ generation' = generation + 1
  /\ running' = FALSE /\ cancelled' = FALSE /\ history' = <<>> /\ runUserMsg' = 0
  /\ dropped' = dropped \cup {r \in {run} : running} /\ base' = <<>>
  /\ counters' = NewRun /\ turnText' = FALSE /\ toolCalls' = <<>>   \* as at the end of a run
  /\ UNCHANGED <<streams, tools, timers, begins, run, ends>>

Settles == \E s \in streams : StreamDone(s) \/ StreamFails(s) \/ Silence(s)
ToolReturns == \E tool \in tools, failed, mutated \in BOOLEAN : ToolEnds(tool, failed, mutated)
Timeouts == (\E t \in timers : TimerFires(t)) \/ (\E b \in begins : SummaryTimesOut(b))

Next ==
  \/ StartRun \/ cancel \/ reset \/ \E t \in Transcripts : restore(t)
  \/ \E s \in streams : Delta(s) \/ \E usable \in BOOLEAN : ToolCall(s, usable)
  \/ Settles \/ ToolReturns \/ Timeouts

Spec == Init /\ [][Next]_vars
\* What is under way goes on: streams settle because the watchdog does, delays
\* end because timers fire, and a tool is assumed to return.
FairSpec == Spec /\ WF_vars(Settles \/ ToolReturns \/ Timeouts)
-----------------------------------------------------------------------------
\* Every call has its results right after it, no two instructions are
\* adjacent, and no answer is empty.
Paired(h) ==
  \A i \in DOMAIN h :
    /\ IsUser(h[i]) /\ i < Len(h) => ~IsUser(h[i + 1])
    /\ h[i].role = "assistant" /\ h[i].n = 0 => h[i].what # "none"
    /\ h[i].role = "assistant" /\ h[i].n > 0 => i < Len(h) /\ h[i + 1] = Message("tool", "results", h[i].n)
    /\ h[i].role = "tool" => i > 1 /\ h[i - 1].role = "assistant" /\ h[i - 1].n = h[i].n
TurnsOpen == {s \in streams : s.kind = "turn" /\ Listens(s)}

\* Whatever is trimmed, folded, corrected, stopped or rolled back, each request
\* is one the providers accept: it starts with a user message, ends with one
\* or with tool results, is paired, and tells the model that it may call no
\* more tools exactly in the finalizing turn.  Between runs the history has no
\* such note and no unanswered instruction.
HistoryWellFormed ==
  /\ TurnsOpen # {} => /\ Paired(history) /\ IsUser(history[1]) /\ Last(history).role # "assistant"
                       /\ (Note \in Range(history)) = counters.finalizing
  /\ ~running /\ history # <<>> => /\ Paired(history) /\ ~IsUser(Last(history))
                                   /\ Note \notin Range(history)

\* A run that is busy waits for exactly one thing of its generation (a turn, a
\* tool, a delay or a summary), an idle loop for none: no two turns are ever
\* interleaved and no run is busy with nothing left that could end it.
OneThing ==
  Cardinality(TurnsOpen) + Cardinality({t \in tools : t.gen = generation})
    + Cardinality({t \in timers : t.gen = generation}) + Cardinality({b \in begins : b.gen = generation})
  = IF running THEN 1 ELSE 0

\* Every run is reported to the application once, by onDone or onError, except
\* the ones a reset drops, which are never heard of again.
EndsOnce ==
  \A r \in 1..run :
    ends[r] = IF r \in dropped \/ (running /\ r = run) THEN 0 ELSE 1

\* "a failed run rolls it (and everything after) back out of history": a run
\* either ends with its instruction answered (or stopped among its tools), or
\* leaves the conversation exactly as it was before the instruction.
FailedRunLeavesNothing ==
  [][ running /\ ~running' /\ generation' = generation /\ runUserMsg # 0 =>
        \/ history' = base
        \/ /\ SubSeq(history', 1, Len(base) + 1) = Append(base, Message("user", "ask", run))
           /\ Last(history').role = "assistant" \/ (cancelled /\ Last(history').role = "tool") ]_vars

\* Once the user has stopped a run, no request is sent and no tool is started for it.
StopsAfterCancel ==
  [][ cancelled /\ cancelled' =>
        /\ TurnsOpen' # {} => TurnsOpen' = TurnsOpen /\ history' = history
        /\ tools' \subseteq tools ]_vars

\* A run always ends, whichever stream stays silent and whenever it is stopped.
EveryRunEnds == running ~> ~running
=============================================================================
