-------------------------- MODULE AgentLoopProofs --------------------------
(***************************************************************************)
(* Proofs about AgentLoop, for every transcript, every limit and any number *)
(* of runs, resets and tool calls: a busy run waits for exactly one thing,   *)
(* each run ends once, a stopped run starts nothing, every request answers   *)
(* each tool call it contains, and a failed run leaves nothing of itself in  *)
(* the history.  LoopInv says which one thing a run waits for, and that       *)
(* nothing carries a generation still to come; HistoryInv says what the       *)
(* conversation, the request under way and the calls to be answered are       *)
(* to each other between the steps of a run.                                  *)
(***************************************************************************)
EXTENDS AgentLoop, SequenceLemmas

(* What the current generation waits for. *)
Turns == TurnsOpen
Tools == {t \in tools : t.gen = generation}
Timers == {t \in timers : t.gen = generation}
Begins == {b \in begins : b.gen = generation}

TypeOK ==
  /\ generation \in Nat /\ run \in 0..MaxRuns
  /\ \A x \in streams \cup tools \cup timers \cup begins : x.gen \in 0..generation
  /\ ends \in [1..MaxRuns -> Nat]
  /\ dropped \subseteq 1..run

(* Exactly one of the four is under way in a run, and none outside of one. *)
Waits ==
  \/ ~running /\ Turns = {} /\ Tools = {} /\ Timers = {} /\ Begins = {}
  \/ running /\ (\E s : Turns = {s}) /\ Tools = {} /\ Timers = {} /\ Begins = {}
  \/ running /\ Turns = {} /\ (\E t : Tools = {t}) /\ Timers = {} /\ Begins = {}
  \/ running /\ Turns = {} /\ Tools = {} /\ (\E t : Timers = {t}) /\ Begins = {}
  \/ running /\ Turns = {} /\ Tools = {} /\ Timers = {} /\ (\E b : Begins = {b})

(* The run that is busy has not ended and was not dropped. *)
RunInv ==
  /\ running => run # 0 /\ run \notin dropped
  /\ \A r \in 1..MaxRuns :
       ends[r] = IF r > run \/ r \in dropped \/ (running /\ r = run) THEN 0 ELSE 1

LoopInv == TypeOK /\ Waits /\ RunInv

-----------------------------------------------------------------------------
(* What the pure parts of the loop can come to *)

LEMMA AfterToolsNext ==
  ASSUME NEW h, NEW tool, NEW bad, NEW o \in AfterTools(h, tool, bad)
  PROVE  o.next \in {"end", "turn"} /\ (cancelled => o.next = "end")
BY DEF AfterTools, Outcome

LEMMA RunToolsNext ==
  ASSUME NEW h, NEW tool, NEW o \in RunTools(h, tool)
  PROVE  /\ o.next \in {"end", "turn", "tool"}
         /\ cancelled => o.next = "end"
         /\ o.next = "tool" => o.tool.gen = tool.gen
<1> DEFINE usable == {i \in (tool.at + 1)..Len(tool.calls) : tool.calls[i]}
           parsed == [counters EXCEPT !.parseFails = 0]
           next == Tool(tool.gen, tool.calls, Min(usable), tool.failed, tool.mutated)
<1>1. CASE cancelled \/ usable = {}
  <2>1. o \in AfterTools(h, tool, counters.parseFails + Len(tool.calls) - tool.at)
    BY <1>1 DEF RunTools
  <2> HIDE DEF usable
  <2> QED
    BY <2>1, AfterToolsNext
<1>2. CASE ~(cancelled \/ usable = {})
  <2>1. o = Outcome(h, parsed, "tool", next)
    BY <1>2 DEF RunTools
  <2>2. next.gen = tool.gen
    BY DEF Tool
  <2> HIDE DEF usable, parsed, next
  <2>3. o.next = "tool" /\ o.tool = next
    BY <2>1 DEF Outcome
  <2> QED
    BY <1>2, <2>2, <2>3
<1> QED
  BY <1>1, <1>2

(* A finished turn ends the run, is corrected, or starts a tool of its own     *)
(* generation.                                                                *)
LEMMA FinishTurnNext ==
  ASSUME NEW o \in finishTurn
  PROVE  /\ o.next \in {"end", "turn", "tool"}
         /\ cancelled => o.next = "end"
         /\ o.next = "tool" => o.tool.gen = generation
<1> DEFINE verified == [counters EXCEPT !.verified = TRUE]
           corrected == history \o <<Message("assistant", "text", 0), Message("user", "fix", 0)>>
           called == Append(history, Message("assistant", "calls", Len(toolCalls)))
           tool == Tool(generation, toolCalls, 0, TRUE, FALSE)
<1>1. \/ o = Outcome(FinalHistory, counters, "end", NoTool)
      \/ ~cancelled /\ o = Outcome(corrected, verified, "turn", NoTool)
      \/ o \in RunTools(called, tool)
  BY DEF finishTurn
<1>2. tool.gen = generation
  BY DEF Tool
<1> HIDE DEF verified, corrected, called, tool
<1>3. CASE o \in RunTools(called, tool)
  BY <1>2, <1>3, RunToolsNext
<1>4. CASE o = Outcome(FinalHistory, counters, "end", NoTool)
  BY <1>4 DEF Outcome
<1>5. CASE ~cancelled /\ o = Outcome(corrected, verified, "turn", NoTool)
  BY <1>5 DEF Outcome
<1> QED
  BY <1>1, <1>3, <1>4, <1>5

-----------------------------------------------------------------------------
(* What a step does to the things that are waited for *)

(* The turns among some streams that the loop listens to. *)
TurnsIn(rest) ==
  {s \in rest : s.kind = "turn" /\ s.gen = generation /\ ~s.settled}

(* No generation that is still to come. *)
Past(S) == \A x \in S : x.gen \in 0..generation

LEMMA TurnsAreIn == Turns = TurnsIn(streams)
BY DEF Turns, TurnsOpen, TurnsIn, Listens

(* Without a stream, or with the stream given up, its turn is waited for no    *)
(* more, and every other turn still is.                                       *)
LEMMA RestLemma ==
  ASSUME NEW s \in streams, Past(streams)
  PROVE  /\ TurnsIn(Without(s)) = Turns \ {s} /\ Past(Without(s))
         /\ TurnsIn(Settled(s)) = Turns \ {s} /\ Past(Settled(s))
<1>1. TurnsIn(Without(s)) = Turns \ {s} /\ Past(Without(s))
  BY TurnsAreIn DEF TurnsIn, Without, Past
<1>2. PICK last \in SUBSET {Stream(s.gen, s.kind, s.retries, TRUE)} :
         Settled(s) = Without(s) \cup last
  BY DEF Settled
<1>3. \A x \in last : x.gen = s.gen /\ x.settled
  BY <1>2 DEF Stream
<1>4. TurnsIn(Settled(s)) = TurnsIn(Without(s))
  BY <1>2, <1>3 DEF TurnsIn
<1>5. Past(Settled(s))
  BY <1>1, <1>2, <1>3 DEF Past
<1> QED
  BY <1>1, <1>4, <1>5

LEMMA OpensTurn ==
  ASSUME NEW rest, NEW retries, startTurn(rest, retries), UNCHANGED generation,
         TurnsIn(rest) = {}, Past(rest), generation \in Nat
  PROVE  (\E s : Turns' = {s}) /\ Past(streams)'
<1> DEFINE new == Stream(generation, "turn", retries, FALSE)
<1>1. streams' = rest \cup {new}
  BY DEF startTurn, Open
<1>2. new.kind = "turn" /\ new.gen = generation /\ ~new.settled
  BY DEF Stream
<1> HIDE DEF new
<1>3. TurnsIn(streams)' = {new}
  BY <1>1, <1>2 DEF TurnsIn
<1>4. Turns' = TurnsIn(streams)'
  BY DEF Turns, TurnsOpen, TurnsIn, Listens
<1>5. Past(streams)'
  BY <1>1, <1>2 DEF Past
<1> QED
  BY <1>3, <1>4, <1>5

LEMMA KeepsTurns ==
  ASSUME NEW rest, streams' = rest, UNCHANGED generation
  PROVE  Turns' = TurnsIn(rest) /\ (Past(rest) => Past(streams)')
BY DEF Turns, TurnsOpen, TurnsIn, Listens, Past

LEMMA EndedRun ==
  ASSUME TypeOK, RunInv, running, Ended, UNCHANGED <<run, dropped>>
  PROVE  RunInv' /\ ends' \in [1..MaxRuns -> Nat] /\ ~running'
<1>1. run \in 1..MaxRuns /\ run \notin dropped
  BY LoopAssumption DEF TypeOK, RunInv
<1>2. ~running' /\ ends' = [ends EXCEPT ![run] = ends[run] + 1]
  BY DEF Ended
<1>3. ends[run] = 0
  BY <1>1 DEF RunInv
<1>4. ends' \in [1..MaxRuns -> Nat] /\ ends'[run] = 1
      /\ \A r \in 1..MaxRuns : r # run => ends'[r] = ends[r]
  BY <1>1, <1>2, <1>3 DEF TypeOK
<1>5. ~(run > run)
  BY <1>1, LoopAssumption
<1> QED
  BY <1>1, <1>2, <1>4, <1>5 DEF RunInv

(* Nothing of the current generation changes. *)
LEMMA WaitFrame ==
  ASSUME LoopInv, UNCHANGED <<running, ends, run, dropped, generation>>,
         Turns' = Turns, Tools' = Tools, Timers' = Timers, Begins' = Begins,
         Past(streams)', Past(tools)', Past(timers)', Past(begins)'
  PROVE  LoopInv'
<1>1. TypeOK'
  BY DEF LoopInv, TypeOK, Past
<1>2. Waits'
  BY DEF LoopInv, Waits
<1>3. RunInv'
  BY DEF LoopInv, RunInv
<1> QED
  BY <1>1, <1>2, <1>3 DEF LoopInv

(* The outcome of a turn or a tool takes the place of what was waited for. *)
LEMMA ApplyInv ==
  ASSUME LoopInv, running, NEW o, o.next \in {"end", "turn", "tool"},
         o.next = "tool" => o.tool.gen = generation,
         NEW rest, TurnsIn(rest) = {}, Past(rest),
         NEW idle, {t \in idle : t.gen = generation} = {}, Past(idle),
         Timers' = {}, Begins' = {}, Past(timers)', Past(begins)',
         Apply(o, rest, idle), UNCHANGED <<generation, run, dropped>>
  PROVE  LoopInv'
<1> USE DEF LoopInv
<1>1. generation \in Nat
  BY DEF TypeOK
<1>2. Past(tools)' /\ Tools' = IF o.next = "tool" THEN {o.tool} ELSE {}
  <2>1. tools' = IF o.next = "tool" THEN idle \cup {o.tool} ELSE idle
    BY DEF Apply
  <2> QED
    BY <1>1, <2>1 DEF Tools, Past
<1>3. CASE o.next = "end"
  <2>1. streams' = rest /\ Ended
    BY <1>3 DEF Apply
  <2>2. RunInv' /\ ends' \in [1..MaxRuns -> Nat] /\ ~running'
    BY <2>1, EndedRun
  <2>3. Turns' = {} /\ Past(streams)'
    BY <2>1, KeepsTurns
  <2>4. TypeOK'
    BY <1>2, <2>2, <2>3 DEF TypeOK, Past
  <2>5. Waits'
    BY <1>2, <1>3, <2>2, <2>3 DEF Waits
  <2> QED
    BY <2>2, <2>4, <2>5
<1>4. CASE o.next # "end"
  <2>1. UNCHANGED <<running, ends>>
    BY <1>4 DEF Apply
  <2>2. RunInv'
    BY <2>1 DEF RunInv
  <2>3. Past(streams)' /\ IF o.next = "turn" THEN \E s : Turns' = {s} ELSE Turns' = {}
    BY <1>1, <1>4, OpensTurn, KeepsTurns DEF Apply
  <2>4. TypeOK'
    BY <1>2, <2>1, <2>3 DEF TypeOK, Past
  <2>5. Waits'
    <3>1. running'
      BY <2>1
    <3>2. CASE o.next = "turn"
      BY <1>2, <2>3, <3>1, <3>2 DEF Waits
    <3>3. CASE o.next = "tool"
      BY <1>2, <2>3, <3>1, <3>3 DEF Waits
    <3> QED
      BY <1>4, <3>2, <3>3
  <2> QED
    BY <2>2, <2>4, <2>5
<1> QED
  BY <1>3, <1>4

-----------------------------------------------------------------------------
(* One lemma per action *)

LEMMA InitInv == Init => LoopInv
<1> SUFFICES ASSUME Init PROVE LoopInv
  OBVIOUS
<1>1. TypeOK
  BY LoopAssumption DEF Init, TypeOK
<1>2. Waits
  BY DEF Init, Waits, Turns, TurnsOpen, Tools, Timers, Begins
<1>3. RunInv
  BY DEF Init, RunInv
<1> QED
  BY <1>1, <1>2, <1>3 DEF LoopInv

LEMMA Pasts ==
  ASSUME LoopInv
  PROVE  /\ Past(streams) /\ Past(tools) /\ Past(timers) /\ Past(begins)
         /\ generation \in Nat
BY DEF LoopInv, TypeOK, Past

(* What is waited for is waited for alone, and by a run. *)
LEMMA Alone ==
  ASSUME LoopInv
  PROVE  /\ \A s \in Turns : Turns = {s} /\ Tools = {} /\ Timers = {} /\ Begins = {} /\ running
         /\ \A t \in Tools : Tools = {t} /\ Turns = {} /\ Timers = {} /\ Begins = {} /\ running
         /\ \A t \in Timers : Timers = {t} /\ Turns = {} /\ Tools = {} /\ Begins = {} /\ running
         /\ \A b \in Begins : Begins = {b} /\ Turns = {} /\ Tools = {} /\ Timers = {} /\ running
         /\ ~running => Turns = {} /\ Tools = {} /\ Timers = {} /\ Begins = {}
BY DEF LoopInv, Waits

LEMMA SameWaits ==
  ASSUME UNCHANGED generation
  PROVE  /\ UNCHANGED streams => Turns' = Turns /\ (Past(streams) => Past(streams)')
         /\ UNCHANGED tools => Tools' = Tools /\ (Past(tools) => Past(tools)')
         /\ UNCHANGED timers => Timers' = Timers /\ (Past(timers) => Past(timers)')
         /\ UNCHANGED begins => Begins' = Begins /\ (Past(begins) => Past(begins)')
BY DEF Turns, TurnsOpen, Listens, Tools, Timers, Begins, Past

LEMMA QuietInv ==
  ASSUME LoopInv,
         UNCHANGED <<running, ends, run, dropped, generation, streams, tools, timers, begins>>
  PROVE  LoopInv'
BY Pasts, SameWaits, WaitFrame

LEMMA IgnoredInv ==
  ASSUME LoopInv, NEW rest, TurnsIn(rest) = Turns, Past(rest), Ignored(rest),
         UNCHANGED <<timers, begins, others>>
  PROVE  LoopInv'
<1>1. UNCHANGED <<running, ends, tools, timers, begins, generation, run, dropped>> /\ streams' = rest
  BY DEF Ignored, others
<1>2. Turns' = Turns /\ Past(streams)'
  BY <1>1, KeepsTurns
<1> QED
  BY <1>1, <1>2, Pasts, SameWaits, WaitFrame

(* A run starts: it waits for a turn, or for the summary of a compaction. *)
LEMMA StartRunInv ==
  ASSUME LoopInv, StartRun
  PROVE  LoopInv'
<1> USE DEF LoopInv
<1>1. /\ ~running /\ running' /\ run' = run + 1 /\ run < MaxRuns
      /\ UNCHANGED <<generation, tools, timers, ends, dropped>>
  BY DEF StartRun
<1>2. Turns = {} /\ Tools = {} /\ Timers = {} /\ Begins = {}
  BY <1>1, Alone
<1>3. Tools' = {} /\ Timers' = {} /\ Past(tools)' /\ Past(timers)'
  BY <1>1, <1>2, Pasts, SameWaits
<1>4. /\ run' \in 1..MaxRuns /\ run' \notin dropped /\ dropped' \subseteq 1..run'
      /\ run' \in 0..MaxRuns
  BY <1>1, LoopAssumption DEF TypeOK
<1>5. RunInv'
  <2>1. \A r \in 1..MaxRuns : r > run' \/ r \in dropped \/ r = run' <=> r > run \/ r \in dropped
    BY <1>1, LoopAssumption DEF TypeOK
  <2> QED
    BY <1>1, <1>4, <2>1, LoopAssumption DEF RunInv
<1>6. CASE PushAndStart(history, run + 1, streams) /\ UNCHANGED begins
  <2>1. startTurn(streams, 0)
    BY <1>6 DEF PushAndStart
  <2>2. (\E s : Turns' = {s}) /\ Past(streams)'
    BY <1>1, <1>2, <2>1, Pasts, TurnsAreIn, OpensTurn
  <2>3. Begins' = {} /\ Past(begins)'
    BY <1>1, <1>2, <1>6, Pasts, SameWaits
  <2>4. TypeOK'
    BY <1>1, <1>3, <1>4, <2>2, <2>3 DEF TypeOK, Past
  <2>5. Waits'
    BY <1>1, <1>3, <2>2, <2>3 DEF Waits
  <2> QED
    BY <1>5, <2>4, <2>5
<1>7. ASSUME NEW cut \in Cuts(history), Open(streams, "summary", 0),
             begins' = begins \cup {[gen |-> generation, cut |-> cut]}
      PROVE  LoopInv'
  <2> DEFINE new == Stream(generation, "summary", 0, FALSE)
             begin == [gen |-> generation, cut |-> cut]
  <2>1. streams' = streams \cup {new} /\ new.gen = generation /\ new.kind = "summary"
    BY <1>7 DEF Open, Stream
  <2>2. begins' = begins \cup {begin} /\ begin.gen = generation
    BY <1>7
  <2> HIDE DEF new, begin
  <2>3. Turns' = {} /\ Past(streams)'
    BY <1>1, <1>2, <2>1, Pasts DEF Turns, TurnsOpen, Listens, Past
  <2>4. Begins' = {begin} /\ Past(begins)'
    BY <1>1, <1>2, <2>2, Pasts DEF Begins, Past
  <2>5. TypeOK'
    BY <1>1, <1>3, <1>4, <2>3, <2>4 DEF TypeOK, Past
  <2>6. Waits'
    BY <1>1, <1>3, <2>3, <2>4 DEF Waits
  <2> QED
    BY <1>5, <2>5, <2>6
<1> QED
  BY <1>6, <1>7 DEF StartRun

LEMMA ResetInv ==
  ASSUME LoopInv, reset
  PROVE  LoopInv'
<1> USE DEF LoopInv
<1>1. /\ generation' = generation + 1 /\ ~running'
      /\ dropped' = dropped \cup {r \in {run} : running}
      /\ UNCHANGED <<streams, tools, timers, begins, run, ends>>
  BY DEF reset
<1>2. \A x \in streams \cup tools \cup timers \cup begins :
        x.gen # generation' /\ x.gen \in 0..generation'
  BY <1>1 DEF TypeOK
<1>3. Waits'
  BY <1>1, <1>2 DEF Waits, Turns, TurnsOpen, Listens, Tools, Timers, Begins
<1>4. running => run \in 1..run
  BY LoopAssumption DEF TypeOK, RunInv
<1>5. TypeOK'
  <2>1. dropped' \subseteq 1..run
    BY <1>1, <1>4 DEF TypeOK
  <2>2. generation' \in Nat
    BY <1>1 DEF TypeOK
  <2> QED
    BY <1>1, <1>2, <2>1, <2>2 DEF TypeOK
<1>6. RunInv'
  BY <1>1 DEF RunInv
<1> QED
  BY <1>3, <1>5, <1>6

(* The summary of a compaction resolves, for the run that waits for it or for  *)
(* a run that was dropped.                                                     *)
LEMMA SummaryInv ==
  ASSUME LoopInv, NEW b \in begins, NEW rest, TurnsIn(rest) = Turns, Past(rest),
         SummaryResolves(b, rest), UNCHANGED others
  PROVE  LoopInv'
<1> USE DEF LoopInv
<1>1. begins' = begins \ {b} /\ UNCHANGED <<tools, timers, generation, run, dropped>>
  BY DEF SummaryResolves, others
<1>2. /\ Tools' = Tools /\ Timers' = Timers /\ Past(tools)' /\ Past(timers)'
      /\ Begins' = Begins \ {b} /\ Past(begins)'
  BY <1>1, Pasts, SameWaits DEF Begins, Past
<1>3. CASE b.gen # generation
  <2>1. streams' = rest /\ UNCHANGED <<running, ends>>
    BY <1>3 DEF SummaryResolves
  <2>2. Turns' = Turns /\ Past(streams)'
    BY <1>1, <2>1, KeepsTurns
  <2>3. Begins' = Begins
    BY <1>2, <1>3 DEF Begins
  <2> QED
    BY <1>1, <1>2, <2>1, <2>2, <2>3, WaitFrame
<1>4. CASE b.gen = generation
  <2>1. b \in Begins
    BY <1>4 DEF Begins
  <2>2. Begins = {b} /\ Turns = {} /\ Tools = {} /\ Timers = {} /\ running
    BY <2>1, Alone
  <2>3. Resume(b, rest)
    BY <1>4 DEF SummaryResolves
  <2>4. CASE cancelled
    <3>1. Ended /\ streams' = rest
      BY <2>3, <2>4 DEF Resume
    <3>2. RunInv' /\ ends' \in [1..MaxRuns -> Nat] /\ ~running'
      BY <1>1, <2>2, <3>1, EndedRun
    <3>3. Turns' = {} /\ Past(streams)'
      BY <1>1, <2>2, <3>1, KeepsTurns
    <3>4. TypeOK'
      BY <1>1, <1>2, <3>2, <3>3 DEF TypeOK, Past
    <3>5. Waits'
      BY <1>2, <2>2, <3>2, <3>3 DEF Waits
    <3> QED
      BY <3>2, <3>4, <3>5
  <2>5. CASE ~cancelled
    <3>1. startTurn(rest, 0) /\ UNCHANGED <<running, ends>>
      BY <2>3, <2>5 DEF Resume, PushAndStart
    <3>2. (\E s : Turns' = {s}) /\ Past(streams)'
      BY <1>1, <2>2, <3>1, Pasts, OpensTurn
    <3>3. TypeOK'
      BY <1>1, <1>2, <3>1, <3>2 DEF TypeOK, Past
    <3>4. RunInv'
      BY <1>1, <3>1 DEF RunInv
    <3>5. Waits'
      BY <1>2, <2>2, <3>1, <3>2 DEF Waits
    <3> QED
      BY <3>3, <3>4, <3>5
  <2> QED
    BY <2>4, <2>5
<1> QED
  BY <1>3, <1>4

LEMMA SummarySettlesInv ==
  ASSUME LoopInv, NEW s \in streams, s.kind # "turn",
         NEW rest \in {Without(s), Settled(s)}, SummarySettles(s, rest), UNCHANGED others
  PROVE  LoopInv'
<1>1. TurnsIn(rest) = Turns \ {s} /\ Past(rest)
  BY Pasts, RestLemma
<1>2. TurnsIn(rest) = Turns
  BY <1>1 DEF Turns, TurnsOpen
<1> QED
  BY <1>1, <1>2, SummaryInv, IgnoredInv DEF SummarySettles

(* The last chunk of a turn, or its error. *)
LEMMA TurnSettlesInv ==
  ASSUME LoopInv, NEW s \in streams, s.kind = "turn",
         NEW rest \in {Without(s), Settled(s)}, UNCHANGED others,
         onDone(s, rest) \/ \E empty \in BOOLEAN : onError(s, empty, rest)
  PROVE  LoopInv'
<1>1. TurnsIn(rest) = Turns \ {s} /\ Past(rest)
  BY Pasts, RestLemma
<1>2. CASE ~Listens(s)
  <2>1. TurnsIn(rest) = Turns
    BY <1>1, <1>2 DEF Turns, TurnsOpen
  <2>2. Ignored(rest) /\ UNCHANGED <<timers, begins>>
    BY <1>2 DEF onDone, onError
  <2> QED
    BY <1>1, <2>1, <2>2, IgnoredInv
<1>3. CASE Listens(s)
  <2>1. s \in Turns
    BY <1>3 DEF Turns, TurnsOpen
  <2>2. Turns = {s} /\ Tools = {} /\ Timers = {} /\ Begins = {} /\ running
    BY <2>1, Alone
  <2>3. TurnsIn(rest) = {}
    BY <1>1, <2>2
  <2>4. UNCHANGED <<begins, generation, run, dropped>>
    BY DEF onDone, onError, others
  <2>5. Begins' = {} /\ Past(begins)'
    BY <2>2, <2>4, Pasts, SameWaits
  <2>6. {t \in tools : t.gen = generation} = {} /\ Past(tools)
    BY <2>2, Pasts DEF Tools
  <2>7. ASSUME NEW o, o.next \in {"end", "turn", "tool"},
               o.next = "tool" => o.tool.gen = generation,
               Apply(o, rest, tools), UNCHANGED timers
        PROVE  LoopInv'
    <3>1. Timers' = {} /\ Past(timers)'
      BY <2>2, <2>4, <2>7, Pasts, SameWaits
    <3> QED
      BY <1>1, <2>2, <2>3, <2>4, <2>5, <2>6, <2>7, <3>1, ApplyInv
  <2>8. CASE onDone(s, rest)
    <3>1. PICK o \in finishTurn : Apply(o, rest, tools)
      BY <1>3, <2>8 DEF onDone
    <3>2. UNCHANGED timers
      BY <2>8 DEF onDone
    <3> QED
      BY <2>7, <3>1, <3>2, FinishTurnNext
  <2>9. ASSUME NEW empty \in BOOLEAN, onError(s, empty, rest)
        PROVE  LoopInv'
    <3>1. CASE Ignored(rest) /\ timers' = timers \cup {[gen |-> generation, retries |-> s.retries + 1]}
      <4> DEFINE t == [gen |-> generation, retries |-> s.retries + 1]
      <4>1. t.gen = generation /\ timers' = timers \cup {t}
        BY <3>1
      <4> HIDE DEF t
      <4>2. Timers' = {t} /\ Past(timers)'
        BY <2>2, <2>4, <4>1, Pasts DEF Timers, Past
      <4>3. UNCHANGED <<running, ends, tools>> /\ streams' = rest
        BY <3>1 DEF Ignored
      <4>4. Turns' = {} /\ Past(streams)'
        BY <1>1, <2>3, <2>4, <4>3, KeepsTurns
      <4>5. Tools' = {} /\ Past(tools)'
        BY <2>2, <2>4, <4>3, Pasts, SameWaits
      <4>6. TypeOK'
        BY <2>4, <2>5, <4>2, <4>3, <4>4, <4>5 DEF LoopInv, TypeOK, Past
      <4>7. RunInv'
        BY <2>4, <4>3 DEF LoopInv, RunInv
      <4>8. Waits'
        BY <2>2, <2>5, <4>2, <4>3, <4>4, <4>5 DEF Waits
      <4> QED
        BY <4>6, <4>7, <4>8 DEF LoopInv
    <3>2. CASE /\ Apply(Outcome(rollbackFailedRun(history), counters, "end", NoTool), rest, tools)
               /\ UNCHANGED timers
      <4>1. Outcome(rollbackFailedRun(history), counters, "end", NoTool).next = "end"
        BY DEF Outcome
      <4> QED
        BY <2>7, <3>2, <4>1
    <3> QED
      BY <1>3, <2>9, <3>1, <3>2 DEF onError
  <2> QED
    BY <2>8, <2>9
<1> QED
  BY <1>2, <1>3

LEMMA ToolEndsInv ==
  ASSUME LoopInv, NEW tool \in tools, NEW failed \in BOOLEAN, NEW mutated \in BOOLEAN,
         ToolEnds(tool, failed, mutated)
  PROVE  LoopInv'
<1>1. UNCHANGED <<timers, begins, generation, run, dropped>>
  BY DEF ToolEnds, others
<1>2. Timers' = Timers /\ Begins' = Begins /\ Past(timers)' /\ Past(begins)'
  BY <1>1, Pasts, SameWaits
<1>3. CASE tool.gen # generation
  <2>1. tools' = tools \ {tool} /\ UNCHANGED <<running, streams, ends>>
    BY <1>3 DEF ToolEnds
  <2>2. Tools' = Tools /\ Past(tools)'
    BY <1>1, <1>3, <2>1, Pasts DEF Tools, Past
  <2>3. Turns' = Turns /\ Past(streams)'
    BY <1>1, <2>1, Pasts, SameWaits
  <2> QED
    BY <1>1, <1>2, <2>1, <2>2, <2>3, WaitFrame
<1>4. CASE tool.gen = generation
  <2>1. tool \in Tools
    BY <1>4 DEF Tools
  <2>2. Tools = {tool} /\ Turns = {} /\ Timers = {} /\ Begins = {} /\ running
    BY <2>1, Alone
  <2> DEFINE went == Tool(tool.gen, tool.calls, tool.at,
                          tool.failed /\ failed, tool.mutated \/ mutated)
  <2>3. PICK o \in RunTools(history, went) : Apply(o, streams, tools \ {tool})
    BY <1>4 DEF ToolEnds
  <2>4. went.gen = generation
    BY <1>4 DEF Tool
  <2> HIDE DEF went
  <2>5. o.next \in {"end", "turn", "tool"} /\ (o.next = "tool" => o.tool.gen = generation)
    BY <2>3, <2>4, RunToolsNext
  <2>6. {t \in tools \ {tool} : t.gen = generation} = {} /\ Past(tools \ {tool})
    BY <2>2, Pasts DEF Tools, Past
  <2>7. TurnsIn(streams) = {} /\ Past(streams)
    BY <2>2, Pasts, TurnsAreIn
  <2> QED
    BY <1>1, <1>2, <2>2, <2>3, <2>5, <2>6, <2>7, ApplyInv
<1> QED
  BY <1>3, <1>4

LEMMA TimerFiresInv ==
  ASSUME LoopInv, NEW t \in timers, TimerFires(t)
  PROVE  LoopInv'
<1>1. timers' = timers \ {t} /\ UNCHANGED <<begins, generation, run, dropped>>
  BY DEF TimerFires, others
<1>2. Timers' = Timers \ {t} /\ Begins' = Begins /\ Past(timers)' /\ Past(begins)'
  BY <1>1, Pasts, SameWaits DEF Timers, Past
<1>3. CASE t.gen # generation
  <2>1. UNCHANGED <<running, ends, tools, streams>>
    BY <1>3 DEF TimerFires, Ignored
  <2>2. Timers' = Timers
    BY <1>2, <1>3 DEF Timers
  <2> QED
    BY <1>1, <1>2, <2>1, <2>2, Pasts, SameWaits, WaitFrame
<1>4. CASE t.gen = generation
  <2>1. t \in Timers
    BY <1>4 DEF Timers
  <2>2. Timers = {t} /\ Turns = {} /\ Tools = {} /\ Begins = {} /\ running
    BY <2>1, Alone
  <2>3. TurnsIn(streams) = {} /\ Past(streams)
    BY <2>2, Pasts, TurnsAreIn
  <2>4. CASE cancelled
    <3>1. PICK o \in finishTurn : Apply(o, streams, tools)
      BY <1>4, <2>4 DEF TimerFires
    <3>2. {x \in tools : x.gen = generation} = {} /\ Past(tools)
      BY <2>2, Pasts DEF Tools
    <3>3. /\ Timers' = {} /\ Begins' = {} /\ Past(timers)' /\ Past(begins)'
          /\ UNCHANGED <<generation, run, dropped>> /\ running
      BY <1>1, <1>2, <2>2
    <3>4. o.next \in {"end", "turn", "tool"} /\ (o.next = "tool" => o.tool.gen = generation)
      BY <3>1, FinishTurnNext
    <3> QED
      BY <2>3, <3>1, <3>2, <3>3, <3>4, ApplyInv
  <2>5. CASE ~cancelled
    <3>1. startTurn(streams, t.retries) /\ UNCHANGED <<running, tools, ends>>
      BY <1>4, <2>5 DEF TimerFires
    <3>2. (\E s : Turns' = {s}) /\ Past(streams)'
      BY <1>1, <2>3, <3>1, Pasts, OpensTurn
    <3>3. Tools' = {} /\ Past(tools)'
      BY <1>1, <2>2, <3>1, Pasts, SameWaits
    <3>4. TypeOK'
      BY <1>1, <1>2, <3>1, <3>2, <3>3 DEF LoopInv, TypeOK, Past
    <3>5. RunInv'
      BY <1>1, <3>1 DEF LoopInv, RunInv
    <3>6. Waits'
      BY <1>2, <2>2, <3>1, <3>2, <3>3 DEF Waits
    <3> QED
      BY <3>4, <3>5, <3>6 DEF LoopInv
  <2> QED
    BY <2>4, <2>5
<1> QED
  BY <1>3, <1>4

LEMMA SummaryTimesOutInv ==
  ASSUME LoopInv, NEW b \in begins, SummaryTimesOut(b)
  PROVE  LoopInv'
<1> DEFINE rest == {s \in streams : s.kind = "turn" \/ s.gen # b.gen}
<1>1. TurnsIn(rest) = Turns /\ Past(rest)
  BY Pasts, TurnsAreIn DEF TurnsIn, Past
<1>2. SummaryResolves(b, rest) /\ UNCHANGED others
  BY DEF SummaryTimesOut
<1> HIDE DEF rest
<1> QED
  BY <1>1, <1>2, SummaryInv

LEMMA StepInv == LoopInv /\ [Next]_vars => LoopInv'
<1> SUFFICES ASSUME LoopInv, [Next]_vars PROVE LoopInv'
  OBVIOUS
<1>1. CASE StartRun
  BY <1>1, StartRunInv
<1>2. CASE reset
  BY <1>2, ResetInv
<1>3. CASE cancel \/ \E t \in Transcripts : restore(t)
  <2>1. UNCHANGED <<running, ends, run, dropped, generation, streams, tools, timers, begins>>
    BY <1>3 DEF cancel, restore, ghosts
  <2> QED
    BY <2>1, QuietInv
<1>4. CASE \E s \in streams : Delta(s) \/ \E usable \in BOOLEAN : ToolCall(s, usable)
  <2>1. UNCHANGED <<running, ends, run, dropped, generation, streams, tools, timers, begins>>
    BY <1>4 DEF Delta, ToolCall, others
  <2> QED
    BY <2>1, QuietInv
<1>5. ASSUME NEW s \in streams, StreamDone(s) \/ StreamFails(s) \/ Silence(s)
      PROVE  LoopInv'
  <2>1. CASE s.kind = "turn"
    <3>1. PICK rest \in {Without(s), Settled(s)} :
             /\ onDone(s, rest) \/ \E empty \in BOOLEAN : onError(s, empty, rest)
             /\ UNCHANGED others
      BY <1>5, <2>1 DEF StreamDone, StreamFails, Silence
    <3> QED
      BY <2>1, <3>1, TurnSettlesInv
  <2>2. CASE s.kind # "turn"
    <3>1. PICK rest \in {Without(s), Settled(s)} : SummarySettles(s, rest) /\ UNCHANGED others
      BY <1>5, <2>2 DEF StreamDone, StreamFails, Silence
    <3> QED
      BY <2>2, <3>1, SummarySettlesInv
  <2> QED
    BY <2>1, <2>2
<1>6. CASE ToolReturns
  BY <1>6, ToolEndsInv DEF ToolReturns
<1>7. CASE Timeouts
  BY <1>7, TimerFiresInv, SummaryTimesOutInv DEF Timeouts
<1>8. CASE UNCHANGED vars
  BY <1>8, QuietInv DEF vars, ghosts
<1> QED
  BY <1>1, <1>2, <1>3, <1>4, <1>5, <1>6, <1>7, <1>8 DEF Next, Settles

LEMMA InvHolds == Spec => []LoopInv
BY InitInv, StepInv, PTL DEF Spec

-----------------------------------------------------------------------------
(* A busy run of the loop (loop.ts) always waits for one stream, one tool, one *)
(* retry delay or one summary of its generation and never for two, and an idle *)
(* loop waits for nothing: callbacks of two turns are never interleaved.       *)
THEOREM WaitsForOneThing == Spec => []OneThing
<1>1. LoopInv => OneThing
  <2> SUFFICES ASSUME LoopInv PROVE OneThing
    OBVIOUS
  <2>1. Cardinality({}) = 0
    BY FS_EmptySet
  <2>2. \A x : Cardinality({x}) = 1
    BY FS_Singleton
  <2>3. Cardinality(Turns) + Cardinality(Tools) + Cardinality(Timers) + Cardinality(Begins)
          = IF running THEN 1 ELSE 0
    <3> DEFINE Sizes(i, j, k, l) ==
          /\ Cardinality(Turns) = i /\ Cardinality(Tools) = j
          /\ Cardinality(Timers) = k /\ Cardinality(Begins) = l
    <3>1. \/ ~running /\ Sizes(0, 0, 0, 0)
          \/ running /\ (Sizes(1, 0, 0, 0) \/ Sizes(0, 1, 0, 0) \/ Sizes(0, 0, 1, 0) \/ Sizes(0, 0, 0, 1))
      BY <2>1, <2>2, Zenon DEF LoopInv, Waits
    <3> QED
      BY <3>1
  <2> QED
    BY <2>3 DEF OneThing, Turns, Tools, Timers, Begins
<1> QED
  BY <1>1, InvHolds, PTL

(* Every run is reported by onDone or onError once, whatever is stopped, times  *)
(* out or comes late, and a run that reset drops is never reported.            *)
THEOREM RunsEndOnce == Spec => []EndsOnce
<1>1. LoopInv => EndsOnce
  <2> SUFFICES ASSUME LoopInv, NEW r \in 1..run
               PROVE  ends[r] = IF r \in dropped \/ (running /\ r = run) THEN 0 ELSE 1
    BY DEF EndsOnce
  <2>1. r \in 1..MaxRuns /\ ~(r > run)
    BY LoopAssumption DEF LoopInv, TypeOK
  <2> QED
    BY <2>1 DEF LoopInv, RunInv
<1> QED
  BY <1>1, InvHolds, PTL

-----------------------------------------------------------------------------
(* What a stopped run may still do *)
StartsNothing ==
  /\ Turns' # {} => Turns' = Turns /\ history' = history
  /\ tools' \subseteq tools

LEMMA IgnoredStarts ==
  ASSUME NEW rest, TurnsIn(rest) = Turns, Ignored(rest), UNCHANGED generation
  PROVE  StartsNothing
<1>1. streams' = rest /\ UNCHANGED <<history, tools>>
  BY DEF Ignored
<1>2. Turns' = Turns
  BY <1>1, KeepsTurns
<1> QED
  BY <1>1, <1>2 DEF StartsNothing

LEMMA EndStarts ==
  ASSUME NEW o, o.next = "end", NEW rest, TurnsIn(rest) = {}, NEW idle, idle \subseteq tools,
         Apply(o, rest, idle), UNCHANGED generation
  PROVE  StartsNothing
<1>1. streams' = rest /\ tools' = idle
  BY DEF Apply
<1>2. Turns' = {}
  BY <1>1, KeepsTurns
<1> QED
  BY <1>1, <1>2 DEF StartsNothing

LEMMA SummaryStarts ==
  ASSUME LoopInv, cancelled, NEW b \in begins, NEW rest, TurnsIn(rest) = Turns,
         SummaryResolves(b, rest), UNCHANGED generation
  PROVE  StartsNothing
<1>1. UNCHANGED tools /\ streams' = rest
  BY DEF SummaryResolves, Resume
<1>2. Turns' = Turns
  BY <1>1, KeepsTurns
<1>3. CASE b.gen = generation
  <2>1. b \in Begins
    BY <1>3 DEF Begins
  <2>2. Turns = {}
    BY <2>1, Alone
  <2> QED
    BY <1>1, <1>2, <2>2 DEF StartsNothing
<1>4. CASE b.gen # generation
  <2>1. UNCHANGED history
    BY <1>4 DEF SummaryResolves
  <2> QED
    BY <1>1, <1>2, <2>1 DEF StartsNothing
<1> QED
  BY <1>3, <1>4

LEMMA TurnStarts ==
  ASSUME LoopInv, cancelled, NEW s \in streams, s.kind = "turn",
         NEW rest \in {Without(s), Settled(s)}, UNCHANGED generation,
         onDone(s, rest) \/ \E empty \in BOOLEAN : onError(s, empty, rest)
  PROVE  StartsNothing
<1>1. TurnsIn(rest) = Turns \ {s}
  BY Pasts, RestLemma
<1>2. CASE ~Listens(s)
  <2>1. TurnsIn(rest) = Turns
    BY <1>1, <1>2 DEF Turns, TurnsOpen
  <2>2. Ignored(rest)
    BY <1>2 DEF onDone, onError
  <2> QED
    BY <2>1, <2>2, IgnoredStarts
<1>3. CASE Listens(s)
  <2>1. s \in Turns
    BY <1>3 DEF Turns, TurnsOpen
  <2>2. TurnsIn(rest) = {}
    BY <1>1, <2>1, Alone
  <2>3. CASE onDone(s, rest)
    <3>1. PICK o \in finishTurn : Apply(o, rest, tools)
      BY <1>3, <2>3 DEF onDone
    <3>2. o.next = "end"
      BY <3>1, FinishTurnNext
    <3> QED
      BY <2>2, <3>1, <3>2, EndStarts
  <2>4. CASE \E empty \in BOOLEAN : onError(s, empty, rest)
    <3> DEFINE o == Outcome(rollbackFailedRun(history), counters, "end", NoTool)
    <3>1. Apply(o, rest, tools)
      BY <1>3, <2>4 DEF onError
    <3>2. o.next = "end"
      BY DEF Outcome
    <3> HIDE DEF o
    <3> QED
      BY <2>2, <3>1, <3>2, EndStarts
  <2> QED
    BY <2>3, <2>4
<1> QED
  BY <1>2, <1>3

LEMMA ToolStarts ==
  ASSUME LoopInv, cancelled, NEW tool \in tools, NEW failed \in BOOLEAN, NEW mutated \in BOOLEAN,
         ToolEnds(tool, failed, mutated)
  PROVE  StartsNothing
<1>1. UNCHANGED generation
  BY DEF ToolEnds, others
<1>2. CASE tool.gen # generation
  <2>1. tools' = tools \ {tool} /\ UNCHANGED <<streams, history>>
    BY <1>2 DEF ToolEnds
  <2>2. Turns' = Turns
    BY <1>1, <2>1, SameWaits
  <2> QED
    BY <2>1, <2>2 DEF StartsNothing
<1>3. CASE tool.gen = generation
  <2> DEFINE went == Tool(tool.gen, tool.calls, tool.at,
                          tool.failed /\ failed, tool.mutated \/ mutated)
  <2>1. PICK o \in RunTools(history, went) : Apply(o, streams, tools \ {tool})
    BY <1>3 DEF ToolEnds
  <2> HIDE DEF went
  <2>2. o.next = "end"
    BY <2>1, RunToolsNext
  <2>3. tool \in Tools
    BY <1>3 DEF Tools
  <2>4. TurnsIn(streams) = {}
    BY <2>3, Alone, TurnsAreIn
  <2> QED
    BY <1>1, <2>1, <2>2, <2>4, EndStarts
<1> QED
  BY <1>2, <1>3

LEMMA TimerStarts ==
  ASSUME LoopInv, cancelled, NEW t \in timers, TimerFires(t)
  PROVE  StartsNothing
<1>1. UNCHANGED generation
  BY DEF TimerFires, others
<1>2. CASE t.gen # generation
  <2>1. Ignored(streams)
    BY <1>2 DEF TimerFires
  <2> QED
    BY <1>1, <2>1, TurnsAreIn, IgnoredStarts
<1>3. CASE t.gen = generation
  <2>1. PICK o \in finishTurn : Apply(o, streams, tools)
    BY <1>3 DEF TimerFires
  <2>2. o.next = "end"
    BY <2>1, FinishTurnNext
  <2>3. t \in Timers
    BY <1>3 DEF Timers
  <2>4. TurnsIn(streams) = {}
    BY <2>3, Alone, TurnsAreIn
  <2> QED
    BY <1>1, <2>1, <2>2, <2>4, EndStarts
<1> QED
  BY <1>2, <1>3

LEMMA StopStep == LoopInv /\ [Next]_vars /\ cancelled /\ cancelled' => StartsNothing
<1> SUFFICES ASSUME LoopInv, [Next]_vars, cancelled, cancelled' PROVE StartsNothing
  OBVIOUS
<1>1. CASE StartRun \/ reset \/ cancel
  BY <1>1 DEF StartRun, reset, cancel
<1>2. CASE \E t \in Transcripts : restore(t)
  <2>1. ~running /\ UNCHANGED <<generation, streams, tools>>
    BY <1>2 DEF restore
  <2>2. Turns' = {}
    BY <2>1, Alone, SameWaits
  <2> QED
    BY <2>1, <2>2 DEF StartsNothing
<1>3. CASE \/ \E s \in streams : Delta(s) \/ \E usable \in BOOLEAN : ToolCall(s, usable)
           \/ UNCHANGED vars
  <2>1. UNCHANGED <<history, generation, streams, tools>>
    BY <1>3 DEF Delta, ToolCall, others, vars
  <2> QED
    BY <2>1, SameWaits DEF StartsNothing
<1>4. ASSUME NEW s \in streams, StreamDone(s) \/ StreamFails(s) \/ Silence(s)
      PROVE  StartsNothing
  <2>1. UNCHANGED generation
    BY <1>4 DEF StreamDone, StreamFails, Silence, others
  <2>2. CASE s.kind = "turn"
    <3>1. PICK rest \in {Without(s), Settled(s)} :
             onDone(s, rest) \/ \E empty \in BOOLEAN : onError(s, empty, rest)
      BY <1>4, <2>2 DEF StreamDone, StreamFails, Silence
    <3> QED
      BY <2>1, <2>2, <3>1, TurnStarts
  <2>3. CASE s.kind # "turn"
    <3>1. PICK rest \in {Without(s), Settled(s)} : SummarySettles(s, rest)
      BY <1>4, <2>3 DEF StreamDone, StreamFails, Silence
    <3>2. TurnsIn(rest) = Turns \ {s}
      BY Pasts, RestLemma
    <3>3. TurnsIn(rest) = Turns
      BY <2>3, <3>2 DEF Turns, TurnsOpen
    <3> QED
      BY <2>1, <3>1, <3>3, SummaryStarts, IgnoredStarts DEF SummarySettles
  <2> QED
    BY <2>2, <2>3
<1>5. CASE ToolReturns
  BY <1>5, ToolStarts DEF ToolReturns
<1>6. ASSUME NEW b \in begins, SummaryTimesOut(b)
      PROVE  StartsNothing
  <2> DEFINE rest == {s \in streams : s.kind = "turn" \/ s.gen # b.gen}
  <2>1. TurnsIn(rest) = Turns
    BY TurnsAreIn DEF TurnsIn
  <2>2. SummaryResolves(b, rest) /\ UNCHANGED generation
    BY <1>6 DEF SummaryTimesOut, others
  <2> HIDE DEF rest
  <2> QED
    BY <2>1, <2>2, SummaryStarts
<1>7. CASE Timeouts
  BY <1>6, <1>7, TimerStarts DEF Timeouts
<1> QED
  BY <1>1, <1>2, <1>3, <1>4, <1>5, <1>7 DEF Next, Settles

(* Once cancel() has been called, no step of the loop opens a turn or starts a  *)
(* tool, in whichever suspension the run was stopped: only a turn that was      *)
(* already open may still be listened to.                                       *)
THEOREM CancelStopsTheRun == Spec => StopsAfterCancel
<1>1. LoopInv /\ [Next]_vars =>
        [ cancelled /\ cancelled' =>
            /\ TurnsOpen' # {} => TurnsOpen' = TurnsOpen /\ history' = history
            /\ tools' \subseteq tools ]_vars
  BY StopStep DEF StartsNothing, Turns
<1> QED
  BY <1>1, InvHolds, PTL DEF Spec, StopsAfterCancel

-----------------------------------------------------------------------------
(* The history.  Between runs it is a conversation: it starts with a user      *)
(* message, ends with an answer or with results, is paired, and no note is     *)
(* left in it.  A run r appends to such a conversation (b) its instruction     *)
(* and whatever follows; that is a request whenever a turn is open or a retry   *)
(* waits, and a tool runs when the calls it belongs to have just been appended  *)
(* to a request.                                                                *)
Messages == [role : {"user", "assistant", "tool"},
             what : {"ask", "note", "summary", "fix", "text", "none", "calls", "results"}, n : Nat]
Counters == [turns : Int, finalizing : BOOLEAN, verified : BOOLEAN, parseFails : Int,
             identical : Int, allErrors : Int, lastSig : Int]

Answered(r, h) ==
  /\ h \in Seq(Messages) /\ Paired(h)
  /\ h # <<>> => ~IsUser(h[Len(h)])
  /\ \A i \in 1..Len(h) : h[i] # Note /\ (h[i].what = "ask" => h[i].n <= r)
Conversation(r, h) == Answered(r, h) /\ (h # <<>> => IsUser(h[1]))

Request(r, b, h, final) ==
  /\ h \in Seq(Messages) /\ Paired(h)
  /\ IsUser(h[1]) /\ h[Len(h)].role # "assistant"
  /\ Len(b) < Len(h) /\ \A i \in 1..Len(b) : h[i] = b[i]
  /\ \A i \in 1..Len(h) : h[i] = Message("user", "ask", r) <=> i = Len(b) + 1
  /\ \A i \in 1..Len(h) : h[i] = Note <=> final /\ i = Len(h)
  /\ \A i \in 1..Len(h) : h[i].what = "ask" => h[i].n <= r

Calling(r, b, h, tool) ==
  /\ tool.calls \in Seq(BOOLEAN) /\ tool.calls # <<>> /\ tool.at \in Nat
  /\ h # <<>> /\ Request(r, b, Front(h), FALSE)
  /\ h = Append(Front(h), Message("assistant", "calls", Len(tool.calls)))

HistoryInv ==
  /\ counters \in Counters /\ toolCalls \in Seq(BOOLEAN)
  /\ ~running => Conversation(run, history)
  /\ \A b \in Begins :
       Conversation(run - 1, history) /\ b.cut \in Cuts(history) /\ ~counters.finalizing
  /\ running /\ Begins = {} => Conversation(run - 1, base)
  /\ runUserMsg = IF running /\ Begins = {} THEN run ELSE 0
  /\ Turns \cup Timers # {} => Request(run, base, history, counters.finalizing)
  /\ \A tool \in Tools : Calling(run, base, history, tool) /\ ~counters.finalizing

(* What Paired says of one message. *)
PairedAt(h, i) ==
  /\ IsUser(h[i]) /\ i < Len(h) => ~IsUser(h[i + 1])
  /\ h[i].role = "assistant" /\ h[i].n = 0 => h[i].what # "none"
  /\ h[i].role = "assistant" /\ h[i].n > 0 =>
       i < Len(h) /\ h[i + 1] = Message("tool", "results", h[i].n)
  /\ h[i].role = "tool" => i > 1 /\ h[i - 1].role = "assistant" /\ h[i - 1].n = h[i].n

LEMMA PairedIs ==
  ASSUME NEW h \in Seq(Messages)
  PROVE  Paired(h) <=> \A i \in 1..Len(h) : PairedAt(h, i)
BY DEF Paired, PairedAt

(* A message that calls nothing and answers nothing can follow. *)
LEMMA AppendPaired ==
  ASSUME NEW h \in Seq(Messages), Paired(h), NEW m \in Messages, m.role # "tool",
         m.role = "assistant" => m.n = 0 /\ m.what # "none",
         IsUser(m) /\ h # <<>> => ~IsUser(h[Len(h)])
  PROVE  Paired(Append(h, m))
<1> DEFINE g == Append(h, m)
           n == Len(h)
<1>1. /\ g \in Seq(Messages) /\ n \in Nat /\ Len(g) = n + 1
      /\ \A i \in 1..n : g[i] = h[i] /\ h[i] \in Messages
      /\ g[n + 1] = m
  BY AppendAt
<1>2. \A i \in 1..n : PairedAt(h, i)
  BY PairedIs
<1>3. n # 0 => h # <<>>
  OBVIOUS
<1> HIDE DEF g, n
<1>4. ASSUME NEW i \in 1..n PROVE PairedAt(g, i)
  <2>1. g[i] = h[i] /\ PairedAt(h, i) /\ i \in Nat /\ i >= 1 /\ i <= n
    BY <1>1, <1>2
  <2>2. i > 1 => i - 1 \in 1..n /\ g[i - 1] = h[i - 1]
    BY <1>1, <2>1
  <2>3. CASE i < n
    <3>1. g[i + 1] = h[i + 1]
      BY <1>1, <2>1, <2>3
    <3> QED
      BY <1>1, <2>1, <2>2, <2>3, <3>1 DEF PairedAt, n
  <2>4. CASE i = n
    <3>1. h[i].role = "assistant" => ~(h[i].n > 0)
      BY <2>1, <2>4 DEF PairedAt, n
    <3>2. IsUser(h[i]) => ~IsUser(g[i + 1])
      BY <1>1, <1>3, <2>1, <2>4 DEF n
    <3> QED
      BY <1>1, <2>1, <2>2, <3>1, <3>2 DEF PairedAt, n
  <2> QED
    BY <1>1, <2>1, <2>3, <2>4
<1>5. PairedAt(g, n + 1)
  BY <1>1 DEF PairedAt, IsUser
<1>6. \A i \in 1..Len(g) : PairedAt(g, i)
  <2>1. \A i \in 1..Len(g) : i \in 1..n \/ i = n + 1
    BY <1>1
  <2> QED
    BY <1>4, <1>5, <2>1
<1> QED
  BY <1>1, <1>6, PairedIs DEF g

(* Calls, and their results right after them. *)
LEMMA CallPaired ==
  ASSUME NEW h \in Seq(Messages), Paired(h), NEW k \in Nat \ {0}
  PROVE  Paired(Append(Append(h, Message("assistant", "calls", k)), Message("tool", "results", k)))
<1> DEFINE c == Message("assistant", "calls", k)
           r == Message("tool", "results", k)
           q == Append(h, c)
           g == Append(q, r)
           n == Len(h)
<1>0. /\ c \in Messages /\ c.role = "assistant" /\ c.n = k /\ ~IsUser(c)
      /\ r \in Messages /\ r.role = "tool" /\ r.n = k /\ ~IsUser(r)
  BY DEF Message, Messages, IsUser
<1> HIDE DEF c
<1>1. /\ q \in Seq(Messages) /\ n \in Nat /\ Len(q) = n + 1
      /\ \A i \in 1..n : q[i] = h[i] /\ h[i] \in Messages
      /\ q[n + 1] = c
  BY <1>0, AppendAt
<1>2. \A i \in 1..n : PairedAt(h, i)
  BY PairedIs
<1> HIDE DEF q, r
<1>3. /\ g \in Seq(Messages) /\ Len(g) = n + 2
      /\ \A i \in 1..(n + 1) : g[i] = q[i]
      /\ g[n + 2] = r
  <2>1. /\ g \in Seq(Messages) /\ Len(g) = Len(q) + 1
        /\ \A i \in 1..Len(q) : g[i] = q[i]
        /\ g[Len(q) + 1] = r
    BY <1>0, <1>1, AppendAt
  <2>2. Len(q) = n + 1 /\ n + 1 + 1 = n + 2
    BY <1>1
  <2> QED
    BY <2>1, <2>2
<1> HIDE DEF g, n
<1>4. ASSUME NEW i \in 1..n PROVE PairedAt(g, i)
  <2>1. g[i] = h[i] /\ PairedAt(h, i) /\ i \in Nat /\ i >= 1 /\ i <= n
    BY <1>1, <1>2, <1>3
  <2>2. i > 1 => i - 1 \in 1..n /\ g[i - 1] = h[i - 1]
    BY <1>1, <1>3, <2>1
  <2>3. CASE i < n
    <3>1. g[i + 1] = h[i + 1]
      BY <1>1, <1>3, <2>1, <2>3
    <3> QED
      BY <1>1, <1>3, <2>1, <2>2, <2>3, <3>1 DEF PairedAt, n
  <2>4. CASE i = n
    <3>1. h[i].role = "assistant" => ~(h[i].n > 0)
      BY <2>1, <2>4 DEF PairedAt, n
    <3>2. g[i + 1] = c
      BY <1>1, <1>3, <2>1, <2>4
    <3> QED
      BY <1>0, <1>1, <2>1, <2>2, <3>1, <3>2 DEF PairedAt, n
  <2> QED
    BY <1>1, <2>1, <2>3, <2>4
<1>5. PairedAt(g, n + 1)
  <2>1. g[n + 1] = c /\ n + 1 < Len(g) /\ g[n + 1 + 1] = r
    BY <1>1, <1>3
  <2> QED
    BY <1>0, <2>1 DEF PairedAt, IsUser, r
<1>6. PairedAt(g, n + 2)
  <2>1. g[n + 2] = r /\ ~(n + 2 < Len(g)) /\ n + 2 > 1
    BY <1>1, <1>3
  <2> DEFINE last == n + 2
  <2>2. last - 1 = n + 1 /\ g[n + 1] = c /\ last > 1 /\ g[last] = r
    BY <1>1, <1>3, <2>1
  <2> HIDE DEF last
  <2>3. g[last - 1] = c /\ g[last] = r /\ last > 1
    BY <2>2
  <2>4. PairedAt(g, last)
    BY <1>0, <2>3 DEF PairedAt
  <2> QED
    BY <2>4 DEF last
<1>7. \A i \in 1..Len(g) : PairedAt(g, i)
  <2>1. \A i \in 1..Len(g) : i \in 1..n \/ i = n + 1 \/ i = n + 2
    BY <1>1, <1>3
  <2> QED
    BY <1>4, <1>5, <1>6, <2>1
<1> QED
  BY <1>3, <1>7, PairedIs DEF g, q, c, r

(* The history from a user message on. *)
LEMMA FromAt ==
  ASSUME NEW h \in Seq(Messages), NEW c \in Users(h)
  PROVE  /\ c \in 1..Len(h) /\ Len(h) \in Nat /\ IsUser(h[c])
         /\ From(h, c) \in Seq(Messages) /\ Len(From(h, c)) = Len(h) - c + 1
         /\ \A i \in 1..Len(From(h, c)) :
              c + i - 1 \in 1..Len(h) /\ From(h, c)[i] = h[c + i - 1]
<1> DEFINE n == Len(h)
<1>1. c \in 1..n /\ n \in Nat /\ IsUser(h[c])
  BY DEF Users
<1>2. \A i \in c..n : h[i] \in Messages
  BY <1>1
<1> HIDE DEF n
<1>3. /\ SubSeq(h, c, n) \in Seq(Messages)
      /\ Len(SubSeq(h, c, n)) = IF c <= n THEN n - c + 1 ELSE 0
      /\ \A i \in 1..(n - c + 1) : SubSeq(h, c, n)[i] = h[c + i - 1]
  BY <1>1, <1>2, SubSeqProperties
<1>4. \A i \in 1..(n - c + 1) : c + i - 1 \in 1..n
  BY <1>1
<1> QED
  BY <1>1, <1>3, <1>4 DEF From, n

LEMMA FromPaired ==
  ASSUME NEW h \in Seq(Messages), Paired(h), NEW c \in Users(h)
  PROVE  Paired(From(h, c))
<1> DEFINE g == From(h, c)
           n == Len(h)
           m == Len(g)
<1>1. /\ c \in 1..n /\ n \in Nat /\ IsUser(h[c])
      /\ g \in Seq(Messages) /\ m = n - c + 1
      /\ \A i \in 1..m : c + i - 1 \in 1..n /\ g[i] = h[c + i - 1]
  BY FromAt
<1>2. \A i \in 1..n : PairedAt(h, i)
  BY PairedIs
<1> HIDE DEF g, n, m
<1>3. ASSUME NEW i \in 1..m PROVE PairedAt(g, i)
  <2> DEFINE j == c + i - 1
  <2>1. g[i] = h[j] /\ PairedAt(h, j) /\ i \in Nat /\ i >= 1 /\ i <= m /\ j \in 1..n
    BY <1>1, <1>2
  <2>2. i < m <=> j < n
    BY <1>1
  <2>3. i < m => g[i + 1] = h[j + 1]
    <3> DEFINE k == i + 1
    <3>1. i < m => k \in 1..m /\ c + k - 1 = j + 1
      BY <1>1
    <3>2. k \in 1..m => g[k] = h[c + k - 1]
      BY <1>1
    <3> HIDE DEF k, j
    <3>3. i < m => g[k] = h[j + 1]
      BY <3>1, <3>2
    <3> QED
      BY <3>3 DEF k
  <2>4. i > 1 => g[i - 1] = h[j - 1] /\ j > 1
    <3>1. i > 1 => i - 1 \in 1..m /\ c + (i - 1) - 1 = j - 1 /\ j > 1
      BY <1>1
    <3> QED
      BY <1>1, <3>1
  <2>5. i = 1 => h[j].role = "user"
    <3>1. i = 1 => j = c
      BY <1>1
    <3> QED
      BY <1>1, <3>1 DEF IsUser
  <2>6. i = 1 \/ i > 1
    BY <2>1
  <2> HIDE DEF j
  <2> QED
    BY <2>1, <2>2, <2>3, <2>4, <2>5, <2>6 DEF PairedAt, n, m
<1> QED
  BY <1>1, <1>3, PairedIs DEF g, m

(* A summary and its acknowledgement in front of such a history. *)
LEMMA SummaryAt ==
  ASSUME NEW g \in Seq(Messages)
  PROVE  /\ Summary \o g \in Seq(Messages) /\ Len(g) \in Nat /\ Len(Summary \o g) = Len(g) + 2
         /\ (Summary \o g)[1] = Message("user", "summary", 0)
         /\ (Summary \o g)[2] = Message("assistant", "text", 0)
         /\ \A i \in 1..Len(g) : (Summary \o g)[i + 2] = g[i]
<1>1. Message("user", "summary", 0) \in Messages /\ Message("assistant", "text", 0) \in Messages
  BY DEF Message, Messages
<1>2. /\ Summary \in Seq(Messages) /\ Len(Summary) = 2
      /\ Summary[1] = Message("user", "summary", 0) /\ Summary[2] = Message("assistant", "text", 0)
  BY <1>1 DEF Summary
<1> HIDE DEF Summary
<1>3. /\ Summary \o g \in Seq(Messages) /\ Len(g) \in Nat
      /\ Len(Summary \o g) = Len(Summary) + Len(g)
      /\ \A i \in 1..Len(Summary) : (Summary \o g)[i] = Summary[i]
      /\ \A i \in 1..Len(g) : (Summary \o g)[Len(Summary) + i] = g[i]
  <2>1. \A q \in Seq(Messages) :
          /\ q \o g \in Seq(Messages) /\ Len(g) \in Nat /\ Len(q \o g) = Len(q) + Len(g)
          /\ \A i \in 1..Len(q) : (q \o g)[i] = q[i]
          /\ \A i \in 1..Len(g) : (q \o g)[Len(q) + i] = g[i]
    BY CatAt
  <2>2. Summary \in Seq(Messages)
    BY <1>2
  <2> QED
    BY ONLY <2>1, <2>2, Zenon
<1>4. \A i \in 1..Len(g) : 2 + i = i + 2
  OBVIOUS
<1> QED
  BY <1>2, <1>3, <1>4

LEMMA SummaryPaired ==
  ASSUME NEW g \in Seq(Messages), Paired(g), g # <<>>, IsUser(g[1])
  PROVE  Paired(Summary \o g)
<1> DEFINE h == Summary \o g
           n == Len(g)
<1>1. /\ h \in Seq(Messages) /\ n \in Nat /\ Len(h) = n + 2
      /\ h[1] = Message("user", "summary", 0) /\ h[2] = Message("assistant", "text", 0)
      /\ \A i \in 1..n : h[i + 2] = g[i]
  BY SummaryAt
<1>2. (\A i \in 1..n : PairedAt(g, i)) /\ n # 0
  BY PairedIs
<1> HIDE DEF h, n
<1>3. PairedAt(h, 1)
  BY <1>1 DEF PairedAt, IsUser, Message
<1>4. PairedAt(h, 2)
  BY <1>1 DEF PairedAt, IsUser, Message
<1>5. ASSUME NEW i \in 1..n PROVE PairedAt(h, i + 2)
  <2>1. h[i + 2] = g[i] /\ PairedAt(g, i) /\ i \in Nat /\ i >= 1 /\ i <= n
    BY <1>1, <1>2
  <2>2. i < n <=> i + 2 < n + 2
    BY <1>1
  <2>3. i < n => h[i + 2 + 1] = g[i + 1]
    <3>1. i < n => i + 1 \in 1..n /\ (i + 1) + 2 = i + 2 + 1
      BY <1>1
    <3> QED
      BY <1>1, <3>1
  <2>4. i > 1 => h[i + 2 - 1] = g[i - 1] /\ i + 2 > 1
    <3>1. i > 1 => i - 1 \in 1..n /\ (i - 1) + 2 = i + 2 - 1 /\ i + 2 > 1
      BY <1>1
    <3> QED
      BY <1>1, <3>1
  <2>5. i = 1 => g[i].role = "user"
    BY DEF IsUser
  <2>6. i = 1 \/ i > 1
    BY <2>1
  <2> QED
    BY <1>1, <2>1, <2>2, <2>3, <2>4, <2>5, <2>6 DEF PairedAt, n
<1>6. \A i \in 1..(n + 2) : i = 1 \/ i = 2 \/ (i - 2 \in 1..n /\ i = (i - 2) + 2)
  BY <1>1
<1>7. \A i \in 1..Len(h) : PairedAt(h, i)
  BY <1>1, <1>3, <1>4, <1>5, <1>6
<1> QED
  BY <1>1, <1>7, PairedIs DEF h

(* The turn-limit note is the last message of a request, and goes. *)
LEMMA FrontPaired ==
  ASSUME NEW h \in Seq(Messages), Paired(h), h # <<>>, h[Len(h)].role = "user"
  PROVE  Paired(Front(h))
<1> DEFINE g == Front(h)
           n == Len(h)
<1>1. g \in Seq(Messages) /\ Len(g) = n - 1 /\ \A i \in 1..(n - 1) : g[i] = h[i]
  BY FrontLemma
<1>2. n \in Nat /\ n # 0 /\ h[n].role = "user" /\ \A i \in 1..n : PairedAt(h, i)
  BY PairedIs
<1> HIDE DEF g, n
<1>3. ASSUME NEW i \in 1..(n - 1) PROVE PairedAt(g, i)
  <2>1. g[i] = h[i] /\ PairedAt(h, i) /\ i \in Nat /\ i >= 1 /\ i <= n - 1 /\ i < n
    BY <1>1, <1>2
  <2>2. i > 1 => g[i - 1] = h[i - 1]
    BY <1>1, <1>2
  <2>3. i < n - 1 => g[i + 1] = h[i + 1]
    BY <1>1, <1>2
  <2>4. i = n - 1 => h[i + 1].role = "user"
    <3>1. i = n - 1 => i + 1 = n
      BY <1>2
    <3> QED
      BY <1>2, <3>1
  <2>5. i = n - 1 => ~(h[i].role = "assistant" /\ h[i].n > 0)
    BY <2>1, <2>4 DEF PairedAt, Message, n
  <2>6. i < n - 1 \/ i = n - 1
    BY <1>2
  <2> QED
    BY <1>1, <2>1, <2>2, <2>3, <2>5, <2>6 DEF PairedAt, n
<1> QED
  BY <1>1, <1>2, <1>3, PairedIs DEF g

(* Whatever is cut at a user message or folded into a summary is a            *)
(* conversation again.                                                          *)
LEMMA FromConversation ==
  ASSUME NEW r, NEW h, Answered(r, h), NEW c \in Users(h)
  PROVE  Conversation(r, From(h, c)) /\ From(h, c) # <<>>
<1> DEFINE g == From(h, c)
           n == Len(h)
           m == Len(g)
<1>0. h \in Seq(Messages)
  BY DEF Answered
<1>1. /\ c \in 1..n /\ n \in Nat /\ IsUser(h[c])
      /\ g \in Seq(Messages) /\ m = n - c + 1
      /\ \A i \in 1..m : c + i - 1 \in 1..n /\ g[i] = h[c + i - 1]
  BY <1>0, FromAt
<1>2. Paired(g)
  BY <1>0, FromPaired DEF Answered
<1>3. h # <<>>
  BY <1>0, <1>1
<1>4. g # <<>>
  <2>1. m # 0
    BY <1>1
  <2> QED
    BY <1>1, <2>1
<1> HIDE DEF g, n, m
<1>5. m \in 1..m /\ c + m - 1 = n /\ 1 \in 1..m /\ c + 1 - 1 = c
  BY <1>1
<1>6. g[m] = h[n] /\ g[1] = h[c]
  BY <1>1, <1>5
<1>7. \A i \in 1..m : g[i] # Note /\ (g[i].what = "ask" => g[i].n <= r)
  BY <1>1 DEF Answered, n
<1>8. ~IsUser(g[m]) /\ IsUser(g[1])
  BY <1>1, <1>3, <1>6 DEF Answered, n
<1> QED
  BY <1>1, <1>2, <1>4, <1>7, <1>8 DEF Conversation, Answered, g, m

LEMMA CompactedConversation ==
  ASSUME NEW r, NEW h, Answered(r, h), NEW c \in Users(h)
  PROVE  Conversation(r, Compacted(h, c)) /\ Compacted(h, c) # <<>>
<1> DEFINE g == From(h, c)
           q == Summary \o g
           n == Len(g)
<1>1. Answered(r, g) /\ g # <<>> /\ IsUser(g[1])
  BY FromConversation DEF Conversation
<1> HIDE DEF g
<1>2. g \in Seq(Messages) /\ Paired(g) /\ ~IsUser(g[n])
      /\ \A i \in 1..n : g[i] # Note /\ (g[i].what = "ask" => g[i].n <= r)
  BY <1>1 DEF Answered
<1>3. Paired(q)
  BY <1>1, <1>2, SummaryPaired
<1>4. /\ q \in Seq(Messages) /\ n \in Nat /\ Len(q) = n + 2
      /\ q[1] = Message("user", "summary", 0) /\ q[2] = Message("assistant", "text", 0)
      /\ \A i \in 1..n : q[i + 2] = g[i]
  BY <1>2, SummaryAt
<1>5. n # 0
  BY <1>1, <1>2
<1> HIDE DEF q, n
<1>6. q # <<>>
  BY <1>4
<1>7. \A i \in 1..Len(q) : i = 1 \/ i = 2 \/ \E j \in 1..n : i = j + 2
  <2>1. ASSUME NEW i \in 1..Len(q), i # 1, i # 2
        PROVE  \E j \in 1..n : i = j + 2
    <3>1. i - 2 \in 1..n /\ i = (i - 2) + 2
      BY <1>4, <2>1
    <3> QED
      BY <3>1
  <2> QED
    BY <2>1
<1>8. /\ q[1] # Note /\ q[1].what # "ask" /\ q[2] # Note /\ q[2].what # "ask" /\ IsUser(q[1])
  BY <1>4 DEF Message, Note, IsUser
<1>9. \A i \in 1..n : q[i + 2] # Note /\ (q[i + 2].what = "ask" => q[i + 2].n <= r)
  BY <1>2, <1>4
<1>10. \A i \in 1..Len(q) : q[i] # Note /\ (q[i].what = "ask" => q[i].n <= r)
  BY <1>4, <1>7, <1>8, <1>9
<1>11. ~IsUser(q[Len(q)])
  <2>1. n \in 1..n
    BY <1>4, <1>5
  <2> QED
    BY <1>2, <1>4, <2>1
<1> QED
  BY <1>3, <1>4, <1>6, <1>8, <1>10, <1>11 DEF Conversation, Answered, Compacted, q, g

LEMMA TrimConversation ==
  ASSUME NEW r, NEW h, Answered(r, h),
         Conversation(r, h) \/ (Len(h) > maxHistory /\ Window(h) # {})
  PROVE  Conversation(r, trimHistory(h))
<1>1. maxHistory \in Nat /\ Len(h) \in Nat /\ h \in Seq(Messages)
  BY LoopAssumption DEF Answered
<1>2. CASE Len(h) <= maxHistory \/ Window(h) = {}
  <2>1. trimHistory(h) = h
    BY <1>2 DEF trimHistory
  <2>2. Conversation(r, h)
    BY <1>1, <1>2
  <2> QED
    BY <2>1, <2>2
<1>3. CASE ~(Len(h) <= maxHistory \/ Window(h) = {})
  <2>1. Window(h) \in SUBSET Nat /\ Window(h) \subseteq Users(h)
    BY <1>1 DEF Window, Users
  <2>2. Min(Window(h)) \in Users(h)
    BY <1>3, <2>1, MinLemma
  <2>3. trimHistory(h) = From(h, Min(Window(h)))
    BY <1>3 DEF trimHistory
  <2> QED
    BY <2>2, <2>3, FromConversation
<1> QED
  BY <1>2, <1>3

(* What restore makes of a transcript. *)
Loaded == {Message("user", "ask", 0), Note, Message("assistant", "text", 0),
           Message("assistant", "none", 0)}
Restored == {Message("user", "ask", 0), Message("assistant", "text", 0)}

LEMMA RestoredFacts ==
  /\ Restored \subseteq Messages
  /\ \A m \in Restored : /\ m # Note /\ m.n = 0 /\ m.what # "none" /\ m.role # "tool"
                         /\ m.what = "ask" <=> IsUser(m)
BY DEF Restored, Messages, Message, Note, IsUser

(* The notes are gone and every answer has a text.  An instruction that was    *)
(* first still is.                                                              *)
Filled(t) ==
  LET noNotes == Kept(t, {i \in DOMAIN t : t[i] # Note})
  IN  [i \in DOMAIN noNotes |->
         IF noNotes[i] = Message("assistant", "none", 0)
         THEN Message("assistant", "text", 0) ELSE noNotes[i]]
Heard(h) == {i \in DOMAIN h : IsUser(h[i]) => i < Len(h) /\ ~IsUser(h[i + 1])}

LEMMA NormalizedIs == \A t : Normalized(t) = Kept(Filled(t), Heard(Filled(t)))
BY DEF Normalized, Filled, Heard

LEMMA FilledLemma ==
  ASSUME NEW t \in Seq(Loaded)
  PROVE  /\ Filled(t) \in Seq(Restored)
         /\ t # <<>> /\ IsUser(t[1]) /\ t[1] # Note /\ Filled(t) # <<>> => IsUser(Filled(t)[1])
<1> DEFINE S == {i \in DOMAIN t : t[i] # Note}
           k == Kept(t, S)
           n == Len(k)
<1>1. S \in SUBSET (1..Len(t)) /\ DOMAIN t = 1..Len(t) /\ Len(t) \in Nat
  OBVIOUS
<1>2. \A i \in 1..Len(t) : t[i] \in Loaded
  OBVIOUS
<1>3. \A i \in S : i \in 1..Len(t) /\ t[i] # Note
  BY <1>1
<1>4. t # <<>> /\ t[1] # Note => 1 \in S
  BY <1>1
<1> HIDE DEF S
<1>5. k \in Seq(Loaded) /\ \E f : Picks(f, k, t, S)
  BY <1>1, KeptPicks
<1> HIDE DEF k
<1>6. PICK f \in [1..n -> S] :
           /\ \A j \in 1..n : k[j] = t[f[j]]
           /\ \A i, j \in 1..n : i < j => f[i] < f[j]
           /\ \A x \in S : \E j \in 1..n : f[j] = x
  BY <1>5 DEF Picks
<1>7. n \in Nat /\ DOMAIN k = 1..n
  BY <1>5
<1> HIDE DEF n
<1>8. \A j \in 1..n : k[j] \in Loaded /\ k[j] # Note
  BY <1>2, <1>3, <1>6
<1>9. Filled(t) = [i \in 1..n |-> IF k[i] = Message("assistant", "none", 0)
                                  THEN Message("assistant", "text", 0) ELSE k[i]]
  BY <1>7 DEF Filled, k, S
<1>10. \A i \in 1..n : Filled(t)[i] \in Restored
  BY <1>8, <1>9 DEF Loaded, Restored
<1>11. Filled(t) \in Seq(Restored) /\ Len(Filled(t)) = n
  BY <1>7, <1>9, <1>10
<1>12. ASSUME t # <<>>, IsUser(t[1]), t[1] # Note, Filled(t) # <<>>
       PROVE  IsUser(Filled(t)[1])
  <2>1. PICK j \in 1..n : f[j] = 1
    BY <1>4, <1>6, <1>12
  <2>2. j = 1
    <3>1. 1 \in 1..n /\ j \in Nat /\ f[1] \in S
      BY <1>6, <1>7
    <3>2. f[1] \in Nat /\ f[1] >= 1
      <4>1. f[1] \in 1..Len(t)
        BY <1>3, <3>1
      <4> QED
        BY <1>1, <4>1
    <3>3. ~(1 < j)
      BY <1>6, <2>1, <3>1, <3>2
    <3> QED
      BY <3>1, <3>3, <1>7
  <2>3. k[1] = t[1]
    BY <1>6, <2>1, <2>2
  <2>4. k[1] # Message("assistant", "none", 0)
    BY <1>12, <2>3 DEF IsUser, Message
  <2> QED
    BY <1>9, <1>12, <2>1, <2>2, <2>3, <2>4
<1> QED
  BY <1>11, <1>12

(* A loaded transcript becomes a conversation, except that it may start with   *)
(* an answer if the transcript did: between two messages that are kept only     *)
(* instructions without an answer were left out.                                *)
LEMMA NormalizedLemma ==
  ASSUME NEW t \in Seq(Loaded), NEW r \in Nat
  PROVE  /\ Answered(r, Normalized(t))
         /\ t # <<>> /\ t[1] = Message("user", "ask", 0) => Conversation(r, Normalized(t))
<1> DEFINE h == Filled(t)
           S == Heard(h)
           g == Kept(h, S)
           n == Len(g)
<1>1. h \in Seq(Restored)
  BY FilledLemma
<1>2. h # <<>> /\ t # <<>> /\ t[1] = Message("user", "ask", 0) => IsUser(h[1])
  BY FilledLemma DEF IsUser, Message, Note
<1> HIDE DEF h
<1>3. /\ S \in SUBSET (1..Len(h)) /\ Len(h) \in Nat
      /\ \A i \in 1..Len(h) : h[i] \in Restored
      /\ \A i \in 1..Len(h) : i \in S <=> (IsUser(h[i]) => i < Len(h) /\ ~IsUser(h[i + 1]))
  BY <1>1 DEF Heard
<1> HIDE DEF S
<1>4. g \in Seq(Restored) /\ \E f : Picks(f, g, h, S)
  BY <1>1, <1>3, KeptPicks
<1> HIDE DEF g
<1>5. PICK f \in [1..n -> S] :
           /\ \A j \in 1..n : g[j] = h[f[j]]
           /\ \A i, j \in 1..n : i < j => f[i] < f[j]
           /\ \A x \in S : \E j \in 1..n : f[j] = x
  BY <1>4 DEF Picks
<1>6. n \in Nat /\ \A j \in 1..n : g[j] \in Restored
  BY <1>4
<1> HIDE DEF n
<1>7. \A j \in 1..n : f[j] \in S /\ f[j] \in 1..Len(h) /\ f[j] \in Nat
  <2>1. \A j \in 1..n : f[j] \in S
    BY <1>5
  <2>2. \A x \in S : x \in 1..Len(h)
    BY <1>3
  <2>3. \A x \in 1..Len(h) : x \in Nat
    BY <1>3
  <2> QED
    BY <2>1, <2>2, <2>3
<1>8. g \in Seq(Messages)
  BY <1>4, RestoredFacts
(* The message after a kept instruction answers it, and is kept as well. *)
<1>9. ASSUME NEW j \in 1..n, IsUser(g[j])
      PROVE  j < n /\ ~IsUser(g[j + 1])
  <2> DEFINE x == f[j]
  <2>1. /\ x \in S /\ x \in 1..Len(h) /\ x \in Nat /\ g[j] = h[x]
    BY <1>5, <1>7
  <2> HIDE DEF x
  <2>2. x < Len(h) /\ ~IsUser(h[x + 1])
    BY <1>3, <1>9, <2>1
  <2>3. x + 1 \in 1..Len(h)
    BY <1>3, <2>1, <2>2
  <2>4. x + 1 \in S
    BY <1>3, <2>2, <2>3
  <2>5. PICK i \in 1..n : f[i] = x + 1
    BY <1>5, <2>4
  <2>6. i > j
    <3>1. i < j => x + 1 < x
      BY <1>5, <2>5 DEF x
    <3>2. i = j => x + 1 = x
      BY <2>5 DEF x
    <3> QED
      BY <1>6, <2>1, <3>1, <3>2
  <2>7. j < n /\ j + 1 \in 1..n
    BY <1>6, <2>6
  <2>8. x < f[j + 1]
    BY <1>5, <1>6, <2>7 DEF x
  <2>9. ~(j + 1 < i)
    <3>1. j + 1 < i => f[j + 1] < x + 1
      BY <1>5, <2>5, <2>7
    <3>2. f[j + 1] \in Nat
      BY <1>7, <2>7
    <3> QED
      BY <2>1, <2>8, <3>1, <3>2
  <2>10. i = j + 1
    BY <1>6, <2>6, <2>9
  <2>11. g[j + 1] = h[x + 1]
    BY <1>5, <2>5, <2>10
  <2> QED
    BY <2>2, <2>7, <2>11
<1>10. Paired(g)
  <2>1. ASSUME NEW j \in 1..n PROVE PairedAt(g, j)
    <3>1. g[j] \in Restored
      BY <1>6
    <3>2. g[j].n = 0 /\ g[j].what # "none" /\ g[j].role # "tool"
      BY <3>1, RestoredFacts
    <3> QED
      BY <1>9, <3>2 DEF PairedAt
  <2> QED
    BY <1>8, <2>1, PairedIs DEF n
<1>11. g # <<>> => ~IsUser(g[n])
  <2> SUFFICES ASSUME g # <<>>, IsUser(g[n]) PROVE FALSE
    OBVIOUS
  <2>1. n \in 1..n
    BY <1>8, <1>6 DEF n
  <2>2. n < n
    BY <1>9, <2>1
  <2> QED
    BY <1>6, <2>2
<1>12. \A j \in 1..n : g[j] # Note /\ (g[j].what = "ask" => g[j].n <= r)
  <2>1. ASSUME NEW j \in 1..n PROVE g[j] # Note /\ g[j].n = 0
    BY <1>6, RestoredFacts
  <2> QED
    BY <2>1
<1>13. Answered(r, g)
  BY <1>8, <1>10, <1>11, <1>12 DEF Answered, n
<1>14. ASSUME t # <<>>, t[1] = Message("user", "ask", 0), g # <<>>
       PROVE  IsUser(g[1])
  <2>1. 1 \in 1..n
    BY <1>6, <1>8, <1>14 DEF n
  <2> DEFINE x == f[1]
  <2>2. x \in S /\ x \in 1..Len(h) /\ g[1] = h[x] /\ x \in Nat
    BY <1>5, <1>7, <2>1
  <2>3. \A y \in S : x <= y
    <3> SUFFICES ASSUME NEW y \in S PROVE x <= y
      OBVIOUS
    <3>1. PICK j \in 1..n : f[j] = y
      BY <1>5
    <3>2. j = 1 \/ 1 < j
      BY <1>6
    <3>3. 1 < j => x < y
      BY <1>5, <2>1, <3>1
    <3>4. y \in Nat
      BY <1>7, <3>1
    <3> QED
      BY <2>2, <3>1, <3>2, <3>3, <3>4
  <2> HIDE DEF x
  <2>4. IsUser(h[1])
    <3>1. h # <<>>
      BY <1>1, <2>2
    <3> QED
      BY <1>2, <1>14, <3>1
  <2> SUFFICES ASSUME ~IsUser(h[x]) PROVE FALSE
    BY <2>2
  (* The first answer, and the instruction right before it. *)
  <2> DEFINE A == {i \in 1..Len(h) : ~IsUser(h[i])}
             a == Min(A)
  <2>5. A \in SUBSET Nat /\ x \in A
    BY <1>3, <2>2
  <2> HIDE DEF A
  <2>6. a \in A /\ \A y \in A : a <= y
    BY <2>5, MinLemma
  <2> HIDE DEF a
  <2>7. a \in 1..Len(h) /\ ~IsUser(h[a]) /\ a # 1
    BY <2>4, <2>6 DEF A
  <2>8. a - 1 \in 1..Len(h) /\ a - 1 < Len(h) /\ (a - 1) + 1 = a /\ ~(a <= a - 1) /\ a - 1 < a
    BY <1>3, <2>7
  <2>9. a - 1 \in S
    BY <1>3, <2>7, <2>8
  <2>10. x <= a - 1 /\ a <= x
    BY <2>3, <2>5, <2>6, <2>9
  <2> QED
    BY <1>3, <2>2, <2>7, <2>10
<1>15. Normalized(t) = g
  BY NormalizedIs DEF g, S, h
<1> QED
  BY <1>13, <1>14, <1>15 DEF Conversation

-----------------------------------------------------------------------------
(* What a run makes of the conversation it began with *)

LEMMA PrefixIs ==
  ASSUME NEW b \in Seq(Messages), NEW h \in Seq(Messages), Len(b) < Len(h),
         \A i \in 1..Len(b) : h[i] = b[i]
  PROVE  /\ SubSeq(h, 1, Len(b)) = b
         /\ SubSeq(h, 1, Len(b) + 1) = Append(b, h[Len(b) + 1])
<1> DEFINE n == Len(b)
           m == h[n + 1]
           p == SubSeq(h, 1, n)
           q == SubSeq(h, 1, n + 1)
           a == Append(b, m)
<1>1. n \in Nat /\ Len(h) \in Nat /\ n \in 0..Len(h) /\ n + 1 \in 0..Len(h) /\ n + 1 \in 1..Len(h)
  OBVIOUS
<1>2. m \in Messages
  BY <1>1
<1>3. /\ a \in Seq(Messages) /\ Len(a) = n + 1
      /\ \A i \in 1..n : a[i] = b[i]
      /\ a[n + 1] = m
  BY <1>2, AppendAt
<1>4. p \in Seq(Messages) /\ Len(p) = n /\ \A i \in 1..n : p[i] = h[i]
  BY <1>1, CutAt
<1>5. q \in Seq(Messages) /\ Len(q) = n + 1 /\ \A i \in 1..(n + 1) : q[i] = h[i]
  BY <1>1, CutAt
<1>6. p = b
  <2>1. \A i \in 1..n : p[i] = b[i]
    BY <1>4
  <2> HIDE DEF p
  <2> QED
    BY <1>4, <2>1, SeqEqual
<1>7. q = a
  <2>1. \A i \in 1..(n + 1) : i \in 1..n \/ i = n + 1
    BY <1>1
  <2>2. \A i \in 1..n : i \in 1..(n + 1)
    BY <1>1
  <2>3. n + 1 \in 1..(n + 1)
    BY <1>1
  <2>4. \A i \in 1..n : h[i] = b[i]
    OBVIOUS
  <2> HIDE DEF q, a, m, n
  <2>5. (\A i \in 1..n : q[i] = a[i]) /\ q[n + 1] = h[n + 1]
    BY <1>3, <1>5, <2>2, <2>3, <2>4
  <2>6. \A i \in 1..(n + 1) : q[i] = a[i]
    BY <1>3, <2>1, <2>5 DEF m
  <2> QED
    BY <1>3, <1>5, <2>6, SeqEqual
<1> QED
  BY <1>6, <1>7

LEMMA LaterConversation ==
  ASSUME NEW r \in Nat \ {0}, NEW h, Conversation(r - 1, h)
  PROVE  Conversation(r, h)
<1>1. h \in Seq(Messages)
  BY DEF Conversation, Answered
<1>2. \A i \in 1..Len(h) : h[i] \in Messages
  BY <1>1
<1>3. \A m \in Messages : m.n \in Nat
  BY DEF Messages
<1>4. \A x \in Nat : x <= r - 1 => x <= r
  OBVIOUS
<1>5. \A i \in 1..Len(h) : h[i].what = "ask" => h[i].n <= r
  BY <1>2, <1>3, <1>4 DEF Conversation, Answered
<1> QED
  BY <1>5 DEF Conversation, Answered

(* The instruction itself is the first request. *)
LEMMA AskRequest ==
  ASSUME NEW r \in Nat \ {0}, NEW b, Conversation(r - 1, b)
  PROVE  Request(r, b, Append(b, Message("user", "ask", r)), FALSE)
<1> DEFINE m == Message("user", "ask", r)
           h == Append(b, m)
           n == Len(b)
<1>1. m \in Messages /\ m.role = "user" /\ m # Note /\ m.n = r /\ IsUser(m) /\ m.what = "ask"
  BY DEF Messages, Message, Note, IsUser
<1>2. b \in Seq(Messages) /\ Paired(b) /\ (b # <<>> => IsUser(b[1]) /\ ~IsUser(b[Len(b)]))
  BY DEF Conversation, Answered
<1>3. \A i \in 1..n : b[i] # Note /\ b[i] \in Messages /\ (b[i].what = "ask" => b[i].n <= r - 1)
  BY <1>2 DEF Conversation, Answered
<1> HIDE DEF m
<1>4. Paired(h)
  BY <1>1, <1>2, AppendPaired
<1>5. /\ h \in Seq(Messages) /\ n \in Nat /\ Len(h) = n + 1
      /\ \A i \in 1..n : h[i] = b[i]
      /\ h[n + 1] = m
  BY <1>1, <1>2, AppendAt
<1>6. n = 0 \/ (b # <<>> /\ 1 \in 1..n)
  BY <1>2
<1> HIDE DEF h, n
<1>7. IsUser(h[1])
  <2>1. CASE n = 0
    BY <1>1, <1>5, <2>1
  <2>2. CASE b # <<>> /\ 1 \in 1..n
    BY <1>2, <1>5, <2>2
  <2> QED
    BY <1>6, <2>1, <2>2
<1>8. \A i \in 1..(n + 1) : i \in 1..n \/ i = n + 1
  BY <1>5
<1>9. \A i \in 1..n : h[i] # Note /\ h[i] # m /\ (h[i].what = "ask" => h[i].n <= r) /\ i # n + 1
  <2> SUFFICES ASSUME NEW i \in 1..n
               PROVE  h[i] # Note /\ h[i] # m /\ (h[i].what = "ask" => h[i].n <= r) /\ i # n + 1
    OBVIOUS
  <2>1. h[i] = b[i] /\ h[i] # Note /\ (h[i].what = "ask" => h[i].n <= r - 1)
    BY <1>3, <1>5
  <2>2. h[i].n \in Nat
    BY <1>3, <2>1 DEF Messages
  <2>3. h[i].n <= r - 1 => h[i].n <= r /\ h[i].n # r
    BY <2>2
  <2>4. i # n + 1
    BY <1>5
  <2> QED
    BY <1>1, <2>1, <2>3, <2>4
<1>10. h[n + 1] # Note /\ h[n + 1] = m /\ h[n + 1].n <= r /\ h[n + 1].role # "assistant"
  BY <1>1, <1>5
<1>11. Len(h) = n + 1 /\ n < n + 1
  BY <1>5
<1>12. /\ \A i \in 1..Len(h) : h[i] = m <=> i = n + 1
       /\ \A i \in 1..Len(h) : h[i] = Note <=> FALSE /\ i = Len(h)
       /\ \A i \in 1..Len(h) : h[i].what = "ask" => h[i].n <= r
  BY <1>8, <1>9, <1>10, <1>11
<1> QED
  BY <1>4, <1>5, <1>7, <1>10, <1>11, <1>12 DEF Request, h, m, n

(* A request stays one when what is appended ends in a user message or in     *)
(* results and holds no instruction, and the note at most as its last message. *)
LEMMA RequestGrows ==
  ASSUME NEW r \in Nat \ {0}, NEW b \in Seq(Messages), NEW h, Request(r, b, h, FALSE),
         NEW final \in BOOLEAN, NEW g \in Seq(Messages), Paired(g), Len(h) < Len(g),
         \A i \in 1..Len(h) : g[i] = h[i],
         \A i \in (Len(h) + 1)..Len(g) : g[i].what # "ask" /\ (g[i] = Note <=> final /\ i = Len(g)),
         g[Len(g)].role # "assistant"
  PROVE  Request(r, b, g, final)
<1> DEFINE n == Len(b)
           k == Len(h)
           m == Len(g)
           ask == Message("user", "ask", r)
<1>1. /\ h \in Seq(Messages) /\ n \in Nat /\ k \in Nat /\ m \in Nat /\ n < k /\ k < m
  BY DEF Request
<1>2. /\ IsUser(h[1]) /\ \A i \in 1..n : h[i] = b[i]
      /\ \A i \in 1..k : (h[i] = ask <=> i = n + 1) /\ h[i] # Note
      /\ \A i \in 1..k : h[i].what = "ask" => h[i].n <= r
  BY DEF Request
<1>3. ask.what = "ask"
  BY DEF Message
<1>4. /\ \A i \in 1..k : g[i] = h[i]
      /\ \A i \in (k + 1)..m : g[i].what # "ask" /\ (g[i] = Note <=> final /\ i = m)
  OBVIOUS
<1> HIDE DEF n, k, m, ask
<1>5. \A i \in 1..m : i \in 1..k \/ i \in (k + 1)..m
  BY <1>1
<1>6. (\A i \in 1..n : i \in 1..k) /\ 1 \in 1..k
  BY <1>1
<1>7. \A i \in 1..k : i # m
  BY <1>1
<1>8. \A i \in (k + 1)..m : i # n + 1
  BY <1>1
<1>9. \A i \in 1..m : g[i] = ask <=> i = n + 1
  <2>1. \A i \in 1..k : g[i] = ask <=> i = n + 1
    BY <1>2, <1>4
  <2>2. \A i \in (k + 1)..m : g[i] = ask <=> i = n + 1
    BY <1>3, <1>4, <1>8
  <2> QED
    BY <1>5, <2>1, <2>2
<1>10. \A i \in 1..m : g[i] = Note <=> final /\ i = m
  <2>1. \A i \in 1..k : g[i] = Note <=> final /\ i = m
    BY <1>2, <1>4, <1>7
  <2> QED
    BY <1>4, <1>5, <2>1
<1>11. \A i \in 1..m : g[i].what = "ask" => g[i].n <= r
  BY <1>2, <1>4, <1>5
<1>12. IsUser(g[1]) /\ \A i \in 1..n : g[i] = b[i]
  BY <1>2, <1>4, <1>6
<1>13. n < m
  BY <1>1
<1> QED
  BY <1>9, <1>10, <1>11, <1>12, <1>13 DEF Request, n, m, ask

(* A correction asks for one more turn. *)
LEMMA CorrectedRequest ==
  ASSUME NEW r \in Nat \ {0}, NEW b \in Seq(Messages), NEW h, Request(r, b, h, FALSE)
  PROVE  Request(r, b, h \o <<Message("assistant", "text", 0), Message("user", "fix", 0)>>, FALSE)
<1> DEFINE x == Message("assistant", "text", 0)
           y == Message("user", "fix", 0)
           p == Append(h, x)
           g == Append(p, y)
           n == Len(h)
<1>1. /\ x \in Messages /\ x.role = "assistant" /\ x.n = 0 /\ x.what = "text" /\ ~IsUser(x) /\ x # Note
      /\ y \in Messages /\ y.role = "user" /\ y.what = "fix" /\ y # Note
  BY DEF Messages, Message, Note, IsUser
<1>2. h \in Seq(Messages) /\ Paired(h)
  BY DEF Request
<1>3. h \o <<x, y>> = g
  BY <1>1, <1>2
<1> HIDE DEF x, y
<1>4. /\ p \in Seq(Messages) /\ n \in Nat /\ Len(p) = n + 1
      /\ \A i \in 1..n : p[i] = h[i]
      /\ p[n + 1] = x
  BY <1>1, <1>2, AppendAt
<1>5. Paired(p)
  BY <1>1, <1>2, AppendPaired
<1> HIDE DEF p
<1>6. /\ g \in Seq(Messages) /\ Len(g) = Len(p) + 1
      /\ \A i \in 1..Len(p) : g[i] = p[i]
      /\ g[Len(p) + 1] = y
  BY <1>1, <1>4, AppendAt
<1>7. Paired(g)
  <2>1. p # <<>> => ~IsUser(p[Len(p)])
    BY <1>1, <1>4
  <2> QED
    BY <1>1, <1>4, <1>5, <2>1, AppendPaired
<1> HIDE DEF g, n
<1>8. /\ Len(g) = n + 2 /\ g[n + 1] = x /\ g[n + 2] = y /\ n < n + 2
      /\ \A i \in 1..n : g[i] = h[i]
  <2>1. Len(p) + 1 = n + 2 /\ n + 1 \in 1..Len(p) /\ n < n + 2 /\ \A i \in 1..n : i \in 1..Len(p)
    BY <1>4
  <2> QED
    BY <1>4, <1>6, <2>1
<1>9. \A i \in (n + 1)..(n + 2) : i = n + 1 \/ i = n + 2
  BY <1>4
<1>10. \A i \in (n + 1)..Len(g) : g[i].what # "ask" /\ (g[i] = Note <=> FALSE /\ i = Len(g))
  BY <1>1, <1>8, <1>9
<1>11. g[Len(g)].role # "assistant"
  BY <1>1, <1>8
<1>12. Request(r, b, g, FALSE)
  BY <1>6, <1>7, <1>8, <1>10, <1>11, RequestGrows DEF n
<1> QED
  BY <1>3, <1>12 DEF x, y

(* The calls of a turn and their results. *)
LEMMA ResultsRequest ==
  ASSUME NEW r \in Nat \ {0}, NEW b \in Seq(Messages), NEW h, Request(r, b, h, FALSE),
         NEW k \in Nat \ {0}
  PROVE  LET g == Append(Append(h, Message("assistant", "calls", k)), Message("tool", "results", k))
         IN  Request(r, b, g, FALSE) /\ g[Len(g)].role = "tool"
<1> DEFINE x == Message("assistant", "calls", k)
           y == Message("tool", "results", k)
           p == Append(h, x)
           g == Append(p, y)
           n == Len(h)
<1>1. /\ x \in Messages /\ x.what = "calls" /\ x # Note
      /\ y \in Messages /\ y.role = "tool" /\ y.what = "results" /\ y # Note
  BY DEF Messages, Message, Note
<1>2. h \in Seq(Messages) /\ Paired(h)
  BY DEF Request
<1>3. Paired(g)
  BY <1>2, CallPaired
<1> HIDE DEF x, y
<1>4. /\ p \in Seq(Messages) /\ n \in Nat /\ Len(p) = n + 1
      /\ \A i \in 1..n : p[i] = h[i]
      /\ p[n + 1] = x
  BY <1>1, <1>2, AppendAt
<1> HIDE DEF p
<1>5. /\ g \in Seq(Messages) /\ Len(g) = Len(p) + 1
      /\ \A i \in 1..Len(p) : g[i] = p[i]
      /\ g[Len(p) + 1] = y
  BY <1>1, <1>4, AppendAt
<1> HIDE DEF g, n
<1>6. /\ Len(g) = n + 2 /\ g[n + 1] = x /\ g[n + 2] = y /\ n < n + 2
      /\ \A i \in 1..n : g[i] = h[i]
  <2>1. Len(p) + 1 = n + 2 /\ n + 1 \in 1..Len(p) /\ n < n + 2 /\ \A i \in 1..n : i \in 1..Len(p)
    BY <1>4
  <2> QED
    BY <1>4, <1>5, <2>1
<1>7. \A i \in (n + 1)..(n + 2) : i = n + 1 \/ i = n + 2
  BY <1>4
<1>8. \A i \in (n + 1)..Len(g) : g[i].what # "ask" /\ (g[i] = Note <=> FALSE /\ i = Len(g))
  BY <1>1, <1>6, <1>7
<1>9. g[Len(g)].role = "tool"
  BY <1>1, <1>6
<1>10. Request(r, b, g, FALSE)
  BY <1>3, <1>5, <1>6, <1>8, <1>9, RequestGrows DEF n
<1> QED
  BY <1>9, <1>10 DEF g, p, x, y

(* The last turn is told that no more tools may be called. *)
LEMMA NoteRequest ==
  ASSUME NEW r \in Nat \ {0}, NEW b \in Seq(Messages), NEW h, Request(r, b, h, FALSE),
         h[Len(h)].role = "tool"
  PROVE  Request(r, b, Append(h, Note), TRUE)
<1> DEFINE g == Append(h, Note)
           n == Len(h)
<1>1. Note \in Messages /\ Note.role = "user" /\ Note.what = "note"
  BY DEF Messages, Message, Note
<1>2. h \in Seq(Messages) /\ Paired(h) /\ ~IsUser(h[n])
  BY DEF Request, IsUser
<1>3. /\ g \in Seq(Messages) /\ n \in Nat /\ Len(g) = n + 1
      /\ \A i \in 1..n : g[i] = h[i]
      /\ g[n + 1] = Note
  BY <1>1, <1>2, AppendAt
<1>4. Paired(g)
  BY <1>1, <1>2, AppendPaired
<1> HIDE DEF g, n
<1>5. (\A i \in (n + 1)..(n + 1) : i = n + 1) /\ n < n + 1
  BY <1>3
<1>6. \A i \in (n + 1)..Len(g) : g[i].what # "ask" /\ (g[i] = Note <=> TRUE /\ i = Len(g))
  BY <1>1, <1>3, <1>5
<1>7. g[Len(g)].role # "assistant"
  BY <1>1, <1>3
<1>8. Request(r, b, g, TRUE)
  BY <1>3, <1>4, <1>5, <1>6, <1>7, RequestGrows DEF n
<1> QED
  BY <1>8 DEF g

(* What a run that ends leaves behind: its instruction and an answer, or, when *)
(* it was stopped among its tools, their results.                              *)
StartsAs(r, b, h) == SubSeq(h, 1, Len(b) + 1) = Append(b, Message("user", "ask", r))

LEMMA StoppedConversation ==
  ASSUME NEW r \in Nat \ {0}, NEW b \in Seq(Messages), NEW h, Request(r, b, h, FALSE),
         h[Len(h)].role = "tool"
  PROVE  Conversation(r, h) /\ StartsAs(r, b, h)
<1>1. h \in Seq(Messages) /\ Len(b) < Len(h) /\ (\A i \in 1..Len(b) : h[i] = b[i])
      /\ Len(h) \in Nat /\ Len(b) \in Nat
  BY DEF Request
<1>2. Len(b) + 1 \in 1..Len(h)
  BY <1>1
<1>3. h[Len(b) + 1] = Message("user", "ask", r)
  BY <1>2 DEF Request
<1>4. StartsAs(r, b, h)
  BY <1>1, <1>3, PrefixIs DEF StartsAs
<1>5. Conversation(r, h)
  BY DEF Request, Conversation, Answered, IsUser
<1> QED
  BY <1>4, <1>5

LEMMA WithoutNoteLemma ==
  ASSUME NEW r \in Nat \ {0}, NEW b \in Seq(Messages), NEW h, NEW final \in BOOLEAN,
         Request(r, b, h, final)
  PROVE  LET g == IF final THEN WithoutNote(h) ELSE h
         IN  /\ g \in Seq(Messages) /\ Paired(g)
             /\ Len(b) < Len(g) /\ Len(g) <= Len(h)
             /\ \A i \in 1..Len(g) : g[i] = h[i] /\ g[i] # Note
<1>0. h \in Seq(Messages) /\ Paired(h) /\ Len(h) \in Nat /\ Len(b) \in Nat /\ Len(b) < Len(h)
  BY DEF Request
<1>1. CASE ~final
  BY <1>0, <1>1 DEF Request
<1>2. CASE final
  <2> DEFINE n == Len(h)
             at == {i \in DOMAIN h : h[i] = Note}
             g == Front(h)
  <2>1. n \in 1..n /\ h # <<>>
    BY <1>0
  <2>2. h[n] = Note /\ \A i \in 1..n : h[i] = Note => i = n
    BY <1>2, <2>1 DEF Request
  <2>3. at = {n}
    BY <1>0, <2>1, <2>2
  <2>4. Max(at) = n
    <3>1. \A x \in {n} : x = n
      OBVIOUS
    <3>2. n >= n
      BY <1>0
    <3> HIDE DEF n, at
    <3> QED
      BY <2>3, <3>1, <3>2 DEF Max
  <2>5. WithoutNote(h) = RemoveAt(h, n)
    <3> HIDE DEF n
    <3> QED
      BY <2>3, <2>4 DEF WithoutNote
  <2>6. /\ g \in Seq(Messages) /\ Len(g) = n - 1 /\ \A i \in 1..(n - 1) : g[i] = h[i]
    BY <1>0, <2>1, FrontLemma
  <2>7. RemoveAt(h, n) = g
    <3>1. /\ RemoveAt(h, n) \in Seq(Messages) /\ Len(RemoveAt(h, n)) = n - 1
          /\ \A i \in 1..(n - 1) : RemoveAt(h, n)[i] = h[i]
      <4>1. /\ RemoveAt(h, n) \in Seq(Messages) /\ Len(RemoveAt(h, n)) = Len(h) - 1
            /\ \A i \in 1..(Len(h) - 1) :
                 RemoveAt(h, n)[i] = IF i < n THEN h[i] ELSE h[i + 1]
        BY <1>0, <2>1, RemoveAtLemma
      <4>2. \A i \in 1..(n - 1) : i < n
        BY <1>0
      <4> QED
        BY <4>1, <4>2
    <3> HIDE DEF g, n
    <3>2. \A i \in 1..(n - 1) : RemoveAt(h, n)[i] = g[i]
      BY <2>6, <3>1
    <3> QED
      BY <2>6, <3>1, <3>2, SeqEqual
  <2>8. Paired(g)
    <3>1. h[Len(h)].role = "user"
      BY <2>2 DEF Note, Message
    <3> QED
      BY <1>0, <2>1, <3>1, FrontPaired
  <2>9. Len(b) + 1 # n
    <3>1. Message("user", "ask", r) # Note
      BY DEF Message, Note
    <3>2. Len(b) + 1 \in 1..n
      BY <1>0
    <3>3. h[Len(b) + 1] = Message("user", "ask", r)
      BY <3>2 DEF Request
    <3> QED
      BY <2>2, <3>1, <3>3
  <2> HIDE DEF g
  <2>10. Len(b) < n - 1 /\ n - 1 <= n
    BY <1>0, <2>9
  <2>11. \A i \in 1..(n - 1) : i \in 1..n /\ i # n
    BY <1>0
  <2>12. \A i \in 1..(n - 1) : g[i] # Note
    BY <2>2, <2>6, <2>11
  <2> QED
    BY <1>2, <2>5, <2>6, <2>7, <2>8, <2>10, <2>12
<1> QED
  BY <1>1, <1>2

(* A final answer ends the run, and the note is gone. *)
LEMMA FinalConversation ==
  ASSUME NEW r \in Nat \ {0}, NEW b \in Seq(Messages), NEW h, NEW final \in BOOLEAN,
         Request(r, b, h, final)
  PROVE  LET g == Append(IF final THEN WithoutNote(h) ELSE h, Answer)
         IN  Conversation(r, g) /\ StartsAs(r, b, g) /\ g[Len(g)].role = "assistant" /\ g # <<>>
<1> DEFINE q == IF final THEN WithoutNote(h) ELSE h
           g == Append(q, Answer)
           n == Len(q)
           k == Len(b)
<1>1. /\ q \in Seq(Messages) /\ Paired(q) /\ k < n /\ n <= Len(h)
      /\ \A i \in 1..n : q[i] = h[i] /\ q[i] # Note
  BY WithoutNoteLemma
<1>2. /\ Answer \in Messages /\ Answer.role = "assistant" /\ Answer.n = 0 /\ Answer.what = "text"
      /\ Answer # Note /\ ~IsUser(Answer)
  BY DEF Answer, Messages, Message, Note, IsUser
<1> HIDE DEF q, Answer
<1>3. /\ g \in Seq(Messages) /\ n \in Nat /\ Len(g) = n + 1
      /\ \A i \in 1..n : g[i] = q[i]
      /\ g[n + 1] = Answer /\ g # <<>>
  BY <1>1, <1>2, AppendAt
<1>4. Paired(g)
  BY <1>1, <1>2, AppendPaired
<1>5. Len(h) \in Nat /\ k \in Nat
  BY DEF Request
<1>6. /\ IsUser(h[1]) /\ \A i \in 1..k : h[i] = b[i]
      /\ \A i \in 1..Len(h) : h[i] = Message("user", "ask", r) <=> i = k + 1
      /\ \A i \in 1..Len(h) : h[i].what = "ask" => h[i].n <= r
  BY DEF Request
<1> HIDE DEF g, n, k
<1>7. /\ \A i \in 1..n : i \in 1..Len(h)
      /\ \A i \in 1..k : i \in 1..n
      /\ k + 1 \in 1..n /\ 1 \in 1..n /\ k < n + 1
      /\ \A i \in 1..(n + 1) : i \in 1..n \/ i = n + 1
  BY <1>1, <1>3, <1>5
<1>8. (\A i \in 1..k : g[i] = b[i]) /\ g[k + 1] = Message("user", "ask", r) /\ IsUser(g[1])
  BY <1>1, <1>3, <1>6, <1>7
<1>9. StartsAs(r, b, g)
  BY <1>3, <1>7, <1>8, PrefixIs DEF StartsAs, k
<1>10. \A i \in 1..n : g[i] # Note /\ (g[i].what = "ask" => g[i].n <= r)
  BY <1>1, <1>3, <1>6, <1>7
<1>11. \A i \in 1..(n + 1) : g[i] # Note /\ (g[i].what = "ask" => g[i].n <= r)
  BY <1>2, <1>3, <1>7, <1>10
<1>12. Conversation(r, g)
  BY <1>2, <1>3, <1>4, <1>8, <1>11 DEF Conversation, Answered
<1> QED
  BY <1>2, <1>3, <1>9, <1>12 DEF g, q

(* A run that fails takes back its instruction and everything after it. *)
LEMMA RollbackLemma ==
  ASSUME NEW r \in Nat \ {0}, NEW b \in Seq(Messages), NEW h, NEW final \in BOOLEAN,
         Request(r, b, h, final), runUserMsg = r
  PROVE  rollbackFailedRun(h) = b
<1> DEFINE k == Len(b)
           at == {i \in DOMAIN h : h[i] = Message("user", "ask", runUserMsg)}
<1>1. h \in Seq(Messages) /\ k < Len(h) /\ (\A i \in 1..k : h[i] = b[i])
      /\ Len(h) \in Nat /\ k \in Nat
      /\ \A i \in 1..Len(h) : h[i] = Message("user", "ask", r) <=> i = k + 1
  BY DEF Request
<1>2. DOMAIN h = 1..Len(h)
  BY <1>1
<1>3. k + 1 \in 1..Len(h)
  BY <1>1
<1>4. at = {k + 1}
  BY <1>1, <1>2, <1>3
<1>5. SubSeq(h, 1, k) = b
  BY <1>1, PrefixIs
<1> HIDE DEF k
<1>6. Max({k + 1}) = k + 1
  <2>1. (\A x \in {k + 1} : x = k + 1) /\ k + 1 >= k + 1
    BY <1>1
  <2> QED
    BY <2>1 DEF Max
<1>7. (k + 1) - 1 = k /\ ~(runUserMsg = 0)
  BY <1>1
<1>8. rollbackFailedRun(h) = SubSeq(h, 1, Max(at) - 1)
  BY <1>4, <1>7 DEF rollbackFailedRun
<1> HIDE DEF at
<1> QED
  BY <1>4, <1>5, <1>6, <1>7, <1>8

-----------------------------------------------------------------------------
(* What comes of a turn or a tool, given the request it belongs to *)

InRun ==
  /\ run \in Nat \ {0} /\ runUserMsg = run /\ Conversation(run - 1, base)
  /\ counters \in Counters

(* The run has left its instruction and an answer, or nothing. *)
Leaves(h) ==
  \/ h = base
  \/ /\ StartsAs(run, base, h)
     /\ h[Len(h)].role = "assistant" \/ (cancelled /\ h[Len(h)].role = "tool")

GoodOutcome(o) ==
  /\ o.next \in {"end", "turn", "tool"}
  /\ o.next = "end" => Conversation(run, o.h) /\ Leaves(o.h)
  /\ o.next = "turn" => o.c \in Counters /\ Request(run, base, o.h, o.c.finalizing)
  /\ o.next = "tool" => o.c \in Counters /\ ~o.c.finalizing /\ Calling(run, base, o.h, o.tool)

LEMMA BaseIs ==
  ASSUME InRun
  PROVE  base \in Seq(Messages) /\ Conversation(run, base)
BY LaterConversation DEF InRun, Conversation, Answered

LEMMA EndGood ==
  ASSUME NEW h, NEW c, NEW tool, Conversation(run, h), Leaves(h)
  PROVE  GoodOutcome(Outcome(h, c, "end", tool))
BY DEF GoodOutcome, Outcome

LEMMA TurnGood ==
  ASSUME NEW h, NEW c \in Counters, NEW tool, Request(run, base, h, c.finalizing)
  PROVE  GoodOutcome(Outcome(h, c, "turn", tool))
BY DEF GoodOutcome, Outcome

LEMMA ToolGood ==
  ASSUME NEW h, NEW c \in Counters, ~c.finalizing, NEW tool, Calling(run, base, h, tool)
  PROVE  GoodOutcome(Outcome(h, c, "tool", tool))
BY DEF GoodOutcome, Outcome

(* A request that fails leaves nothing. *)
LEMMA RollbackGood ==
  ASSUME InRun, NEW h, NEW final \in BOOLEAN, Request(run, base, h, final), NEW c, NEW tool
  PROVE  GoodOutcome(Outcome(rollbackFailedRun(h), c, "end", tool))
<1>1. base \in Seq(Messages) /\ Conversation(run, base) /\ run \in Nat \ {0} /\ runUserMsg = run
  BY BaseIs DEF InRun
<1>2. rollbackFailedRun(h) = base
  BY <1>1, RollbackLemma
<1>3. Leaves(base)
  BY DEF Leaves
<1> QED
  BY <1>1, <1>2, <1>3, EndGood

\* The counters of the turn after a turn of tools.
TurnCounters(c, limit, bad, errors, identical, k) ==
  [c EXCEPT !.turns = @ + 1, !.finalizing = limit, !.parseFails = bad,
            !.allErrors = errors, !.identical = identical, !.lastSig = k]

LEMMA CountersNext ==
  ASSUME NEW c \in Counters, NEW limit \in BOOLEAN, NEW bad \in Int, NEW errors \in Int,
         NEW identical \in Int, NEW k \in Int
  PROVE  LET d == TurnCounters(c, limit, bad, errors, identical, k)
         IN  d \in Counters /\ d.finalizing = limit
<1> DEFINE c1 == [c EXCEPT !.turns = @ + 1]
           c2 == [c1 EXCEPT !.finalizing = limit]
           c3 == [c2 EXCEPT !.parseFails = bad]
           c4 == [c3 EXCEPT !.allErrors = errors]
           c5 == [c4 EXCEPT !.identical = identical]
           c6 == [c5 EXCEPT !.lastSig = k]
<1>0. c6 = TurnCounters(c, limit, bad, errors, identical, k)
  BY DEF TurnCounters
<1>1. c1 \in Counters
  BY DEF Counters
<1> HIDE DEF c1
<1>2. c2 \in Counters /\ c2.finalizing = limit
  BY <1>1 DEF Counters
<1> HIDE DEF c2
<1>3. c3 \in Counters /\ c3.finalizing = limit
  BY <1>2 DEF Counters
<1> HIDE DEF c3
<1>4. c4 \in Counters /\ c4.finalizing = limit
  BY <1>3 DEF Counters
<1> HIDE DEF c4
<1>5. c5 \in Counters /\ c5.finalizing = limit
  BY <1>4 DEF Counters
<1> HIDE DEF c5
<1>6. c6 \in Counters /\ c6.finalizing = limit
  BY <1>5 DEF Counters
<1> HIDE DEF c6
<1> QED
  BY <1>0, <1>6

LEMMA AfterToolsGood ==
  ASSUME InRun, NEW h, NEW tool, Calling(run, base, h, tool), NEW bad \in Int,
         NEW o \in AfterTools(h, tool, bad)
  PROVE  GoodOutcome(o)
<1> DEFINE k == Len(tool.calls)
           h2 == Append(h, Message("tool", "results", k))
           errors == IF tool.failed THEN counters.allErrors + 1 ELSE 0
           limit == counters.turns + 1 >= maxTurns
           C(identical) ==
             [counters EXCEPT !.turns = @ + 1, !.finalizing = limit, !.parseFails = bad,
                !.allErrors = errors, !.identical = identical, !.lastSig = k]
           h3 == IF limit THEN Append(h2, Note) ELSE h2
           Fails == Outcome(rollbackFailedRun(h2), counters, "end", NoTool)
           GoesOn(identical) == Outcome(h3, C(identical), "turn", NoTool)
<1>1. \/ cancelled /\ o = Outcome(h2, counters, "end", NoTool)
      \/ o = Fails
      \/ o = GoesOn(0)
      \/ o = GoesOn(counters.identical + 1)
  BY DEF AfterTools
<1>2. k \in Nat \ {0} /\ base \in Seq(Messages) /\ run \in Nat \ {0}
  BY BaseIs DEF Calling, InRun
<1>3. Request(run, base, h2, FALSE) /\ h2[Len(h2)].role = "tool"
  <2> DEFINE g == Front(h)
  <2>1. Request(run, base, g, FALSE) /\ h = Append(g, Message("assistant", "calls", k))
    BY DEF Calling
  <2> HIDE DEF g, k
  <2> QED
    BY <1>2, <2>1, ResultsRequest
<1>4. ASSUME NEW identical \in Int
      PROVE  C(identical) \in Counters /\ C(identical).finalizing = limit
  <2>1. counters \in Counters /\ errors \in Int /\ limit \in BOOLEAN /\ k \in Int
    BY <1>2 DEF InRun, Counters
  <2>2. C(identical) = TurnCounters(counters, limit, bad, errors, identical, k)
    BY DEF TurnCounters
  <2> HIDE DEF errors, limit, k, C
  <2> QED
    BY <1>4, <2>1, <2>2, CountersNext
<1>5. Request(run, base, h3, limit)
  <2>1. CASE limit
    <3>1. Request(run, base, Append(h2, Note), TRUE)
      BY <1>2, <1>3, NoteRequest
    <3>2. limit = TRUE /\ h3 = Append(h2, Note)
      BY <2>1
    <3> HIDE DEF h3, limit
    <3> QED
      BY <3>1, <3>2
  <2>2. CASE ~limit
    <3>1. limit = FALSE /\ h3 = h2
      BY <2>2
    <3> HIDE DEF h3, limit
    <3> QED
      BY <1>3, <3>1
  <2> QED
    BY <2>1, <2>2
<1>6. counters.identical + 1 \in Int
  BY DEF InRun, Counters
<1> HIDE DEF h2, h3, C, limit
<1>7. ASSUME NEW identical \in Int PROVE GoodOutcome(GoesOn(identical))
  <2>1. C(identical) \in Counters /\ C(identical).finalizing = limit
    BY <1>4
  <2>2. Request(run, base, h3, C(identical).finalizing)
    BY <1>5, <2>1
  <2> QED
    BY <2>1, <2>2, TurnGood
<1>8. GoodOutcome(Fails)
  BY <1>3, RollbackGood
<1>9. ASSUME cancelled PROVE GoodOutcome(Outcome(h2, counters, "end", NoTool))
  <2>1. Conversation(run, h2) /\ StartsAs(run, base, h2)
    BY <1>2, <1>3, StoppedConversation
  <2>2. Leaves(h2)
    BY <1>3, <1>9, <2>1 DEF Leaves
  <2> QED
    BY <2>1, <2>2, EndGood
<1> HIDE DEF Fails, GoesOn
<1> QED
  BY <1>1, <1>6, <1>7, <1>8, <1>9

LEMMA RunToolsGood ==
  ASSUME InRun, ~counters.finalizing, NEW h, NEW tool, Calling(run, base, h, tool),
         NEW o \in RunTools(h, tool)
  PROVE  GoodOutcome(o)
<1> DEFINE usable == {i \in (tool.at + 1)..Len(tool.calls) : tool.calls[i]}
           parsed == [counters EXCEPT !.parseFails = 0]
           next == Tool(tool.gen, tool.calls, Min(usable), tool.failed, tool.mutated)
           bad == counters.parseFails + Len(tool.calls) - tool.at
<1>1. tool.calls \in Seq(BOOLEAN) /\ tool.calls # <<>> /\ tool.at \in Nat
  BY DEF Calling
<1>2. CASE cancelled \/ usable = {}
  <2>1. o \in AfterTools(h, tool, bad)
    BY <1>2 DEF RunTools
  <2>2. bad \in Int
    BY <1>1 DEF InRun, Counters
  <2> HIDE DEF bad
  <2> QED
    BY <2>1, <2>2, AfterToolsGood
<1>3. CASE ~(cancelled \/ usable = {})
  <2>1. o = Outcome(h, parsed, "tool", next)
    BY <1>3 DEF RunTools
  <2>2. parsed \in Counters /\ ~parsed.finalizing
    BY DEF InRun, Counters
  <2>3. usable \in SUBSET Nat
    BY <1>1
  <2>4. Min(usable) \in Nat
    BY <1>3, <2>3, MinLemma
  <2> HIDE DEF usable
  <2>5. next.calls = tool.calls /\ next.at \in Nat
    BY <2>4 DEF Tool
  <2> HIDE DEF next, parsed
  <2>6. Calling(run, base, h, next)
    BY <2>5 DEF Calling
  <2> QED
    BY <2>1, <2>2, <2>6, ToolGood
<1> QED
  BY <1>2, <1>3

LEMMA FinishTurnGood ==
  ASSUME InRun, toolCalls \in Seq(BOOLEAN), Request(run, base, history, counters.finalizing),
         NEW o \in finishTurn
  PROVE  GoodOutcome(o)
<1> DEFINE verified == [counters EXCEPT !.verified = TRUE]
           corrected == history \o <<Message("assistant", "text", 0), Message("user", "fix", 0)>>
           called == Append(history, Message("assistant", "calls", Len(toolCalls)))
           tool == Tool(generation, toolCalls, 0, TRUE, FALSE)
<1>1. \/ o = Outcome(FinalHistory, counters, "end", NoTool)
      \/ ~counters.finalizing /\ o = Outcome(corrected, verified, "turn", NoTool)
      \/ toolCalls # <<>> /\ ~counters.finalizing /\ o \in RunTools(called, tool)
  BY DEF finishTurn
<1>2. base \in Seq(Messages) /\ run \in Nat \ {0} /\ counters.finalizing \in BOOLEAN
  BY BaseIs DEF InRun, Counters
<1>3. GoodOutcome(Outcome(FinalHistory, counters, "end", NoTool))
  <2>1. /\ Conversation(run, FinalHistory) /\ StartsAs(run, base, FinalHistory)
        /\ FinalHistory[Len(FinalHistory)].role = "assistant"
    BY <1>2, FinalConversation DEF FinalHistory
  <2>2. Leaves(FinalHistory)
    BY <2>1 DEF Leaves
  <2> QED
    BY <2>1, <2>2, EndGood
<1>4. ASSUME ~counters.finalizing
      PROVE  GoodOutcome(Outcome(corrected, verified, "turn", NoTool))
  <2>1. counters.finalizing = FALSE
    BY <1>2, <1>4
  <2>2. verified \in Counters /\ verified.finalizing = FALSE
    BY <2>1 DEF InRun, Counters
  <2>3. Request(run, base, history, FALSE)
    BY <2>1
  <2>4. Request(run, base, corrected, FALSE)
    BY <1>2, <2>3, CorrectedRequest
  <2> HIDE DEF corrected, verified
  <2> QED
    BY <2>2, <2>4, TurnGood
<1>5. ASSUME toolCalls # <<>>, ~counters.finalizing PROVE Calling(run, base, called, tool)
  <2>1. counters.finalizing = FALSE
    BY <1>2, <1>5
  <2>2. tool.calls = toolCalls /\ tool.at = 0
    BY DEF Tool
  <2>3. Message("assistant", "calls", Len(toolCalls)) \in Messages
    BY DEF Message, Messages
  <2>4. history \in Seq(Messages)
    BY DEF Request
  <2>5. Front(called) = history
    BY <2>3, <2>4, FrontOfAppend
  <2>6. called # <<>>
    BY <2>3, <2>4
  <2> HIDE DEF called, tool
  <2>7. called = Append(Front(called), Message("assistant", "calls", Len(tool.calls)))
    BY <2>2, <2>5 DEF called
  <2>8. Request(run, base, Front(called), FALSE)
    BY <2>1, <2>5
  <2>9. tool.calls \in Seq(BOOLEAN) /\ tool.calls # <<>> /\ tool.at \in Nat
    BY <1>5, <2>2
  <2> QED
    BY <2>6, <2>7, <2>8, <2>9 DEF Calling
<1> HIDE DEF called, tool, corrected, verified
<1> QED
  BY <1>1, <1>3, <1>4, <1>5, RunToolsGood

-----------------------------------------------------------------------------
(* What a step does to the history *)

(* A run that ends, and is not dropped by a reset, leaves what it should. *)
EndsWell ==
  running /\ ~running' /\ generation' = generation /\ runUserMsg # 0 => Leaves(history')

LEMMA AloneNext ==
  ASSUME LoopInv'
  PROVE  /\ \A t \in Tools' : Turns' = {} /\ Timers' = {} /\ Begins' = {}
         /\ \A b \in Begins' : Turns' = {} /\ Tools' = {} /\ Timers' = {}
         /\ ~running' => Turns' = {} /\ Tools' = {} /\ Timers' = {} /\ Begins' = {}
BY DEF LoopInv, Waits

LEMMA NewRunCounts == NewRun \in Counters /\ NewRun.finalizing = FALSE
BY DEF NewRun, Counters

LEMMA NothingSaid ==
  ASSUME NEW r
  PROVE  Conversation(r, <<>>)
BY DEF Conversation, Answered, Paired

(* What a busy run knows of itself once its message is in the history. *)
LEMMA RunIsIn ==
  ASSUME LoopInv, HistoryInv, running, Begins = {}
  PROVE  InRun
<1>1. run \in Nat \ {0}
  BY DEF LoopInv, TypeOK, RunInv
<1> QED
  BY <1>1 DEF HistoryInv, InRun

(* A step that leaves the history and the run alone and opens nothing. *)
LEMMA HistoryFrame ==
  ASSUME HistoryInv, UNCHANGED <<history, counters, running, run, base, runUserMsg>>,
         toolCalls' \in Seq(BOOLEAN), Turns' \cup Timers' # {} => Turns \cup Timers # {},
         Tools' \subseteq Tools, Begins' = Begins
  PROVE  HistoryInv' /\ EndsWell
<1>1. EndsWell
  BY DEF EndsWell
<1>2. counters' \in Counters /\ (~running' => Conversation(run', history'))
  BY DEF HistoryInv
<1>3. \A b \in Begins' :
        Conversation(run' - 1, history') /\ b.cut \in Cuts(history') /\ ~counters'.finalizing
  BY DEF HistoryInv
<1>4. /\ running' /\ Begins' = {} => Conversation(run' - 1, base')
      /\ runUserMsg' = IF running' /\ Begins' = {} THEN run' ELSE 0
  BY DEF HistoryInv
<1>5. Turns' \cup Timers' # {} => Request(run', base', history', counters'.finalizing)
  BY DEF HistoryInv
<1>6. \A tool \in Tools' : Calling(run', base', history', tool) /\ ~counters'.finalizing
  BY DEF HistoryInv
<1> QED
  BY <1>1, <1>2, <1>3, <1>4, <1>5, <1>6 DEF HistoryInv

LEMMA ApplyHistory ==
  ASSUME LoopInv', HistoryInv, running, Begins = {}, NEW o, GoodOutcome(o),
         o.next = "tool" => o.tool.gen = generation,
         NEW rest, NEW idle, {t \in idle : t.gen = generation} = {}, Begins' = {},
         Apply(o, rest, idle), UNCHANGED <<generation, run>>
  PROVE  HistoryInv' /\ EndsWell
<1>1. history' = o.h /\ toolCalls' \in Seq(BOOLEAN)
  <2>1. history' = o.h
    BY DEF Apply
  <2>2. toolCalls' = <<>>
    BY DEF Apply, startTurn
  <2> QED
    BY <2>1, <2>2
<1>2. o.next \in {"end", "turn", "tool"}
  BY DEF GoodOutcome
<1>3. CASE o.next = "end"
  <2>1. Conversation(run, o.h) /\ Leaves(o.h)
    BY <1>3 DEF GoodOutcome
  <2>2. ~running' /\ runUserMsg' = 0 /\ counters' = NewRun
    BY <1>3 DEF Apply, Ended
  <2>3. Turns' = {} /\ Tools' = {} /\ Timers' = {}
    BY <2>2, AloneNext
  <2> QED
    BY <1>1, <2>1, <2>2, <2>3, NewRunCounts DEF HistoryInv, EndsWell
<1>4. CASE o.next # "end"
  <2>1. /\ o.c \in Counters /\ counters' = o.c
        /\ UNCHANGED <<running, runUserMsg, base>>
    BY <1>2, <1>4 DEF GoodOutcome, Apply
  <2>2. Conversation(run' - 1, base') /\ runUserMsg' = run'
    BY <2>1 DEF HistoryInv
  <2>3. CASE o.next = "turn"
    <3>1. Tools' = {}
      BY <2>3 DEF Apply, Tools
    <3>2. Request(run', base', history', counters'.finalizing)
      BY <1>1, <2>1, <2>3 DEF GoodOutcome
    <3> QED
      BY <1>1, <2>1, <2>2, <3>1, <3>2 DEF HistoryInv, EndsWell
  <2>4. CASE o.next = "tool"
    <3>1. Tools' \subseteq {o.tool}
      BY <2>4 DEF Apply, Tools
    <3>2. Calling(run', base', history', o.tool) /\ ~counters'.finalizing
      BY <1>1, <2>1, <2>4 DEF GoodOutcome
    <3>3. o.tool \in Tools'
      BY <2>4 DEF Apply, Tools
    <3>4. Turns' = {} /\ Timers' = {}
      BY <3>3, AloneNext
    <3> QED
      BY <1>1, <2>1, <2>2, <3>1, <3>2, <3>4 DEF HistoryInv, EndsWell
  <2> QED
    BY <1>2, <1>4, <2>3, <2>4
<1> QED
  BY <1>3, <1>4

(* beginRun puts the run's message behind a conversation and opens a turn. *)
LEMMA PushHistory ==
  ASSUME NEW h, NEW rest, run' \in Nat \ {0}, Conversation(run' - 1, h),
         PushAndStart(h, run', rest), running', Begins' = {}, Tools' = {},
         counters' \in Counters, counters'.finalizing = FALSE
  PROVE  HistoryInv' /\ EndsWell
<1> DEFINE b == trimHistory(h)
           r == run'
<1>1. /\ base' = b /\ runUserMsg' = r
      /\ history' = Append(b, Message("user", "ask", r)) /\ toolCalls' = <<>>
  BY DEF PushAndStart, startTurn
<1>2. Conversation(r - 1, b)
  BY TrimConversation DEF Conversation
<1> HIDE DEF b
<1>3. Request(r, b, Append(b, Message("user", "ask", r)), FALSE)
  BY <1>2, AskRequest
<1>4. Request(run', base', history', counters'.finalizing)
  BY <1>1, <1>3
<1>5. Conversation(run' - 1, base') /\ runUserMsg' = run' /\ toolCalls' \in Seq(BOOLEAN)
  BY <1>1, <1>2
<1> HIDE DEF r
<1> QED
  BY <1>4, <1>5 DEF HistoryInv, EndsWell

LEMMA StartRunHistory ==
  ASSUME LoopInv, LoopInv', HistoryInv, StartRun
  PROVE  HistoryInv' /\ EndsWell
<1>1. /\ ~running /\ running' /\ counters' = NewRun /\ run' = run + 1 /\ run \in Nat
      /\ UNCHANGED <<generation, tools, timers>>
  BY DEF StartRun, LoopInv, TypeOK
<1>2. Turns = {} /\ Tools = {} /\ Timers = {} /\ Begins = {}
  BY <1>1, Alone
<1>3. Conversation(run, history) /\ runUserMsg = 0 /\ toolCalls \in Seq(BOOLEAN)
  BY <1>1, <1>2 DEF HistoryInv
<1>4. Conversation(run' - 1, history) /\ run' \in Nat \ {0}
  <2>1. run' - 1 = run /\ run' \in Nat \ {0}
    BY <1>1
  <2> QED
    BY <1>3, <2>1
<1>5. counters' \in Counters /\ counters'.finalizing = FALSE
  BY <1>1, NewRunCounts
<1>6. CASE PushAndStart(history, run + 1, streams) /\ UNCHANGED begins
  <2>1. Begins' = {} /\ Tools' = {}
    BY <1>1, <1>2, <1>6, SameWaits
  <2>2. PushAndStart(history, run', streams)
    BY <1>1, <1>6
  <2> QED
    BY <1>1, <1>4, <1>5, <2>1, <2>2, PushHistory
<1>7. ASSUME NEW cut \in Cuts(history), begins' = begins \cup {[gen |-> generation, cut |-> cut]},
             UNCHANGED <<history, runUserMsg, turn, base>>
      PROVE  HistoryInv' /\ EndsWell
  <2> DEFINE b == [gen |-> generation, cut |-> cut]
  <2>1. b \in Begins' /\ Begins' \subseteq {b} /\ b.cut = cut
    BY <1>1, <1>2, <1>7 DEF Begins
  <2> HIDE DEF b
  <2>2. Turns' = {} /\ Tools' = {} /\ Timers' = {}
    BY <2>1, AloneNext
  <2>3. toolCalls' \in Seq(BOOLEAN) /\ runUserMsg' = 0 /\ history' = history
    BY <1>3, <1>7 DEF turn
  <2>4. Conversation(run' - 1, history') /\ cut \in Cuts(history')
    BY <1>4, <1>7, <2>3
  <2> QED
    BY <1>1, <1>5, <2>1, <2>2, <2>3, <2>4 DEF HistoryInv, EndsWell
<1> QED
  BY <1>6, <1>7 DEF StartRun

LEMMA ResetHistory ==
  ASSUME LoopInv, LoopInv', reset
  PROVE  HistoryInv' /\ EndsWell
<1>1. /\ ~running' /\ history' = <<>> /\ runUserMsg' = 0 /\ counters' = NewRun
      /\ toolCalls' = <<>> /\ generation' # generation
  BY DEF reset, LoopInv, TypeOK
<1>2. Turns' = {} /\ Tools' = {} /\ Timers' = {} /\ Begins' = {}
  BY <1>1, AloneNext
<1>3. Conversation(run', history') /\ counters' \in Counters /\ toolCalls' \in Seq(BOOLEAN)
  BY <1>1, NothingSaid, NewRunCounts
<1> QED
  BY <1>1, <1>2, <1>3 DEF HistoryInv, EndsWell

LEMMA SummaryHistory ==
  ASSUME LoopInv, LoopInv', HistoryInv, NEW b \in begins, NEW rest, TurnsIn(rest) = Turns,
         SummaryResolves(b, rest), UNCHANGED others
  PROVE  HistoryInv' /\ EndsWell
<1>1. /\ begins' = begins \ {b}
      /\ UNCHANGED <<counters, tools, timers, generation, cancelled, run>>
  BY DEF SummaryResolves, others
<1>2. Tools' = Tools /\ Timers' = Timers /\ Begins' = Begins \ {b}
  BY <1>1, SameWaits DEF Begins
<1>3. CASE b.gen # generation
  <2>1. streams' = rest /\ UNCHANGED <<history, running, runUserMsg, turn, base>>
    BY <1>3 DEF SummaryResolves
  <2>2. Turns' = Turns
    BY <1>1, <2>1, KeepsTurns
  <2>3. Begins' = Begins
    BY <1>2, <1>3 DEF Begins
  <2>4. toolCalls' \in Seq(BOOLEAN)
    BY <2>1 DEF turn, HistoryInv
  <2> QED
    BY <1>1, <1>2, <2>1, <2>2, <2>3, <2>4, HistoryFrame
<1>4. CASE b.gen = generation
  <2> DEFINE h == Compacted(history, b.cut)
  <2>1. b \in Begins
    BY <1>4 DEF Begins
  <2>2. Begins = {b} /\ Turns = {} /\ Tools = {} /\ Timers = {} /\ running
    BY <2>1, Alone
  <2>3. Begins' = {} /\ Tools' = {}
    BY <1>2, <2>2
  <2>4. /\ Conversation(run - 1, history) /\ b.cut \in Users(history) /\ runUserMsg = 0
        /\ counters \in Counters /\ ~counters.finalizing /\ toolCalls \in Seq(BOOLEAN)
    BY <2>1, <2>2 DEF HistoryInv, Cuts
  <2>5. Conversation(run - 1, h)
    BY <2>4, CompactedConversation DEF Conversation
  <2>6. run \in Nat \ {0}
    BY <2>2 DEF LoopInv, TypeOK, RunInv
  <2>7. Resume(b, rest)
    BY <1>4 DEF SummaryResolves
  <2> HIDE DEF h
  <2>8. CASE cancelled
    <3>1. history' = h /\ ~running' /\ runUserMsg' = 0 /\ UNCHANGED toolCalls
      BY <2>7, <2>8 DEF Resume, Ended, turn, h
    <3>2. Conversation(run', history')
      BY <1>1, <2>5, <2>6, <3>1, LaterConversation
    <3>3. Turns' = {} /\ Timers' = {}
      BY <3>1, AloneNext
    <3> QED
      BY <1>1, <2>3, <2>4, <3>1, <3>2, <3>3 DEF HistoryInv, EndsWell
  <2>9. CASE ~cancelled
    <3>1. PushAndStart(h, run, rest) /\ UNCHANGED running
      BY <2>7, <2>9 DEF Resume, h
    <3>2. PushAndStart(h, run', rest) /\ run' \in Nat \ {0} /\ Conversation(run' - 1, h)
      BY <1>1, <2>5, <2>6, <3>1
    <3>3. counters' \in Counters /\ counters'.finalizing = FALSE /\ running'
      <4>1. counters.finalizing \in BOOLEAN
        BY <2>4 DEF Counters
      <4> QED
        BY <1>1, <2>2, <2>4, <3>1, <4>1
    <3> QED
      BY <2>3, <3>2, <3>3, PushHistory
  <2> QED
    BY <2>8, <2>9
<1> QED
  BY <1>3, <1>4

LEMMA NothingRestored == Normalized(<<>>) = <<>>
<1>1. \A s : Kept(s, {}) = <<>>
  BY FS_EmptySet DEF Kept
<1>2. Filled(<<>>) = <<>>
  <2>1. {i \in DOMAIN <<>> : <<>>[i] # Note} = {}
    OBVIOUS
  <2> QED
    BY <1>1, <2>1 DEF Filled
<1>3. Heard(<<>>) = {}
  BY DEF Heard
<1> QED
  BY <1>1, <1>2, <1>3, NormalizedIs

LEMMA RestoreHistory ==
  ASSUME LoopInv, LoopInv', HistoryInv, NEW t \in Transcripts, restore(t)
  PROVE  HistoryInv' /\ EndsWell
<1> DEFINE h == Normalized(t)
<1>1. /\ ~running /\ UNCHANGED <<running, generation, runUserMsg, counters, turn, run>>
      /\ \/ history' = trimHistory(h)
         \/ \E cut \in Cuts(h) : history' = trimHistory(Compacted(h, cut))
  BY DEF restore
<1>2. t \in Seq(Loaded) /\ run \in Nat
  BY TranscriptAssumption DEF Loaded, LoopInv, TypeOK
<1>3. Answered(run, h)
  BY <1>2, NormalizedLemma
<1>4. Conversation(run, h) \/ (Len(h) > maxHistory /\ Window(h) # {})
  <2>1. CASE t = <<>>
    BY <2>1, NothingRestored, NothingSaid
  <2>2. CASE t # <<>> /\ t[1] = Message("user", "ask", 0)
    BY <1>2, <2>2, NormalizedLemma
  <2>3. CASE Len(h) > maxHistory /\ Window(h) # {}
    BY <2>3
  <2> HIDE DEF h
  <2> QED
    BY <2>1, <2>2, <2>3, TranscriptAssumption DEF h
<1> HIDE DEF h
<1>5. Conversation(run, trimHistory(h))
  BY <1>3, <1>4, TrimConversation
<1>6. ASSUME NEW cut \in Cuts(h) PROVE Conversation(run, trimHistory(Compacted(h, cut)))
  <2>1. cut \in Users(h)
    BY DEF Cuts
  <2>2. Conversation(run, Compacted(h, cut))
    BY <1>3, <2>1, CompactedConversation
  <2> QED
    BY <2>2, TrimConversation DEF Conversation
<1>7. Conversation(run', history')
  BY <1>1, <1>5, <1>6
<1>8. Turns' = {} /\ Tools' = {} /\ Timers' = {} /\ Begins' = {}
  BY <1>1, AloneNext
<1>9. counters' \in Counters /\ toolCalls' \in Seq(BOOLEAN) /\ runUserMsg' = 0
  BY <1>1 DEF HistoryInv, turn
<1> QED
  BY <1>1, <1>7, <1>8, <1>9 DEF HistoryInv, EndsWell

LEMMA IgnoredHistory ==
  ASSUME HistoryInv, NEW rest, TurnsIn(rest) = Turns, Ignored(rest),
         Timers' \subseteq Timers, Begins' = Begins, UNCHANGED <<generation, run>>
  PROVE  HistoryInv' /\ EndsWell
<1>1. streams' = rest /\ UNCHANGED <<history, running, runUserMsg, counters, toolCalls, tools, base>>
  BY DEF Ignored, turn
<1>2. Turns' = Turns /\ Tools' = Tools
  BY <1>1, KeepsTurns, SameWaits
<1>3. toolCalls' \in Seq(BOOLEAN)
  BY <1>1 DEF HistoryInv
<1> QED
  BY <1>1, <1>2, <1>3, HistoryFrame

(* The last chunk of a turn that is listened to finishes it, delays a retry or  *)
(* fails the run.                                                               *)
LEMMA TurnHistory ==
  ASSUME LoopInv, LoopInv', HistoryInv, NEW s \in streams, s.kind = "turn",
         NEW rest \in {Without(s), Settled(s)}, UNCHANGED others,
         onDone(s, rest) \/ \E empty \in BOOLEAN : onError(s, empty, rest)
  PROVE  HistoryInv' /\ EndsWell
<1>1. TurnsIn(rest) = Turns \ {s} /\ UNCHANGED <<generation, run, cancelled>>
  BY Pasts, RestLemma DEF others
<1>2. UNCHANGED begins /\ Begins' = Begins
  BY <1>1, SameWaits DEF onDone, onError
<1>3. CASE ~Listens(s)
  <2>1. TurnsIn(rest) = Turns
    BY <1>1, <1>3 DEF Turns, TurnsOpen
  <2>2. Ignored(rest) /\ UNCHANGED timers
    BY <1>3 DEF onDone, onError
  <2>3. Timers' = Timers
    BY <1>1, <2>2, SameWaits
  <2> QED
    BY <1>1, <1>2, <2>1, <2>2, <2>3, IgnoredHistory
<1>4. CASE Listens(s)
  <2>1. s \in Turns
    BY <1>4 DEF Turns, TurnsOpen
  <2>2. Turns = {s} /\ Tools = {} /\ Timers = {} /\ Begins = {} /\ running
    BY <2>1, Alone
  <2>3. InRun
    BY <2>2, RunIsIn
  <2>4. Request(run, base, history, counters.finalizing) /\ toolCalls \in Seq(BOOLEAN)
    BY <2>2 DEF HistoryInv
  <2>5. {t \in tools : t.gen = generation} = {}
    BY <2>2 DEF Tools
  <2>6. CASE onDone(s, rest)
    <3>1. PICK o \in finishTurn : Apply(o, rest, tools)
      BY <1>4, <2>6 DEF onDone
    <3>2. GoodOutcome(o)
      BY <2>3, <2>4, <3>1, FinishTurnGood
    <3>3. o.next = "tool" => o.tool.gen = generation
      BY <3>1, FinishTurnNext
    <3> QED
      BY <1>1, <1>2, <2>2, <2>5, <3>1, <3>2, <3>3, ApplyHistory
  <2>7. ASSUME NEW empty \in BOOLEAN, onError(s, empty, rest)
        PROVE  HistoryInv' /\ EndsWell
    <3> DEFINE o == Outcome(rollbackFailedRun(history), counters, "end", NoTool)
    <3>1. \/ Ignored(rest) \/ Apply(o, rest, tools)
      BY <1>4, <2>7 DEF onError
    <3>2. CASE Ignored(rest)
      <4>1. UNCHANGED <<history, running, runUserMsg, counters, toolCalls, tools, base>>
        BY <3>2 DEF Ignored, turn
      <4>2. Tools' = Tools /\ toolCalls' \in Seq(BOOLEAN)
        BY <1>1, <2>4, <4>1, SameWaits
      <4> QED
        BY <1>1, <1>2, <2>2, <4>1, <4>2, HistoryFrame
    <3>3. CASE Apply(o, rest, tools)
      <4>1. o.next = "end"
        BY DEF Outcome
      <4>2. counters.finalizing \in BOOLEAN
        BY <2>3 DEF InRun, Counters
      <4>3. GoodOutcome(o)
        BY <2>3, <2>4, <4>2, RollbackGood
      <4> HIDE DEF o
      <4> QED
        BY <1>1, <1>2, <2>2, <2>5, <3>3, <4>1, <4>3, ApplyHistory
    <3> QED
      BY <3>1, <3>2, <3>3
  <2> QED
    BY <2>6, <2>7
<1> QED
  BY <1>3, <1>4

LEMMA ToolEndsHistory ==
  ASSUME LoopInv, LoopInv', HistoryInv, NEW tool \in tools, NEW failed \in BOOLEAN,
         NEW mutated \in BOOLEAN, ToolEnds(tool, failed, mutated)
  PROVE  HistoryInv' /\ EndsWell
<1>1. UNCHANGED <<timers, begins, generation, run, cancelled>>
  BY DEF ToolEnds, others
<1>2. Timers' = Timers /\ Begins' = Begins
  BY <1>1, SameWaits
<1>3. CASE tool.gen # generation
  <2>1. /\ tools' = tools \ {tool}
        /\ UNCHANGED <<history, running, runUserMsg, counters, toolCalls, streams, base>>
    BY <1>3 DEF ToolEnds, turn
  <2>2. Turns' = Turns /\ Tools' \subseteq Tools
    BY <1>1, <2>1, SameWaits DEF Tools
  <2>3. toolCalls' \in Seq(BOOLEAN)
    BY <2>1 DEF HistoryInv
  <2> QED
    BY <1>1, <1>2, <2>1, <2>2, <2>3, HistoryFrame
<1>4. CASE tool.gen = generation
  <2> DEFINE went == Tool(tool.gen, tool.calls, tool.at,
                          tool.failed /\ failed, tool.mutated \/ mutated)
  <2>1. PICK o \in RunTools(history, went) : Apply(o, streams, tools \ {tool})
    BY <1>4 DEF ToolEnds
  <2>2. went.gen = generation /\ went.calls = tool.calls /\ went.at = tool.at
    BY <1>4 DEF Tool
  <2> HIDE DEF went
  <2>3. tool \in Tools
    BY <1>4 DEF Tools
  <2>4. Tools = {tool} /\ Begins = {} /\ running
    BY <2>3, Alone
  <2>5. InRun
    BY <2>4, RunIsIn
  <2>6. Calling(run, base, history, tool) /\ ~counters.finalizing
    BY <2>3 DEF HistoryInv
  <2>7. Calling(run, base, history, went)
    BY <2>2, <2>6 DEF Calling
  <2>8. GoodOutcome(o)
    BY <2>1, <2>5, <2>6, <2>7, RunToolsGood
  <2>9. o.next = "tool" => o.tool.gen = generation
    BY <2>1, <2>2, RunToolsNext
  <2>10. {t \in tools \ {tool} : t.gen = generation} = {}
    BY <2>4 DEF Tools
  <2> QED
    BY <1>1, <1>2, <2>1, <2>4, <2>8, <2>9, <2>10, ApplyHistory
<1> QED
  BY <1>3, <1>4

LEMMA TimerHistory ==
  ASSUME LoopInv, LoopInv', HistoryInv, NEW t \in timers, TimerFires(t)
  PROVE  HistoryInv' /\ EndsWell
<1>1. timers' = timers \ {t} /\ UNCHANGED <<begins, generation, run, cancelled>>
  BY DEF TimerFires, others
<1>2. Timers' \subseteq Timers /\ Begins' = Begins
  BY <1>1, SameWaits DEF Timers
<1>3. CASE t.gen # generation
  <2>1. Ignored(streams)
    BY <1>3 DEF TimerFires
  <2> QED
    BY <1>1, <1>2, <2>1, TurnsAreIn, IgnoredHistory
<1>4. CASE t.gen = generation
  <2>1. t \in Timers
    BY <1>4 DEF Timers
  <2>2. Timers = {t} /\ Turns = {} /\ Tools = {} /\ Begins = {} /\ running
    BY <2>1, Alone
  <2>3. InRun
    BY <2>2, RunIsIn
  <2>4. Request(run, base, history, counters.finalizing) /\ toolCalls \in Seq(BOOLEAN)
    BY <2>2 DEF HistoryInv
  <2>5. CASE cancelled
    <3>1. PICK o \in finishTurn : Apply(o, streams, tools)
      BY <1>4, <2>5 DEF TimerFires
    <3>2. GoodOutcome(o)
      BY <2>3, <2>4, <3>1, FinishTurnGood
    <3>3. o.next = "tool" => o.tool.gen = generation
      BY <3>1, FinishTurnNext
    <3>4. {x \in tools : x.gen = generation} = {}
      BY <2>2 DEF Tools
    <3> QED
      BY <1>1, <1>2, <2>2, <3>1, <3>2, <3>3, <3>4, ApplyHistory
  <2>6. CASE ~cancelled
    <3>1. /\ toolCalls' = <<>>
          /\ UNCHANGED <<history, running, runUserMsg, counters, tools, base>>
      BY <1>4, <2>6 DEF TimerFires, startTurn
    <3>2. Tools' = Tools /\ toolCalls' \in Seq(BOOLEAN)
      BY <1>1, <3>1, SameWaits
    <3> QED
      BY <1>1, <1>2, <2>2, <3>1, <3>2, HistoryFrame
  <2> QED
    BY <2>5, <2>6
<1> QED
  BY <1>3, <1>4

LEMMA HistoryStep ==
  ASSUME LoopInv, HistoryInv, [Next]_vars
  PROVE  HistoryInv' /\ EndsWell
<1>0. LoopInv'
  BY StepInv
<1>1. CASE StartRun
  BY <1>0, <1>1, StartRunHistory
<1>2. CASE reset
  BY <1>0, <1>2, ResetHistory
<1>3. CASE \E t \in Transcripts : restore(t)
  BY <1>0, <1>3, RestoreHistory
<1>4. CASE \/ cancel \/ UNCHANGED vars
           \/ \E s \in streams : Delta(s) \/ \E usable \in BOOLEAN : ToolCall(s, usable)
  <2>1. /\ UNCHANGED <<history, counters, running, run, base, runUserMsg>>
        /\ UNCHANGED <<generation, streams, tools, timers, begins>>
    BY <1>4 DEF cancel, Delta, ToolCall, others, vars, ghosts
  <2>2. toolCalls' \in Seq(BOOLEAN)
    <3>1. toolCalls \in Seq(BOOLEAN)
      BY DEF HistoryInv
    <3>2. UNCHANGED toolCalls \/ \E usable \in BOOLEAN : toolCalls' = Append(toolCalls, usable)
      BY <1>4 DEF cancel, Delta, ToolCall, vars, turn
    <3> QED
      BY <3>1, <3>2
  <2>3. Turns' = Turns /\ Tools' = Tools /\ Timers' = Timers /\ Begins' = Begins
    BY <2>1, SameWaits
  <2> QED
    BY <2>1, <2>2, <2>3, HistoryFrame
<1>5. ASSUME NEW s \in streams, StreamDone(s) \/ StreamFails(s) \/ Silence(s)
      PROVE  HistoryInv' /\ EndsWell
  <2>1. CASE s.kind = "turn"
    <3>1. PICK rest \in {Without(s), Settled(s)} :
             /\ onDone(s, rest) \/ \E empty \in BOOLEAN : onError(s, empty, rest)
             /\ UNCHANGED others
      BY <1>5, <2>1 DEF StreamDone, StreamFails, Silence
    <3> QED
      BY <1>0, <2>1, <3>1, TurnHistory
  <2>2. CASE s.kind # "turn"
    <3>1. PICK rest \in {Without(s), Settled(s)} : SummarySettles(s, rest) /\ UNCHANGED others
      BY <1>5, <2>2 DEF StreamDone, StreamFails, Silence
    <3>2. TurnsIn(rest) = Turns \ {s}
      BY <3>1, Pasts, RestLemma
    <3>3. TurnsIn(rest) = Turns
      BY <2>2, <3>2 DEF Turns, TurnsOpen
    <3>4. CASE \E b \in begins : SummaryResolves(b, rest)
      BY <1>0, <3>1, <3>3, <3>4, SummaryHistory
    <3>5. CASE Ignored(rest) /\ UNCHANGED <<timers, begins>>
      <4>1. UNCHANGED <<generation, run>>
        BY <3>1 DEF others
      <4>2. Timers' = Timers /\ Begins' = Begins
        BY <3>5, <4>1, SameWaits
      <4> QED
        BY <3>3, <3>5, <4>1, <4>2, IgnoredHistory
    <3> QED
      BY <3>1, <3>4, <3>5 DEF SummarySettles
  <2> QED
    BY <2>1, <2>2
<1>6. CASE ToolReturns
  BY <1>0, <1>6, ToolEndsHistory DEF ToolReturns
<1>7. ASSUME NEW b \in begins, SummaryTimesOut(b)
      PROVE  HistoryInv' /\ EndsWell
  <2> DEFINE rest == {s \in streams : s.kind = "turn" \/ s.gen # b.gen}
  <2>1. TurnsIn(rest) = Turns
    BY TurnsAreIn DEF TurnsIn
  <2>2. SummaryResolves(b, rest) /\ UNCHANGED others
    BY <1>7 DEF SummaryTimesOut
  <2> HIDE DEF rest
  <2> QED
    BY <1>0, <2>1, <2>2, SummaryHistory
<1>8. CASE Timeouts
  BY <1>0, <1>7, <1>8, TimerHistory DEF Timeouts
<1> QED
  BY <1>1, <1>2, <1>3, <1>4, <1>5, <1>6, <1>8 DEF Next, Settles

LEMMA InitHistory == Init => HistoryInv
<1> SUFFICES ASSUME Init PROVE HistoryInv
  OBVIOUS
<1>1. ~running /\ history = <<>> /\ counters = NewRun /\ toolCalls = <<>> /\ runUserMsg = 0
  BY DEF Init
<1>2. Turns = {} /\ Tools = {} /\ Timers = {} /\ Begins = {}
  BY DEF Init, Turns, TurnsOpen, Tools, Timers, Begins
<1> QED
  BY <1>1, <1>2, NothingSaid, NewRunCounts DEF HistoryInv

LEMMA HistoryHolds == Spec => [](LoopInv /\ HistoryInv)
<1>1. Init => LoopInv /\ HistoryInv
  BY InitInv, InitHistory
<1>2. LoopInv /\ HistoryInv /\ [Next]_vars => (LoopInv /\ HistoryInv)'
  BY StepInv, HistoryStep
<1> QED
  BY <1>1, <1>2, PTL DEF Spec

-----------------------------------------------------------------------------
(* Every request the loop sends is one a provider accepts, whatever trimming,   *)
(* compaction, correction, cancellation and rollback (loop.ts) have made of the *)
(* history before: it starts with a user message, its calls and results are     *)
(* paired, and it carries the turn-limit note exactly in the finalizing turn;   *)
(* between runs nothing unanswered and no note is left.                          *)
THEOREM RequestsAreWellFormed == Spec => []HistoryWellFormed
<1>1. LoopInv /\ HistoryInv => HistoryWellFormed
  <2> SUFFICES ASSUME LoopInv, HistoryInv PROVE HistoryWellFormed
    OBVIOUS
  <2>1. ASSUME TurnsOpen # {}
        PROVE  /\ Paired(history) /\ IsUser(history[1]) /\ Last(history).role # "assistant"
               /\ (Note \in Range(history)) = counters.finalizing
    <3>1. Request(run, base, history, counters.finalizing)
      BY <2>1 DEF HistoryInv, Turns
    <3>2. history \in Seq(Messages) /\ Len(history) \in Nat \ {0}
      <4>1. PICK s : s \in Turns
        BY <2>1 DEF Turns
      <4>2. running /\ Begins = {}
        BY <4>1, Alone
      <4>3. base \in Seq(Messages)
        BY <4>2 DEF HistoryInv, Conversation, Answered
      <4> QED
        BY <3>1, <4>3 DEF Request
    <3>3. \A i \in 1..Len(history) : history[i] = Note <=> counters.finalizing /\ i = Len(history)
      BY <3>1 DEF Request
    <3>4. Note \in Range(history) <=> counters.finalizing
      BY <3>2, <3>3 DEF Range
    <3>5. counters.finalizing \in BOOLEAN
      BY DEF HistoryInv, Counters
    <3>6. (Note \in Range(history)) = counters.finalizing
      BY <3>4, <3>5
    <3> QED
      BY <3>1, <3>6 DEF Request, Last
  <2>2. ASSUME ~running, history # <<>>
        PROVE  Paired(history) /\ ~IsUser(Last(history)) /\ Note \notin Range(history)
    <3>1. Conversation(run, history)
      BY <2>2 DEF HistoryInv
    <3> QED
      BY <2>2, <3>1 DEF Conversation, Answered, Last, Range
  <2> QED
    BY <2>1, <2>2 DEF HistoryWellFormed
<1> QED
  BY <1>1, HistoryHolds, PTL

(* A run that fails takes its message and all that came after it back out of    *)
(* the history (rollbackFailedRun), and any other run that ends leaves its       *)
(* message with an answer behind it, or with the results of its tools if it was  *)
(* stopped among them.                                                           *)
THEOREM FailureLeavesNothing == Spec => FailedRunLeavesNothing
<1>1. LoopInv /\ HistoryInv /\ [Next]_vars =>
        [ running /\ ~running' /\ generation' = generation /\ runUserMsg # 0 =>
            \/ history' = base
            \/ /\ SubSeq(history', 1, Len(base) + 1) = Append(base, Message("user", "ask", run))
               /\ Last(history').role = "assistant"
                    \/ (cancelled /\ Last(history').role = "tool") ]_vars
  BY HistoryStep DEF EndsWell, Leaves, StartsAs, Last
<1> QED
  BY <1>1, HistoryHolds, PTL DEF Spec, FailedRunLeavesNothing
=============================================================================
