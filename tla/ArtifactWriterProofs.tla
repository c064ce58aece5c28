------------------------ MODULE ArtifactWriterProofs ------------------------
(***************************************************************************)
(* Proofs about ArtifactWriter: whatever the daemon was doing when it was  *)
(* killed, the files it leaves agree with each other, and the directory    *)
(* keeps the promise of MatchRecord.                                       *)
(***************************************************************************)
EXTENDS ArtifactWriter, FiniteSetTheorems, SequenceTheorems, WellFoundedInduction, TLAPS

(* What is left of a call *)

ToMetrics         == FileOp("metrics")
ToIndex           == FileOp("index")
ToResult          == FileOp("result")
LogEvent(kind)    == AppendOp("events", EventLine(kind))
LogPrompt(t)      == AppendOp("prompts", PromptLine(t))
LogDecision(t, f) == AppendOp("decisions", DecisionLine(t, f))

Create5 == <<FileOp("manifest"), FileOp("logs"), ToMetrics, ToResult, ToIndex>>
Create4 == <<FileOp("logs"), ToMetrics, ToResult, ToIndex>>
Create3 == <<ToMetrics, ToResult, ToIndex>>
Create2 == <<ToResult, ToIndex>>

Event2(kind) == <<LogEvent(kind), ToMetrics>>
Event1       == <<ToMetrics>>

Decide6(t, f) == <<LogPrompt(t), ToMetrics, ToIndex, LogDecision(t, f), ToMetrics, ToIndex>>
Decide5(t, f) == <<ToMetrics, ToIndex, LogDecision(t, f), ToMetrics, ToIndex>>
Decide4(t, f) == <<ToIndex, LogDecision(t, f), ToMetrics, ToIndex>>
Decide3(t, f) == <<LogDecision(t, f), ToMetrics, ToIndex>>
Decide2       == <<ToMetrics, ToIndex>>
Decide1       == <<ToIndex>>   \* the end of Create, too

Close3 == <<ToMetrics, ToIndex, ToResult>>
Close2 == <<ToIndex, ToResult>>
Close1 == <<ToResult>>

\* The calls a finalized match still sees, in part or as a whole.
LateCalls ==
  {<<>>, Event1, Close3, Close2, Close1} \cup {Event2(kind) : kind \in EventKinds}

Shaped(ops) ==
  \/ ops \in LateCalls
  \/ ops \in {Create5, Create4, Create3, Create2, Decide2, Decide1}
  \/ \E t \in Turns, f \in BOOLEAN :
       ops \in {Decide6(t, f), Decide5(t, f), Decide4(t, f), Decide3(t, f)}

\* metrics.json, and the index, will be replaced before the next line is logged.
MetricsDue(ops) == ops # <<>> /\ Head(ops).file \in {"manifest", "logs", "metrics"}
IndexDue(ops)   == /\ ops # <<>> /\ Head(ops).file \notin LogNames
                   /\ \E i \in DOMAIN ops : ops[i].file = "index"

\* The turns whose line in the log is still to come.
ToLog(ops, log) == {ops[i].line.turn : i \in {j \in DOMAIN ops : ops[j].file = log}}

\* A row of the table of queues.
Row(ops, file, rest, indexDue, prompts, decisions) ==
  /\ ops # <<>> /\ ops \in Seq(Operations)
  /\ Head(ops).file = file /\ Tail(ops) = rest
  /\ IndexDue(ops) <=> indexDue
  /\ ToLog(ops, "prompts") = prompts /\ ToLog(ops, "decisions") = decisions

LEMMA OperationTypes ==
  /\ \A file \in {"manifest", "logs", "metrics", "index", "result"} :
       FileOp(file) \in Operations /\ FileOp(file).file = file
  /\ \A kind \in EventKinds : /\ LogEvent(kind) \in Operations
                              /\ LogEvent(kind).file = "events"
                              /\ LogEvent(kind).line = EventLine(kind)
  /\ \A t \in Turns, f \in BOOLEAN :
       /\ LogPrompt(t) \in Operations /\ LogPrompt(t).file = "prompts"
       /\ LogPrompt(t).line = PromptLine(t) /\ LogPrompt(t).line.turn = t
       /\ LogDecision(t, f) \in Operations /\ LogDecision(t, f).file = "decisions"
       /\ LogDecision(t, f).line = DecisionLine(t, f) /\ LogDecision(t, f).line.turn = t
BY BoundsAssumption DEF FileOp, NoLine, LogEvent, LogPrompt, LogDecision, AppendOp, EventLine,
   PromptLine, DecisionLine, Operations, Lines, EventKinds, LogNames, Turns

LEMMA ClosingRows ==
  /\ Row(Close3, "metrics", Close2, TRUE, {}, {})
  /\ Row(Close2, "index", Close1, TRUE, {}, {})
  /\ Row(Close1, "result", <<>>, FALSE, {}, {})
  /\ Row(Event1, "metrics", <<>>, FALSE, {}, {})
  /\ Row(Decide2, "metrics", Decide1, TRUE, {}, {})
  /\ Row(Decide1, "index", <<>>, TRUE, {}, {})
<1> USE OperationTypes DEF Row, IndexDue, ToLog, LogNames, ToMetrics, ToIndex, ToResult
<1>1. Row(Close3, "metrics", Close2, TRUE, {}, {})
  BY DEF Close3, Close2
<1>2. Row(Close2, "index", Close1, TRUE, {}, {})
  BY DEF Close2, Close1
<1>3. Row(Close1, "result", <<>>, FALSE, {}, {})
  BY DEF Close1
<1>4. Row(Event1, "metrics", <<>>, FALSE, {}, {})
  BY DEF Event1
<1>5. Row(Decide2, "metrics", Decide1, TRUE, {}, {})
  BY DEF Decide2, Decide1
<1>6. Row(Decide1, "index", <<>>, TRUE, {}, {})
  BY DEF Decide1
<1> QED BY <1>1, <1>2, <1>3, <1>4, <1>5, <1>6

LEMMA CreateRows ==
  /\ Row(Create5, "manifest", Create4, TRUE, {}, {})
  /\ Row(Create4, "logs", Create3, TRUE, {}, {})
  /\ Row(Create3, "metrics", Create2, TRUE, {}, {})
  /\ Row(Create2, "result", Decide1, TRUE, {}, {})
<1> USE OperationTypes
    DEF Row, IndexDue, ToLog, LogNames, ToMetrics, ToIndex, ToResult, Decide1
<1>1. Row(Create5, "manifest", Create4, TRUE, {}, {})
  BY DEF Create5, Create4
<1>2. Row(Create4, "logs", Create3, TRUE, {}, {})
  BY DEF Create4, Create3
<1>3. Row(Create3, "metrics", Create2, TRUE, {}, {})
  BY DEF Create3, Create2
<1>4. Row(Create2, "result", Decide1, TRUE, {}, {})
  BY DEF Create2
<1> QED BY <1>1, <1>2, <1>3, <1>4

LEMMA EventRow ==
  ASSUME NEW kind \in EventKinds
  PROVE  /\ Row(Event2(kind), "events", Event1, FALSE, {}, {})
         /\ Head(Event2(kind)).line = EventLine(kind)
<1> HIDE DEF EventLine, LogEvent, FileOp, Operations
<1> QED BY OperationTypes DEF Row, IndexDue, ToLog, LogNames, ToMetrics, Event2, Event1

LEMMA DecideRows ==
  ASSUME NEW t \in Turns, NEW f \in BOOLEAN
  PROVE  /\ Row(Decide6(t, f), "prompts", Decide5(t, f), FALSE, {t}, {t})
         /\ Head(Decide6(t, f)).line = PromptLine(t)
         /\ Row(Decide5(t, f), "metrics", Decide4(t, f), TRUE, {}, {t})
         /\ Row(Decide4(t, f), "index", Decide3(t, f), TRUE, {}, {t})
         /\ Row(Decide3(t, f), "decisions", Decide2, FALSE, {}, {t})
         /\ Head(Decide3(t, f)).line = DecisionLine(t, f)
<1> USE OperationTypes
    DEF Row, IndexDue, ToLog, LogNames, ToMetrics, ToIndex
<1>1. Row(Decide6(t, f), "prompts", Decide5(t, f), FALSE, {t}, {t})
  BY DEF Decide6, Decide5
<1>2. Head(Decide6(t, f)).line = PromptLine(t)
  BY DEF Decide6
<1>3. Row(Decide5(t, f), "metrics", Decide4(t, f), TRUE, {}, {t})
  BY DEF Decide5, Decide4
<1>4. Row(Decide4(t, f), "index", Decide3(t, f), TRUE, {}, {t})
  BY DEF Decide4, Decide3
<1>5. Row(Decide3(t, f), "decisions", Decide2, FALSE, {}, {t})
  BY DEF Decide3, Decide2
<1>6. Head(Decide3(t, f)).line = DecisionLine(t, f)
  BY DEF Decide3
<1> QED BY <1>1, <1>2, <1>3, <1>4, <1>5, <1>6

LEMMA NothingLeft ==
  /\ Shaped(<<>>) /\ <<>> \in LateCalls /\ ~MetricsDue(<<>>) /\ ~IndexDue(<<>>)
  /\ \A log : ToLog(<<>>, log) = {}
BY DEF Shaped, LateCalls, MetricsDue, IndexDue, ToLog

\* What the rest of a queue leaves to do, when its head is no log entry.
SameTurns(ops) == /\ ToLog(Tail(ops), "prompts") = ToLog(ops, "prompts")
                  /\ ToLog(Tail(ops), "decisions") = ToLog(ops, "decisions")

LEMMA Shapes ==
  /\ {<<>>, Event1, Close3, Close2, Close1} \subseteq LateCalls
  /\ \A kind \in EventKinds : Event2(kind) \in LateCalls
  /\ \A ops \in LateCalls : Shaped(ops)
  /\ Shaped(Create5) /\ Shaped(Create4) /\ Shaped(Create3) /\ Shaped(Create2)
  /\ Shaped(Decide2) /\ Shaped(Decide1)
  /\ \A t \in Turns, f \in BOOLEAN :
       /\ Shaped(Decide6(t, f)) /\ Shaped(Decide5(t, f))
       /\ Shaped(Decide4(t, f)) /\ Shaped(Decide3(t, f))
BY DEF Shaped, LateCalls

LEMMA HeadFiles ==
  /\ Head(Close3).file = "metrics" /\ Head(Close2).file = "index"
  /\ Head(Close1).file = "result" /\ Head(Event1).file = "metrics"
  /\ Head(Create5).file = "manifest" /\ Head(Create4).file = "logs"
  /\ Head(Create3).file = "metrics" /\ Head(Create2).file = "result"
  /\ Head(Decide2).file = "metrics" /\ Head(Decide1).file = "index"
  /\ \A kind \in EventKinds : Head(Event2(kind)).file = "events"
  /\ \A t \in Turns, f \in BOOLEAN :
       /\ Head(Decide6(t, f)).file = "prompts" /\ Head(Decide5(t, f)).file = "metrics"
       /\ Head(Decide4(t, f)).file = "index" /\ Head(Decide3(t, f)).file = "decisions"
BY ClosingRows, CreateRows, EventRow, DecideRows DEF Row

\* The queues by the file at their head, when the match may still be open and
\* when it is finalized.
LEMMA ByHead ==
  ASSUME NEW ops, Shaped(ops), ops # <<>>
  PROVE  /\ Head(ops).file = "events" => \E kind \in EventKinds : ops = Event2(kind)
         /\ Head(ops).file = "prompts" =>
              \E t \in Turns, f \in BOOLEAN : ops = Decide6(t, f)
         /\ Head(ops).file = "decisions" =>
              \E t \in Turns, f \in BOOLEAN : ops = Decide3(t, f)
         /\ Head(ops).file = "metrics" =>
              \/ ops \in {Close3, Event1, Create3, Decide2}
              \/ \E t \in Turns, f \in BOOLEAN : ops = Decide5(t, f)
         /\ Head(ops).file = "index" =>
              \/ ops \in {Close2, Decide1}
              \/ \E t \in Turns, f \in BOOLEAN : ops = Decide4(t, f)
         /\ Head(ops).file = "result" => ops \in {Close1, Create2}
         /\ Head(ops).file = "manifest" => ops = Create5
         /\ Head(ops).file = "logs" => ops = Create4
BY HeadFiles DEF Shaped, LateCalls

LEMMA ByHeadLate ==
  ASSUME NEW ops \in LateCalls, ops # <<>>
  PROVE  /\ Head(ops).file = "metrics" => ops \in {Close3, Event1}
         /\ Head(ops).file = "index" => ops = Close2
         /\ Head(ops).file = "result" => ops = Close1
         /\ Head(ops).file \in {"events", "metrics", "index", "result"}
BY HeadFiles DEF LateCalls

LEMMA EventAtHand ==
  ASSUME NEW ops, Shaped(ops), ops # <<>>, Head(ops).file = "events"
  PROVE  /\ \E kind \in EventKinds : Head(ops).line = EventLine(kind)
         /\ ~MetricsDue(ops) /\ ~IndexDue(ops)
         /\ Tail(ops) = Event1 /\ MetricsDue(Tail(ops)) /\ ~IndexDue(Tail(ops))
         /\ SameTurns(ops)
<1>1. PICK kind \in EventKinds : ops = Event2(kind)
  BY ByHead
<1>2. Row(ops, "events", Event1, FALSE, {}, {}) /\ Head(ops).line = EventLine(kind)
  BY <1>1, EventRow
<1> QED BY <1>2, ClosingRows, Shapes DEF Row, MetricsDue, SameTurns

LEMMA PromptAtHand ==
  ASSUME NEW ops, Shaped(ops), ops # <<>>, Head(ops).file = "prompts"
  PROVE  /\ ~MetricsDue(ops) /\ ~IndexDue(ops) /\ ops \notin LateCalls
         /\ Shaped(Tail(ops)) /\ MetricsDue(Tail(ops)) /\ IndexDue(Tail(ops))
         /\ \E t \in Turns :
              /\ Head(ops).line = PromptLine(t)
              /\ ToLog(ops, "prompts") = {t} /\ ToLog(ops, "decisions") = {t}
              /\ ToLog(Tail(ops), "prompts") = {} /\ ToLog(Tail(ops), "decisions") = {t}
<1>1. PICK t \in Turns, f \in BOOLEAN : ops = Decide6(t, f)
  BY ByHead
<1>2. /\ Row(ops, "prompts", Decide5(t, f), FALSE, {t}, {t})
      /\ Head(ops).line = PromptLine(t)
      /\ Row(Decide5(t, f), "metrics", Decide4(t, f), TRUE, {}, {t})
  BY <1>1, DecideRows
<1>3. ops \notin LateCalls
  BY <1>2, ByHeadLate DEF Row
<1> QED BY <1>2, <1>3, Shapes DEF Row, MetricsDue

LEMMA DecisionAtHand ==
  ASSUME NEW ops, Shaped(ops), ops # <<>>, Head(ops).file = "decisions"
  PROVE  /\ ~MetricsDue(ops) /\ ~IndexDue(ops) /\ ops \notin LateCalls
         /\ Shaped(Tail(ops)) /\ MetricsDue(Tail(ops)) /\ IndexDue(Tail(ops))
         /\ \E t \in Turns, f \in BOOLEAN :
              /\ Head(ops).line = DecisionLine(t, f)
              /\ ToLog(ops, "prompts") = {} /\ ToLog(ops, "decisions") = {t}
              /\ ToLog(Tail(ops), "prompts") = {} /\ ToLog(Tail(ops), "decisions") = {}
<1>1. PICK t \in Turns, f \in BOOLEAN : ops = Decide3(t, f)
  BY ByHead
<1>2. /\ Row(ops, "decisions", Decide2, FALSE, {}, {t})
      /\ Head(ops).line = DecisionLine(t, f)
  BY <1>1, DecideRows
<1>3. ops \notin LateCalls
  BY <1>2, ByHeadLate DEF Row
<1> QED BY <1>2, <1>3, ClosingRows, Shapes DEF Row, MetricsDue

LEMMA MetricsAtHand ==
  ASSUME NEW ops, Shaped(ops), ops # <<>>, Head(ops).file = "metrics"
  PROVE  /\ Shaped(Tail(ops)) /\ ~MetricsDue(Tail(ops))
         /\ IndexDue(Tail(ops)) <=> IndexDue(ops)
         /\ ops \in LateCalls => Tail(ops) \in LateCalls
         /\ SameTurns(ops)
<1>1. CASE ops \in {Close3, Event1, Create3, Decide2}
  BY <1>1, ClosingRows, CreateRows, NothingLeft, Shapes, ByHeadLate
     DEF Row, MetricsDue, SameTurns
<1>2. ASSUME NEW t \in Turns, NEW f \in BOOLEAN, ops = Decide5(t, f)
      PROVE  /\ Tail(ops) = Decide4(t, f) /\ Row(ops, "metrics", Decide4(t, f), TRUE, {}, {t})
             /\ Row(Decide4(t, f), "index", Decide3(t, f), TRUE, {}, {t})
  BY <1>2, DecideRows DEF Row
<1>3. ops \in LateCalls => ops \in {Close3, Event1}
  BY ByHeadLate
<1>4. ASSUME NEW t \in Turns, NEW f \in BOOLEAN, ops = Decide5(t, f),
             ops \notin {Close3, Event1}
      PROVE  /\ Shaped(Tail(ops)) /\ ~MetricsDue(Tail(ops))
             /\ IndexDue(Tail(ops)) <=> IndexDue(ops)
             /\ ops \in LateCalls => Tail(ops) \in LateCalls
             /\ SameTurns(ops)
  BY <1>2, <1>3, <1>4, Shapes DEF Row, MetricsDue, SameTurns
<1> QED BY <1>1, <1>4, ByHead

LEMMA IndexAtHand ==
  ASSUME NEW ops, Shaped(ops), ops # <<>>, Head(ops).file = "index"
  PROVE  /\ Shaped(Tail(ops)) /\ ~MetricsDue(Tail(ops)) /\ ~MetricsDue(ops)
         /\ ~IndexDue(Tail(ops))
         /\ ops \in LateCalls => Tail(ops) \in LateCalls
         /\ SameTurns(ops)
<1>1. CASE ops \in {Close2, Decide1}
  BY <1>1, ClosingRows, NothingLeft, Shapes DEF Row, MetricsDue, SameTurns
<1>2. ASSUME NEW t \in Turns, NEW f \in BOOLEAN, ops = Decide4(t, f), ops # Close2
      PROVE  /\ Shaped(Tail(ops)) /\ ~MetricsDue(Tail(ops)) /\ ~MetricsDue(ops)
             /\ ~IndexDue(Tail(ops))
             /\ ops \in LateCalls => Tail(ops) \in LateCalls
             /\ SameTurns(ops)
  <2>1. /\ Row(ops, "index", Decide3(t, f), TRUE, {}, {t})
        /\ Row(Decide3(t, f), "decisions", Decide2, FALSE, {}, {t})
    BY <1>2, DecideRows
  <2>2. ops \notin LateCalls
    BY <1>2, ByHeadLate
  <2> QED BY <2>1, <2>2, Shapes DEF Row, MetricsDue, SameTurns
<1> QED BY <1>1, <1>2, ByHead

LEMMA ResultAtHand ==
  ASSUME NEW ops, Shaped(ops), ops # <<>>, Head(ops).file = "result"
  PROVE  /\ Shaped(Tail(ops)) /\ ~MetricsDue(Tail(ops)) /\ ~MetricsDue(ops)
         /\ IndexDue(Tail(ops)) <=> IndexDue(ops)
         /\ ops \in LateCalls => Tail(ops) \in LateCalls /\ ~IndexDue(ops)
         /\ SameTurns(ops)
<1>1. CASE ops = Close1
  BY <1>1, ClosingRows, NothingLeft, Shapes DEF Row, MetricsDue, SameTurns
<1>2. CASE ops = Create2 /\ ops # Close1
  <2>1. ops \notin LateCalls
    BY <1>2, ByHeadLate
  <2> QED BY <1>2, <2>1, ClosingRows, CreateRows, Shapes DEF Row, MetricsDue, SameTurns
<1> QED BY <1>1, <1>2, ByHead

LEMMA MakeAtHand ==
  ASSUME NEW ops, Shaped(ops), ops # <<>>, Head(ops).file \in {"manifest", "logs"}
  PROVE  /\ Shaped(Tail(ops)) /\ MetricsDue(Tail(ops)) /\ IndexDue(Tail(ops))
         /\ ops \notin LateCalls
         /\ SameTurns(ops)
<1>1. ops \in {Create5, Create4}
  BY ByHead
<1>2. ops \notin LateCalls
  BY ByHeadLate
<1> QED BY <1>1, <1>2, CreateRows, Shapes DEF Row, MetricsDue, SameTurns

-----------------------------------------------------------------------------
(* The inductive invariant *)

Final(r) == r.status # "in_progress"

\* The first n lines of a log that are errors, or fallbacks.
ErrorsIn(lines, n)    == Cardinality({i \in 1..n : lines[i].kind = "Error"})
FallbacksIn(lines, n) == Cardinality({i \in 1..n : lines[i].fallback})

\* The pointers of an index into a log lead to the right lines, and the first n
\* lines have their pointers.
Points(ix, log, lines) ==
  \A t \in Turns : ix.turns[t][log] # 0 => /\ ix.turns[t][log] <= Len(lines)
                                          /\ lines[ix.turns[t][log]].turn = t
Covers(ix, log, lines, n) == \A i \in 1..n : ix.turns[lines[i].turn][log] = i

HasTurn(t, log) == \E i \in DOMAIN logs[log] : logs[log][i].turn = t

\* The types, without those of the viewer.
DataOK ==
  /\ logs \in [LogNames -> Seq(Lines)]
  /\ torn \in LogNames \cup {"none"}
  /\ made \in SUBSET {"manifest", "logs"}
  /\ metricsFile \in Metrics \cup {Absent}
  /\ indexFile \in Indexes \cup {Absent}
  /\ resultFile \in Results \cup {Absent}
  /\ daemon \in {"none", "writing", "killed"}
  /\ todo \in Seq(Operations)
  /\ metrics \in Metrics /\ index \in Indexes /\ result \in Results

Viewers == [at : {"off", "decisions", "others"}, decisionsRead : Nat,
            eventsRead : Nat, seen : SUBSET (Players \X Nat), outcomes : SUBSET Nat,
            tick : Nat, fallbacks : Nat, notices : Nat,
            status : {"waiting", "completed"}, missed : SUBSET Nat]

ViewerOK == viewer \in Viewers

\* Prompts and decisions are about turns of the match.
LinesFit == \A log \in {"prompts", "decisions"} : \A i \in DOMAIN logs[log] :
              logs[log][i].turn \in Turns

\* A verdict on disk counts the decisions there, and is not alone.
VerdictCounts ==
  resultFile # Absent /\ Final(resultFile) =>
    /\ metricsFile # Absent /\ indexFile # Absent
    /\ resultFile.metrics.decisions = Len(logs["decisions"])

FilesOK == /\ LinesFit
           /\ CountersFollowLogs
           /\ IndexFollowsLogs
           /\ ResultIsLast
           /\ VerdictCounts

Blank == /\ logs = [l \in LogNames |-> <<>>]
         /\ metricsFile = Absent /\ indexFile = Absent /\ resultFile = Absent
         /\ todo = <<>>
         /\ metrics = NoMetrics /\ index = NoIndex /\ result = NoResult

\* What the writer has in memory is what the logs say ...
MetricsExact ==
  /\ \A log \in LogNames : metrics[log] = Len(logs[log])
  /\ metrics.fallbacks = FallbacksIn(logs["decisions"], Len(logs["decisions"]))
  /\ metrics.errors - ErrorsIn(logs["events"], Len(logs["events"]))
       \in (IF metrics.status = "failed" THEN 0..MaxErrors ELSE {0})
  /\ metrics.status = result.status

IndexExact == \A log \in {"prompts", "decisions"} :
                /\ Points(index, log, logs[log])
                /\ Covers(index, log, logs[log], Len(logs[log]))

\* ... and what is in the files, unless they are about to be replaced.
MetricsStored == ~MetricsDue(todo) => metricsFile = metrics
IndexStored   == ~IndexDue(todo) => indexFile = index

\* Once the match is finalized no decision is logged, and result.json is
\* written after the other two.
ResultCloses ==
  /\ Final(result) => /\ todo \in LateCalls
                      /\ result.metrics.decisions = Len(logs["decisions"])
  /\ result.reason = "match_ended" => Final(result)
  /\ resultFile # Absent /\ Final(resultFile) => result.status = resultFile.status

\* A turn comes to a log once, and its prompt not without its decision.
OncePerTurn ==
  /\ \A t \in ToLog(todo, "prompts") : ~HasTurn(t, "prompts")
  /\ \A t \in ToLog(todo, "decisions") : ~HasTurn(t, "decisions")
  /\ \A t \in Turns : HasTurn(t, "prompts") =>
       HasTurn(t, "decisions") \/ t \in ToLog(todo, "decisions")

Writing == /\ Shaped(todo)
           /\ MetricsExact /\ MetricsStored
           /\ IndexExact /\ IndexStored
           /\ ResultCloses
           /\ OncePerTurn

IInv == /\ DataOK
        /\ FilesOK
        /\ daemon = "none" => Blank
        /\ daemon = "writing" => Writing

LEMMA Typed == TypeOK <=> DataOK /\ ViewerOK
BY DEF TypeOK, DataOK, ViewerOK, Viewers

-----------------------------------------------------------------------------
(* Lines are appended *)

LEMMA Appended ==
  ASSUME NEW lines \in Seq(Lines), NEW line \in Lines
  PROVE  /\ Append(lines, line) \in Seq(Lines)
         /\ Len(Append(lines, line)) = Len(lines) + 1 /\ Len(lines) \in Nat
         /\ DOMAIN Append(lines, line) = 1..(Len(lines) + 1)
         /\ DOMAIN lines = 1..Len(lines)
         /\ \A i \in 1..Len(lines) : Append(lines, line)[i] = lines[i]
         /\ Append(lines, line)[Len(lines) + 1] = line
OBVIOUS

LEMMA Counting ==
  ASSUME NEW n \in Nat, NEW S \in SUBSET (1..n)
  PROVE  /\ IsFiniteSet(S) /\ Cardinality(S) \in Nat
         /\ Cardinality(S \cup {n + 1}) = Cardinality(S) + 1
<1>1. IsFiniteSet(S)
  <2>1. IsFiniteSet(1..n) /\ S \subseteq 1..n
    BY FS_Interval
  <2> QED BY <2>1, FS_Subset
<1>2. n + 1 \notin S
  OBVIOUS
<1>3. Cardinality(S) \in Nat
  BY <1>1, FS_CardinalityType
<1>4. Cardinality(S \cup {n + 1}) = Cardinality(S) + 1
  BY <1>1, <1>2, FS_AddElement
<1> QED BY <1>1, <1>3, <1>4

LEMMA ErrorsGrow ==
  ASSUME NEW lines \in Seq(Lines), NEW line \in Lines
  PROVE  /\ \A n \in 0..Len(lines) :
              /\ ErrorsIn(lines, n) \in Nat
              /\ ErrorsIn(Append(lines, line), n) = ErrorsIn(lines, n)
         /\ ErrorsIn(Append(lines, line), Len(lines) + 1) =
              IF line.kind = "Error" THEN ErrorsIn(lines, Len(lines)) + 1
              ELSE ErrorsIn(lines, Len(lines))
<1> DEFINE more == Append(lines, line)
           N    == Len(lines)
           S(n) == {i \in 1..n : lines[i].kind = "Error"}
           T(n) == {i \in 1..n : more[i].kind = "Error"}
<1>1. ASSUME NEW n \in 0..N
      PROVE  ErrorsIn(lines, n) \in Nat /\ T(n) = S(n)
  <2>1. ErrorsIn(lines, n) \in Nat
    <3>1. n \in Nat /\ S(n) \in SUBSET (1..n)
      BY Appended
    <3>2. Cardinality(S(n)) \in Nat
      <4> HIDE DEF S
      <4> QED BY <3>1, Counting
    <3> QED BY <3>2 DEF ErrorsIn
  <2>2. \A i \in 1..n : more[i] = lines[i]
    BY Appended
  <2> QED BY <2>1, <2>2
<1>2. T(N + 1) = IF line.kind = "Error" THEN S(N) \cup {N + 1} ELSE S(N)
  <2>1. N \in Nat /\ more[N + 1] = line /\ \A i \in 1..N : more[i] = lines[i]
    BY Appended
  <2>2. 1..(N + 1) = 1..N \cup {N + 1}
    BY <2>1
  <2> QED BY <2>1, <2>2
<1>3. Cardinality(S(N) \cup {N + 1}) = Cardinality(S(N)) + 1
  <2>1. N \in Nat /\ S(N) \in SUBSET (1..N)
    BY Appended
  <2> HIDE DEF S, N
  <2> QED BY <2>1, Counting
<1> QED BY <1>1, <1>2, <1>3 DEF ErrorsIn

LEMMA FallbacksGrow ==
  ASSUME NEW lines \in Seq(Lines), NEW line \in Lines
  PROVE  /\ \A n \in 0..Len(lines) :
              /\ FallbacksIn(lines, n) \in Nat
              /\ FallbacksIn(Append(lines, line), n) = FallbacksIn(lines, n)
         /\ FallbacksIn(Append(lines, line), Len(lines) + 1) =
              IF line.fallback THEN FallbacksIn(lines, Len(lines)) + 1
              ELSE FallbacksIn(lines, Len(lines))
<1> DEFINE more == Append(lines, line)
           N    == Len(lines)
           S(n) == {i \in 1..n : lines[i].fallback}
           T(n) == {i \in 1..n : more[i].fallback}
<1>1. ASSUME NEW n \in 0..N
      PROVE  FallbacksIn(lines, n) \in Nat /\ T(n) = S(n)
  <2>1. FallbacksIn(lines, n) \in Nat
    <3>1. n \in Nat /\ S(n) \in SUBSET (1..n)
      BY Appended
    <3>2. Cardinality(S(n)) \in Nat
      <4> HIDE DEF S
      <4> QED BY <3>1, Counting
    <3> QED BY <3>2 DEF FallbacksIn
  <2>2. \A i \in 1..n : more[i] = lines[i]
    BY Appended
  <2> QED BY <2>1, <2>2
<1>2. T(N + 1) = IF line.fallback THEN S(N) \cup {N + 1} ELSE S(N)
  <2>1. N \in Nat /\ more[N + 1] = line /\ \A i \in 1..N : more[i] = lines[i]
    BY Appended
  <2>2. 1..(N + 1) = 1..N \cup {N + 1}
    BY <2>1
  <2> QED BY <2>1, <2>2
<1>3. Cardinality(S(N) \cup {N + 1}) = Cardinality(S(N)) + 1
  <2>1. N \in Nat /\ S(N) \in SUBSET (1..N)
    BY Appended
  <2> HIDE DEF S, N
  <2> QED BY <2>1, Counting
<1> QED BY <1>1, <1>2, <1>3 DEF FallbacksIn

\* A new line without a pointer leaves the index right.
LEMMA PointsStay ==
  ASSUME NEW ix \in Indexes, NEW log \in {"prompts", "decisions"},
         NEW lines \in Seq(Lines), NEW line \in Lines
  PROVE  /\ Points(ix, log, lines) => Points(ix, log, Append(lines, line))
         /\ \A n \in 0..Len(lines) :
              Covers(ix, log, lines, n) => Covers(ix, log, Append(lines, line), n)
<1>1. /\ Len(Append(lines, line)) = Len(lines) + 1 /\ Len(lines) \in Nat
      /\ \A i \in 1..Len(lines) : Append(lines, line)[i] = lines[i]
  BY Appended
<1>2. \A t \in Turns : ix.turns[t][log] \in Nat
  BY DEF Indexes, Pointers
<1>3. Points(ix, log, lines) => Points(ix, log, Append(lines, line))
  BY <1>1, <1>2 DEF Points
<1>4. \A n \in 0..Len(lines) :
        Covers(ix, log, lines, n) => Covers(ix, log, Append(lines, line), n)
  BY <1>1 DEF Covers
<1> QED BY <1>3, <1>4

-----------------------------------------------------------------------------
(* The file operations keep the invariant *)

\* What an append does to the state, whatever the log.
LEMMA LineTypes ==
  ASSUME DataOK, NEW log \in LogNames, NEW line \in Lines,
         logs' = [logs EXCEPT ![log] = Append(@, line)]
  PROVE  /\ logs' \in [LogNames -> Seq(Lines)]
         /\ logs[log] \in Seq(Lines) /\ logs'[log] = Append(logs[log], line)
         /\ \A other \in LogNames \ {log} : logs'[other] = logs[other]
         /\ Len(logs'[log]) = Len(logs[log]) + 1 /\ Len(logs[log]) \in Nat
<1>1. logs[log] \in Seq(Lines)
  BY DEF DataOK
<1>2. Append(logs[log], line) \in Seq(Lines)
  BY <1>1, Appended
<1>3. /\ logs'[log] = Append(logs[log], line)
      /\ \A other \in LogNames \ {log} : logs'[other] = logs[other]
      /\ logs' \in [LogNames -> Seq(Lines)]
  BY <1>2 DEF DataOK
<1>4. Len(logs'[log]) = Len(logs[log]) + 1 /\ Len(logs[log]) \in Nat
  BY <1>1, <1>3, Appended
<1> QED BY <1>1, <1>3, <1>4

LEMMA CountTypes ==
  ASSUME metrics \in Metrics, NEW log \in LogNames, NEW line \in Lines
  PROVE  /\ CountLine(log, line) \in Metrics
         /\ CountLine(log, line)[log] = metrics[log] + 1
         /\ \A other \in LogNames \ {log} : CountLine(log, line)[other] = metrics[other]
         /\ CountLine(log, line).fallbacks =
              IF line.fallback THEN metrics.fallbacks + 1 ELSE metrics.fallbacks
         /\ CountLine(log, line).errors =
              IF line.kind = "Error" THEN metrics.errors + 1 ELSE metrics.errors
         /\ CountLine(log, line).status = metrics.status
<1> DEFINE m1 == [metrics EXCEPT ![log] = @ + 1]
           fallbacks == IF line.fallback THEN metrics.fallbacks + 1 ELSE metrics.fallbacks
           m2 == [m1 EXCEPT !.fallbacks = fallbacks]
           errors == IF line.kind = "Error" THEN metrics.errors + 1 ELSE metrics.errors
           m3 == [m2 EXCEPT !.errors = errors]
<1>1. /\ m1 \in Metrics /\ m1[log] = metrics[log] + 1
      /\ \A other \in LogNames \ {log} : m1[other] = metrics[other]
      /\ m1.status = metrics.status
  <2>1. CASE log = "events"
    BY <2>1 DEF Metrics, LogNames
  <2>2. CASE log = "prompts"
    BY <2>2 DEF Metrics, LogNames
  <2>3. CASE log = "decisions"
    BY <2>3 DEF Metrics, LogNames
  <2> QED BY <2>1, <2>2, <2>3 DEF LogNames
<1>2. fallbacks \in Nat /\ errors \in Nat
  BY DEF Metrics
<1>3. CountLine(log, line) = m3
  BY DEF CountLine
<1> HIDE DEF m1, fallbacks, errors
<1>4. /\ m2 \in Metrics /\ m2.fallbacks = fallbacks /\ m2.status = m1.status
      /\ \A other \in LogNames : m2[other] = m1[other]
  BY <1>1, <1>2 DEF Metrics, LogNames
<1> HIDE DEF m2
<1>5. /\ m3 \in Metrics /\ m3.errors = errors /\ m3.fallbacks = m2.fallbacks
      /\ m3.status = m2.status /\ \A other \in LogNames : m3[other] = m2[other]
  BY <1>2, <1>4 DEF Metrics, LogNames
<1> HIDE DEF m3
<1>6. CountLine(log, line).fallbacks = fallbacks /\ CountLine(log, line).errors = errors
  BY <1>3, <1>4, <1>5
<1> QED BY <1>1, <1>3, <1>4, <1>5, <1>6 DEF fallbacks, errors

LEMMA IndexTypes ==
  ASSUME index \in Indexes, NEW log \in {"prompts", "decisions"}, NEW line \in Lines,
         line.turn \in Turns, NEW n \in Nat
  PROVE  /\ IndexLine(log, line, n) \in Indexes
         /\ \A t \in Turns, other \in {"prompts", "decisions"} :
              IndexLine(log, line, n).turns[t][other] =
                IF t = line.turn /\ other = log THEN n ELSE index.turns[t][other]
<1>1. CASE log = "prompts"
  BY <1>1 DEF IndexLine, Indexes, Pointers
<1>2. CASE log = "decisions"
  BY <1>2 DEF IndexLine, Indexes, Pointers
<1> QED BY <1>1, <1>2

\* The line at hand fits its log, the files are up to date, and what follows
\* will bring them up to date again.
LEMMA LineAtHand ==
  ASSUME IInv, NEW log \in LogNames, AppendLine(log)
  PROVE  /\ Writing /\ DataOK /\ FilesOK /\ Head(todo).line \in Lines
         /\ Head(todo).line.kind = "Error" => log = "events"
         /\ Head(todo).line.fallback => log = "decisions"
         /\ log # "events" => /\ Head(todo).line.turn \in Turns
                              /\ ToLog(todo, log) = {Head(todo).line.turn}
                              /\ ToLog(Tail(todo), log) = {}
                              /\ IndexDue(Tail(todo)) /\ todo \notin LateCalls
         /\ log = "events" => /\ ~IndexDue(Tail(todo)) /\ Tail(todo) \in LateCalls
                              /\ SameTurns(todo)
         /\ metricsFile = metrics /\ indexFile = index
         /\ Shaped(Tail(todo)) /\ MetricsDue(Tail(todo))
<1>1. Writing /\ DataOK /\ FilesOK /\ todo # <<>> /\ Head(todo).file = log
  BY DEF AppendLine, AtHand, IInv
<1>2. Shaped(todo)
  BY <1>1 DEF Writing
<1>3. ~MetricsDue(todo) /\ ~IndexDue(todo) /\ Shaped(Tail(todo)) /\ MetricsDue(Tail(todo))
  BY <1>1, <1>2, EventAtHand, PromptAtHand, DecisionAtHand, Shapes DEF LogNames
<1>4. metricsFile = metrics /\ indexFile = index
  BY <1>1, <1>3 DEF Writing, MetricsStored, IndexStored
<1>5. CASE log = "events"
  <2>1. PICK kind \in EventKinds : Head(todo).line = EventLine(kind)
    BY <1>1, <1>2, <1>5, EventAtHand
  <2>2. EventLine(kind) \in Lines /\ ~EventLine(kind).fallback
    BY BoundsAssumption DEF EventLine, Lines
  <2>3. ~IndexDue(Tail(todo)) /\ Tail(todo) \in LateCalls /\ SameTurns(todo)
    BY <1>1, <1>2, <1>5, EventAtHand, Shapes
  <2> QED BY <1>1, <1>3, <1>4, <1>5, <2>1, <2>2, <2>3
<1>6. CASE log = "prompts"
  <2>1. PICK t \in Turns : /\ Head(todo).line = PromptLine(t)
                           /\ ToLog(todo, log) = {t} /\ ToLog(Tail(todo), log) = {}
    BY <1>1, <1>2, <1>6, PromptAtHand
  <2>2. /\ PromptLine(t) \in Lines /\ ~PromptLine(t).fallback
        /\ PromptLine(t).turn = t /\ PromptLine(t).kind = "prompt"
    BY BoundsAssumption DEF PromptLine, Lines, Turns
  <2>3. IndexDue(Tail(todo)) /\ todo \notin LateCalls
    BY <1>1, <1>2, <1>6, PromptAtHand
  <2> QED BY <1>1, <1>3, <1>4, <1>6, <2>1, <2>2, <2>3
<1>7. CASE log = "decisions"
  <2>1. PICK t \in Turns, f \in BOOLEAN :
          /\ Head(todo).line = DecisionLine(t, f)
          /\ ToLog(todo, log) = {t} /\ ToLog(Tail(todo), log) = {}
    BY <1>1, <1>2, <1>7, DecisionAtHand
  <2>2. /\ DecisionLine(t, f) \in Lines
        /\ DecisionLine(t, f).turn = t /\ DecisionLine(t, f).kind = "decision"
    BY BoundsAssumption DEF DecisionLine, Lines, Turns
  <2>3. IndexDue(Tail(todo)) /\ todo \notin LateCalls
    BY <1>1, <1>2, <1>7, DecisionAtHand
  <2> QED BY <1>1, <1>3, <1>4, <1>7, <2>1, <2>2, <2>3
<1> QED BY <1>5, <1>6, <1>7 DEF LogNames

LEMMA LineData ==
  ASSUME IInv, NEW log \in LogNames, AppendLine(log)
  PROVE  DataOK'
<1> DEFINE line == Head(todo).line
<1>1. line \in Lines /\ DataOK
  BY LineAtHand
<1>2. logs' \in [LogNames -> Seq(Lines)] /\ Len(logs'[log]) \in Nat
  <2>1. logs' = [logs EXCEPT ![log] = Append(@, line)]
    BY DEF AppendLine
  <2>2. /\ logs' \in [LogNames -> Seq(Lines)]
        /\ Len(logs'[log]) = Len(logs[log]) + 1 /\ Len(logs[log]) \in Nat
    <3> HIDE DEF line
    <3> QED BY <1>1, <2>1, LineTypes
  <2> QED BY <2>2
<1>3. metrics' \in Metrics
  BY <1>1, CountTypes DEF AppendLine, DataOK
<1>4. index' \in Indexes
  <2>1. CASE log = "events"
    BY <1>1, <2>1 DEF AppendLine, DataOK, IndexLine
  <2>2. CASE log # "events"
    <3>1. log \in {"prompts", "decisions"} /\ line.turn \in Turns /\ index \in Indexes
      BY <1>1, <2>2, LineAtHand DEF LogNames, DataOK
    <3>2. IndexLine(log, line, Len(logs'[log])) \in Indexes
      BY <1>1, <1>2, <3>1, IndexTypes
    <3> QED BY <3>2 DEF AppendLine
  <2> QED BY <2>1, <2>2
<1>5. todo' \in Seq(Operations)
  BY <1>1 DEF AppendLine, AtHand, DataOK
<1>6. /\ UNCHANGED <<made, metricsFile, indexFile, resultFile, daemon, result>>
      /\ torn' = "none"
  BY DEF AppendLine
<1> QED BY <1>1, <1>2, <1>3, <1>4, <1>5, <1>6 DEF DataOK

\* The metrics count the new line, which the file lacks.
LEMMA LineMetrics ==
  ASSUME IInv, NEW log \in LogNames, AppendLine(log)
  PROVE  CountersFollowLogs' /\ MetricsExact'
<1> DEFINE line == Head(todo).line
           E(n) == ErrorsIn(logs["events"], n)
           F(n) == FallbacksIn(logs["decisions"], n)
           ok(m, n) == m.errors - n \in (IF m.status = "failed" THEN 0..MaxErrors ELSE {0})
<1>1. /\ line \in Lines /\ DataOK /\ metricsFile = metrics /\ MetricsExact
      /\ line.kind = "Error" => log = "events"
      /\ line.fallback => log = "decisions"
  BY LineAtHand DEF Writing
<1>2. /\ logs[log] \in Seq(Lines) /\ logs'[log] = Append(logs[log], line)
      /\ \A other \in LogNames \ {log} : logs'[other] = logs[other]
      /\ \A l \in LogNames : logs[l] \in Seq(Lines) /\ Len(logs[l]) \in Nat
      /\ Len(logs'[log]) = Len(logs[log]) + 1
  BY <1>1, LineTypes DEF AppendLine, DataOK
<1>3. /\ metrics \in Metrics /\ metrics'[log] = metrics[log] + 1
      /\ \A other \in LogNames \ {log} : metrics'[other] = metrics[other]
      /\ metrics'.fallbacks = IF line.fallback THEN metrics.fallbacks + 1 ELSE metrics.fallbacks
      /\ metrics'.errors = IF line.kind = "Error" THEN metrics.errors + 1 ELSE metrics.errors
      /\ metrics'.status = metrics.status
      /\ metricsFile' = metrics /\ result' = result
  BY <1>1, CountTypes DEF AppendLine, DataOK
<1>4. /\ metrics.events = Len(logs["events"]) /\ metrics.prompts = Len(logs["prompts"])
      /\ metrics.decisions = Len(logs["decisions"])
      /\ metrics.fallbacks = F(Len(logs["decisions"])) /\ ok(metrics, E(Len(logs["events"])))
      /\ metrics.status = result.status
      /\ metrics.fallbacks \in Nat /\ metrics.errors \in Nat
  BY <1>1, <1>3 DEF MetricsExact, LogNames, Metrics
<1>5. /\ E(Len(logs["events"])) \in Nat
      /\ E(Len(logs["events"]))' = IF log = "events" /\ line.kind = "Error"
                                   THEN E(Len(logs["events"])) + 1
                                   ELSE E(Len(logs["events"]))
      /\ ErrorsIn(logs'["events"], Len(logs["events"])) = E(Len(logs["events"]))
  <2> DEFINE old == logs["events"]
  <2>1. old \in Seq(Lines) /\ Len(old) \in Nat /\ Len(old) \in 0..Len(old)
    BY <1>2 DEF LogNames
  <2>2. /\ ErrorsIn(old, Len(old)) \in Nat
        /\ ErrorsIn(Append(old, line), Len(old)) = ErrorsIn(old, Len(old))
        /\ ErrorsIn(Append(old, line), Len(old) + 1) =
             IF line.kind = "Error" THEN ErrorsIn(old, Len(old)) + 1 ELSE ErrorsIn(old, Len(old))
    <3> HIDE DEF old, line
    <3> QED BY <1>1, <2>1, ErrorsGrow
  <2>3. CASE log = "events"
    <3>1. logs'["events"] = Append(old, line) /\ Len(logs'["events"]) = Len(old) + 1
      BY <1>2, <2>3
    <3> HIDE DEF line
    <3> QED BY <2>2, <2>3, <3>1
  <2>4. CASE log # "events"
    <3>1. logs'["events"] = logs["events"]
      BY <1>2, <2>4 DEF LogNames
    <3> HIDE DEF line
    <3> QED BY <2>2, <2>4, <3>1
  <2> QED BY <2>3, <2>4
<1>6. /\ F(Len(logs["decisions"])) \in Nat
      /\ F(Len(logs["decisions"]))' = IF log = "decisions" /\ line.fallback
                                      THEN F(Len(logs["decisions"])) + 1
                                      ELSE F(Len(logs["decisions"]))
      /\ FallbacksIn(logs'["decisions"], Len(logs["decisions"])) = F(Len(logs["decisions"]))
  <2> DEFINE old == logs["decisions"]
  <2>1. old \in Seq(Lines) /\ Len(old) \in Nat /\ Len(old) \in 0..Len(old)
    BY <1>2 DEF LogNames
  <2>2. /\ FallbacksIn(old, Len(old)) \in Nat
        /\ FallbacksIn(Append(old, line), Len(old)) = FallbacksIn(old, Len(old))
        /\ FallbacksIn(Append(old, line), Len(old) + 1) =
             IF line.fallback THEN FallbacksIn(old, Len(old)) + 1 ELSE FallbacksIn(old, Len(old))
    <3> HIDE DEF old, line
    <3> QED BY <1>1, <2>1, FallbacksGrow
  <2>3. CASE log = "decisions"
    <3>1. logs'["decisions"] = Append(old, line) /\ Len(logs'["decisions"]) = Len(old) + 1
      BY <1>2, <2>3
    <3> HIDE DEF line
    <3> QED BY <2>2, <2>3, <3>1
  <2>4. CASE log # "decisions"
    <3>1. logs'["decisions"] = logs["decisions"]
      BY <1>2, <2>4 DEF LogNames
    <3> HIDE DEF line
    <3> QED BY <2>2, <2>4, <3>1
  <2> QED BY <2>3, <2>4
<1> HIDE DEF line
<1>7. MetricsExact'
  <2>1. (\A l \in LogNames : metrics[l] = Len(logs[l]))'
    BY <1>1, <1>2, <1>3 DEF MetricsExact
  <2>2. (metrics.fallbacks = F(Len(logs["decisions"])))'
    BY <1>1, <1>3, <1>4, <1>6
  <2>3. ok(metrics, E(Len(logs["events"])))'
    <3>1. metrics'.errors - E(Len(logs["events"]))' = metrics.errors - E(Len(logs["events"]))
      BY <1>1, <1>3, <1>4, <1>5
    <3> QED BY <1>3, <1>4, <3>1
  <2> QED BY <1>3, <1>4, <2>1, <2>2, <2>3 DEF MetricsExact
<1>8. CountersFollowLogs'
  <2>1. /\ Lagging("events")' = IF log = "events" THEN 1 ELSE 0
        /\ Lagging("prompts")' = IF log = "prompts" THEN 1 ELSE 0
        /\ Lagging("decisions")' = IF log = "decisions" THEN 1 ELSE 0
    BY <1>2, <1>3, <1>4 DEF Lagging, LogNames
  <2>2. /\ \A l \in LogNames : Lagging(l)' >= 0
        /\ Lagging("events")' + Lagging("prompts")' + Lagging("decisions")' <= 1
    BY <2>1 DEF LogNames
  <2>3. (metricsFile.fallbacks = Fallbacks(metricsFile.decisions))'
    <3>1. Fallbacks(metricsFile.decisions)' = FallbacksIn(logs'["decisions"], Len(logs["decisions"]))
      BY <1>3, <1>4 DEF Fallbacks, FallbacksIn
    <3> QED BY <1>3, <1>4, <1>6, <3>1
  <2>4. ok(metricsFile, Errors(metricsFile.events))'
    <3>1. Errors(metricsFile.events)' = ErrorsIn(logs'["events"], Len(logs["events"]))
      BY <1>3, <1>4 DEF Errors, ErrorsIn
    <3> QED BY <1>3, <1>4, <1>5, <3>1
  <2> QED BY <2>2, <2>3, <2>4 DEF CountersFollowLogs
<1> QED BY <1>7, <1>8

\* The index in memory gets the pointer of the new line, the file lacks it.
LEMMA LineIndex ==
  ASSUME IInv, NEW log \in LogNames, AppendLine(log)
  PROVE  LinesFit' /\ IndexFollowsLogs' /\ IndexExact'
<1> DEFINE line == Head(todo).line
           n    == Len(logs[log])
<1>1. /\ line \in Lines /\ DataOK /\ LinesFit /\ IndexExact /\ OncePerTurn
      /\ indexFile = index /\ indexFile' = index
  BY LineAtHand DEF Writing, FilesOK, AppendLine
<1>2. /\ logs[log] \in Seq(Lines) /\ logs'[log] = Append(logs[log], line)
      /\ \A other \in LogNames \ {log} : logs'[other] = logs[other]
      /\ Len(logs'[log]) = n + 1 /\ n \in Nat /\ n \in 0..n
  <2>1. logs' = [logs EXCEPT ![log] = Append(@, line)]
    BY DEF AppendLine
  <2>2. /\ logs[log] \in Seq(Lines) /\ logs'[log] = Append(logs[log], line)
        /\ \A other \in LogNames \ {log} : logs'[other] = logs[other]
        /\ Len(logs'[log]) = Len(logs[log]) + 1 /\ Len(logs[log]) \in Nat
    <3> HIDE DEF line
    <3> QED BY <1>1, <2>1, LineTypes
  <2> QED BY <2>2
<1>3. /\ index \in Indexes
      /\ \A t \in Turns, l \in {"prompts", "decisions"} : index.turns[t][l] \in Nat
      /\ \A l \in LogNames : logs[l] \in Seq(Lines) /\ Len(logs[l]) \in Nat
      /\ \A l \in LogNames : DOMAIN logs[l] = 1..Len(logs[l])
  BY <1>1 DEF DataOK, Indexes, Pointers
<1>4. CASE log = "events"
  <2>1. /\ logs'["prompts"] = logs["prompts"] /\ logs'["decisions"] = logs["decisions"]
        /\ index' = index
    BY <1>2, <1>4 DEF LogNames, AppendLine, IndexLine
  <2>2. LinesFit' /\ IndexExact'
    BY <1>1, <2>1 DEF LinesFit, IndexExact
  <2>3. IndexFollowsLogs'
    <3> SUFFICES ASSUME NEW l \in {"prompts", "decisions"}
                 PROVE  /\ Points(index, l, logs[l])
                        /\ \A i \in 1..(Len(logs[l]) - 1) : index.turns[logs[l][i].turn][l] = i
                        /\ logs'[l] = logs[l]
      BY <1>1 DEF IndexFollowsLogs, Points
    <3>1. Points(index, l, logs[l]) /\ Covers(index, l, logs[l], Len(logs[l]))
      BY <1>1 DEF IndexExact
    <3>2. Len(logs[l]) \in Nat
      BY <1>3 DEF LogNames
    <3> QED BY <2>1, <3>1, <3>2 DEF Covers
  <2> QED BY <2>2, <2>3
<1>5. CASE log # "events"
  <2>1. /\ log \in {"prompts", "decisions"} /\ line.turn \in Turns
        /\ ~HasTurn(line.turn, log)
    <3>1. log \in {"prompts", "decisions"} /\ line.turn \in Turns
          /\ ToLog(todo, log) = {line.turn}
      BY <1>5, LineAtHand DEF LogNames
    <3> HIDE DEF line
    <3> QED BY <1>1, <3>1 DEF OncePerTurn
  <2> DEFINE other == IF log = "prompts" THEN "decisions" ELSE "prompts"
  <2>2. /\ {"prompts", "decisions"} = {log, other} /\ other # log
        /\ other \in {"prompts", "decisions"}
        /\ other \in LogNames /\ logs'[other] = logs[other]
    BY <1>2, <2>1 DEF LogNames
  <2>3. /\ index' \in Indexes
        /\ \A t \in Turns, l \in {"prompts", "decisions"} :
             index'.turns[t][l] = IF t = line.turn /\ l = log THEN n + 1 ELSE index.turns[t][l]
    <3>1. index' = IndexLine(log, line, n + 1) /\ n + 1 \in Nat
      BY <1>2 DEF AppendLine
    <3> HIDE DEF line, n
    <3> QED BY <1>1, <1>3, <2>1, <3>1, IndexTypes
  <2>4. \A i \in 1..n : logs'[log][i] = logs[log][i]
    <3> HIDE DEF line
    <3> QED BY <1>1, <1>2, Appended
  <2>5. logs'[log][n + 1] = line
    <3> HIDE DEF line
    <3> QED BY <1>1, <1>2, Appended
  <2>6. /\ Points(index, log, logs[log]) /\ Covers(index, log, logs[log], n)
        /\ Points(index, other, logs[other])
        /\ Covers(index, other, logs[other], Len(logs[other]))
    BY <1>1, <2>2 DEF IndexExact
  <2> HIDE DEF line, n, other
  <2>7. \A i \in 1..n : logs[log][i].turn # line.turn /\ logs[log][i].turn \in Turns
    BY <1>1, <1>3, <2>1 DEF HasTurn, LinesFit, n
  <2>8. LinesFit'
    <3>1. \A i \in 1..(n + 1) : logs'[log][i].turn \in Turns
      BY <1>2, <2>1, <2>4, <2>5, <2>7
    <3>2. DOMAIN logs'[log] = 1..(n + 1)
      BY <1>1, <1>2, Appended DEF n
    <3>3. \A i \in DOMAIN logs'[other] : logs'[other][i].turn \in Turns
      BY <1>1, <2>2 DEF LinesFit
    <3> QED BY <2>2, <3>1, <3>2, <3>3 DEF LinesFit
  <2>9. IndexExact'
    <3>1. Points(index', log, logs'[log])
      BY <1>2, <1>3, <2>1, <2>3, <2>4, <2>5, <2>6 DEF Points, n
    <3>2. Covers(index', log, logs'[log], n + 1)
      BY <1>2, <2>1, <2>3, <2>4, <2>5, <2>6, <2>7 DEF Covers
    <3>3. Points(index', other, logs'[other])
      BY <2>2, <2>3, <2>6 DEF Points
    <3>4. Covers(index', other, logs'[other], Len(logs'[other]))
      <4>1. \A i \in 1..Len(logs[other]) : logs[other][i].turn \in Turns
        BY <1>1, <1>3, <2>2 DEF LinesFit
      <4> QED BY <2>2, <2>3, <2>6, <4>1 DEF Covers
    <3> QED BY <1>2, <2>2, <3>1, <3>2, <3>3, <3>4 DEF IndexExact
  <2>10. IndexFollowsLogs'
    <3>1. /\ Points(index, log, logs'[log]) /\ Covers(index, log, logs'[log], n)
      BY <1>1, <1>2, <1>3, <2>1, <2>6, PointsStay
    <3>2. /\ Points(index, other, logs'[other])
          /\ \A i \in 1..(Len(logs'[other]) - 1) :
               index.turns[logs'[other][i].turn][other] = i
      BY <1>3, <2>2, <2>6 DEF Covers
    <3>3. \A i \in 1..(Len(logs'[log]) - 1) : index.turns[logs'[log][i].turn][log] = i
      BY <1>2, <3>1 DEF Covers
    <3> QED BY <1>1, <2>2, <3>1, <3>2, <3>3 DEF IndexFollowsLogs, Points
  <2> QED BY <2>8, <2>9, <2>10
<1> QED BY <1>4, <1>5

\* The rest: the files that are not touched, and what is left of the call.
LEMMA LineRest ==
  ASSUME IInv, NEW log \in LogNames, AppendLine(log)
  PROVE  /\ ResultIsLast' /\ VerdictCounts' /\ ResultCloses' /\ OncePerTurn'
         /\ Shaped(todo)' /\ MetricsStored' /\ IndexStored'
<1> DEFINE line == Head(todo).line
<1>1. /\ line \in Lines /\ DataOK /\ FilesOK /\ ResultCloses /\ OncePerTurn
      /\ todo # <<>> /\ Head(todo).file = log /\ Shaped(todo) /\ todo' = Tail(todo)
      /\ UNCHANGED <<metricsFile, indexFile, resultFile, result>>
  BY LineAtHand DEF Writing, AppendLine, AtHand
<1>2. /\ Shaped(todo') /\ MetricsDue(todo')
      /\ indexFile = index
      /\ log # "events" => /\ line.turn \in Turns /\ IndexDue(todo') /\ todo \notin LateCalls
      /\ log = "events" => ~IndexDue(todo') /\ todo' \in LateCalls /\ SameTurns(todo)
  BY <1>1, LineAtHand
<1>3. /\ logs[log] \in Seq(Lines) /\ logs'[log] = Append(logs[log], line)
      /\ \A other \in LogNames \ {log} : logs'[other] = logs[other]
  <2>1. logs' = [logs EXCEPT ![log] = Append(@, line)]
    BY DEF AppendLine
  <2> HIDE DEF line
  <2> QED BY <1>1, <2>1, LineTypes
<1>4. log = "events" => index' = index
  BY DEF AppendLine, IndexLine
<1> HIDE DEF line
<1>5. Shaped(todo)' /\ MetricsStored'
  BY <1>2 DEF MetricsStored
<1>6. IndexStored'
  BY <1>1, <1>2, <1>4 DEF IndexStored
\* A decision is logged only as long as the match is open.
<1>7. ASSUME Final(result)
      PROVE  log = "events" /\ logs'["decisions"] = logs["decisions"]
  BY <1>1, <1>2, <1>3, <1>7 DEF ResultCloses, LogNames
<1>8. ResultCloses'
  BY <1>1, <1>2, <1>7 DEF ResultCloses, Final
<1>9. ASSUME resultFile # Absent, Final(resultFile)
      PROVE  logs'["decisions"] = logs["decisions"]
  BY <1>1, <1>7, <1>9 DEF ResultCloses, Final
<1>10. VerdictCounts'
  BY <1>1, <1>9 DEF VerdictCounts, FilesOK, Final
<1>11. ResultIsLast'
  BY <1>1, <1>9 DEF ResultIsLast, FilesOK, Final
<1>12. \A other \in LogNames \ {log} : \A t : HasTurn(t, other)' <=> HasTurn(t, other)
  BY <1>3 DEF HasTurn
<1>13. \A t : HasTurn(t, log)' <=> HasTurn(t, log) \/ t = line.turn
  <2>1. /\ DOMAIN logs'[log] = 1..(Len(logs[log]) + 1) /\ Len(logs[log]) \in Nat
        /\ DOMAIN logs[log] = 1..Len(logs[log])
        /\ \A i \in 1..Len(logs[log]) : logs'[log][i] = logs[log][i]
        /\ logs'[log][Len(logs[log]) + 1] = line
    BY <1>1, <1>3, Appended
  <2> QED BY <2>1 DEF HasTurn
<1>14. OncePerTurn'
  <2>1. CASE log = "events"
    BY <1>1, <1>2, <1>12, <2>1 DEF OncePerTurn, SameTurns, LogNames
  <2>2. CASE log = "prompts"
    <3>1. PICK t \in Turns :
            /\ line = PromptLine(t)
            /\ ToLog(todo, "prompts") = {t} /\ ToLog(todo, "decisions") = {t}
            /\ ToLog(todo', "prompts") = {} /\ ToLog(todo', "decisions") = {t}
      BY <1>1, <2>2, PromptAtHand DEF line
    <3>2. line.turn = t
      BY <3>1 DEF PromptLine
    <3> QED BY <1>1, <1>12, <1>13, <2>2, <3>1, <3>2 DEF OncePerTurn, LogNames
  <2>3. CASE log = "decisions"
    <3>1. PICK t \in Turns, f \in BOOLEAN :
            /\ line = DecisionLine(t, f)
            /\ ToLog(todo, "prompts") = {} /\ ToLog(todo, "decisions") = {t}
            /\ ToLog(todo', "prompts") = {} /\ ToLog(todo', "decisions") = {}
      BY <1>1, <2>3, DecisionAtHand DEF line
    <3>2. line.turn = t
      BY <3>1 DEF DecisionLine
    <3> QED BY <1>1, <1>12, <1>13, <2>3, <3>1, <3>2 DEF OncePerTurn, LogNames
  <2> QED BY <2>1, <2>2, <2>3 DEF LogNames
<1> QED BY <1>5, <1>6, <1>8, <1>10, <1>11, <1>14

LEMMA LineStep ==
  ASSUME IInv, NEW log \in LogNames, AppendLine(log)
  PROVE  IInv'
<1>1. daemon' = "writing"
  BY DEF AppendLine, AtHand
<1>2. DataOK'
  BY LineData
<1>3. FilesOK' /\ Writing'
  BY LineAtHand, LineMetrics, LineIndex, LineRest DEF FilesOK, Writing
<1> QED BY <1>1, <1>2, <1>3 DEF IInv

\* An operation that is not a log entry takes itself off the queue only.
LEMMA RestOfTurns ==
  ASSUME OncePerTurn, SameTurns(todo), todo' = Tail(todo), logs' = logs
  PROVE  OncePerTurn'
BY DEF OncePerTurn, SameTurns, HasTurn

LEMMA MakeStep ==
  ASSUME IInv, NEW name \in {"manifest", "logs"}, Make(name)
  PROVE  IInv'
<1>1. /\ Writing /\ DataOK /\ FilesOK /\ todo # <<>> /\ Head(todo).file = name
      /\ daemon = "writing" /\ todo' = Tail(todo) /\ made' = made \cup {name}
      /\ UNCHANGED <<logs, torn, metricsFile, indexFile, resultFile, daemon>>
      /\ UNCHANGED <<metrics, index, result>>
  BY DEF Make, AtHand, IInv, memory
<1>2. /\ Shaped(todo') /\ MetricsDue(todo') /\ IndexDue(todo')
      /\ todo \notin LateCalls /\ SameTurns(todo)
  BY <1>1, MakeAtHand DEF Writing
<1>3. DataOK'
  BY <1>1 DEF DataOK
<1>4. FilesOK'
  BY <1>1 DEF FilesOK, LinesFit, CountersFollowLogs, Lagging, Errors, Fallbacks,
              IndexFollowsLogs, ResultIsLast, VerdictCounts
<1>5. Writing'
  <2>1. MetricsExact' /\ IndexExact'
    BY <1>1 DEF Writing, MetricsExact, IndexExact
  <2>2. MetricsStored' /\ IndexStored' /\ Shaped(todo)'
    BY <1>2 DEF MetricsStored, IndexStored
  <2>3. ResultCloses'
    BY <1>1, <1>2 DEF Writing, ResultCloses
  <2>4. OncePerTurn'
    BY <1>1, <1>2, RestOfTurns DEF Writing
  <2> QED BY <2>1, <2>2, <2>3, <2>4 DEF Writing
<1> QED BY <1>1, <1>3, <1>4, <1>5 DEF IInv

LEMMA MetricsStep ==
  ASSUME IInv, PersistMetrics
  PROVE  IInv'
<1>1. /\ Writing /\ DataOK /\ FilesOK /\ todo # <<>> /\ Head(todo).file = "metrics"
      /\ daemon = "writing" /\ todo' = Tail(todo) /\ metricsFile' = metrics
      /\ UNCHANGED <<logs, torn, made, indexFile, resultFile, daemon>>
      /\ UNCHANGED <<metrics, index, result>>
  BY DEF PersistMetrics, AtHand, IInv, memory
<1>2. /\ Shaped(todo') /\ ~MetricsDue(todo') /\ (IndexDue(todo') <=> IndexDue(todo))
      /\ todo \in LateCalls => todo' \in LateCalls
      /\ SameTurns(todo)
  BY <1>1, MetricsAtHand DEF Writing
<1>3. DataOK'
  BY <1>1 DEF DataOK
<1>4. /\ \A l \in LogNames : metrics[l] = Len(logs[l]) /\ Len(logs[l]) \in Nat
      /\ metrics.events = Len(logs["events"]) /\ metrics.decisions = Len(logs["decisions"])
      /\ metrics.fallbacks = FallbacksIn(logs["decisions"], Len(logs["decisions"]))
      /\ metrics.errors - ErrorsIn(logs["events"], Len(logs["events"]))
           \in (IF metrics.status = "failed" THEN 0..MaxErrors ELSE {0})
      /\ metrics.status = result.status /\ metrics # Absent
  BY <1>1, AbsentAssumption DEF Writing, MetricsExact, DataOK, LogNames
<1>5. FilesOK'
  <2>1. LinesFit' /\ IndexFollowsLogs' /\ VerdictCounts'
    BY <1>1, <1>4 DEF FilesOK, LinesFit, IndexFollowsLogs, VerdictCounts
  <2>2. ResultIsLast'
    BY <1>1, <1>4 DEF FilesOK, ResultIsLast, Writing, ResultCloses, Final
  <2>3. CountersFollowLogs'
    <3>1. /\ \A l \in LogNames : Lagging(l)' = 0
          /\ Lagging("events")' = 0 /\ Lagging("prompts")' = 0 /\ Lagging("decisions")' = 0
      BY <1>1, <1>4 DEF Lagging, LogNames
    <3>2. (metricsFile.fallbacks = Fallbacks(metricsFile.decisions))'
      BY <1>1, <1>4 DEF Fallbacks, FallbacksIn
    <3>3. (metricsFile.errors - Errors(metricsFile.events)
             \in (IF metricsFile.status = "failed" THEN 0..MaxErrors ELSE {0}))'
      BY <1>1, <1>4 DEF Errors, ErrorsIn
    <3> QED BY <3>1, <3>2, <3>3 DEF CountersFollowLogs
  <2> QED BY <2>1, <2>2, <2>3 DEF FilesOK
<1>6. Writing'
  <2>1. MetricsExact' /\ IndexExact'
    BY <1>1 DEF Writing, MetricsExact, IndexExact
  <2>2. MetricsStored' /\ IndexStored' /\ Shaped(todo)'
    BY <1>1, <1>2 DEF Writing, MetricsStored, IndexStored
  <2>3. ResultCloses'
    BY <1>1, <1>2 DEF Writing, ResultCloses
  <2>4. OncePerTurn'
    BY <1>1, <1>2, RestOfTurns DEF Writing
  <2> QED BY <2>1, <2>2, <2>3, <2>4 DEF Writing
<1> QED BY <1>1, <1>3, <1>5, <1>6 DEF IInv

LEMMA IndexStep ==
  ASSUME IInv, PersistReplayIndex
  PROVE  IInv'
<1>1. /\ Writing /\ DataOK /\ FilesOK /\ todo # <<>> /\ Head(todo).file = "index"
      /\ daemon = "writing" /\ todo' = Tail(todo) /\ indexFile' = index
      /\ UNCHANGED <<logs, torn, made, metricsFile, resultFile, daemon>>
      /\ UNCHANGED <<metrics, index, result>>
  BY DEF PersistReplayIndex, AtHand, IInv, memory
<1>2. /\ Shaped(todo') /\ ~MetricsDue(todo') /\ ~MetricsDue(todo) /\ ~IndexDue(todo')
      /\ todo \in LateCalls => todo' \in LateCalls
      /\ SameTurns(todo)
  BY <1>1, IndexAtHand DEF Writing
<1>3. DataOK'
  BY <1>1 DEF DataOK
<1>4. /\ \A l \in {"prompts", "decisions"} : /\ Points(index, l, logs[l])
                                          /\ Covers(index, l, logs[l], Len(logs[l]))
                                          /\ Len(logs[l]) \in Nat
      /\ DOMAIN logs["decisions"] = 1..Len(logs["decisions"])
      /\ index # Absent
  BY <1>1, AbsentAssumption DEF Writing, IndexExact, DataOK, LogNames
<1>5. FilesOK'
  <2>1. LinesFit' /\ CountersFollowLogs' /\ VerdictCounts'
    BY <1>1, <1>4 DEF FilesOK, LinesFit, CountersFollowLogs, Lagging, Errors, Fallbacks,
                      VerdictCounts
  <2>2. \A i \in DOMAIN logs["decisions"] : index.turns[logs["decisions"][i].turn].decisions = i
    BY <1>4 DEF Covers
  <2>3. ResultIsLast'
    BY <1>1, <2>2 DEF FilesOK, ResultIsLast
  <2>4. IndexFollowsLogs'
    <3> SUFFICES ASSUME NEW l \in {"prompts", "decisions"}
                 PROVE  /\ Points(index, l, logs[l])
                        /\ \A i \in 1..(Len(logs[l]) - 1) : index.turns[logs[l][i].turn][l] = i
      BY <1>1 DEF IndexFollowsLogs, Points
    <3> QED BY <1>4 DEF Covers
  <2> QED BY <2>1, <2>3, <2>4 DEF FilesOK
<1>6. Writing'
  <2>1. MetricsExact' /\ IndexExact'
    BY <1>1 DEF Writing, MetricsExact, IndexExact
  <2>2. MetricsStored' /\ IndexStored' /\ Shaped(todo)'
    BY <1>1, <1>2 DEF Writing, MetricsStored, IndexStored
  <2>3. ResultCloses'
    BY <1>1, <1>2 DEF Writing, ResultCloses
  <2>4. OncePerTurn'
    BY <1>1, <1>2, RestOfTurns DEF Writing
  <2> QED BY <2>1, <2>2, <2>3, <2>4 DEF Writing
<1> QED BY <1>1, <1>3, <1>5, <1>6 DEF IInv

\* The result on disk is final only when the other two files are what is in memory.
LEMMA ResultStep ==
  ASSUME IInv, PersistResult
  PROVE  IInv'
<1>1. /\ Writing /\ DataOK /\ FilesOK /\ todo # <<>> /\ Head(todo).file = "result"
      /\ daemon = "writing" /\ todo' = Tail(todo) /\ resultFile' = result
      /\ UNCHANGED <<logs, torn, made, metricsFile, indexFile, daemon>>
      /\ UNCHANGED <<metrics, index, result>>
  BY DEF PersistResult, AtHand, IInv, memory
<1>2. /\ Shaped(todo') /\ ~MetricsDue(todo') /\ ~MetricsDue(todo)
      /\ IndexDue(todo') <=> IndexDue(todo)
      /\ todo \in LateCalls => todo' \in LateCalls /\ ~IndexDue(todo)
      /\ SameTurns(todo)
  BY <1>1, ResultAtHand DEF Writing
<1>3. DataOK'
  BY <1>1 DEF DataOK
<1>4. ASSUME Final(result)
      PROVE  /\ metricsFile = metrics /\ indexFile = index
             /\ metrics # Absent /\ index # Absent
             /\ result.metrics.decisions = Len(logs["decisions"])
             /\ metrics.status = result.status
             /\ metrics.decisions = Len(logs["decisions"])
             /\ \A i \in DOMAIN logs["decisions"] :
                  index.turns[logs["decisions"][i].turn].decisions = i
  <2>1. metricsFile = metrics /\ indexFile = index
        /\ result.metrics.decisions = Len(logs["decisions"])
    BY <1>1, <1>2, <1>4 DEF Writing, MetricsStored, IndexStored, ResultCloses
  <2>2. metrics # Absent /\ index # Absent
    BY <1>1, AbsentAssumption DEF DataOK
  <2>3. metrics.status = result.status /\ metrics.decisions = Len(logs["decisions"])
    BY <1>1 DEF Writing, MetricsExact, LogNames
  <2>4. /\ Covers(index, "decisions", logs["decisions"], Len(logs["decisions"]))
        /\ DOMAIN logs["decisions"] = 1..Len(logs["decisions"])
    BY <1>1 DEF Writing, IndexExact, DataOK, LogNames
  <2> QED BY <2>1, <2>2, <2>3, <2>4 DEF Covers
<1>5. FilesOK'
  <2>1. LinesFit' /\ CountersFollowLogs' /\ IndexFollowsLogs'
    BY <1>1 DEF FilesOK, LinesFit, CountersFollowLogs, Lagging, Errors, Fallbacks,
                IndexFollowsLogs
  <2>2. VerdictCounts' /\ ResultIsLast'
    BY <1>1, <1>4 DEF VerdictCounts, ResultIsLast, Final
  <2> QED BY <2>1, <2>2 DEF FilesOK
<1>6. Writing'
  <2>1. MetricsExact' /\ IndexExact'
    BY <1>1 DEF Writing, MetricsExact, IndexExact
  <2>2. MetricsStored' /\ IndexStored' /\ Shaped(todo)'
    BY <1>1, <1>2 DEF Writing, MetricsStored, IndexStored
  <2>3. ResultCloses'
    BY <1>1, <1>2 DEF Writing, ResultCloses
  <2>4. OncePerTurn'
    BY <1>1, <1>2, RestOfTurns DEF Writing
  <2> QED BY <2>1, <2>2, <2>3, <2>4 DEF Writing
<1> QED BY <1>1, <1>3, <1>5, <1>6 DEF IInv

-----------------------------------------------------------------------------
(* The calls keep the invariant *)

LEMMA CallRows ==
  /\ Shaped(Create5) /\ MetricsDue(Create5) /\ IndexDue(Create5)
  /\ Create5 \in Seq(Operations)
  /\ ToLog(Create5, "prompts") = {} /\ ToLog(Create5, "decisions") = {}
  /\ \A kind \in EventKinds :
       /\ Shaped(Event2(kind)) /\ Event2(kind) \in LateCalls
       /\ Event2(kind) \in Seq(Operations)
       /\ ToLog(Event2(kind), "prompts") = {} /\ ToLog(Event2(kind), "decisions") = {}
  /\ Shaped(Close3) /\ Close3 \in LateCalls /\ MetricsDue(Close3) /\ IndexDue(Close3)
  /\ Close3 \in Seq(Operations)
  /\ ToLog(Close3, "prompts") = {} /\ ToLog(Close3, "decisions") = {}
  /\ Shaped(Close2) /\ Close2 \in LateCalls /\ IndexDue(Close2)
  /\ Close2 \in Seq(Operations)
  /\ ToLog(Close2, "prompts") = {} /\ ToLog(Close2, "decisions") = {}
BY CreateRows, ClosingRows, EventRow, Shapes DEF Row, MetricsDue

LEMMA CreateStep ==
  ASSUME IInv, Create
  PROVE  IInv'
<1>1. /\ DataOK /\ FilesOK /\ Blank /\ daemon' = "writing" /\ todo' = Create5
      /\ UNCHANGED <<logs, torn, made, metricsFile, indexFile, resultFile>>
      /\ UNCHANGED <<metrics, index, result>>
  BY DEF Create, IInv, files, memory, Create5, ToMetrics, ToIndex, ToResult
<1>2. DataOK'
  BY <1>1, CallRows DEF DataOK
<1>3. FilesOK'
  BY <1>1 DEF FilesOK, LinesFit, CountersFollowLogs, Lagging, Errors, Fallbacks,
              IndexFollowsLogs, ResultIsLast, VerdictCounts
<1>4. Writing'
  <2>1. /\ \A l \in LogNames : logs'[l] = <<>> /\ Len(logs'[l]) = 0
        /\ logs'["events"] = <<>> /\ logs'["decisions"] = <<>>
        /\ metrics' = NoMetrics /\ index' = NoIndex /\ result' = NoResult
        /\ resultFile' = Absent
    BY <1>1 DEF Blank, LogNames
  <2>2. ErrorsIn(<<>>, 0) = 0 /\ FallbacksIn(<<>>, 0) = 0
    <3>1. 1..0 = {}
      OBVIOUS
    <3> QED BY <3>1, FS_EmptySet DEF ErrorsIn, FallbacksIn
  <2>3. MetricsExact'
    <3>1. Len(logs'["events"]) = 0 /\ Len(logs'["decisions"]) = 0
      BY <2>1 DEF LogNames
    <3> QED BY <2>1, <2>2, <3>1 DEF MetricsExact, NoMetrics, NoResult, LogNames
  <2>4. IndexExact'
    <3>1. \A t \in Turns, l \in {"prompts", "decisions"} : index'.turns[t][l] = 0
      BY <2>1 DEF NoIndex
    <3> QED BY <2>1, <3>1 DEF IndexExact, Points, Covers, LogNames
  <2>5. Shaped(todo)' /\ MetricsStored' /\ IndexStored'
    BY <1>1, CallRows DEF MetricsStored, IndexStored
  <2>6. ResultCloses'
    BY <2>1 DEF ResultCloses, Final, NoResult
  <2>7. \A t : ~HasTurn(t, "prompts")'
    BY <2>1 DEF HasTurn, LogNames
  <2>8. OncePerTurn'
    BY <1>1, <2>7, CallRows DEF OncePerTurn
  <2> QED BY <2>3, <2>4, <2>5, <2>6, <2>8 DEF Writing
<1> QED BY <1>1, <1>2, <1>3, <1>4 DEF IInv

\* A call that only starts leaves everything but the queue as it is.
LEMMA CallStep ==
  ASSUME IInv, Idle, Shaped(todo'), todo' \in Seq(Operations),
         UNCHANGED <<files, daemon, memory>>,
         Final(result) => todo' \in LateCalls,
         \A t \in ToLog(todo', "prompts") : ~HasTurn(t, "prompts"),
         \A t \in ToLog(todo', "decisions") : ~HasTurn(t, "decisions")
  PROVE  IInv'
<1>1. /\ Writing /\ DataOK /\ FilesOK /\ daemon = "writing" /\ todo = <<>>
      /\ UNCHANGED <<logs, torn, made, metricsFile, indexFile, resultFile, daemon>>
      /\ UNCHANGED <<metrics, index, result>>
  BY DEF Idle, IInv, files, memory
<1>2. DataOK'
  BY <1>1 DEF DataOK
<1>3. FilesOK'
  BY <1>1 DEF FilesOK, LinesFit, CountersFollowLogs, Lagging, Errors, Fallbacks,
              IndexFollowsLogs, ResultIsLast, VerdictCounts
<1>4. MetricsExact' /\ IndexExact'
  BY <1>1 DEF Writing, MetricsExact, IndexExact
<1>5. MetricsStored' /\ IndexStored'
  BY <1>1, NothingLeft DEF Writing, MetricsStored, IndexStored
<1>6. ResultCloses'
  BY <1>1 DEF Writing, ResultCloses
<1>7. OncePerTurn'
  BY <1>1, NothingLeft DEF Writing, OncePerTurn, HasTurn
<1> QED BY <1>1, <1>2, <1>3, <1>4, <1>5, <1>6, <1>7 DEF IInv, Writing

LEMMA AppendEventStep ==
  ASSUME IInv, NEW kind \in EventKinds, AppendEvent(kind)
  PROVE  IInv'
<1>1. Idle /\ todo' = Event2(kind) /\ UNCHANGED <<files, daemon, memory>>
  BY DEF AppendEvent, Event2, LogEvent, ToMetrics
<1> QED BY <1>1, CallRows, CallStep

LEMMA ThreeAndThree ==
  ASSUME NEW a, NEW b, NEW c, NEW d, NEW e, NEW f
  PROVE  <<a, b, c>> \o <<d, e, f>> = <<a, b, c, d, e, f>>
<1> DEFINE S == {a, b, c, d, e, f}
           s == <<a, b, c>>
           t == <<d, e, f>>
           u == <<a, b, c, d, e, f>>
<1>1. /\ s \in Seq(S) /\ t \in Seq(S) /\ u \in Seq(S)
      /\ Len(s) = 3 /\ Len(t) = 3 /\ Len(u) = 6
  OBVIOUS
<1>2. /\ \A i \in 1..3 : u[i] = s[i]
      /\ \A i \in 4..6 : u[i] = t[i - 3]
  BY SMT
<1> HIDE DEF S, s, t, u
<1>3. /\ s \o t \in Seq(S) /\ Len(s \o t) = Len(s) + Len(t)
      /\ \A i \in 1..(Len(s) + Len(t)) :
           (s \o t)[i] = IF i <= Len(s) THEN s[i] ELSE t[i - Len(s)]
  BY <1>1, ConcatProperties
<1>4. \A i \in 1..Len(s \o t) : (s \o t)[i] = u[i]
  BY <1>1, <1>2, <1>3
<1>5. s \o t = u
  BY <1>1, <1>3, <1>4, SeqEqual
<1> QED BY <1>5 DEF s, t, u

LEMMA ResolveDecisionStep ==
  ASSUME IInv, NEW t \in Turns, NEW f \in BOOLEAN, ResolveDecision(t, f)
  PROVE  IInv'
<1>1. /\ Idle /\ ~Final(result) /\ UNCHANGED <<files, daemon, memory>>
      /\ todo' = AppendPrompt(t) \o AppendDecision(t, f) \/ todo' = AppendDecision(t, f)
      /\ t \notin Decided
  BY DEF ResolveDecision, Final
<1>2. ~HasTurn(t, "decisions")
  BY <1>1 DEF Decided, HasTurn
<1>3. ~HasTurn(t, "prompts")
  BY <1>1, <1>2, NothingLeft DEF Idle, IInv, Writing, OncePerTurn
<1>4. AppendDecision(t, f) = Decide3(t, f)
  BY DEF AppendDecision, Decide3, LogDecision, ToMetrics, ToIndex
<1>5. AppendPrompt(t) \o AppendDecision(t, f) = Decide6(t, f)
  BY ThreeAndThree
     DEF AppendDecision, AppendPrompt, Decide6, LogPrompt, LogDecision, ToMetrics, ToIndex
<1>6. todo' \in {Decide6(t, f), Decide3(t, f)}
  BY <1>1, <1>4, <1>5
<1>7. /\ Shaped(todo') /\ todo' \in Seq(Operations)
      /\ ToLog(todo', "prompts") \subseteq {t} /\ ToLog(todo', "decisions") \subseteq {t}
  BY <1>6, DecideRows, Shapes DEF Row
<1> QED BY <1>1, <1>2, <1>3, <1>7, CallStep

\* What Finalize makes of the metrics: the errors may be more than the
\* events tell, by those it ends with, but only in a match that failed.
LEMMA FinalMetrics ==
  ASSUME metrics \in Metrics, NEW failures \in 0..MaxErrors,
         metrics' = [metrics EXCEPT !.status = FinalStatus(failures),
                                    !.errors = IF @ < failures THEN failures ELSE @]
  PROVE  /\ metrics' \in Metrics /\ metrics'.status = FinalStatus(failures)
         /\ metrics'.errors = IF metrics.errors < failures THEN failures ELSE metrics.errors
         /\ metrics'.fallbacks = metrics.fallbacks
         /\ \A l \in LogNames : metrics'[l] = metrics[l]
         /\ FinalStatus(failures) \in {"completed", "failed"}
         /\ FinalStatus(failures) = "failed" <=> failures > 0
<1> DEFINE errors == IF metrics.errors < failures THEN failures ELSE metrics.errors
           m1 == [metrics EXCEPT !.status = FinalStatus(failures)]
           m2 == [m1 EXCEPT !.errors = errors]
<1>1. /\ FinalStatus(failures) \in {"completed", "failed"} /\ errors \in Nat
      /\ FinalStatus(failures) = "failed" <=> failures > 0
  BY BoundsAssumption DEF FinalStatus, Metrics
<1>2. metrics' = m2
  OBVIOUS
<1> HIDE DEF errors
<1>3. /\ m1 \in Metrics /\ m1.status = FinalStatus(failures)
      /\ m1.fallbacks = metrics.fallbacks /\ \A l \in LogNames : m1[l] = metrics[l]
  BY <1>1 DEF Metrics, Statuses, LogNames
<1> HIDE DEF m1
<1>4. /\ m2 \in Metrics /\ m2.status = m1.status /\ m2.errors = errors
      /\ m2.fallbacks = m1.fallbacks /\ \A l \in LogNames : m2[l] = m1[l]
  BY <1>1, <1>3 DEF Metrics, LogNames
<1> HIDE DEF m2
<1>5. metrics'.errors = errors
  BY <1>2, <1>4
<1> QED BY <1>1, <1>2, <1>3, <1>4, <1>5 DEF errors

LEMMA FinalizeStep ==
  ASSUME IInv, NEW reason \in {"match_ended", "disconnect"}, NEW failures \in 0..MaxErrors,
         NEW path \in Paths \cup {NoPath}, Finalize(reason, failures, path)
  PROVE  IInv'
<1>1. /\ Writing /\ DataOK /\ FilesOK /\ daemon = "writing" /\ todo = <<>>
      /\ ~Final(result) /\ todo' = Close3
      /\ UNCHANGED <<logs, torn, made, metricsFile, indexFile, resultFile, daemon>>
  BY DEF Finalize, Idle, IInv, files, Final, FinalOps, Close3, ToMetrics, ToIndex, ToResult
<1>2. /\ metrics' \in Metrics /\ metrics'.status = FinalStatus(failures)
      /\ metrics'.errors = IF metrics.errors < failures THEN failures ELSE metrics.errors
      /\ metrics'.fallbacks = metrics.fallbacks
      /\ \A l \in LogNames : metrics'[l] = metrics[l]
      /\ FinalStatus(failures) \in {"completed", "failed"}
      /\ FinalStatus(failures) = "failed" <=> failures > 0
  BY <1>1, FinalMetrics DEF Finalize, DataOK
<1>3. index' = [index EXCEPT !.replay = path] /\ index' \in Indexes
      /\ index'.turns = index.turns
  BY <1>1 DEF Finalize, DataOK, Indexes
<1>4. /\ result' \in Results /\ result'.status = FinalStatus(failures)
      /\ result'.metrics = metrics' /\ Final(result)'
  <2>1. result' = [status |-> FinalStatus(failures), reason |-> reason,
                   replay |-> path, metrics |-> metrics']
    BY DEF Finalize, Snapshot
  <2> QED BY <1>2, <2>1 DEF Results, Statuses, Final
<1>5. DataOK'
  BY <1>1, <1>2, <1>3, <1>4, CallRows DEF DataOK
<1>6. FilesOK'
  BY <1>1 DEF FilesOK, LinesFit, CountersFollowLogs, Lagging, Errors, Fallbacks,
              IndexFollowsLogs, ResultIsLast, VerdictCounts
<1>7. MetricsExact'
  <2>1. /\ \A l \in LogNames : metrics[l] = Len(logs[l])
        /\ metrics.fallbacks = FallbacksIn(logs["decisions"], Len(logs["decisions"]))
        /\ metrics.errors - ErrorsIn(logs["events"], Len(logs["events"])) \in {0}
    BY <1>1 DEF Writing, MetricsExact, Final
  <2>2. metrics.errors \in Nat /\ ErrorsIn(logs["events"], Len(logs["events"])) \in Nat
    <3>1. logs["events"] \in Seq(Lines) /\ Len(logs["events"]) \in Nat
      BY <1>1 DEF DataOK, LogNames
    <3>2. {i \in 1..Len(logs["events"]) : logs["events"][i].kind = "Error"}
            \in SUBSET (1..Len(logs["events"]))
      OBVIOUS
    <3>3. ErrorsIn(logs["events"], Len(logs["events"])) \in Nat
      BY <3>1, <3>2, Counting DEF ErrorsIn
    <3> QED BY <1>1, <3>3 DEF DataOK, Metrics
  <2>3. metrics'.errors - ErrorsIn(logs["events"], Len(logs["events"]))
          \in (IF metrics'.status = "failed" THEN 0..MaxErrors ELSE {0})
    BY <1>2, <2>1, <2>2, BoundsAssumption
  <2> QED BY <1>1, <1>2, <1>4, <2>1, <2>3 DEF MetricsExact
<1>8. IndexExact'
  BY <1>1, <1>3 DEF Writing, IndexExact, Points, Covers
<1>9. MetricsStored' /\ IndexStored' /\ Shaped(todo)'
  BY <1>1, CallRows DEF MetricsStored, IndexStored
<1>10. ResultCloses'
  <2>1. result'.metrics.decisions = Len(logs'["decisions"])
    BY <1>1, <1>2, <1>4 DEF Writing, MetricsExact, LogNames
  <2>2. ~(resultFile # Absent /\ Final(resultFile))
    BY <1>1 DEF Writing, ResultCloses, Final
  <2> QED BY <1>1, <1>4, <2>1, <2>2, CallRows DEF ResultCloses, Final
<1>11. OncePerTurn'
  BY <1>1, NothingLeft, CallRows DEF Writing, OncePerTurn, HasTurn
<1> QED BY <1>1, <1>5, <1>6, <1>7, <1>8, <1>9, <1>10, <1>11 DEF IInv, Writing

LEMMA UpdateReplayPathStep ==
  ASSUME IInv, NEW path \in Paths, UpdateReplayPath(path)
  PROVE  IInv'
<1>1. /\ Writing /\ DataOK /\ FilesOK /\ daemon = "writing" /\ todo = <<>>
      /\ todo' = Close2 /\ metrics' = metrics
      /\ UNCHANGED <<logs, torn, made, metricsFile, indexFile, resultFile, daemon>>
  BY DEF UpdateReplayPath, Idle, IInv, files, Close2, ToIndex, ToResult
<1>2. index' \in Indexes /\ index'.turns = index.turns
  BY <1>1 DEF UpdateReplayPath, DataOK, Indexes
<1>3. /\ result' \in Results /\ result'.status = result.status
      /\ result'.metrics = result.metrics /\ result'.reason = result.reason
  BY <1>1 DEF UpdateReplayPath, DataOK, Results
<1>4. DataOK'
  BY <1>1, <1>2, <1>3, CallRows DEF DataOK
<1>5. FilesOK'
  BY <1>1 DEF FilesOK, LinesFit, CountersFollowLogs, Lagging, Errors, Fallbacks,
              IndexFollowsLogs, ResultIsLast, VerdictCounts
<1>6. MetricsExact' /\ IndexExact'
  BY <1>1, <1>2, <1>3 DEF Writing, MetricsExact, IndexExact, Points, Covers
<1>7. MetricsStored' /\ IndexStored' /\ Shaped(todo)'
  BY <1>1, NothingLeft, CallRows DEF Writing, MetricsStored, IndexStored
<1>8. ResultCloses'
  BY <1>1, <1>3, CallRows DEF Writing, ResultCloses, Final
<1>9. OncePerTurn'
  BY <1>1, NothingLeft, CallRows DEF Writing, OncePerTurn, HasTurn
<1> QED BY <1>1, <1>4, <1>5, <1>6, <1>7, <1>8, <1>9 DEF IInv, Writing

-----------------------------------------------------------------------------
(* The other steps, and the invariant *)

\* Neither a torn line nor the viewer is in the invariant.
LEMMA AsideStep ==
  ASSUME IInv, torn' \in LogNames \cup {"none"},
         UNCHANGED <<logs, made, metricsFile, indexFile, resultFile, daemon, todo, memory>>
  PROVE  IInv'
<1>1. UNCHANGED <<logs, made, metricsFile, indexFile, resultFile, daemon, todo>>
      /\ UNCHANGED <<metrics, index, result>>
  BY DEF memory
<1>2. DataOK'
  BY <1>1 DEF IInv, DataOK
<1>3. FilesOK'
  BY <1>1 DEF IInv, FilesOK, LinesFit, CountersFollowLogs, Lagging, Errors, Fallbacks,
              IndexFollowsLogs, ResultIsLast, VerdictCounts
<1>4. Blank' <=> Blank
  BY <1>1 DEF Blank
<1>5. Writing => Writing'
  BY <1>1 DEF Writing, MetricsExact, IndexExact, MetricsStored, IndexStored,
              ResultCloses, OncePerTurn, HasTurn
<1> QED BY <1>1, <1>2, <1>3, <1>4, <1>5 DEF IInv

\* What is on disk agrees without the memory of the daemon.
LEMMA KillStep ==
  ASSUME IInv, Kill
  PROVE  IInv'
<1>1. /\ DataOK /\ FilesOK /\ daemon' = "killed" /\ todo' = <<>>
      /\ metrics' = NoMetrics /\ index' = NoIndex /\ result' = NoResult
      /\ UNCHANGED <<logs, torn, made, metricsFile, indexFile, resultFile>>
  BY DEF Kill, IInv, files
<1>2. NoMetrics \in Metrics /\ NoIndex \in Indexes /\ NoResult \in Results
  BY DEF NoMetrics, NoIndex, NoResult, Metrics, Indexes, Results, Statuses, Pointers
<1>3. DataOK'
  BY <1>1, <1>2 DEF DataOK
<1>4. FilesOK'
  BY <1>1 DEF FilesOK, LinesFit, CountersFollowLogs, Lagging, Errors, Fallbacks,
              IndexFollowsLogs, ResultIsLast, VerdictCounts
<1> QED BY <1>1, <1>3, <1>4 DEF IInv

LEMMA InitIInv == Init => IInv
<1> SUFFICES ASSUME Init PROVE IInv
  OBVIOUS
<1>1. NoMetrics \in Metrics /\ NoIndex \in Indexes /\ NoResult \in Results
  BY DEF NoMetrics, NoIndex, NoResult, Metrics, Indexes, Results, Statuses, Pointers
<1>2. DataOK
  BY <1>1 DEF Init, DataOK, LogNames
<1>3. FilesOK
  BY DEF Init, FilesOK, LinesFit, CountersFollowLogs, IndexFollowsLogs, ResultIsLast,
         VerdictCounts, LogNames
<1>4. Blank
  BY DEF Init, Blank
<1> QED BY <1>2, <1>3, <1>4 DEF IInv, Init

LEMMA NextIInv == IInv /\ [Next]_vars => IInv'
<1> SUFFICES ASSUME IInv, [Next]_vars PROVE IInv'
  OBVIOUS
<1>1. CASE Call
  <2>1. CASE Create
    BY <2>1, CreateStep
  <2>2. CASE \E kind \in EventKinds : AppendEvent(kind)
    BY <2>2, AppendEventStep
  <2>3. CASE \E t \in Turns, f \in BOOLEAN : ResolveDecision(t, f)
    BY <2>3, ResolveDecisionStep
  <2>4. CASE \E failures \in 0..MaxErrors, path \in Paths \cup {NoPath} :
               Finalize("match_ended", failures, path)
    BY <2>4, FinalizeStep
  <2>5. CASE \E failures \in 0..MaxErrors : Finalize("disconnect", failures, NoPath)
    BY <2>5, FinalizeStep
  <2>6. CASE \E path \in Paths : UpdateReplayPath(path)
    BY <2>6, UpdateReplayPathStep
  <2> QED BY <1>1, <2>1, <2>2, <2>3, <2>4, <2>5, <2>6 DEF Call
<1>2. CASE Operate
  BY <1>2, LineStep, MakeStep, MetricsStep, IndexStep, ResultStep DEF Operate
<1>3. CASE \E log \in LogNames : TearLine(log)
  BY <1>3, AsideStep DEF TearLine
<1>4. CASE Kill
  BY <1>4, KillStep
<1>5. CASE Mount \/ Poll \/ UNCHANGED vars
  <2>1. UNCHANGED <<files, daemon, todo, memory>>
    BY <1>5 DEF Mount, Poll, PollDecisions, PollOthers, vars
  <2>2. UNCHANGED <<logs, torn, made, metricsFile, indexFile, resultFile, daemon, todo, memory>>
    BY <2>1 DEF files
  <2>3. torn \in LogNames \cup {"none"}
    BY DEF IInv, DataOK
  <2> QED BY <2>2, <2>3, AsideStep
<1> QED BY <1>1, <1>2, <1>3, <1>4, <1>5 DEF Next

\* Whatever the daemon has done, and wherever in a call it was killed, the
\* invariant holds.
THEOREM Invariance == Spec => []IInv
BY InitIInv, NextIInv, PTL DEF Spec

\* metrics.json agrees with the logs as far as it goes, and lacks at most the
\* line just written, whenever the daemon is killed.
THEOREM CountersAgree == Spec => []CountersFollowLogs
BY Invariance, PTL DEF IInv, FilesOK

\* A pointer of the replay index leads to the line of its turn, and at most the
\* last line of a log lacks its pointer, whenever the daemon is killed.
THEOREM PointersAgree == Spec => []IndexFollowsLogs
BY Invariance, PTL DEF IInv, FilesOK

\* A final result.json is found only beside a finished metrics.json and replay
\* index, and no decision is logged after it.
THEOREM ResultComesLast == Spec => []ResultIsLast
BY Invariance, PTL DEF IInv, FilesOK

-----------------------------------------------------------------------------
(* The types, with those of the viewer *)

\* A set of line numbers has a last one.
LEMMA LastOf ==
  ASSUME NEW n \in Nat, NEW S \in SUBSET (1..n), S # {}
  PROVE  Max(S) \in S
<1> DEFINE D == {d \in Nat : n - d \in S}
<1>1. D # {} /\ D \subseteq Nat
  <2>1. PICK t \in S : TRUE
    OBVIOUS
  <2>2. n - t \in Nat /\ n - (n - t) = t
    OBVIOUS
  <2> QED BY <2>2
<1>2. PICK d \in D : \A e \in D : ~(e < d)
  <2>1. \E d \in D : \A e \in D : <<e, d>> \notin OpToRel(<, Nat)
    <3> HIDE DEF D
    <3> QED BY <1>1, NatLessThanWellFounded, WFMin
  <2>2. PICK d \in D : \A e \in D : <<e, d>> \notin OpToRel(<, Nat)
    BY <2>1
  <2>3. \A e \in D : ~(e < d)
    BY <1>1, <2>2 DEF OpToRel
  <2> QED BY <2>3
<1>3. \A u \in S : n - d >= u
  <2> TAKE u \in S
  <2>1. n - u \in Nat /\ n - (n - u) = u
    OBVIOUS
  <2>2. ~(n - u < d)
    BY <1>2, <2>1
  <2> QED BY <2>1, <2>2
<1>4. \E x \in S : \A y \in S : x >= y
  BY <1>3
<1> QED BY <1>4 DEF Max

\* What a poll finds in the log it reads: lines of it, or nothing.
LEMMA FreshLines ==
  ASSUME DataOK, LinesFit, NEW read \in Nat
  PROVE  /\ Fresh("decisions", read) \in Seq({line \in Lines : line.turn \in Turns})
         /\ Fresh("events", read) \in Seq(Lines)
<1>1. /\ logs["decisions"] \in Seq(Lines) /\ Len(logs["decisions"]) \in Nat
      /\ logs["events"] \in Seq(Lines) /\ Len(logs["events"]) \in Nat
  BY DEF DataOK, LogNames
<1>2. \A i \in (read + 1)..Len(logs["decisions"]) :
        logs["decisions"][i] \in {line \in Lines : line.turn \in Turns}
  BY <1>1 DEF LinesFit
<1>3. Fresh("decisions", read) \in Seq({line \in Lines : line.turn \in Turns})
  BY <1>1, <1>2, SubSeqProperties DEF Fresh
<1>4. \A i \in (read + 1)..Len(logs["events"]) : logs["events"][i] \in Lines
  BY <1>1
<1>5. Fresh("events", read) \in Seq(Lines)
  BY <1>1, <1>4, SubSeqProperties DEF Fresh
<1> QED BY <1>3, <1>5

LEMMA LinesInType ==
  ASSUME DataOK, NEW log \in LogNames
  PROVE  LinesIn(log) \in Nat
<1>1. Len(logs[log]) \in Nat
  BY DEF DataOK
<1>2. CASE torn = log
  BY <1>1, <1>2 DEF LinesIn
<1>3. CASE torn # log
  BY <1>1, <1>3 DEF LinesIn
<1> QED BY <1>2, <1>3

LEMMA ShowDecisionsType ==
  ASSUME NEW v \in Viewers, NEW lines \in Seq({line \in Lines : line.turn \in Turns})
  PROVE  ShowDecisions(v, lines) \in Viewers
<1> DEFINE shown == Shown(v, lines)
           keys  == {Key(lines[i].turn) : i \in shown}
           seen  == v.seen \cup keys
           about == UNION {Request[lines[i].turn].outcomes : i \in shown}
           outcomes == v.outcomes \cup about
           tick  == IF shown = {} THEN v.tick ELSE Request[lines[Max(shown)].turn].tick
           fallbacks == v.fallbacks + Cardinality({i \in shown : lines[i].fallback})
           v1 == [v EXCEPT !.seen = seen]
           v2 == [v1 EXCEPT !.outcomes = outcomes]
           v3 == [v2 EXCEPT !.tick = tick]
           v4 == [v3 EXCEPT !.fallbacks = fallbacks]
<1>1. /\ shown \in SUBSET (1..Len(lines)) /\ Len(lines) \in Nat
      /\ \A i \in shown : lines[i].turn \in Turns
  BY DEF Shown
<1>2. seen \in SUBSET (Players \X Nat)
  <2>1. \A i \in shown : Key(lines[i].turn) \in Players \X Nat
    BY <1>1, RequestAssumption DEF Key
  <2> QED BY <2>1 DEF Viewers
<1>3. outcomes \in SUBSET Nat
  <2>1. \A i \in shown : Request[lines[i].turn].outcomes \subseteq Nat
    BY <1>1, RequestAssumption
  <2> QED BY <2>1 DEF Viewers
<1>4. tick \in Nat
  <2>1. shown # {} => Max(shown) \in shown
    BY <1>1, LastOf
  <2> QED BY <1>1, <2>1, RequestAssumption DEF Viewers
<1>5. fallbacks \in Nat
  <2>1. {i \in shown : lines[i].fallback} \in SUBSET (1..Len(lines))
    BY <1>1
  <2>2. Cardinality({i \in shown : lines[i].fallback}) \in Nat
    BY <1>1, <2>1, Counting
  <2> QED BY <2>2 DEF Viewers
<1>6. ShowDecisions(v, lines) = v4
  BY DEF ShowDecisions
<1> HIDE DEF seen, outcomes, tick, fallbacks
<1>7. v1 \in Viewers
  BY <1>2 DEF Viewers
<1> HIDE DEF v1
<1>8. v2 \in Viewers
  BY <1>3, <1>7 DEF Viewers
<1> HIDE DEF v2
<1>9. v3 \in Viewers
  BY <1>4, <1>8 DEF Viewers
<1> HIDE DEF v3
<1>10. v4 \in Viewers
  BY <1>5, <1>9 DEF Viewers
<1> QED BY <1>6, <1>10

LEMMA PollDecisionsType ==
  ASSUME IInv, ViewerOK, PollDecisions
  PROVE  ViewerOK'
<1> DEFINE v == ShowDecisions(viewer, Fresh("decisions", viewer.decisionsRead))
           count == LinesIn("decisions")
           missed == v.missed \cup
             {i \in {count} : torn = "decisions" /\ viewer.decisionsRead < i}
           v1 == [v EXCEPT !.at = "others"]
           v2 == [v1 EXCEPT !.decisionsRead = count]
           v3 == [v2 EXCEPT !.missed = missed]
<1>1. viewer \in Viewers /\ viewer.decisionsRead \in Nat
  BY DEF ViewerOK, Viewers
<1>2. v \in Viewers
  BY <1>1, FreshLines, ShowDecisionsType DEF IInv, FilesOK
<1>3. count \in Nat
  BY LinesInType DEF IInv, LogNames
<1>4. viewer' = v3
  BY DEF PollDecisions
<1> HIDE DEF v, count
<1>5. missed \in SUBSET Nat
  BY <1>2, <1>3 DEF Viewers
<1> HIDE DEF missed
<1>6. v1 \in Viewers
  BY <1>2 DEF Viewers
<1> HIDE DEF v1
<1>7. v2 \in Viewers
  BY <1>3, <1>6 DEF Viewers
<1> HIDE DEF v2
<1>8. v3 \in Viewers
  BY <1>5, <1>7 DEF Viewers
<1> QED BY <1>4, <1>8 DEF ViewerOK, Viewers

LEMMA PollOthersType ==
  ASSUME IInv, ViewerOK, PollOthers
  PROVE  ViewerOK'
<1> DEFINE lines == Fresh("events", viewer.eventsRead)
           count == LinesIn("events")
           notices == viewer.notices + Cardinality(Noticed(lines))
           status == IF resultFile # Absent /\ resultFile.status = "completed"
                     THEN "completed" ELSE viewer.status
           v1 == [viewer EXCEPT !.at = "decisions"]
           v2 == [v1 EXCEPT !.eventsRead = count]
           v3 == [v2 EXCEPT !.notices = notices]
           v4 == [v3 EXCEPT !.status = status]
<1>1. viewer \in Viewers /\ viewer.eventsRead \in Nat
  BY DEF ViewerOK, Viewers
<1>2. count \in Nat
  BY LinesInType DEF IInv, LogNames
<1>3. lines \in Seq(Lines)
  BY <1>1, FreshLines DEF IInv, FilesOK
<1>4. viewer' = v4
  BY DEF PollOthers
<1> HIDE DEF lines, count
<1>5. notices \in Nat
  <2>1. Len(lines) \in Nat /\ Noticed(lines) \in SUBSET (1..Len(lines))
    BY <1>3 DEF Noticed
  <2>2. Cardinality(Noticed(lines)) \in Nat
    BY <2>1, Counting
  <2> QED BY <1>1, <2>2 DEF Viewers
<1>6. status \in {"waiting", "completed"}
  BY <1>1 DEF Viewers
<1> HIDE DEF notices, status
<1>7. v1 \in Viewers
  BY <1>1 DEF Viewers
<1> HIDE DEF v1
<1>8. v2 \in Viewers
  BY <1>2, <1>7 DEF Viewers
<1> HIDE DEF v2
<1>9. v3 \in Viewers
  BY <1>5, <1>8 DEF Viewers
<1> HIDE DEF v3
<1>10. v4 \in Viewers
  BY <1>6, <1>9 DEF Viewers
<1> QED BY <1>4, <1>10 DEF ViewerOK, Viewers

\* The files, the writer and the viewer hold what the code lets them hold.
THEOREM TypeCorrect == Spec => []TypeOK
<1>1. Init => ViewerOK
  BY DEF Init, ViewerOK, Viewers
<1>2. ASSUME IInv, ViewerOK, [Next]_vars
      PROVE  ViewerOK'
  <2>1. CASE UNCHANGED viewer
    BY <1>2, <2>1 DEF ViewerOK
  <2>2. CASE Mount
    BY <1>2, <2>2 DEF ViewerOK, Viewers, Mount
  <2>3. CASE Poll
    BY <1>2, <2>3, PollDecisionsType, PollOthersType DEF Poll
  <2>4. CASE Call
    <3>1. UNCHANGED viewer
      BY <2>4 DEF Call, Create, AppendEvent, ResolveDecision, Finalize, UpdateReplayPath
    <3> QED BY <2>1, <3>1
  <2>5. CASE Operate
    <3>1. UNCHANGED viewer
      BY <2>5 DEF Operate, AppendLine, Make, PersistMetrics, PersistReplayIndex, PersistResult
    <3> QED BY <2>1, <3>1
  <2>6. CASE Kill \/ \E log \in LogNames : TearLine(log)
    <3>1. UNCHANGED viewer
      BY <2>6 DEF Kill, TearLine
    <3> QED BY <2>1, <3>1
  <2>7. CASE UNCHANGED vars
    BY <2>1, <2>7 DEF vars
  <2> QED BY <1>2, <2>2, <2>3, <2>4, <2>5, <2>6, <2>7 DEF Next
<1>3. IInv /\ ViewerOK => TypeOK
  BY Typed DEF IInv
<1> QED BY Invariance, <1>1, <1>2, <1>3, PTL DEF Spec

-----------------------------------------------------------------------------
(* The directory implements MatchRecord *)

\* The verdict of a final result, as a reader takes it.
VerdictOf(r) == [status |-> r.status, decisions |-> r.metrics.decisions,
                 replay |-> r.replay]

LEMMA VerdictIs ==
  ASSUME DataOK
  PROVE  /\ Final(result) =>
              VerdictOf(result) \in Verdicts /\ VerdictOf(result) # Absent
         /\ resultFile # Absent /\ Final(resultFile) =>
              /\ Verdict = VerdictOf(resultFile)
              /\ Verdict \in Verdicts /\ Verdict # Absent
         /\ ~(resultFile # Absent /\ Final(resultFile)) => Verdict = Absent
<1>1. ASSUME NEW r \in Results, Final(r)
      PROVE  VerdictOf(r) \in Verdicts /\ VerdictOf(r) # Absent
  <2>1. VerdictOf(r) \in Verdicts
    BY <1>1 DEF Results, Metrics, Verdicts, VerdictOf, Final
  <2> QED BY <2>1, AbsentAssumption
<1>2. resultFile # Absent => resultFile \in Results
  BY DEF DataOK
<1>3. result \in Results
  BY DEF DataOK
<1>4. resultFile # Absent /\ Final(resultFile) => Verdict = VerdictOf(resultFile)
  BY DEF Verdict, VerdictOf, Final
<1>5. ~(resultFile # Absent /\ Final(resultFile)) => Verdict = Absent
  BY DEF Verdict, Final
<1> QED BY <1>1, <1>2, <1>3, <1>4, <1>5

\* The line of a decision is a Record of the abstract log.
LEMMA LineRecords ==
  ASSUME IInv, AppendLine("decisions")
  PROVE  \E line \in Lines : Record!Record(line)
<1>1. /\ Writing /\ DataOK /\ Head(todo).line \in Lines /\ todo \notin LateCalls
      /\ resultFile' = resultFile
      /\ logs' = [logs EXCEPT !["decisions"] = Append(@, Head(todo).line)]
  BY LineAtHand DEF AppendLine, LogNames
<1>2. logs'["decisions"] = Append(logs["decisions"], Head(todo).line)
  BY <1>1 DEF DataOK, LogNames
<1>3. ~(resultFile # Absent /\ Final(resultFile))
  BY <1>1 DEF Writing, ResultCloses, Final
<1>4. Verdict = Absent /\ Verdict' = Verdict
  BY <1>1, <1>3, VerdictIs DEF Verdict
<1> QED BY <1>1, <1>2, <1>4 DEF Record!Record

\* The first final result closes the record, a later one links the replay.
LEMMA ResultRecords ==
  ASSUME IInv, PersistResult
  PROVE  Record!Next \/ UNCHANGED <<logs["decisions"], Verdict>>
<1>1. /\ Writing /\ DataOK /\ FilesOK /\ resultFile' = result /\ result \in Results
      /\ logs' = logs
  BY DEF PersistResult, AtHand, IInv, DataOK
<1>2. result # Absent
  BY <1>1, AbsentAssumption
<1>3. CASE ~Final(result)
  <2>1. ~(resultFile # Absent /\ Final(resultFile))
    BY <1>1, <1>3 DEF Writing, ResultCloses, Final
  <2>2. Verdict = Absent
    BY <1>1, <2>1, VerdictIs
  <2>3. Verdict' = Absent
    BY <1>1, <1>3 DEF Verdict, Final
  <2> QED BY <1>1, <2>2, <2>3
<1>4. CASE Final(result)
  <2>1. /\ Verdict' = VerdictOf(result) /\ VerdictOf(result) \in Verdicts
        /\ result.metrics.decisions = Len(logs["decisions"])
    BY <1>1, <1>2, <1>4, VerdictIs DEF Verdict, VerdictOf, Final, Writing, ResultCloses
  <2>2. /\ result.status \in Statuses \ {"in_progress"}
        /\ result.replay \in Paths \cup {NoPath}
    BY <1>1, <1>4 DEF Results, Final
  <2>3. CASE resultFile # Absent /\ Final(resultFile)
    <3>1. /\ Verdict = VerdictOf(resultFile) /\ Verdict # Absent
          /\ result.status = resultFile.status
          /\ resultFile.metrics.decisions = Len(logs["decisions"])
      BY <1>1, <2>3, VerdictIs DEF FilesOK, VerdictCounts, Writing, ResultCloses
    <3>2. Verdict' = [Verdict EXCEPT !.replay = result.replay]
      BY <2>1, <3>1 DEF VerdictOf
    <3>3. Record!Link(result.replay)
      BY <1>1, <3>1, <3>2 DEF Record!Link
    <3> QED BY <2>2, <3>3 DEF Record!Next
  <2>4. CASE ~(resultFile # Absent /\ Final(resultFile))
    <3>1. Verdict = Absent
      BY <1>1, <2>4, VerdictIs
    <3>2. Verdict' = [status |-> result.status, decisions |-> Len(logs["decisions"]),
                      replay |-> result.replay]
      BY <2>1 DEF VerdictOf
    <3>3. Record!Close([status |-> result.status, decisions |-> Len(logs["decisions"]),
                        replay |-> result.replay])
      BY <1>1, <3>1, <3>2 DEF Record!Close
    <3> QED BY <2>2, <3>3 DEF Record!Next
  <2> QED BY <2>3, <2>4
<1> QED BY <1>3, <1>4

LEMMA NextRecords ==
  ASSUME IInv, [Next]_vars
  PROVE  Record!Next \/ UNCHANGED <<logs["decisions"], Verdict>>
<1>1. CASE UNCHANGED <<logs, resultFile>>
  BY <1>1 DEF Verdict
<1>2. CASE Call
  BY <1>1, <1>2
     DEF Call, Create, AppendEvent, ResolveDecision, Finalize, UpdateReplayPath, files
<1>3. CASE Operate
  <2>1. CASE AppendLine("decisions")
    BY <2>1, LineRecords DEF Record!Next
  <2>2. ASSUME NEW log \in {"events", "prompts"}, AppendLine(log)
        PROVE  UNCHANGED <<logs["decisions"], Verdict>>
    <3>1. logs' = [logs EXCEPT ![log] = Append(@, Head(todo).line)] /\ resultFile' = resultFile
      BY <2>2 DEF AppendLine
    <3>2. logs'["decisions"] = logs["decisions"]
      BY <3>1 DEF IInv, DataOK, LogNames
    <3> QED BY <3>1, <3>2 DEF Verdict
  <2>3. CASE \E name \in {"manifest", "logs"} : Make(name)
    BY <1>1, <2>3 DEF Make
  <2>4. CASE PersistMetrics \/ PersistReplayIndex
    BY <1>1, <2>4 DEF PersistMetrics, PersistReplayIndex
  <2>5. CASE PersistResult
    BY <2>5, ResultRecords
  <2> QED BY <1>3, <2>1, <2>2, <2>3, <2>4, <2>5 DEF Operate, LogNames
<1>4. CASE Kill \/ Mount \/ Poll \/ (\E log \in LogNames : TearLine(log)) \/ UNCHANGED vars
  BY <1>1, <1>4 DEF Kill, Mount, Poll, PollDecisions, PollOthers, TearLine, vars, files
<1> QED BY <1>2, <1>3, <1>4 DEF Next

\* The run directory keeps the promise of MatchRecord: a log that only grows,
\* closed once by a verdict that counts it.
THEOREM DirectoryImplementsRecord == Spec => ImplementsMatchRecord
<1>1. Init => Record!Init
  BY DEF Init, Record!Init, Verdict, LogNames
<1>2. IInv /\ [Next]_vars => [Record!Next]_<<logs["decisions"], Verdict>>
  BY NextRecords
<1> QED BY Invariance, <1>1, <1>2, PTL DEF Spec, ImplementsMatchRecord, Record!Spec

=============================================================================
