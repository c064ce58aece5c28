--------------------------- MODULE ArtifactWriter ---------------------------
(***************************************************************************)
(* The run directory of one match: MatchArtifactWriter, the only process   *)
(* that writes it, and the live viewer YomiTUI, a process of its own that  *)
(* polls it while it grows.  Three logs are appended to (JSONL, one record *)
(* a line); metrics.json, replay_index.json and result.json are replaced   *)
(* as a whole by a rename.                                                 *)
(*                                                                         *)
(* A call of the writer is synchronous and holds its lock, but the files   *)
(* change one after the other: each file operation is a step, an append    *)
(* may take two (a record longer than the buffer is on disk in part before *)
(* its line is complete), and between any two steps the viewer may read or *)
(* the daemon be killed, which run_match.sh does once it sees a result.    *)
(* The writer never opens a directory that exists: nothing is resumed.     *)
(*                                                                         *)
(* A definition whose name ends in Bug is a faulty variant used by the     *)
(* mutation runs only.                                                     *)
(***************************************************************************)
EXTENDS Naturals, Sequences, FiniteSets, SequencesExt

CONSTANTS
  MaxTurns,   \* the turns of the match
  Request,    \* per turn, what its request is about: player, tick, outcomes
  Prompted,   \* the players whose prompts are logged
  MaxEvents,  \* bound on the events logged
  MaxErrors,  \* bound on the errors a match ends with
  Paths,      \* the replay paths the mod can name
  NoPath,     \* stands for None where a path could be
  Absent      \* a file that does not exist

Turns   == 1..MaxTurns
Players == {"p1", "p2"}

ASSUME BoundsAssumption  == MaxTurns \in Nat /\ MaxEvents \in Nat /\ MaxErrors \in Nat
ASSUME RequestAssumption ==
  \A t \in Turns : /\ Request[t].player \in Players
                   /\ Request[t].tick \in Nat
                   /\ Request[t].outcomes \subseteq Nat
ASSUME PromptAssumption  == Prompted \subseteq Players
ASSUME PathAssumption    == NoPath \notin Paths

VARIABLES
  \* the files
  logs,         \* events, prompts, decisions: their complete lines
  torn,         \* the log that ends in a part of a line, or "none"
  made,         \* manifest.json and the empty logs, as far as they exist
  metricsFile,  \* metrics.json
  indexFile,    \* replay_index.json
  resultFile,   \* result.json
  \* the writer
  daemon,       \* "none", "writing", "killed"
  todo,         \* the file operations left of the call in progress
  metrics,      \* _metrics
  index,        \* _replay_index
  result,       \* _result
  \* the viewer
  viewer

files  == <<logs, torn, made, metricsFile, indexFile, resultFile>>
memory == <<metrics, index, result>>
vars   == <<files, daemon, todo, memory, viewer>>

LogNames   == {"events", "prompts", "decisions"}
\* Noise stands for the events the viewer skips, Error for those it shows; the
\* metrics count it as an error.
EventKinds == {"Noise", "Error"}
Statuses   == {"in_progress", "completed", "failed"}

Lines == [kind : EventKinds \cup {"prompt", "decision"}, turn : 0..MaxTurns,
          fallback : BOOLEAN]
EventLine(kind)    == [kind |-> kind, turn |-> 0, fallback |-> FALSE]
PromptLine(t)      == [kind |-> "prompt", turn |-> t, fallback |-> FALSE]
DecisionLine(t, f) == [kind |-> "decision", turn |-> t, fallback |-> f]

Metrics == [status : Statuses, events : Nat, prompts : Nat, decisions : Nat,
            fallbacks : Nat, errors : Nat]
\* A pointer 0 is None: the turn has no prompt, or no decision.
Pointers == [prompts : Nat, decisions : Nat]
Indexes  == [turns : [Turns -> Pointers], replay : Paths \cup {NoPath}]
Results  == [status : Statuses, reason : {"none", "match_ended", "disconnect"},
             replay : Paths \cup {NoPath}, metrics : Metrics]

\* What a reader takes from a final result.json.
Verdicts == [status : Statuses \ {"in_progress"}, decisions : Nat,
             replay : Paths \cup {NoPath}]

ASSUME AbsentAssumption ==
  Absent \notin Metrics \cup Indexes \cup Results \cup Verdicts

\* A file operation: the append of a line to a log, or the creation or the
\* replacement of a file (which needs no line).
NoLine     == EventLine("Noise")
Operations == [file : LogNames \cup {"manifest", "logs", "metrics", "index", "result"},
               line : Lines]
AppendOp(log, line) == [file |-> log, line |-> line]
FileOp(file)        == [file |-> file, line |-> NoLine]

NoMetrics == [status |-> "in_progress", events |-> 0, prompts |-> 0,
              decisions |-> 0, fallbacks |-> 0, errors |-> 0]

NoIndex   == [turns  |-> [t \in Turns |-> [prompts |-> 0, decisions |-> 0]],
              replay |-> NoPath]
NoResult  == [status |-> "in_progress", reason |-> "none", replay |-> NoPath,
              metrics |-> NoMetrics]

Init ==
  /\ logs = [l \in LogNames |-> <<>>] /\ torn = "none" /\ made = {}
  /\ metricsFile = Absent /\ indexFile = Absent /\ resultFile = Absent
  /\ daemon = "none" /\ todo = <<>>
  /\ metrics = NoMetrics /\ index = NoIndex /\ result = NoResult
  /\ viewer = [at |-> "off", decisionsRead |-> 0, eventsRead |-> 0,
               seen |-> {}, outcomes |-> {}, tick |-> 0, fallbacks |-> 0,
               notices |-> 0, status |-> "waiting", missed |-> {}]

-----------------------------------------------------------------------------
(* The calls.  A call may begin when the one before it is done. *)

Idle == daemon = "writing" /\ todo = <<>>

Create ==
  /\ daemon = "none"
  /\ daemon' = "writing"
  /\ todo' = <<FileOp("manifest"), FileOp("logs"), FileOp("metrics"),
               FileOp("result"), FileOp("index")>>
  /\ UNCHANGED <<files, memory, viewer>>

AppendEventBug(kind) ==   \* leaves the metrics for the next call to persist
  /\ Idle /\ Len(logs["events"]) < MaxEvents
  /\ todo' = <<AppendOp("events", EventLine(kind))>>
  /\ UNCHANGED <<files, daemon, memory, viewer>>

AppendEvent(kind) ==
  /\ Idle /\ Len(logs["events"]) < MaxEvents
  /\ todo' = <<AppendOp("events", EventLine(kind)), FileOp("metrics")>>
  /\ UNCHANGED <<files, daemon, memory, viewer>>

AppendPrompt(t) ==
  <<AppendOp("prompts", PromptLine(t)), FileOp("metrics"), FileOp("index")>>

AppendDecision(t, f) ==
  <<AppendOp("decisions", DecisionLine(t, f)), FileOp("metrics"), FileOp("index")>>

Decided == {logs["decisions"][i].turn : i \in DOMAIN logs["decisions"]}

\* The adapter's answer to a request is there: its prompt, if prompts are
\* logged and the adapter is one that prompts (the baselines do not, nor do
\* they fall back), and the decision, with no await between the calls.  The
\* tasks of several turns come to this in any order, each once, and not after
\* the match was finalized (ResultIsFinal of MatchLoop).
ResolveDecision(t, f) ==
  /\ Idle /\ t \notin Decided /\ result.status = "in_progress"
  /\ IF Request[t].player \in Prompted
     THEN todo' = AppendPrompt(t) \o AppendDecision(t, f)
     ELSE ~f /\ todo' = AppendDecision(t, f)
  /\ UNCHANGED <<files, daemon, memory, viewer>>

FinalStatusBug(failures) ==   \* not a status the readers know
  IF failures > 0 THEN "error" ELSE "completed"

\* failures: how many different errors the loop and match_ended report.
FinalStatus(failures) == IF failures > 0 THEN "failed" ELSE "completed"

SnapshotBug(m) == result.metrics   \* keeps the metrics of the old result

\* The metrics inside result.json, frozen here.
Snapshot(m) == m

FinalOpsBug == <<FileOp("result"), FileOp("metrics"), FileOp("index")>>

FinalOps == <<FileOp("metrics"), FileOp("index"), FileOp("result")>>

Finalize(reason, failures, path) ==
  /\ Idle /\ result.status = "in_progress"
  /\ metrics' = [metrics EXCEPT !.status = FinalStatus(failures),
                                !.errors = IF @ < failures THEN failures ELSE @]
  /\ index' = [index EXCEPT !.replay = path]
  /\ result' = [status |-> FinalStatus(failures), reason |-> reason,
                replay |-> path, metrics |-> Snapshot(metrics')]
  /\ todo' = FinalOps
  /\ UNCHANGED <<files, daemon, viewer>>

\* In the replay phase, which only follows a match_ended.
UpdateReplayPath(path) ==
  /\ Idle /\ result.reason = "match_ended"
  /\ index' = [index EXCEPT !.replay = path]
  /\ result' = [result EXCEPT !.replay = path]
  /\ todo' = <<FileOp("index"), FileOp("result")>>
  /\ UNCHANGED <<files, daemon, metrics, viewer>>

-----------------------------------------------------------------------------
(* The file operations of a call, in their order *)

AtHand(file) == daemon = "writing" /\ todo # <<>> /\ Head(todo).file = file

CountLine(log, line) ==
  [metrics EXCEPT ![log]       = @ + 1,
                  !.fallbacks  = IF line.fallback THEN @ + 1 ELSE @,
                  !.errors     = IF line.kind = "Error" THEN @ + 1 ELSE @]

IndexLineBug(log, line, number) ==   \* the lines there were before this one
  IF log = "events" THEN index
  ELSE [index EXCEPT !.turns[line.turn][log] = number - 1]

\* record_prompt keeps what is known of the decision, record_decision what is
\* known of the prompt.
IndexLine(log, line, number) ==
  IF log = "events" THEN index
  ELSE [index EXCEPT !.turns[line.turn][log] = number]

\* The part of a line that left the buffer.
TearLine(log) ==
  /\ AtHand(log) /\ torn = "none"
  /\ torn' = log
  /\ UNCHANGED <<logs, made, metricsFile, indexFile, resultFile, daemon, todo,
                 memory, viewer>>

\* The line is complete, and the call goes on in memory.
AppendLine(log) ==
  /\ AtHand(log)
  /\ torn' = "none"
  /\ logs' = [logs EXCEPT ![log] = Append(@, Head(todo).line)]
  /\ metrics' = CountLine(log, Head(todo).line)
  /\ index' = IndexLine(log, Head(todo).line, Len(logs'[log]))
  /\ todo' = Tail(todo)
  /\ UNCHANGED <<made, metricsFile, indexFile, resultFile, daemon, result, viewer>>

Make(name) ==
  /\ AtHand(name)
  /\ made' = made \cup {name}
  /\ todo' = Tail(todo)
  /\ UNCHANGED <<logs, torn, metricsFile, indexFile, resultFile, daemon, memory,
                 viewer>>

PersistMetrics ==
  /\ AtHand("metrics")
  /\ metricsFile' = metrics
  /\ todo' = Tail(todo)
  /\ UNCHANGED <<logs, torn, made, indexFile, resultFile, daemon, memory, viewer>>

PersistReplayIndex ==
  /\ AtHand("index")
  /\ indexFile' = index
  /\ todo' = Tail(todo)
  /\ UNCHANGED <<logs, torn, made, metricsFile, resultFile, daemon, memory, viewer>>

PersistResult ==
  /\ AtHand("result")
  /\ resultFile' = result
  /\ todo' = Tail(todo)
  /\ UNCHANGED <<logs, torn, made, metricsFile, indexFile, daemon, memory, viewer>>

\* SIGTERM or SIGKILL from a driver script, a crash: memory is gone and the
\* files stay as they are.
Kill ==
  /\ daemon = "writing"
  /\ daemon' = "killed"
  /\ todo' = <<>>
  /\ metrics' = NoMetrics /\ index' = NoIndex /\ result' = NoResult
  /\ UNCHANGED <<files, viewer>>
-----------------------------------------------------------------------------
(* The viewer *)

\* _find_latest_run looks for a directory with a decisions.jsonl.
Mount ==
  /\ viewer.at = "off" /\ "logs" \in made
  /\ viewer' = [viewer EXCEPT !.at = "decisions"]
  /\ UNCHANGED <<files, daemon, todo, memory>>

\* readlines() returns the torn line too; it does not parse, and is skipped.
LinesIn(log) == Len(logs[log]) + (IF torn = log THEN 1 ELSE 0)
Fresh(log, read) == SubSeq(logs[log], read + 1, Len(logs[log]))

Key(t) == <<Request[t].player, Request[t].tick>>

ShownBug(v, lines) ==   \* takes the tick alone for a duplicate
  LET tick(i) == Request[lines[i].turn].tick
  IN  {i \in DOMAIN lines : /\ \A k \in v.seen : k[2] # tick(i)
                            /\ \A j \in 1..(i - 1) : tick(j) # tick(i)}

\* Only the first decision per player and tick is shown.
Shown(v, lines) ==
  {i \in DOMAIN lines : /\ Key(lines[i].turn) \notin v.seen
                        /\ \A j \in 1..(i - 1) : Key(lines[j].turn) # Key(lines[i].turn)}

\* With a decision come the outcomes in its request's history; those that were
\* shown before are not shown again.
ShowDecisions(v, lines) ==
  LET shown == Shown(v, lines)
  IN  [v EXCEPT
        !.seen      = @ \cup {Key(lines[i].turn) : i \in shown},
        !.outcomes  = @ \cup UNION {Request[lines[i].turn].outcomes : i \in shown},
        !.tick      = IF shown = {} THEN @ ELSE Request[lines[Max(shown)].turn].tick,
        !.fallbacks = @ + Cardinality({i \in shown : lines[i].fallback})]

\* The offset counts the torn line as read: once complete it is not read again.
PollDecisions ==
  /\ viewer.at = "decisions"
  /\ LET read  == viewer.decisionsRead
         count == LinesIn("decisions")
     IN  viewer' = [ShowDecisions(viewer, Fresh("decisions", read)) EXCEPT
           !.at            = "others",
           !.decisionsRead = count,
           !.missed        = @ \cup {i \in {count} : torn = "decisions" /\ read < i}]
  /\ UNCHANGED <<files, daemon, todo, memory>>

\* The events among the lines that get a line of the log panel.
Noticed(lines) == {i \in DOMAIN lines : lines[i].kind # "Noise"}

\* _poll_events and _poll_result, one step here: nothing relates what they
\* show.  Only a completed match is reported: after a failed one, as during a
\* match, the header keeps saying "waiting".
PollOthers ==
  /\ viewer.at = "others"
  /\ viewer' = [viewer EXCEPT
       !.at         = "decisions",
       !.eventsRead = LinesIn("events"),
       !.notices    = @ + Cardinality(Noticed(Fresh("events", viewer.eventsRead))),
       !.status     = IF resultFile # Absent /\ resultFile.status = "completed"
                      THEN "completed" ELSE @]
  /\ UNCHANGED <<files, daemon, todo, memory>>
-----------------------------------------------------------------------------
Call ==
  \/ Create
  \/ \E kind \in EventKinds : AppendEvent(kind)
  \/ \E t \in Turns, f \in BOOLEAN : ResolveDecision(t, f)
  \/ \E failures \in 0..MaxErrors, path \in Paths \cup {NoPath} :
       Finalize("match_ended", failures, path)
  \/ \E failures \in 0..MaxErrors : Finalize("disconnect", failures, NoPath)
  \/ \E path \in Paths : UpdateReplayPath(path)

Operate ==
  \/ \E log \in LogNames : AppendLine(log)
  \/ \E name \in {"manifest", "logs"} : Make(name)
  \/ PersistMetrics \/ PersistReplayIndex \/ PersistResult

Poll == PollDecisions \/ PollOthers

Next == \/ Call \/ Operate \/ \E log \in LogNames : TearLine(log)
        \/ Kill
        \/ Mount \/ Poll

Spec == Init /\ [][Next]_vars

\* A call runs to its end unless the daemon is killed, and the viewer polls by
\* an interval timer.  Nobody need call, kill or watch.
Fairness == WF_vars(Operate) /\ WF_vars(Poll)

FairSpec == Spec /\ Fairness
-----------------------------------------------------------------------------
(* What must hold *)

TypeOK ==
  /\ logs \in [LogNames -> Seq(Lines)]
  /\ torn \in LogNames \cup {"none"}
  /\ made \in SUBSET {"manifest", "logs"}
  /\ metricsFile \in Metrics \cup {Absent}
  /\ indexFile \in Indexes \cup {Absent}
  /\ resultFile \in Results \cup {Absent}
  /\ daemon \in {"none", "writing", "killed"}
  /\ todo \in Seq(Operations)
  /\ metrics \in Metrics /\ index \in Indexes /\ result \in Results
  /\ viewer \in [at : {"off", "decisions", "others"}, decisionsRead : Nat,
                 eventsRead : Nat, seen : SUBSET (Players \X Nat), outcomes : SUBSET Nat,
                 tick : Nat, fallbacks : Nat, notices : Nat,
                 status : {"waiting", "completed"}, missed : SUBSET Nat]

Lagging(log) == Len(logs[log]) - metricsFile[log]

\* What the first n lines of a log tell.
Errors(n)    == Cardinality({i \in 1..n : logs["events"][i].kind = "Error"})
Fallbacks(n) == Cardinality({i \in 1..n : logs["decisions"][i].fallback})

\* Whenever the daemon is killed, metrics.json is behind the three logs
\* together by at most the one line that was just written, never ahead of
\* them, and its other counters are those of the lines it counts; only a failed
\* match may count more errors, those it ended with.
CountersFollowLogs ==
  metricsFile # Absent =>
    /\ \A l \in LogNames : Lagging(l) >= 0
    /\ Lagging("events") + Lagging("prompts") + Lagging("decisions") <= 1
    /\ metricsFile.fallbacks = Fallbacks(metricsFile.decisions)
    /\ metricsFile.errors - Errors(metricsFile.events)
         \in (IF metricsFile.status = "failed" THEN 0..MaxErrors ELSE {0})

\* The pointers of the replay index never lead to the line of another turn or
\* past the end of a log, and at most the last line of a log lacks its
\* pointer, whenever the daemon is killed.
IndexFollowsLogs ==
  indexFile # Absent =>
    \A l \in {"prompts", "decisions"} :
      /\ \A t \in Turns : LET n == indexFile.turns[t][l]
                          IN  n # 0 => n <= Len(logs[l]) /\ logs[l][n].turn = t
      /\ \A i \in 1..(Len(logs[l]) - 1) : indexFile.turns[logs[l][i].turn][l] = i

\* A reader that finds a result finds the other files finished: the metrics
\* and the index were replaced before, and no decision comes after.
ResultIsLast ==
  resultFile # Absent /\ resultFile.status # "in_progress" =>
    /\ metricsFile.status = resultFile.status
    /\ metricsFile.decisions = Len(logs["decisions"])
    /\ \A i \in DOMAIN logs["decisions"] :
         indexFile.turns[logs["decisions"][i].turn].decisions = i

\* What the directory promises its readers: once closed, the verdict and the
\* log it counts stand, whatever is logged in the replay phase.
Verdict ==
  IF resultFile = Absent \/ resultFile.status = "in_progress" THEN Absent
  ELSE [status |-> resultFile.status, decisions |-> resultFile.metrics.decisions,
        replay |-> resultFile.replay]

Record == INSTANCE MatchRecord WITH
  Lines <- Lines, Statuses <- Statuses \ {"in_progress"},
  Paths <- Paths \cup {NoPath}, Open <- Absent,
  log <- logs["decisions"], verdict <- Verdict

ImplementsMatchRecord == Record!Spec

\* A viewer shows each decision in the log, or an earlier one of the same
\* player and tick, unless its poll came upon the line half written (such a
\* line is skipped for good), and reports the end of a completed match.
ViewerCatchesUp ==
  /\ \A i \in Turns :
       (viewer.at # "off" /\ i \in DOMAIN logs["decisions"]) ~>
         (i \in DOMAIN logs["decisions"] /\
            (i \in viewer.missed \/ Key(logs["decisions"][i].turn) \in viewer.seen))
  /\ (viewer.at # "off" /\ resultFile # Absent /\ resultFile.status = "completed")
       ~> viewer.status = "completed"
=============================================================================
