# Verification of budok-ai

budok-ai lets language models play YOMI Hustle. A mod of the Godot game
(GDScript, `src/mod/YomiLLMBridge/`) notices when a fighter has to choose, sends
a `decision_request` over a WebSocket to a daemon (Python asyncio,
`src/daemon/src/yomi_daemon/`), which asks a model provider, and applies the
`action_decision` that comes back. Both sides have deadlines, validation and
fallbacks of their own, because a game that waits for a model must never hang,
and must never be handed an action it does not allow. The daemon logs everything
it decides as artifacts of the match; tournaments, reports and scripts read these.

This directory holds TLA+ models of that machinery, the TLC instances that check
them, and theorems with TLAPS proofs.

## 1. Inventory

| Component | State | Operations | Hard behaviour | What makes it correct |
|---|---|---|---|---|
| Turn lifecycle, `bridge/TurnHook.gd`, `Telemetry.gd` | `_turn_id`, pending requests and timestamps, turn history, `_match_ended`, replay monitor | `_attach_to_game`, `_on_player_actionable`, `_on_daemon_message`, `_check_timeouts`, `_on_daemon_disconnected`, match end, replay monitor | repeated signals, late or repeated answers, answer/timeout/disconnect/match end racing for one request, requests after the connection is gone | a request is current, single, settled once; only legal actions, once per tick; history and telemetry agree; the match ends |
| Validation, fallback, application, `DecisionValidator.gd`, `FallbackHandler.gd`, `ActionApplier.gd` | `_last_valid_decisions` | validate, choose fallback, apply | replaying a prior decision in a new situation, empty legal lists | a fallback is legal and is applied |
| Bridge connection, `BridgeClient.gd`, `ProtocolCodec.gd` | socket and handshake state | connect, poll, send, disconnect once | loss at any moment | `daemon_disconnected` once |
| Bootstrap, `ModMain.gd`, `AutoMatchStarter.gd`, `RuntimeCompatibility.gd`, `ui/` | merged config, menu position | load config, drive the menus | scene changes | configuration precedence |
| Observation and legal actions, `ObservationBuilder.gd`, `LegalActionBuilder.gd`, `IdentifierFactory.gd` | none | extraction from game objects | - | the lists are what the buttons offer |
| Replay recorder, `AutoReplayRecorder.gd` | menu position | menu automation | - | - |
| Match loop, `server.py` `_run_match_loop`, `_handle_decision_request`, `_handle_replay_capture` | writer, seen requests, tasks, errors, match end | read a message, start a task, answer, drain, cancel, finalize | tasks in flight when the match or the connection ends | nothing behind the result, nothing lost at a regular end, one answer per request, the server is freed |
| Server lifecycle, `server.py` start/stop/`_handle_connection`, `cli.py`, `ids.py` | listener, stop event | handshake, sessions, `request_stop` | several sessions, stop while one is handshaking | a session is refused or served, stop ends all |
| Orchestration and adapters, `orchestrator.py`, `response_parser.py`, `fallback.py`, `validation.py`, `adapters/` | none between requests | provider call, correction, error mapping, fallback | two timeouts racing, correction retry, any provider failure | legal, on time, always, with the true reason |
| Baselines, prompts, `adapters/baseline.py`, `prompt.py` | seeded choice | - | - | - |
| Artifact writer, `storage/writer.py`, `replay_index.py` | JSONL files, metrics, index, result | append, finalize | crash between files, snapshot taken too early | files agree after a restart |
| Replay capture, `replay_capture.py` | ffmpeg process | start, stop, pull the video | nested timeouts, replay events in odd order | a recording that was started is pulled |
| Character selection, `character_selection.py` | - | choose before the match | provider failure | always a legal character |
| Protocol, config, `protocol.py`, `config.py`, `manifest.py`, `redact.py` | - | parsing | - | - |
| Tournament, `tournament/` | pairings, rating table, bracket | schedule, run, rate, report, advance | matches that finish out of order, fail or are not found | ratings and reports follow the results; one entrant is left |
| Bracket script, `scripts/run_tournament.sh` | `bracket.json`, game logs | play a series, count, advance, resume | failed and drawn games, kills, a file rewritten in place | nobody who lost plays again |
| Analysis, `analysis/`; viewer, `tui.py` | none; read offsets | join logs, runs and bracket; poll a growing run | inputs of different age, half-written lines | what is shown is what happened |
| Tooling, `run_match.sh`, harnesses | processes | start, poll, kill | the daemon killed at any moment | - |

Interaction: the game signals `TurnHook`; `TurnHook` sends through
`BridgeClient`; the WebSocket is one FIFO queue per direction; `_run_match_loop`
starts one asyncio task per request; a task awaits the adapter, which awaits
`resolve_policy_decision`; the task logs through the writer and answers on the
same connection; `TurnHook` validates and applies the answer. `match_ended` goes
the same way and makes the daemon finalize, record the replay, and stop. The
places where this code is hard to test are listed under `hazards` in
`PROJECT.json`, each with its line and the properties that watch it.

## 2. Modules

| Module | Models | Checked by |
|---|---|---|
| `TurnContract` | what the bridge promises about requests, whatever the means | target of a refinement |
| `TurnHook` | the mod's side: game, hook, validation, fallback, telemetry, replay monitor | `MCTurnHook`, `turnhook_*.cfg` |
| `TurnHookProofs` | inductive invariant and safety theorems; `TurnHook` implements `TurnContract`; telemetry, pending requests and history agree | TLAPS |
| `MatchLoop` | one daemon session after the handshake | `MCMatchLoop`, `matchloop_*.cfg` |
| `MatchLoopProofs` | inductive invariant and the safety theorems of a session | TLAPS |
| `DecisionPolicy` | from a request to a decision inside the daemon | `MCDecisionPolicy`, `policy*.cfg` |
| `DecisionPolicyProofs` | inductive invariant and the safety theorems of a decision | TLAPS |
| `MatchRecord` | what a run directory promises to its readers | target of a refinement |
| `ArtifactWriter` | the files of a run, written one after the other, and the live viewer | `MCArtifactWriter`, `artifacts.cfg` |
| `ArtifactWriterProofs` | inductive invariant, safety theorems, `ArtifactWriter` implements `MatchRecord` | TLAPS |
| `ReplayCapture` | the replay phase of the sessions: ffmpeg, timeouts, pulling | with `DaemonLifecycle` |
| `DaemonLifecycle` | CLI, server, handshakes, character selection, sessions; EXTENDS `ReplayCapture` | `MCDaemonLifecycle`, `daemon.cfg` |
| `DaemonLifecycleProofs` | inductive invariant and safety theorems of both | TLAPS |
| `Elimination` | what a single-elimination bracket promises | target of a refinement |
| `BracketState` | `tournament/bracket.py` | with `Tournament` |
| `BracketScript` | `run_tournament.sh` with kills and resumed runs | with `Tournament` |
| `BracketAnalysis` | what `analysis/` makes of the script's directory; EXTENDS `BracketScript` | with `Tournament` |
| `League` | schedules, runner, ratings, reports | with `Tournament` |
| `Tournament` | the three ways to hold a tournament, their properties | `MCTournament`, `tournament*.cfg` |
| `TournamentProofs` | inductive invariant of the brackets; both take the steps of an `Elimination` | TLAPS |
| `AnalysisProofs` | scores and logs of the script agree; the analysis follows the bracket | TLAPS |
| `LeagueProofs` | types of all of `Tournament`; the standings of a league follow the records | TLAPS |

Definitions keep the source's names where they can; `map` in `PROJECT.json` ties
each to its lines. A definition named `...Bug` is a wrong variant of another
definition; no specification uses it. Putting it in the other's place must break
the property listed with it under `mutants`, which shows that the property
depends on that piece of the code.

### TurnHook

GDScript is single-threaded: every signal handler, deferred call and `_process`
frame is one action. `OnDaemonMessage` is `_on_daemon_message` down to the
clearing of the pending entry, with validation, fallback, application, history
and telemetry; `PlayerActionable` is the signal with `_on_player_actionable`,
including the enrichment of the last history entry that precedes the requests.
`_pending_requests` is the set `pending` of turn ids, its payloads are `sent`,
and `_pending_timestamps` are ages (`age`), capped at `DecisionTimeout`, beyond which
they make no difference. The history is keyed by game tick as in
`_record_turn_decision`; an outcome is represented by the tick it was read at.
An observation is its tick and a legal list a set of action names; scores,
payload schemas and extras are reduced to the verdict the validator gives on
them. The fallback may choose any of the actions its strategy prefers.

The game is external and modelled from the way the code uses it: it stops at a
decision point (a `tick`), awaits one or both players, may emit
`player_actionable` several times, moves on when every awaited fighter has been
handed an action, and ends by its clock (`MatchLength`) or earlier. Assumed of it:
- `on_action_selected` makes a fighter uninterruptible until the tick resolves;
- `player_actionable` is emitted only while somebody is awaited;
- a signal emitted from within an application behaves as one emitted just before
  it, since the pending entry is erased last;
- the nodes and signals that `RuntimeCompatibility` has checked exist.

Messages that correlate with no pending request change nothing and are stuttering
steps. Telemetry is modelled with `logging.events` on, its default: switched off,
`Telemetry.gd` sends no event at all, `ReplayEnded` included, and `AuditTrail` and
`RecordingEnds` would say nothing.

### MatchLoop

asyncio switches tasks at awaits only, so an action is what runs between two
awaits: handling a message; a task up to the provider call (`TaskStarts`);
everything a task does after it up to handing over its answer (`TaskResolves`);
the path from the end of the loop through `finally` to the result (`Finish`).
`trace` is what the daemon itself writes to `events.jsonl` and `decisions.jsonl` per turn, `wire`
the answers sent, `result` what `result.json` says. The provider is the
nondeterministic `TaskResolves` (with or without fallback); that it never raises and
always returns is what `DecisionPolicy` checks. Of `_handle_replay_capture` only
the ways it ends the session are modelled.

Assumed of the websockets library (16.0 in `uv.lock`): FIFO, messages received before a closure can
still be read, a clean closure ends `async for`, an unclean one raises
`ConnectionClosedError`, and the connection is closed when the handler returns
or raises. A cancelled task stops at its await. The mod sends what its protocol
allows, plus frames the loop ignores; two match ids occur in the safety run since
the loop and the writer check them in different places. A `match_ended` may carry
errors, as the protocol allows: `finalize` adds them to the loop's own, and a match
with any is recorded as `failed` (the bundled mod always sends none). `MatchStarted` and the
counts of the mod's own events are left out. A session whose connection is closed
cleanly in mid-match leaves a result with reason `disconnect` and status
`completed`, as no exception tells the loop; the docstring of
`test_reliability.py:201` says `failed`, and its assertion accepts both.

### DecisionPolicy

`TakeUp` begins a request, `ProviderAnswers`, `ConnectionFails`, `ProviderFails`
and `SdkGivesUp` are what a provider call can come to, `DeadlinePasses` is
`asyncio.timeout` around the first call. An output is reduced to what the parser
tells apart: whether there is a decision in it, whether it names this match and
turn, its action, and what is found about its data. `CallLimit` is when the SDK
gives a call up: `decision_timeout_ms` with `max_retries=0` (OpenAI,
OpenRouter), more with the Anthropic SDK's own retries; since the timeouts of
httpx are per phase this limit is an assumption. Timers fire promptly: time
does not pass a due timer.

### ArtifactWriter

The writer's calls are synchronous, but the files change one after the other and
other processes read them, so the unit is the file operation: a call (`Create`,
`AppendEvent`, `AppendPrompt`, `AppendDecision`, `Finalize`,
`UpdateReplayPath`) puts its operations in `todo` in the order of the code, and
`Operate` carries out the next one. A line may reach the disk in two parts
(`TearLine`); the JSON files are replaced by a rename, which is atomic. The
writer's memory (`metrics`, `index`, `result`) is what a call starts from. `Kill` is
the `kill` of `run_match.sh` once it sees a result, between any two operations;
nothing reopens a run directory, so there is no recovery to model, only what a
reader finds. The viewer of `tui.py` polls the decisions, then the rest; a line
read half written is skipped for good, as its offset is not put back. Errors of
the file system (a full disk) are left out.

`MatchRecord` is the promise: a log that grows, then one verdict that counts it
and stays. Events that come after `finalize` change `metrics.json` alone, which
is why the promise is about the decisions.

### ReplayCapture and DaemonLifecycle

`DaemonLifecycle` is the process: `Resolve` of the configuration with its flags,
listening, one handler per connection (`hello`, `choosing`, `ack`, `match`,
`replay`, `done`), the stop that the first session to be served requests as a
task of its own, SIGINT, and the end of the process. A hello is a record of what
the handshake looks at, with one frame per check that can fail. A frame whose
version is a JSON array cannot be hashed: the preflight raises `TypeError` and the
handler dies without the error frame the other refusals send. The match loop is
a stage with the exits `MatchLoop` gives it (it ends, fails, its finalization
raises, the connection ends).

`ReplayCapture` has no clock: `asyncio.timeout(120)` may strike at any
await inside its block, since the mod may take any time before it speaks. The ways
out on which the code leaves a recording in the machine are named in
`CaptureIsKept`: a clean closure or an event of another match while it listens, and a
timeout that strikes in `stop_recording` after `_process` was cleared. External:
ffmpeg and the VM commands by their outcomes, and `Server.close` and `wait_closed` of
websockets 16.0. `run_match.sh:346` speaks of a "websockets wait_closed deadlock";
with the closing of connections that 16.0 does, the model has none.

### Tournament

`League`: `GeneratePairings` is the scheduler; the runner plays in a loop or under a
semaphore, which is first come, first served. The repository has two executors:
`DaemonMatchEnds` is `DaemonMatchExecutor`, which stores its run under the id the
game chose; `FakeMatchEnds` is `FakeMatchExecutor` of `test_tournament_throughput.py`,
which returns a verdict and stores nothing. Neither leaves a run under the id the
runner looks for, so the report of `run_tournament` has a leaderboard and no
matchups, and nothing is claimed of it; verdicts other than a draw reach the ratings
from the fake executor only. That `run_tournament` looks for runs in the default
directory whatever its `runs_root` is (`runner.py:174`) has no effect beside that.
Elo's expected score is a function `Gain` of the
difference with the two properties the code's formula has (what one side gains
the other loses, and the two sides' gains add up to K); rounding is left out, and
a difference beyond `Span` counts as `Span`, so that the ratings need no bound
(in the runs no difference comes near it). What reports collect are
the places of runs, so a table is a function of a set and two equal runs count
twice. `StoredReport` is the
report that `yomi-tournament report` would make of what is on disk at that moment.

`BracketState` is driven the way `next_series` is meant to be: take, play,
record. `BracketScript` is the shell script, in which a bracket is a JSON file that
is emptied and written again; `Kill` may strike anywhere, `Resume` reads the file.
The initial writing of the file counts as one step, and the script is resumed
with the same `--best-of`. A failed game counts for the lower seed, a draw for
nobody, as in `run_series`. `BracketAnalysis` has no actions: its operators are
evaluated in every state, as the analysis may be run at any moment. Its frames are
the prefixes of the order the series were played in, each the set it reveals.

What the models show of this code and no test says:

- the runner looks for results under ids it mints itself, while a daemon files its
  run under the id the game chose: each match of `DaemonMatchExecutor` counts as
  a draw, and `run_tournament`'s matchup table is empty (`runner.py:236`, run
  `tournament_report`);
- `runner.py:63` promises a port of its own to each parallel match; the configured
  port is used, so unless that is 0 all but one fail to bind it (`PortTaken`) and
  their matches are errors;
- the schema allows the format `single_match`, the scheduler knows it as `single`;
- a policy's decisions against itself are counted twice in the report;
- the script's pairing lets seeds 1 and 2 meet in a semifinal, which the comment
  in `bracket.py` rules out for its own order;
- a series with draws may be led by the higher seed and won by the lower one; the analysis then
  names the leader, or at a tie nobody, hence the premise `Decided`;
- one game log without its `Artifacts:` line, in any series, and there is no
  analysis at all; logs of an attempt that was killed count as games;
- the label of the champion appears in the frame of the champion's first series;
- a draw is drawn as a game won by the right-hand side.

## 3. Runs

Passing runs:

- `turnhook_safety`: two decision points, up to three requests, legal lists
  that are empty, overlapping and changing, fallback mode
  `last_valid_replayable` (it contains the two others as branches), every
  verdict, timeouts after one unit, a disconnect at any moment, match end at any
  moment. Two ticks are what a stale answer, a replayed decision and an outcome
  need; three requests let both players be asked at one tick and one again at
  the next. Checks `PendingIsCurrent`, `OneOpenRequest`, `HandedActionIsLegal`,
  `LockedIn`, `AuditTrail` (telemetry, history and pending requests agree),
  `OutcomesAreTrue`, and the refinement `ImplementsContract`. The numbers of
  requests are bounded by `MaxTurns` in `SendRequests`, and the bound does
  not appear in the code.
- `turnhook_liveness`: legal lists are not empty; a match completes, requests
  settle, a recording is told to stop. Four requests are enough for both
  players at both ticks, so the bound never blocks.
- `matchloop_safety`: two match ids, two state hashes (symmetric), three requests, one
  other frame, replay capture on. `ResultIsFinal`, `MatchEndLosesNothing`,
  `AnswersAreUnique`, `StopAfterResult`. Three requests over two hashes and two
  players force a repetition while another task is in flight.
- `matchloop_liveness`: one match id (with two, an escaped exception leaves
  the session without a result, see `StopAfterResult` and the hazard at
  `server.py:395`), and a match end with or without errors. `MatchEndIsRecorded`, `DispatchedIsAnswered`, `SessionEnds`.
- `policy`: two requests in flight, deadline 2, SDK limit 3, correction on:
  every order of output, error and timer. `DecisionIsLegal`,
  `ReasonTellsCause`, `ResolvedInTime`, `RequestsAreDecided`.

- `artifacts`: three decisions of two players at one tick, one prompt, one event,
  a replay path, up to `MaxErrors` = 2 errors at the end, a kill anywhere, a viewer that starts and polls at any moment.
  Two decisions share the viewer's key, which is the case its deduplication gets
  wrong if anything does. `CountersFollowLogs`, `IndexFollowsLogs`, `ResultIsLast`,
  `ImplementsMatchRecord`, `ViewerCatchesUp`.
- `daemon`: two connections, eleven first frames, four configuration files with
  two sets of flags, both modes of character selection, two replay events. Two
  sessions are what it takes for one to be anywhere while the other ends the
  daemon. `StoppedIsQuiet`, `CaptureIsKept`, `TracesTellTheAck`, `ServesUntilServed`,
  `SessionEndsTheDaemon`.
- `tournament`: eleven leagues of up to four matches (every format, mirror matches,
  side swaps, concurrency out of both ends of its range, both executors, a daemon
  with the configured port and with a free one); brackets
  of 2, 4 and 8 and one that is refused; the script with best of three and up to
  `MaxOdd` = 2 events that are not a plain win of the first contender: losses,
  draws, failures, games whose log is not linked, kills. Two of them turn a series
  round, tie it, or leave the logs of a killed attempt behind. `StandingsFollowRecords`,
  `AnalysisFollowsBracket`, `ImplementsElimination`, which contains that a tournament ends.

Violation runs, each a place where a document or a test of the repository says
something the code does not do (`findings`):

- `turnhook_nolegal`: a request whose legal list is empty is settled by a
  fallback that applies nothing; the game waits for ever, although
  `unified_spec.md` asks that disconnects degrade "rather than deadlock".
- `policy_deadline`: the correction call runs outside the deadline that
  `operations.md` says bounds a turn.
- `policy_lastvalid`: the daemon's `last_valid_replayable` never replays,
  because no adapter passes the last valid decision on.
- `tournament_report`: the executor, said to collect the result of the match that was
  played (`runner.py:202-204`), looks for it under the runner's id and returns a draw.

### Fairness

`TurnHook`: Godot calls `_process` each frame and runs deferred calls (attach,
deferred check, timeouts, replay monitor), the clock moves, the game starts a
match, emits `player_actionable` at least once per decision point, resolves a
tick nobody is awaited in, ends when its clock is out, and its replay comes to an
end. Nothing is assumed of the daemon or the connection. `MatchLoop`: asyncio
runs what is ready; a provider call returns (justified by
`RequestsAreDecided`); the replay phase has a timeout. The mod need not send or
close. `DecisionPolicy`: timers fire and time passes; the provider need not answer.
`ArtifactWriter`: a call that was begun goes on (a killed daemon has none), the viewer's interval fires.
`DaemonLifecycle`: asyncio runs what is ready; the wait for a hello, provider
calls, subprocesses and the replay phase end by their timeouts. A client need
not send, answer or close.
`Tournament`: a process that holds a bracket goes on, games end, and a killed script is
resumed. Nothing is assumed of a league: the runner has no timeout for a match, so
nothing is claimed to happen there.
All fairness is weak: every fair action stays enabled until it is taken or until
what made it necessary is gone.

## 4. Proofs

For every number of turns and ticks, all sets of actions and legal lists, every
fallback mode and timeout:

- `TypesHold`, `RequestsAreCurrent`, `RequestsAreSingle`, `HandedIsLegal`,
  `ActionsLockIn` (`TurnHookProofs`). None of the properties is inductive alone.
  The inductive invariant `IInv` adds: `Lifecycle` (the hook's and the game's
  idea of the match agree; before the match nobody is awaited),
  `HandedIsNotAwaited` (a fighter that has its action is not awaited - this is
  what turns "pending implies awaited" into "no second action"), and `EmittedTells`
  (what a turn's telemetry says decides whether it is unissued, open, settled
  or abandoned - needed because turn ids above `turnId` must be unused for a
  new request not to overwrite an old one). Every step is reduced to one of three
  lemmas: asking (`AskingIsSafe`), settling a set of requests
  (`SettlingIsSafe`, used by decisions and by fallbacks), or leaving both alone
  (`QuietIsSafe`).
- `HookImplementsContract` (there too): a step of `TurnHook` is an
  `Ask`, a `Settle`, a `Close` or a stutter of `TurnContract` under the mapping
  that reads a turn's verdict off its telemetry; it uses `IInv`.
- `RecordsAgree`, `OutcomesAreOfTheirTick` (there too). The history
  entry of a player and a decision point must follow the last request settled for
  it. `HInv` adds to `IInv` that requests are about points that were reached
  (`SentPast`), that the open request of a player is its last
  (`PendingIsLatest`), what the entries say (`HistoryTells`), and that an outcome read
  while its point is still being decided will be thrown away, because the game
  waits for a player whose decision builds the entry anew (`EnrichedIsAwaited`): that
  is why an outcome read too early never stays.
- `TypesHold`, `ResultsAreFinal`, `StopsAreLate`, `MatchEndsAreComplete`,
  `AnswersAreSingle` (`MatchLoopProofs`), for all match ids, hashes and bounds. Unique
  answers follow from unique tasks: `Queued` says that a request waiting to be
  read is not dispatched and waits once, `Dispatched` that the tasks begun differ
  in player or hash and all of them are in `seen`, `Answered` that the answers are
  those of different finished tasks. A final result needs that no task is live
  outside the loop, a complete one that no task was cancelled when the reason is
  `match_ended`; both are in `Ending`. `Logged` says what a task has written by
  how far it has come. Steps of the mod (`SendingIsSafe`), of a task and of
  the way out of the loop have a lemma each.
- `TypesHold`, `DecisionsAreLegal`, `ReasonsTellCauses`, `DecisionsComeInTime`
  (`DecisionPolicyProofs`), for all deadlines, limits, action sets and modes. The
  invariant says which calls a turn has made (`Accounted`) and how
  its two clocks relate (`Timed`), by the stage it is in; without the second, the
  sum of both deadlines would not be inductive, because the correction starts a
  clock of its own.
- `CountersAgree`, `PointersAgree`, `ResultComesLast`, `TypeCorrect`,
  `DirectoryImplementsRecord` (`ArtifactWriterProofs`), for every number of turns and
  polls. What can be found after a kill depends on what is left of the call, so
  the proof begins with the queues `todo` can hold, from `Create5` to `Close1`, and
  a table (`Row`) of what each still will do. The invariant has what holds of the files in any
  state (`FilesOK`: the three properties, the lines that fit their counters, a
  verdict that counts them), and what holds while the daemon writes (`Writing`): unless a replacement is
  due, `metrics.json` and the index are the writer's and exact; each turn
  is in a log or still to come at most once (`OncePerTurn`), without which a pointer
  could lead to a second line. The refinement maps a directory to its log of decisions
  and its verdict; every operation is an append, the closing or a stutter.
- `TypeCorrect`, `QuietWhenStopped`, `RecordingIsKept`, `AckIsTold`, `ServesOn`
  (`DaemonLifecycleProofs`), for every number of connections, all hellos,
  configurations, flags, characters and replay files. `Phase` says of a single replay
  phase what its stage means for the other fields: where there is no process, what was
  pulled, that a recording without a handle was asked for, is being stopped or was
  cut off there. Each step of the coroutine keeps it (`CaptureStepMoves`), so
  any number of phases may overlap. `Replaying` ties a phase that goes on to its
  handler, `Serving` ties handlers to the server (none without one, an open one is
  never one whose connections were cut), and the two give `StoppedIsQuiet`.
  `Selecting` follows a character from the provider's answer (`PossibleLegal`)
  over the hello_ack to the traces.
- `BracketsAreEliminations`, `BracketTypes` (`TournamentProofs`), for every length of a
  series and number of kills, and `BracketState` of two, four and eight entrants:
  the initial states and the steps of both brackets are those of `Elimination`. Both
  are read as a grid of series; `GridOK` says that a slot is filled by the series that
  feeds it (`Fed`), that who comes to a slot is from its block of places (`Placed`), that
  who is to play has won a series per round, lost none and plays nowhere else
  (`Standing`), and that whoever is undefeated is to play or is the champion
  (`Accounted`). The abstract guards need all of them: that two who meet are the last of
  their block follows from `Accounted` and `Placed`, that both are undefeated from
  `Standing`. One lemma (`RecordedIsPlay`) shows that recording a result keeps
  `GridOK` and is a `Play`, one that some series can be played until there is a champion
  (`PlaysOn`); for each of the brackets it remains to show that its code records
  (`SavedIsRecorded`, `RecordSeriesIsRecorded`). For the script, `ScriptOK` adds that the
  file is whole except while it is saved or after that was cut off, and that what is
  left of a pass is still ready in the file.
- `ScoresAreTallied`, `AnalysisNamesTheWinners` (`AnalysisProofs`), for every length of a
  series and number of kills. The file says who went on, the analysis looks at scores
  and logs; what ties them is `AInv`: the score of a completed series is a `Tally` of the
  logs of some last attempt, which an attempt in progress keeps for its counters
  (`Counted`) and a kill between the log and the file does not lose (`Kept`); not both
  sides have won, and the one that has went on. That everybody who is out has lost one
  series is `OneLoss`: a series is recorded between two who are undefeated (`SavedIsRecorded`). From these, a
  decided series names who went on, so the last frame is the file's bracket slot by slot
  (`Fed`), and the summaries count by maps that are one-to-one between games,
  series and losers. That no two blocks of a frame overlap is arithmetic: a block
  grows by 18 a game, the pitch by 20.
- `TournamentTypes`, `StandingsAreKept` (`LeagueProofs`), for every schedule, number of
  policies, concurrency, executor, K, initial rating and `Gain`. `LeagueInv` has the types,
  `InTurn` (matches start in the order of the schedule, one at a time if the runner plays
  them so, and all have ended when it goes on - without it a result rated when it
  is there would not be rated last), and `RatedInOrder` (the first conjunct of the
  property). That the ratings add up holds of the table of any list of results (`ApplyBalances`), as does that its counters are
  numbers of results (`ApplyCounts`); that these are the matchups' is shown by parting the runs of
  a policy by opponent (`PolicyMatchups`). The theorem says nothing of the report that
  `run_tournament` returns. Schedules, tables and sums are recursive functions. Their facts need
  induction, done here with sets in the place of predicates: on numbers by the
  least one outside a set (`Induction`), on finite sets by a smallest
  counterexample (`Smallest`); `Chain` and `SumExists` show that the recursive functions
  exist.

The assumptions are the named ASSUMEs of the modules (actions and guard actions are
sets with the evident inclusions, bounds are naturals, the mode is one
of the three, no file is the value for none, hellos, configurations and flags are
of their types, K is even and the gains of two sides add up to it); TLC evaluates them in each run. `AbsentAssumption` says that the value for a file
that is not there is not the content of one. The
inductive invariants were checked by TLC on the instances of the runs before they
were proved.

Only model-checked: all liveness (fairness and ENABLED are out of the prover's
reach), with it the part of `ImplementsElimination` that a tournament ends. Of the other
properties the passing runs check, each is stated by a theorem, or, where it contains
fairness, its steps are.

## 5. Not modelled

- The wording, layout and parsing of messages, prompts, schemas, HTML, SVG and PNG:
  text and geometry without state, except where a property reads them (the blocks of
  a bracket frame).
- Observation extraction, menu automation, the replay recorder: they read game
  objects or press buttons, and nothing of the turn lifecycle depends on more than
  their result.
- Baseline adapters: a seeded choice; in `MatchLoop` a task that resolves at once.
- Elo's formula, costs, tokens, latencies, hit points: arithmetic on reals, or sums.
- Provider SDKs, ffmpeg, the virtual machine, websockets: external, by their outcomes.
- Errors of the file system, SIGTERM and a second SIGINT, the server without a
  runtime configuration (used by tests only).
- The mod and the daemon composed (`BridgeSystem`). `TurnHook` is checked against
  every order and delay of answers and `MatchLoop` against every order of
  requests, which is more than the composition could show about either; what is missing is a
  statement about both records of one turn, such as that a turn the mod has
  decided by fallback is told apart in the daemon's log, or that a daemon's fallback is
  not replayed by the mod as if it were the policy's choice.

## 6. Plan

1. `TurnContract`, `TurnHook`, proofs and refinement: done.
2. `MatchLoop` and its proofs: done.
3. `DecisionPolicy` and its proofs: done.
4. `ArtifactWriter`, `MatchRecord`, proofs and refinement: done.
5. `DaemonLifecycle`, `ReplayCapture` and their proofs: done.
6. `Elimination`, `BracketState`, `BracketScript`, `BracketAnalysis`, `League`,
   `Tournament`, the proofs of the brackets (`TournamentProofs`), of the analysis
   (`AnalysisProofs`) and of the standings (`LeagueProofs`): done.
7. Not done: `BridgeSystem`, `TurnHook`'s requests and `MatchLoop` over two FIFO channels.
