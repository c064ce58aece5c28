--------------------------- MODULE BracketScript ---------------------------
(***************************************************************************)
(* scripts/run_tournament.sh: eight seeds, best-of-N series, every game a  *)
(* run of run_match.sh.  The state of the tournament is the file           *)
(* bracket.json, rewritten in place after each series; a script that is    *)
(* killed is started again with --resume and plays the series that are     *)
(* not completed from their first game.                                    *)
(*                                                                         *)
(* The first contender of a series is p1 in all of its games.  The script  *)
(* is resumed with the --best-of it was started with.                      *)
(*                                                                         *)
(* A definition whose name ends in Bug is a faulty variant used by the     *)
(* mutation runs only.                                                     *)
(***************************************************************************)
EXTENDS Integers, Sequences, SequencesExt

CONSTANTS
  BestOf,       \* --best-of
  MaxOdd        \* bound: games that p1 does not simply win, and kills

ASSUME ScriptAssumption ==
  /\ BestOf \in Nat \ {0}
  /\ MaxOdd \in Nat

VARIABLES
  file,       \* bracket.json: rounds, champion, and whether it is whole
  script,     \* "idle", "pass", "series", "playing", "saving", "killed", "done"
  queue,      \* the ready series of this pass that are not played yet
  score,      \* p1_wins, p2_wins of the current series
  game,       \* the games of the current series that are over
  logs,       \* per series, the game logs: what the analysis can read there
  odd         \* counts towards MaxOdd

scriptVars == <<file, script, queue, score, game, logs, odd>>

None == 0             \* no entrant yet
Order  == <<<<0, 0>>, <<0, 1>>, <<0, 2>>, <<0, 3>>, <<1, 0>>, <<1, 1>>, <<2, 0>>>>
Series == ToSet(Order)      \* quarterfinals, semifinals, final, by position
Games  == 1..BestOf

\* result.json: a match with errors is failed, its winner may be known.
Results == {"completed", "failed"} \X {"p1", "p2", "none"}

\* "unlinked": the log lacks the line that names the run's directory.
LogStates == {<<"absent">>, <<"unlinked">>} \cup Results

NewSeries(high, low) == [high |-> high, low |-> low, wins |-> <<0, 0>>, done |-> FALSE]

\* 1v8, 2v7, 3v6, 4v5 from the top.
NewFile ==
  [rounds |-> [s \in Series |-> IF s[1] = 0 THEN NewSeries(s[2] + 1, 8 - s[2])
                                            ELSE NewSeries(None, None)],
   champion |-> None, whole |-> TRUE]

ScriptInit ==
  /\ file = NewFile
  /\ script = "idle"
  /\ queue = {}
  /\ score = <<0, 0>> /\ game = 0
  /\ logs = [s \in Series |-> [g \in Games |-> <<"absent">>]]
  /\ odd = 0

Start ==
  /\ script = "idle"
  /\ script' = "pass"
  /\ UNCHANGED <<file, queue, score, game, logs, odd>>

-----------------------------------------------------------------------------
(* One pass over the ready series                                          *)

Ready ==
  {s \in Series : LET of == file.rounds[s]
                  IN ~of.done /\ of.high # None /\ of.low # None}

\* Round by round, and from the top.
Before(s, t) == s[1] < t[1] \/ (s[1] = t[1] /\ s[2] < t[2])

Current == CHOOSE s \in queue : \A t \in queue : s = t \/ Before(s, t)

\* With no champion and no ready series the tournament stops incomplete.
ReadPass ==
  /\ script = "pass"
  /\ IF file.champion # None \/ Ready = {}
     THEN script' = "done" /\ UNCHANGED queue
     ELSE script' = "series" /\ queue' = Ready
  /\ score' = <<0, 0>> /\ game' = 0
  /\ UNCHANGED <<file, logs, odd>>

WinsNeeded == (BestOf + 1) \div 2

OverBug == score[1] >= WinsNeeded \/ score[2] >= WinsNeeded \/ game > BestOf

\* The loop ends when a side has enough wins or the games are used up.
Over == score[1] >= WinsNeeded \/ score[2] >= WinsNeeded \/ game = BestOf

\* tee empties the log of an earlier attempt.
GameStarts ==
  /\ script = "series" /\ ~Over
  /\ script' = "playing"
  /\ logs' = [logs EXCEPT ![Current][game + 1] = <<"unlinked">>]
  /\ UNCHANGED <<file, queue, score, game, odd>>

\* A failed game, or one without a result, counts for p2 whoever won it; a
\* draw counts for nobody.
Points(result) ==
  CASE result = <<"completed", "p1">>   -> <<1, 0>>
    [] result = <<"completed", "none">> -> <<0, 0>>
    [] OTHER                            -> <<0, 1>>

\* run_match.sh logs the run's directory only if its poll sees the result
\* before it sees the daemon gone; run_game looks for the result again.
GameEnds ==
  /\ script = "playing"
  /\ \E result \in Results, seen \in BOOLEAN :
       /\ odd' = IF seen /\ result = <<"completed", "p1">> THEN odd ELSE odd + 1
       /\ odd' <= MaxOdd
       /\ score' = <<score[1] + Points(result)[1], score[2] + Points(result)[2]>>
       /\ logs' = [logs EXCEPT ![Current][game + 1] =
                                  IF seen THEN result ELSE <<"unlinked">>]
  /\ game' = game + 1
  /\ script' = "series"
  /\ UNCHANGED <<file, queue>>

-----------------------------------------------------------------------------
(* The end of a series                                                     *)

SeriesWinner(of) == IF score[1] >= WinsNeeded THEN of.high ELSE of.low

\* open(..., 'w') empties the file.
SeriesEnds ==
  /\ script = "series" /\ Over
  /\ script' = "saving"
  /\ file' = [file EXCEPT !.whole = FALSE]
  /\ UNCHANGED <<queue, score, game, logs, odd>>

Advanced(rounds, s, winner) ==
  LET slot == IF s[2] % 2 = 0 THEN "high" ELSE "low"
      done == [rounds EXCEPT ![s].done = TRUE, ![s].wins = score]
  IN IF s[1] = 2 THEN done ELSE [done EXCEPT ![<<s[1] + 1, s[2] \div 2>>][slot] = winner]

Saved ==
  /\ script = "saving"
  /\ LET s == Current  winner == SeriesWinner(file.rounds[s])
     IN file' = [rounds   |-> Advanced(file.rounds, s, winner),
                 champion |-> IF s[1] = 2 THEN winner ELSE file.champion,
                 whole    |-> TRUE]
  /\ queue' = queue \ {Current}
  /\ script' = IF queue' = {} THEN "pass" ELSE "series"
  /\ score' = <<0, 0>> /\ game' = 0
  /\ UNCHANGED <<logs, odd>>

Kill ==
  /\ script \in {"pass", "series", "playing", "saving"}
  /\ odd < MaxOdd
  /\ odd' = odd + 1
  /\ script' = "killed"
  /\ queue' = {} /\ score' = <<0, 0>> /\ game' = 0
  /\ UNCHANGED <<file, logs>>

\* --resume ends at once if it cannot parse the file.
Resume ==
  /\ script = "killed"
  /\ script' = IF file.whole THEN "pass" ELSE "done"
  /\ UNCHANGED <<file, queue, score, game, logs, odd>>

ScriptNext ==
  Start \/ ReadPass \/ GameStarts \/ GameEnds \/ SeriesEnds \/ Saved \/ Kill \/ Resume

ScriptTypeOK ==
  /\ file \in [rounds : [Series -> [high : 0..8, low : 0..8,
                                    wins : (0..BestOf) \X (0..BestOf), done : BOOLEAN]],
               champion : 0..8, whole : BOOLEAN]
  /\ script \in {"idle", "pass", "series", "playing", "saving", "killed", "done"}
  /\ queue \subseteq Series
  /\ score \in (0..BestOf) \X (0..BestOf) /\ game \in 0..BestOf
  /\ logs \in [Series -> [Games -> LogStates]]
  /\ odd \in 0..MaxOdd
=============================================================================
