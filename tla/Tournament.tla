----------------------------- MODULE Tournament -----------------------------
(***************************************************************************)
(* The three ways to hold a tournament: run_tournament with its schedule   *)
(* and ratings (League), BracketState (tournament/bracket.py) and the      *)
(* bracket script with its file (BracketScript), whose directory the       *)
(* analysis reads (BracketAnalysis).  A behaviour is of one of them.       *)
(***************************************************************************)
EXTENDS League, BracketState, BracketAnalysis

VARIABLE entry        \* "league", "state" or "script"

vars == <<entry, leagueVars, stateVars, scriptVars>>

LeagueIdle == UNCHANGED leagueVars
StateIdle  == UNCHANGED stateVars
ScriptIdle == UNCHANGED scriptVars

\* What is not used stays in one of its initial states.
Init ==
  /\ entry \in {"league", "state", "script"}
  /\ IF entry = "league" THEN LeagueInit
     ELSE LeagueInit /\ plan = CHOOSE p \in Plans : TRUE
  /\ IF entry = "state" THEN StateInit
     ELSE bracket = NoBracket /\ matchup = NoMatchup
  /\ ScriptInit

Next ==
  /\ UNCHANGED entry
  /\ \/ entry = "league" /\ LeagueNext /\ StateIdle /\ ScriptIdle
     \/ entry = "state"  /\ StateNext /\ LeagueIdle /\ ScriptIdle
     \/ entry = "script" /\ ScriptNext /\ LeagueIdle /\ StateIdle

\* A process that holds a bracket runs on; a killed script is resumed, matches
\* end.  Of a league, nothing is claimed to happen.
Fairness == WF_vars(entry # "league" /\ Next)

Spec == Init /\ [][Next]_vars
FairSpec == Spec /\ Fairness

\* Types of the three parts.
TypeOK == LeagueTypeOK /\ StateTypeOK /\ ScriptTypeOK

-----------------------------------------------------------------------------
(* The brackets are single eliminations                                    *)

\* How many take part in a bracket, and where each seed stands, counted from 0.
Size == CASE entry = "script"                         -> 8
          [] entry = "state" /\ bracket # NoBracket    -> 2 * Cardinality(DOMAIN bracket.rounds[0])
          [] OTHER                                     -> 0

\* 1v8, 2v7, 3v6, 4v5 from the top for the script, which lets seeds 1 and 2
\* meet in a semifinal; 1v8, 4v5, 3v6, 2v7 for BracketState, which does not.
Place == IF entry = "script" THEN <<0, 2, 4, 6, 7, 5, 3, 1>>
         ELSE CASE Size = 8 -> <<0, 6, 4, 2, 3, 5, 7, 1>>
                [] Size = 4 -> <<0, 2, 3, 1>>
                [] Size = 2 -> <<0, 1>>
                [] Size = 0 -> <<>>

\* In the script's file, who went on from a series.
WentOn(s) ==
  IF s[1] = 2 THEN file.champion
  ELSE file.rounds[<<s[1] + 1, s[2] \div 2>>][IF s[2] % 2 = 0 THEN "high" ELSE "low"]

\* How many series each seed has won.
Wins ==
  LET of(e) == IF entry = "script" THEN {s \in Series : WentOn(s) = e}
               ELSE {i \in DOMAIN bracket.results : bracket.results[i].winner = e}
  IN [e \in 1..Size |-> Cardinality(of(e))]

\* Who lost a series of the bracket.
Beaten ==
  IF entry = "script"
  THEN UNION {{file.rounds[s].high, file.rounds[s].low} \ {WentOn(s)} :
                s \in {t \in Series : file.rounds[t].done}}
  ELSE {bracket.results[i].loser : i \in DOMAIN bracket.results}

Bracket ==
  INSTANCE Elimination WITH
    Seeds    <- 1..8,
    Nobody   <- None,
    entrants <- 1..Size,
    place    <- Place,
    won      <- Wins,
    out      <- Beaten,
    champion <- IF entry = "script" THEN file.champion
                ELSE IF bracket = NoBracket THEN None ELSE Champion(bracket),
    lost     <- ~file.whole /\ script \in {"killed", "done"}

\* BracketState and the script hold a single elimination of the entrants, each
\* with its own draw: nobody who lost a series plays again, also after kills
\* and resumed runs, and each ends with one entrant left, the champion -
\* unless the script was killed while it rewrote bracket.json.
ImplementsElimination == Bracket!Spec

-----------------------------------------------------------------------------
(* The standings of a league                                               *)

Total(f, S) ==
  LET sum[T \in SUBSET S] ==
        IF T = {} THEN 0 ELSE LET x == CHOOSE y \in T : TRUE IN f[x] + sum[T \ {x}]
  IN sum[S]

\* A leaderboard and the matchups of the same matches.
Tells(r) ==
  \A p \in DOMAIN r.leaderboard :
    LET own   == {pair \in DOMAIN r.matchups : p \in pair}
        won   == [pair \in own |-> r.matchups[pair].wins[p]]
        all   == [pair \in own |-> Total(r.matchups[pair].wins, pair)]
        drawn == [pair \in own |-> r.matchups[pair].draws]
    IN /\ r.leaderboard[p].wins   = Total(won, own)
       /\ r.leaderboard[p].losses = Total(all, own) - Total(won, own)
       /\ r.leaderboard[p].draws  = Total(drawn, own)

\* The ratings are those of the finished matches in the order of the
\* schedule, whatever order they finished in, and together they are the
\* initial ratings; and the two tables of a report made from the runs on disk,
\* which are counted apart, tell of the same wins and draws.  Of the report
\* run_tournament returns nothing is said: it collects no run, and its matchups
\* are empty beside whatever its leaderboard counts.
StandingsFollowRecords ==
  LET rated == IF Parallel /\ phase = "playing" THEN <<>> ELSE Finished
  IN /\ table = ApplyResults(NoRecords, rated)
     /\ Total([p \in DOMAIN table |-> table[p].rating], DOMAIN table)
          = Rating * Cardinality(DOMAIN table)
     /\ Tells(StoredReport)

\* "waits for the game to connect and complete one match, then collects the
\* result from the artifact directory" (runner.py:202-204): a match that was
\* played and stored, and did not fail, counts for who won it.
ResultIsCollected ==
  \A i \in DOMAIN outcome, r \in DOMAIN runs :
    runs[r].id = GameId(i) /\ outcome[i] \in Verdicts => outcome[i] = runs[r].winner

-----------------------------------------------------------------------------
(* The analysis of a bracket                                               *)

\* A series that one side has won, and not just led when the games were over.
Decided(s) ==
  /\ file.rounds[s].done
  /\ \E side \in 1..2 : file.rounds[s].wins[side] >= WinsNeeded

\* The logs of a series are those of the games in its score.
PlayedOut(s) ==
  /\ Cardinality(GamesIn(s)) = file.rounds[s].wins[1] + file.rounds[s].wins[2]
  /\ \A g \in GamesIn(s) : logs[s][g][1] = "completed"

\* The games an entrant has won, by the scores.
Scored(e) ==
  {x \in Series \X Games :
     LET of == file.rounds[x[1]]
     IN \/ e = of.high /\ x[2] <= of.wins[1]
        \/ e = of.low /\ x[2] <= of.wins[2]}

\* If the analysis succeeds, it names the winners the script sent on, of all
\* series that were decided; when they all were, the last frame shows the
\* bracket of the file, and the summaries tell of one loss of everybody who
\* is out and of nobody else; the games of a series, and those of an entrant,
\* add up to the scores where none failed, was drawn or was left by an attempt
\* before; and no two blocks of a frame overlap.
AnalysisFollowsBracket ==
  Analysable /\ entry = "script" =>
    LET summary == [e \in 1..8 |-> PolicySummary(e)]
    IN
    /\ \A s \in Series : Decided(s) => WinnerOf(s) = WentOn(s)
    /\ (\A s \in Series : file.rounds[s].done => Decided(s)) =>
         /\ \A s \in Series, slot \in {"high", "low"} :
              Shown(s, slot, CompletedSeries) = file.rounds[s][slot]
         /\ ChampionShown(CompletedSeries) = file.champion
         /\ \A e \in 1..8 :
              /\ summary[e].seriesWins = Wins[e]
              /\ summary[e].seriesLosses = IF e \in Beaten THEN 1 ELSE 0
              /\ summary[e].eliminatedIn =
                   {s[1] : s \in {t \in Series : /\ file.rounds[t].done
                                                /\ e \in {file.rounds[t].high, file.rounds[t].low}
                                                /\ WentOn(t) # e}}
              /\ summary[e].champion = (e = file.champion)
         /\ Overview.completedSeries = Cardinality(Beaten)
    /\ \A s \in Series : file.rounds[s].done /\ PlayedOut(s) =>
         /\ Cardinality(Took(s, "p1")) = file.rounds[s].wins[1]
         /\ {g \in GamesIn(s) : GameLines(s)[g] = "right"} = Took(s, "p2")
    /\ (\A s \in Series : PlayedOut(s)) =>
         \A e \in 1..8 :
           /\ summary[e].gameWins = Cardinality(Scored(e))
           /\ summary[e].gameWins + summary[e].gameLosses = TotalGames(e)
    /\ \A revealed \in Frames, s \in Series : ~Overlap(s, revealed)
=============================================================================
