-------------------------- MODULE BracketAnalysis --------------------------
(***************************************************************************)
(* What yomi-analysis makes of a tournament directory of the script: the   *)
(* series and who won them, the summary of each entrant, and the frames of *)
(* the bracket, drawn from the winners of the series before.  It reads     *)
(* bracket.json and the game logs with the runs they name, at any moment;  *)
(* it changes nothing.                                                     *)
(*                                                                         *)
(* Tokens, costs, characters and hit points are left out.                  *)
(*                                                                         *)
(* A definition whose name ends in Bug is a faulty variant used by the     *)
(* mutation runs only.                                                     *)
(***************************************************************************)
EXTENDS BracketScript, FiniteSets

\* Every game log must name its run, the file must be one JSON object; one
\* that does not, of any series, and there is no analysis at all.
Analysable ==
  /\ file.whole
  /\ \A s \in Series, g \in Games : logs[s][g] # <<"unlinked">>

-----------------------------------------------------------------------------
(* analysis/tournament.py and summary.py                                   *)

GamesIn(s) == {g \in Games : logs[s][g] \in Results}

\* Who took a game; a failed one too, a draw nobody.
Took(s, slot) == {g \in GamesIn(s) : logs[s][g][2] = slot}

\* By the score alone, whatever it takes to win the series.
WinnerOf(s) ==
  LET of == file.rounds[s]
  IN CASE of.high = None \/ of.low = None -> None
       [] of.wins[1] > of.wins[2]         -> of.high
       [] of.wins[2] > of.wins[1]         -> of.low
       [] OTHER                           -> None

LoserOf(s) ==
  LET of == file.rounds[s]
  IN IF WinnerOf(s) = None THEN None ELSE IF WinnerOf(s) = of.high THEN of.low ELSE of.high

\* The games an entrant took part in, and those that were won from a slot.
GamesOf(e) ==
  {x \in Series \X Games :
     x[2] \in GamesIn(x[1]) /\ e \in {file.rounds[x[1]].high, file.rounds[x[1]].low}}
TotalGames(e) == Cardinality(GamesOf(e))

SlotOf(e, s) == IF file.rounds[s].high = e THEN "p1" ELSE "p2"
TookGame(x) == logs[x[1]][x[2]][2]

PolicySummary(e) ==
  LET won   == {s \in Series : WinnerOf(s) = e}
      left  == {s \in Series : LoserOf(s) = e}
      games == {x \in GamesOf(e) : TookGame(x) # "none"}
      taken == {x \in games : TookGame(x) = SlotOf(e, x[1])}
  IN [champion     |-> won # {} /\ e = file.champion,
      eliminatedIn |-> {s[1] : s \in left},
      seriesWins   |-> Cardinality(won),
      seriesLosses |-> Cardinality(left),
      gameWins     |-> Cardinality(taken),
      gameLosses   |-> Cardinality(games \ taken)]

Overview ==
  [completedSeries |-> Cardinality({s \in Series : file.rounds[s].done}),
   totalGames      |-> Cardinality({x \in Series \X Games : x[2] \in GamesIn(x[1])})]

-----------------------------------------------------------------------------
(* analysis/bracket.py                                                     *)

CompletedSeries == {s \in Series : WinnerOf(s) # None /\ GamesIn(s) # {}}

\* One frame for each prefix of the render order: the series it reveals.  They
\* are ordered by the time of their last game, which is as they are played.
Frames ==
  {{}} \cup {{t \in CompletedSeries : t = s \/ Before(t, s)} : s \in CompletedSeries}

ParentBug(s, slot) == <<s[1] - 1, s[2] + (IF slot = "high" THEN 0 ELSE 2)>>

Parent(s, slot) == <<s[1] - 1, 2 * s[2] + (IF slot = "high" THEN 0 ELSE 1)>>

\* The first round is drawn from the file, a later one from its parents.
Shown(s, slot, revealed) ==
  IF s[1] = 0 THEN file.rounds[s][slot]
  ELSE IF Parent(s, slot) \in revealed THEN WinnerOf(Parent(s, slot)) ELSE None

ChampionShown(revealed) ==
  IF \E s \in revealed : WinnerOf(s) = file.champion THEN file.champion ELSE None

\* Under which side of the block a game is marked as won: right if nobody won.
GameLines(s) ==
  [g \in GamesIn(s) |-> IF logs[s][g][2] = "p1" THEN "left" ELSE "right"]

\* Block and column geometry, in quarters of a pixel.
LeafPitch(revealed) ==
  LET lines == {Cardinality(GamesIn(s)) : s \in revealed} \cup {0}
      most  == CHOOSE n \in lines : \A k \in lines : k <= n
  IN 4 * (164 + (IF most = 0 THEN 0 ELSE most - 1) * 20)

Center(s, revealed) ==
  LET first(p) == 4 * (258 + 42) + p * LeafPitch(revealed)
      width == 2^s[1]
  IN (first(s[2] * width) + first((s[2] + 1) * width - 1)) \div 2

Height(s, revealed) ==
  4 * (74 + (IF s \in revealed THEN 26 + Cardinality(GamesIn(s)) * 18 ELSE 0))

\* A block and the one below it in its column.
Overlap(s, revealed) ==
  LET t == <<s[1], s[2] + 1>>
  IN /\ t \in Series
     /\ Center(s, revealed) + Height(s, revealed) \div 2
          > Center(t, revealed) - Height(t, revealed) \div 2
=============================================================================
