--------------------------- MODULE AnalysisProofs ---------------------------
(***************************************************************************)
(* Proofs about what the analysis makes of the directory of the bracket    *)
(* script: that it names the winners the script sent on, that its tables   *)
(* add up, and that the blocks of its frames do not overlap.               *)
(***************************************************************************)
EXTENDS TournamentProofs, FunctionTheorems, WellFoundedInduction

-----------------------------------------------------------------------------
(* The scores and the logs *)

Plain == <<"completed", "p1">>
Draw  == <<"completed", "none">>

\* The first n logs of a series tell its score, unless one of them is not linked.
Tally(s, n, wins) ==
  /\ wins[1] + wins[2] <= n
  /\ \A g \in 1..n : logs[s][g] # <<"absent">>
  /\ (\A g \in 1..n : logs[s][g] # <<"unlinked">>) =>
       /\ wins[1] = Cardinality({g \in 1..n : logs[s][g] = Plain})
       /\ wins[2] = Cardinality({g \in 1..n : logs[s][g] \notin {Plain, Draw}})

\* Not both sides have won a series.
OneWins(wins) == ~(wins[1] >= WinsNeeded /\ wins[2] >= WinsNeeded)

\* The score of a completed series is that of its last attempt, and it decides
\* who went on.
Kept ==
  \A s \in Series :
    LET of == file.rounds[s]
    IN IF of.done
       THEN /\ \E n \in Games : Tally(s, n, of.wins)
            /\ OneWins(of.wins)
            /\ WentOn(s) = IF of.wins[1] >= WinsNeeded THEN of.high ELSE of.low
       ELSE of.wins = <<0, 0>>

\* The counters of the series that is played are those of its attempt.
Counted ==
  /\ script \in {"series", "playing", "saving"} => Tally(Current, game, score)
  /\ OneWins(score)
  /\ script = "playing" => score[1] < WinsNeeded /\ score[2] < WinsNeeded
  /\ script = "saving" => game > 0

LostBy(s) == IF WentOn(s) = file.rounds[s].high THEN file.rounds[s].low ELSE file.rounds[s].high

\* Nobody loses two series.
OneLoss == \A s, t \in Done : LostBy(s) = LostBy(t) => s = t

AInv == entry = "script" => Kept /\ Counted /\ OneLoss

LEMMA TallyZero == \A s : Tally(s, 0, <<0, 0>>) /\ Tally(s, 0, <<0, 0>>)'
<1>1. 1..0 = {} /\ Cardinality({}) = 0  BY FS_EmptySet
<1>3. \A s : /\ {g \in 1..0 : logs[s][g] = Plain} = {}
             /\ {g \in 1..0 : logs[s][g] \notin {Plain, Draw}} = {}
             /\ {g \in 1..0 : logs'[s][g] = Plain} = {}
             /\ {g \in 1..0 : logs'[s][g] \notin {Plain, Draw}} = {}
  BY <1>1
<1> QED  BY <1>1, <1>3 DEF Tally

\* Later logs do not matter.
LEMMA TallyStays ==
  ASSUME NEW s, NEW n \in Nat, NEW wins, Tally(s, n, wins),
         \A g \in 1..n : logs'[s][g] = logs[s][g]
  PROVE  Tally(s, n, wins)'
<1>1. /\ {g \in 1..n : logs'[s][g] = Plain} = {g \in 1..n : logs[s][g] = Plain}
      /\ {g \in 1..n : logs'[s][g] \notin {Plain, Draw}} =
           {g \in 1..n : logs[s][g] \notin {Plain, Draw}}
  OBVIOUS
<1> QED  BY <1>1 DEF Tally

\* A game that is over is counted, and its log tells the same, if anything.
LEMMA TallyGrows ==
  ASSUME NEW s, NEW n \in Nat, NEW wins \in Nat \X Nat, NEW new, Tally(s, n, wins),
         NEW result \in Results, NEW seen \in BOOLEAN,
         \A g \in 1..n : logs'[s][g] = logs[s][g],
         logs'[s][n + 1] = IF seen THEN result ELSE <<"unlinked">>,
         new = <<wins[1] + Points(result)[1], wins[2] + Points(result)[2]>>
  PROVE  Tally(s, n + 1, new)'
<1> DEFINE P(m) == {g \in 1..m : logs'[s][g] = Plain}
           Q(m) == {g \in 1..m : logs'[s][g] \notin {Plain, Draw}}
<1>1. /\ P(n) = {g \in 1..n : logs[s][g] = Plain}
      /\ Q(n) = {g \in 1..n : logs[s][g] \notin {Plain, Draw}}
  OBVIOUS
<1>2. /\ Points(result) = IF result = Plain THEN <<1, 0>>
                          ELSE IF result = Draw THEN <<0, 0>> ELSE <<0, 1>>
      /\ Plain # Draw /\ Plain # <<"unlinked">> /\ Draw # <<"unlinked">>
      /\ result # <<"unlinked">> /\ result # <<"absent">>
  BY DEF Points, Plain, Draw, Results
<1>3. wins[1] \in Nat /\ wins[2] \in Nat /\ wins[1] + wins[2] <= n
  BY DEF Tally
<1>4. new[1] + new[2] <= n + 1  BY <1>2, <1>3
<1>5. \A g \in 1..n + 1 : g \in 1..n \/ g = n + 1  OBVIOUS
<1>6. \A g \in 1..n + 1 : logs'[s][g] # <<"absent">>
  BY <1>2, <1>5 DEF Tally
<1>7. ASSUME \A g \in 1..n + 1 : logs'[s][g] # <<"unlinked">>
      PROVE  new[1] = Cardinality(P(n + 1)) /\ new[2] = Cardinality(Q(n + 1))
  <2>1. logs'[s][n + 1] = result  BY <1>7
  <2>2. wins[1] = Cardinality(P(n)) /\ wins[2] = Cardinality(Q(n))
    <3>1. \A g \in 1..n : logs[s][g] # <<"unlinked">>
      <4>1. \A g \in 1..n : g \in 1..n + 1 /\ logs'[s][g] = logs[s][g]  OBVIOUS
      <4> QED  BY <4>1, <1>7
    <3>2. /\ wins[1] = Cardinality({g \in 1..n : logs[s][g] = Plain})
          /\ wins[2] = Cardinality({g \in 1..n : logs[s][g] \notin {Plain, Draw}})
      BY <3>1 DEF Tally
    <3> QED  BY <3>2, <1>1
  <2>3. /\ P(n + 1) = IF result = Plain THEN P(n) \cup {n + 1} ELSE P(n)
        /\ Q(n + 1) = IF result \in {Plain, Draw} THEN Q(n) ELSE Q(n) \cup {n + 1}
    BY <2>1, <1>5, <1>2
  <2>4. n + 1 \notin P(n) /\ n + 1 \notin Q(n)  OBVIOUS
  <2>5. IsFiniteSet(P(n)) /\ IsFiniteSet(Q(n))
    <3>1. IsFiniteSet(1..n)  BY FS_Interval
    <3> QED  BY <3>1, FS_Subset
  <2> HIDE DEF P, Q
  <2>6. /\ Cardinality(P(n) \cup {n + 1}) = Cardinality(P(n)) + 1
        /\ Cardinality(Q(n) \cup {n + 1}) = Cardinality(Q(n)) + 1
    BY <2>4, <2>5, FS_AddElement
  <2> QED  BY <1>2, <1>3, <2>2, <2>3, <2>6
<1> QED  BY <1>4, <1>6, <1>7 DEF Tally

-----------------------------------------------------------------------------
(* They are kept by every step of the script *)

\* Only the save of a series writes a score to the file.
LEMMA SavedWins ==
  ASSUME ScriptOK, Saved, NEW s \in Series, s = Current
  PROVE  \A t \in Series :
           file'.rounds[t].wins = IF t = s THEN score ELSE file.rounds[t].wins
<1> DEFINE r == file.rounds
           slot == IF s[2] % 2 = 0 THEN "high" ELSE "low"
           done == [r EXCEPT ![s].done = TRUE, ![s].wins = score]
<1>1. r \in Rounds8  BY DEF ScriptOK, ScriptTypeOK, Rounds8
<1>2. /\ \A t \in Series : done[t].wins = IF t = s THEN score ELSE r[t].wins
      /\ done \in [Series -> [high : 0..8, low : 0..8, wins : {score} \cup ((0..BestOf) \X (0..BestOf)),
                              done : BOOLEAN]]
  <2>1. done = [t \in Series |-> IF t = s THEN [r[s] EXCEPT !.done = TRUE, !.wins = score]
                                         ELSE r[t]]
    BY <1>1 DEF Rounds8
  <2>2. \A t \in Series : r[t] \in [high : 0..8, low : 0..8,
                                   wins : (0..BestOf) \X (0..BestOf), done : BOOLEAN]
    BY <1>1 DEF Rounds8
  <2> HIDE DEF r, done
  <2> QED  BY <2>1, <2>2
<1>3. PICK w : file'.rounds = IF s[1] = 2 THEN done ELSE [done EXCEPT ![Up(s)][slot] = w]
  BY DEF Saved, Advanced, Up
<1>4. slot \in {"high", "low"}  OBVIOUS
<1> HIDE DEF done, slot
<1>5. CASE slot = "high" /\ s[1] # 2
  <2>1. file'.rounds = [done EXCEPT ![Up(s)].high = w]  BY <1>3, <1>5
  <2> QED  BY <2>1, <1>2
<1>6. CASE slot = "low" /\ s[1] # 2
  <2>1. file'.rounds = [done EXCEPT ![Up(s)].low = w]  BY <1>3, <1>6
  <2> QED  BY <2>1, <1>2
<1> QED  BY <1>2, <1>3, <1>4, <1>5, <1>6

\* A step that leaves the rounds and the champion, and the logs of what is
\* completed, leaves what the file says of it.
LEMMA SameFileKeepsScores ==
  ASSUME entry = "script", UNCHANGED entry, GridOK, Kept, OneLoss,
         file'.rounds = file.rounds, file'.champion = file.champion,
         \A s \in Done, g \in Games : logs'[s][g] = logs[s][g]
  PROVE  Kept' /\ OneLoss'
<1>1. Done = {s \in Series : file.rounds[s].done} /\ Done' = Done  BY DEF Done
<1>2. \A s : WentOn(s)' = WentOn(s)  BY DEF WentOn
<1>3. WinsNeeded' = WinsNeeded  BY DEF WinsNeeded
<1>4. ASSUME NEW s \in Done
      PROVE  \E n \in Games : Tally(s, n, file.rounds[s].wins)'
  <2>1. PICK n \in Games : Tally(s, n, file.rounds[s].wins)
    BY <1>1, <1>4 DEF Kept
  <2>2. n \in Nat /\ \A g \in 1..n : g \in Games
    BY ScriptAssumption DEF Games
  <2>3. \A w : w = file.rounds[s].wins => Tally(s, n, w)'
    BY <2>1, <2>2, <1>4, TallyStays
  <2> QED  BY <2>3
<1>5. Kept'
  <2>1. ASSUME NEW s \in Series
        PROVE  (LET of == file.rounds[s]
                IN IF of.done
                   THEN /\ \E n \in Games : Tally(s, n, of.wins)
                        /\ OneWins(of.wins)
                        /\ WentOn(s) = IF of.wins[1] >= WinsNeeded THEN of.high ELSE of.low
                   ELSE of.wins = <<0, 0>>)'
    BY <1>1, <1>2, <1>3, <1>4 DEF Kept, OneWins
  <2> QED  BY <2>1 DEF Kept
<1>6. OneLoss'  BY <1>1, <1>2 DEF OneLoss, LostBy
<1> QED  BY <1>5, <1>6

\* What is not saved does not touch the rounds, nor the logs of what is done.
LEMMA UnsavedKeepsScores ==
  ASSUME entry = "script", UNCHANGED entry, GridOK, ScriptOK, Kept, OneLoss, ScriptNext, ~Saved
  PROVE  Kept' /\ OneLoss'
<1>1. file \in Files  BY DEF ScriptOK, ScriptTypeOK, Files, Rounds8
<1>2. file'.rounds = file.rounds /\ file'.champion = file.champion
  BY <1>1 DEF ScriptNext, Start, ReadPass, GameStarts, GameEnds, SeriesEnds, Kill, Resume, Files
<1>3. ASSUME NEW s \in Done, NEW g \in Games
      PROVE  logs'[s][g] = logs[s][g]
  <2>1. s \in Series /\ file.rounds[s].done  BY DEF Done
  <2>2. logs \in [Series -> [Games -> LogStates]]  BY DEF ScriptOK, ScriptTypeOK
  <2>3. CASE GameStarts \/ GameEnds
    <3>1. Current \in Ready  BY <2>3, CurrentInQueue DEF GameStarts, GameEnds, ScriptOK
    <3>2. s # Current  BY <3>1, <2>1 DEF Ready
    <3>3. PICK log : logs' = [logs EXCEPT ![Current][game + 1] = log]
      BY <2>3 DEF GameStarts, GameEnds
    <3> QED  BY <3>2, <3>3, <2>1, <2>2
  <2>4. CASE ~(GameStarts \/ GameEnds)
    BY <2>4 DEF ScriptNext, Start, ReadPass, SeriesEnds, Kill, Resume
  <2> QED  BY <2>3, <2>4
<1> QED  BY <1>2, <1>3, SameFileKeepsScores

LEMMA WinsNeededIs == WinsNeeded \in Nat /\ WinsNeeded >= 1 /\ WinsNeeded' = WinsNeeded
  BY ScriptAssumption DEF WinsNeeded

\* The counters follow the games, and start anew with each attempt.
LEMMA StepKeepsCounted ==
  ASSUME ScriptOK, Counted, ScriptNext
  PROVE  Counted'
<1>1. /\ score \in (0..BestOf) \X (0..BestOf) /\ game \in 0..BestOf
      /\ BestOf \in Nat \ {0}
      /\ logs \in [Series -> [Games -> LogStates]]
      /\ queue \subseteq Series
  BY ScriptAssumption DEF ScriptOK, ScriptTypeOK
<1>2. score \in Nat \X Nat /\ game \in Nat /\ score[1] \in Nat /\ score[2] \in Nat
  BY <1>1
<1>3. \A n : WinsNeeded' = WinsNeeded /\ WinsNeeded \in Nat /\ WinsNeeded >= 1
  BY WinsNeededIs
<1>4. queue' = queue => Current' = Current  BY DEF Current
<1>5. ASSUME score' = <<0, 0>>, game' = 0, script' # "saving", script' # "playing"
      PROVE  Counted'
  <2>1. Tally(Current, 0, <<0, 0>>)'
    <3>1. \A s : Tally(s, 0, <<0, 0>>)'  BY TallyZero
    <3> QED  BY <3>1 DEF Tally
  <2>2. OneWins(score)'  BY <1>3, <1>5 DEF OneWins
  <2> QED  BY <1>5, <2>1, <2>2 DEF Counted
<1>6. ASSUME UNCHANGED <<queue, score, game, logs>>,
             script \in {"series", "playing", "saving"},
             script' = "saving" => game > 0,
             script' # "playing"
      PROVE  Counted'
  <2>1. Tally(Current, game, score)'  BY <1>4, <1>6 DEF Counted, Tally
  <2> QED  BY <2>1, <1>3, <1>6 DEF Counted, OneWins
<1>7. CASE Start  BY <1>7, <1>3 DEF Start, Counted, OneWins
<1>8. CASE ReadPass
  BY <1>8, <1>5 DEF ReadPass
<1>9. CASE GameStarts
  <2>1. Current \in Series /\ game < BestOf
    BY <1>1, <1>9, CurrentInQueue DEF GameStarts, Over
  <2>2. \A g \in 1..game : g \in Games /\ g # game + 1
    BY <1>1 DEF Games
  <2>3. \A g \in 1..game : logs'[Current][g] = logs[Current][g]
    BY <1>1, <1>9, <2>1, <2>2 DEF GameStarts
  <2>4. PICK s : s = Current  OBVIOUS
  <2>5. Tally(s, game, score)  BY <1>9, <2>4 DEF Counted, GameStarts
  <2>6. \A n, w : n = game /\ w = score => Tally(s, n, w)'
    BY <1>2, <2>3, <2>4, <2>5, TallyStays
  <2>7. Tally(Current, game, score)'
    BY <2>4, <2>6, <1>4, <1>9 DEF GameStarts, Tally
  <2>8. score[1] < WinsNeeded /\ score[2] < WinsNeeded
    BY <1>2, <1>3, <1>9 DEF GameStarts, Over
  <2> QED  BY <2>7, <2>8, <1>3, <1>9 DEF GameStarts, Counted, OneWins
<1>10. CASE GameEnds
  <2>1. PICK result \in Results, seen \in BOOLEAN :
          /\ score' = <<score[1] + Points(result)[1], score[2] + Points(result)[2]>>
          /\ logs' = [logs EXCEPT ![Current][game + 1] =
                                    IF seen THEN result ELSE <<"unlinked">>]
    BY <1>10 DEF GameEnds
  <2>2. /\ script = "playing" /\ script' = "series" /\ game' = game + 1 /\ game < BestOf
        /\ queue' = queue
    BY <1>10 DEF GameEnds, ScriptOK
  <2>3. Current \in Series /\ game + 1 \in Games
    BY <2>2, <1>1, CurrentInQueue DEF Games
  <2>4. \A g \in 1..game : g \in Games /\ g # game + 1
    BY <1>1 DEF Games
  <2>5. /\ \A g \in 1..game : logs'[Current][g] = logs[Current][g]
        /\ logs'[Current][game + 1] = IF seen THEN result ELSE <<"unlinked">>
    BY <1>1, <2>1, <2>3, <2>4
  <2>6. PICK s, n, w, new : s = Current /\ n = game /\ w = score /\ new = score'
    OBVIOUS
  <2>11. n \in Nat /\ w \in Nat \X Nat  BY <2>6, <1>2
  <2>7. Tally(s, n, w)  BY <2>2, <2>6 DEF Counted
  <2>8. Tally(s, n + 1, new)'
    BY <2>1, <2>5, <2>6, <2>7, <2>11, TallyGrows
  <2>9. Tally(Current, game, score)'
    BY <2>8, <2>6, <2>2, <1>4 DEF Tally
  <2>10. OneWins(score)'
    <3>1. score[1] < WinsNeeded /\ score[2] < WinsNeeded  BY <2>2 DEF Counted
    <3>2. Points(result) \in {<<1, 0>>, <<0, 0>>, <<0, 1>>}  BY DEF Points
    <3>3. CASE Points(result) = <<1, 0>>
      BY <3>1, <3>3, <2>1, <1>2, <1>3 DEF OneWins
    <3>4. CASE Points(result) = <<0, 0>>
      BY <3>1, <3>4, <2>1, <1>2, <1>3 DEF OneWins
    <3>5. CASE Points(result) = <<0, 1>>
      BY <3>1, <3>5, <2>1, <1>2, <1>3 DEF OneWins
    <3> QED  BY <3>2, <3>3, <3>4, <3>5
  <2> QED  BY <2>2, <2>9, <2>10 DEF Counted
<1>11. CASE SeriesEnds
  <2>1. game > 0
    BY <1>1, <1>3, <1>11 DEF SeriesEnds, Over, ScriptOK
  <2> QED  BY <2>1, <1>6, <1>11 DEF SeriesEnds
<1>12. CASE Saved  BY <1>12, <1>5 DEF Saved
<1>13. CASE Kill  BY <1>13, <1>5 DEF Kill
<1>14. CASE Resume  BY <1>14, <1>3 DEF Resume, Counted, OneWins
<1> QED
  BY <1>7, <1>8, <1>9, <1>10, <1>11, <1>12, <1>13, <1>14 DEF ScriptNext

\* Of the two of a completed series one went on, and the other is out.
LEMMA OneWentOn ==
  ASSUME entry = "script", GridOK, Kept, NEW s \in Done
  PROVE  LET of == file.rounds[s]
         IN /\ s \in Series /\ of.done
            /\ of.high \in 1..8 /\ of.low \in 1..8 /\ of.high # of.low
            /\ WentOn(s) \in {of.high, of.low} /\ LostBy(s) # WentOn(s)
            /\ {of.high, of.low} \ {WentOn(s)} = {LostBy(s)}
            /\ LostBy(s) \in Beaten
<1>1. s \in Series /\ file.rounds[s].done  BY DEF Done
<1>2. GridTypes /\ Placed /\ Fed /\ s \in Grid /\ Size = 8
  BY <1>1, ScriptGrid DEF GridOK
<1>3. Slot(s, "high") # None /\ Slot(s, "low") # None
  BY <1>2 DEF Fed, Slots
<1>4. Slot(s, "high") # Slot(s, "low")  BY <1>2, <1>3, SlotsDiffer
<1>5. Slot(s, "high") = file.rounds[s].high /\ Slot(s, "low") = file.rounds[s].low
  BY DEF Slot
<1>6. /\ file.rounds[s].high \in 1..8 /\ file.rounds[s].low \in 1..8
      /\ file.rounds[s].high # file.rounds[s].low
  BY <1>2, <1>3, <1>4, <1>5 DEF GridTypes, Slots, None
<1>7. WentOn(s) \in {file.rounds[s].high, file.rounds[s].low}
  BY <1>1 DEF Kept
<1>8. /\ {file.rounds[s].high, file.rounds[s].low} \ {WentOn(s)} = {LostBy(s)}
      /\ LostBy(s) # WentOn(s)
  BY <1>6, <1>7 DEF LostBy
<1>9. LostBy(s) \in Beaten  BY <1>1, <1>8 DEF Beaten
<1> QED  BY <1>1, <1>6, <1>7, <1>8, <1>9

\* A save keeps the score of the attempt, and sends its winner on.
LEMMA SavedKeepsScores ==
  ASSUME entry = "script", UNCHANGED entry, GridOK, ScriptOK, Kept, Counted, OneLoss, Saved
  PROVE  Kept' /\ OneLoss'
<1>1. PICK s : s = Current  OBVIOUS
<1>2. s \in Series /\ script = "saving" /\ game \in Games /\ logs' = logs
  <2>1. script = "saving" /\ logs' = logs  BY DEF Saved
  <2>2. game \in 0..BestOf /\ BestOf \in Nat /\ game > 0
    BY <2>1, ScriptAssumption DEF ScriptOK, ScriptTypeOK, Counted
  <2> QED  BY <1>1, <2>1, <2>2, CurrentInQueue DEF Games
<1>3. PICK slot, other :
        /\ Recorded(s, slot, other)
        /\ slot = IF score[1] >= WinsNeeded THEN "high" ELSE "low"
        /\ WentOn(s)' = Slot(s, slot)
        /\ \A t \in Series : t # s => WentOn(t)' = WentOn(t)
        /\ \A t \in Done \cup {s}, x \in Slots : file'.rounds[t][x] = file.rounds[t][x]
  BY <1>1, SavedIsRecorded
<1>4. /\ Slot(s, slot) # Slot(s, other) /\ {Slot(s, slot), Slot(s, other)} \cap Beaten = {}
  BY <1>3, RecordedIsPlay
<1>5. /\ Done' = Done \cup {s} /\ s \notin Done
      /\ slot \in Slots /\ other \in Slots /\ slot # other
  BY <1>3 DEF Recorded
<1>6. \A t \in Series : file'.rounds[t].wins = IF t = s THEN score ELSE file.rounds[t].wins
  BY <1>1, <1>2, SavedWins
<1>7. /\ Done = {t \in Series : file.rounds[t].done}
      /\ Done' = {t \in Series : file'.rounds[t].done}
  BY DEF Done
<1>8. \A t \in Done \cup {s} :
        file'.rounds[t].high = file.rounds[t].high /\ file'.rounds[t].low = file.rounds[t].low
  BY <1>3 DEF Slots
<1>9. WinsNeeded' = WinsNeeded  BY WinsNeededIs
<1>10. Kept'
  <2>1. \A t, n, v, w : v = w /\ Tally(t, n, v) => Tally(t, n, w)'
    BY <1>2 DEF Tally
  <2>2. ASSUME NEW t \in Series
        PROVE  (LET of == file.rounds[t]
                IN IF of.done
                   THEN /\ \E n \in Games : Tally(t, n, of.wins)
                        /\ OneWins(of.wins)
                        /\ WentOn(t) = IF of.wins[1] >= WinsNeeded THEN of.high ELSE of.low
                   ELSE of.wins = <<0, 0>>)'
    <3>1. CASE t \in Done
      <4>1. /\ file'.rounds[t].wins = file.rounds[t].wins /\ file'.rounds[t].done
            /\ file'.rounds[t].high = file.rounds[t].high
            /\ file'.rounds[t].low = file.rounds[t].low
            /\ WentOn(t)' = WentOn(t)
        BY <3>1, <1>3, <1>5, <1>6, <1>7, <1>8
      <4>2. /\ \E n \in Games : Tally(t, n, file.rounds[t].wins)
            /\ OneWins(file.rounds[t].wins)
            /\ WentOn(t) = IF file.rounds[t].wins[1] >= WinsNeeded
                           THEN file.rounds[t].high ELSE file.rounds[t].low
        BY <3>1, <1>7 DEF Kept
      <4>3. PICK n \in Games : Tally(t, n, file.rounds[t].wins)
        BY <4>2
      <4>4. Tally(t, n, file.rounds[t].wins)'  BY <4>1, <4>3, <2>1
      <4>5. OneWins(file.rounds[t].wins)'  BY <4>1, <4>2, <1>9 DEF OneWins
      <4>6. n \in Games'  BY DEF Games
      <4> QED  BY <4>1, <4>2, <4>4, <4>5, <4>6, <1>9
    <3>2. CASE t = s
      <4>1. file'.rounds[t].wins = score /\ file'.rounds[t].done
        BY <3>2, <1>5, <1>6, <1>7, <1>2
      <4>2. Tally(t, game, score) /\ OneWins(score)
        BY <3>2, <1>1, <1>2 DEF Counted
      <4>3. PICK n \in Games : n = game  BY <1>2
      <4>4. Tally(t, n, file.rounds[t].wins)'  BY <4>1, <4>2, <4>3, <2>1
      <4>5. OneWins(file.rounds[t].wins)'  BY <4>1, <4>2, <1>9 DEF OneWins
      <4>6. n \in Games'  BY DEF Games
      <4>7. WentOn(t)' = IF score[1] >= WinsNeeded THEN file'.rounds[t].high
                                                   ELSE file'.rounds[t].low
        BY <3>2, <1>3, <1>8 DEF Slot
      <4> QED  BY <4>1, <4>4, <4>5, <4>6, <4>7, <1>9
    <3>3. CASE t \notin Done /\ t # s
      <4>1. ~file'.rounds[t].done /\ ~file.rounds[t].done /\ file'.rounds[t].wins = file.rounds[t].wins
        BY <3>3, <1>5, <1>6, <1>7
      <4> QED  BY <4>1 DEF Kept
    <3> QED  BY <3>1, <3>2, <3>3
  <2> QED  BY <2>2 DEF Kept
<1>11. OneLoss'
  <2>1. \A t \in Done : LostBy(t)' = LostBy(t)
    BY <1>3, <1>5, <1>7, <1>8 DEF LostBy
  <2>2. LostBy(s)' = Slot(s, other)
    <3>1. LostBy(s)' = IF Slot(s, slot) = Slot(s, "high") THEN Slot(s, "low") ELSE Slot(s, "high")
      BY <1>3, <1>8 DEF LostBy, Slot
    <3> QED  BY <3>1, <1>4, <1>5 DEF Slots
  <2>3. \A t \in Done : LostBy(t) \in Beaten  BY OneWentOn
  <2>4. \A t \in Done : LostBy(t)' # LostBy(s)'  BY <2>1, <2>2, <2>3, <1>4
  <2> QED  BY <2>1, <2>4, <1>5 DEF OneLoss
<1> QED  BY <1>10, <1>11

\* The scores, the counters and the losses are as they should be, in every
\* state that the script comes to.
LEMMA ScriptKeepsScores ==
  IInv /\ AInv /\ [Next]_vars => AInv'
<1> SUFFICES ASSUME IInv, AInv, [Next]_vars, entry = "script", entry' = "script" PROVE AInv'
  BY DEF AInv, Next, vars
<1>1. GridOK /\ ScriptOK /\ Kept /\ Counted /\ OneLoss  BY DEF IInv, AInv
<1>2. CASE ScriptNext
  <2>1. Counted'  BY <1>1, <1>2, StepKeepsCounted
  <2>2. Kept' /\ OneLoss'
    BY <1>1, <1>2, SavedKeepsScores, UnsavedKeepsScores
  <2> QED  BY <2>1, <2>2 DEF AInv
<1>3. CASE UNCHANGED vars
  <2>1. UNCHANGED scriptVars  BY <1>3 DEF vars
  <2>2. Kept' /\ OneLoss'
    BY <2>1, <1>1, SameFileKeepsScores DEF scriptVars
  <2>3. Counted'
    BY <2>1, <1>1, WinsNeededIs DEF scriptVars, Counted, Tally, OneWins, Current
  <2> QED  BY <2>2, <2>3 DEF AInv
<1> QED  BY <1>2, <1>3 DEF Next

\* At first nothing is done, and no game was played.
LEMMA ScriptStartsScores == Init => AInv
<1> SUFFICES ASSUME Init, entry = "script" PROVE Kept /\ Counted /\ OneLoss
  BY DEF AInv
<1>1. ScriptInit  BY DEF Init
<1>2. \A s \in Series : file.rounds[s].done = FALSE /\ file.rounds[s].wins = <<0, 0>>
  <2>1. \A s \in Series : file.rounds[s] = IF s[1] = 0 THEN NewSeries(s[2] + 1, 8 - s[2])
                                            ELSE NewSeries(None, None)
    BY <1>1 DEF ScriptInit, NewFile
  <2>2. \A h, l : NewSeries(h, l).done = FALSE /\ NewSeries(h, l).wins = <<0, 0>>
    BY DEF NewSeries
  <2> QED  BY <2>1, <2>2
<1>3. Kept  BY <1>2 DEF Kept
<1>4. OneLoss  BY <1>2 DEF OneLoss, Done
<1>5. OneWins(score)  BY <1>1, WinsNeededIs DEF ScriptInit, OneWins
<1>6. Counted  BY <1>1, <1>5 DEF Counted, ScriptInit
<1> QED  BY <1>3, <1>4, <1>6

\* Every score in the file is that of the logs of the last attempt, as far as
\* they name their runs, and nobody has lost two series.
THEOREM ScoresAreTallied == Spec => []AInv
<1>1. Init => AInv  BY ScriptStartsScores
<1>2. IInv /\ AInv /\ [Next]_vars => AInv'  BY ScriptKeepsScores
<1> QED  BY <1>1, <1>2, Invariance, PTL DEF Spec

-----------------------------------------------------------------------------
(* The winners and the summaries *)

\* A map that is one-to-one and onto keeps the size.
LEMMA SameSize ==
  ASSUME NEW S, NEW T, IsFiniteSet(S), NEW f \in [S -> T],
         \A a, b \in S : f[a] = f[b] => a = b,
         \A t \in T : \E a \in S : f[a] = t
  PROVE  IsFiniteSet(T) /\ Cardinality(T) = Cardinality(S)
<1>1. f \in Bijection(S, T)  BY Fun_IsBij
<1>2. ExistsBijection(S, T)  BY <1>1, Fun_ExistsBij
<1> QED  BY <1>2, FS_Bijection

LEMMA ScoreTypes ==
  ASSUME ScriptOK, NEW s \in Series
  PROVE  LET of == file.rounds[s]
         IN /\ of.wins \in (0..BestOf) \X (0..BestOf)
            /\ of.wins[1] \in 0..BestOf /\ of.wins[2] \in 0..BestOf
            /\ BestOf \in Nat \ {0} /\ of.done \in BOOLEAN
            /\ of.high \in 0..8 /\ of.low \in 0..8
  BY ScriptAssumption DEF ScriptOK, ScriptTypeOK

\* A score that decides the series names who went on, and one that is not kept nobody.
LEMMA WinnersNamed ==
  ASSUME entry = "script", GridOK, ScriptOK, Kept, NEW s \in Series
  PROVE  /\ Decided(s) => WinnerOf(s) = WentOn(s) /\ LoserOf(s) = LostBy(s)
         /\ ~file.rounds[s].done => WinnerOf(s) = None /\ LoserOf(s) = None
<1>1. /\ file.rounds[s].wins[1] \in Nat /\ file.rounds[s].wins[2] \in Nat
      /\ WinsNeeded \in Nat
  BY ScoreTypes, WinsNeededIs
<1>2. ASSUME Decided(s)
      PROVE  WinnerOf(s) = WentOn(s) /\ LoserOf(s) = LostBy(s)
  <2>1. s \in Done  BY <1>2 DEF Decided, Done
  <2>2. /\ file.rounds[s].high \in 1..8 /\ file.rounds[s].low \in 1..8
        /\ file.rounds[s].high # file.rounds[s].low
    BY <2>1, OneWentOn
  <2>3. /\ OneWins(file.rounds[s].wins)
        /\ WentOn(s) = IF file.rounds[s].wins[1] >= WinsNeeded
                       THEN file.rounds[s].high ELSE file.rounds[s].low
    BY <2>1 DEF Kept, Done
  <2>4. file.rounds[s].wins[1] >= WinsNeeded \/ file.rounds[s].wins[2] >= WinsNeeded
    BY <1>2 DEF Decided
  <2>5. CASE file.rounds[s].wins[1] >= WinsNeeded
    <3>1. /\ file.rounds[s].wins[1] > file.rounds[s].wins[2]
          /\ ~(file.rounds[s].wins[2] > file.rounds[s].wins[1])
      BY <2>3, <2>5, <1>1 DEF OneWins
    <3> QED  BY <3>1, <2>2, <2>3, <2>5 DEF WinnerOf, LoserOf, LostBy, None
  <2>6. CASE ~(file.rounds[s].wins[1] >= WinsNeeded)
    <3>1. /\ file.rounds[s].wins[2] > file.rounds[s].wins[1]
          /\ ~(file.rounds[s].wins[1] > file.rounds[s].wins[2])
      BY <2>4, <2>6, <1>1
    <3> QED  BY <3>1, <2>2, <2>3, <2>6 DEF WinnerOf, LoserOf, LostBy, None
  <2> QED  BY <2>5, <2>6
<1>3. ASSUME ~file.rounds[s].done
      PROVE  WinnerOf(s) = None /\ LoserOf(s) = None
  <2>1. file.rounds[s].wins = <<0, 0>>  BY <1>3 DEF Kept
  <2>2. ~(file.rounds[s].wins[1] > file.rounds[s].wins[2])
        /\ ~(file.rounds[s].wins[2] > file.rounds[s].wins[1])
    BY <2>1
  <2>3. WinnerOf(s) = None  BY <2>2 DEF WinnerOf
  <2> QED  BY <2>3 DEF LoserOf
<1> QED  BY <1>2, <1>3

\* Where every log names its run, the logs of a completed series are those of
\* its games.
LEMMA LogsTell ==
  ASSUME ScriptOK, Kept, Analysable, NEW s \in Series, file.rounds[s].done
  PROVE  \E n \in Games :
           /\ 1..n \subseteq GamesIn(s) /\ n \in Nat /\ n >= 1
           /\ file.rounds[s].wins[1] = Cardinality({g \in 1..n : logs[s][g] = Plain})
           /\ file.rounds[s].wins[2] =
                Cardinality({g \in 1..n : logs[s][g] \notin {Plain, Draw}})
<1>1. PICK n \in Games : Tally(s, n, file.rounds[s].wins)
  BY DEF Kept
<1>2. n \in Nat /\ n >= 1 /\ \A g \in 1..n : g \in Games
  BY ScriptAssumption DEF Games
<1>3. \A g \in Games : logs[s][g] \in LogStates /\ logs[s][g] # <<"unlinked">>
  BY DEF ScriptOK, ScriptTypeOK, Analysable
<1>4. 1..n \subseteq GamesIn(s)
  BY <1>1, <1>2, <1>3 DEF Tally, GamesIn, LogStates
<1> QED  BY <1>1, <1>2, <1>3, <1>4 DEF Tally

\* When every completed series was decided, the analysis has all the winners.
LEMMA AllNamed ==
  ASSUME entry = "script", GridOK, ScriptOK, Kept, Analysable,
         \A s \in Series : file.rounds[s].done => Decided(s)
  PROVE  /\ \A s \in Series : WinnerOf(s) = WentOn(s) /\ (WentOn(s) = None <=> s \notin Done)
         /\ \A s \in Series : LoserOf(s) = IF s \in Done THEN LostBy(s) ELSE None
         /\ CompletedSeries = Done
<1>1. Done = {s \in Series : file.rounds[s].done}  BY DEF Done
<1>2. Size = 8 /\ SizeOK /\ Grid = Series /\ Final = <<2, 0>>  BY ScriptGrid
<1>3. \A s \in Series : WentOn(s) = None <=> s \notin Done
  <2>1. \A s \in Series : WentOn(s) = IF s = Final THEN Champ ELSE Slot(Up(s), Side(s))
    BY WentOnUp
  <2>2. \A s \in Series : s # Final => /\ Up(s) \in Series /\ Side(s) \in Slots /\ Up(s)[1] > 0
                                       /\ Parent(Up(s), Side(s)) = s
    BY <1>2, GridUp
  <2> QED  BY <2>1, <2>2, <1>2 DEF GridOK, Fed
<1>4. \A s \in Series :
        /\ s \in Done => WinnerOf(s) = WentOn(s) /\ LoserOf(s) = LostBy(s)
        /\ s \notin Done => WinnerOf(s) = None /\ LoserOf(s) = None
  BY <1>1, WinnersNamed
<1>5. \A s \in Done : GamesIn(s) # {}
  <2>1. ASSUME NEW s \in Done  PROVE GamesIn(s) # {}
    <3>1. PICK n \in Games : 1..n \subseteq GamesIn(s) /\ n \in Nat /\ n >= 1
      BY <1>1, LogsTell
    <3>2. 1 \in 1..n  BY <3>1
    <3> QED  BY <3>1, <3>2
  <2> QED  BY <2>1
<1>6. CompletedSeries = Done
  BY <1>1, <1>3, <1>4, <1>5 DEF CompletedSeries
<1> QED  BY <1>3, <1>4, <1>6

\* The losers of the completed series are different ones, and are all who are beaten.
LEMMA BeatenOnce ==
  ASSUME entry = "script", GridOK, Kept, OneLoss
  PROVE  /\ \A e : e \in Beaten <=> \E s \in Done : LostBy(s) = e
         /\ \A e : Cardinality({s \in Done : LostBy(s) = e}) = IF e \in Beaten THEN 1 ELSE 0
         /\ Cardinality(Done) = Cardinality(Beaten)
<1>1. Done = {s \in Series : file.rounds[s].done}  BY DEF Done
<1>2. \A e : e \in Beaten <=> \E s \in Done : LostBy(s) = e
  <2>1. \A s \in Done : {file.rounds[s].high, file.rounds[s].low} \ {WentOn(s)} = {LostBy(s)}
    BY OneWentOn
  <2>2. Beaten = UNION {{file.rounds[s].high, file.rounds[s].low} \ {WentOn(s)} : s \in Done}
    BY <1>1 DEF Beaten
  <2> QED  BY <2>1, <2>2
<1>3. ASSUME NEW e
      PROVE  Cardinality({s \in Done : LostBy(s) = e}) = IF e \in Beaten THEN 1 ELSE 0
  <2>1. CASE e \in Beaten
    <3>1. PICK s \in Done : LostBy(s) = e  BY <2>1, <1>2
    <3>2. {t \in Done : LostBy(t) = e} = {s}  BY <3>1 DEF OneLoss
    <3> QED  BY <3>2, <2>1, FS_Singleton
  <2>2. CASE e \notin Beaten
    <3>1. {t \in Done : LostBy(t) = e} = {}  BY <2>2, <1>2
    <3> QED  BY <3>1, <2>2, FS_EmptySet
  <2> QED  BY <2>1, <2>2
<1>4. Cardinality(Done) = Cardinality(Beaten)
  <2> DEFINE f == [s \in Done |-> LostBy(s)]
  <2>1. IsFiniteSet(Done)  BY <1>1, SeriesFinite, FS_Subset
  <2>2. f \in [Done -> Beaten]  BY <1>2
  <2>3. \A a, b \in Done : f[a] = f[b] => a = b  BY DEF OneLoss
  <2>4. \A e \in Beaten : \E s \in Done : f[s] = e  BY <1>2
  <2> HIDE DEF f
  <2> QED  BY <2>1, <2>2, <2>3, <2>4, SameSize
<1> QED  BY <1>2, <1>3, <1>4

\* The last frame is the bracket of the file, and the summaries are its story.
LEMMA SummariesTell ==
  ASSUME entry = "script", GridOK, ScriptOK, Kept, OneLoss, Analysable,
         \A s \in Series : file.rounds[s].done => Decided(s)
  PROVE  /\ \A s \in Series, slot \in {"high", "low"} :
              Shown(s, slot, CompletedSeries) = file.rounds[s][slot]
         /\ ChampionShown(CompletedSeries) = file.champion
         /\ \A e \in 1..8 :
              /\ PolicySummary(e).seriesWins = Wins[e]
              /\ PolicySummary(e).seriesLosses = IF e \in Beaten THEN 1 ELSE 0
              /\ PolicySummary(e).eliminatedIn =
                   {s[1] : s \in {t \in Series : /\ file.rounds[t].done
                                                /\ e \in {file.rounds[t].high, file.rounds[t].low}
                                                /\ WentOn(t) # e}}
              /\ PolicySummary(e).champion = (e = file.champion)
         /\ Overview.completedSeries = Cardinality(Beaten)
<1>1. /\ \A s \in Series : WinnerOf(s) = WentOn(s) /\ (WentOn(s) = None <=> s \notin Done)
      /\ \A s \in Series : LoserOf(s) = IF s \in Done THEN LostBy(s) ELSE None
      /\ CompletedSeries = Done
  BY AllNamed
<1>2. /\ Size = 8 /\ SizeOK /\ Grid = Series /\ Final = <<2, 0>> /\ Final \in Series
      /\ Done = {s \in Series : file.rounds[s].done}
  BY ScriptGrid, SeriesIs DEF Done
<1>3. \A s \in Series : WentOn(s) = IF s = Final THEN file.champion ELSE Slot(Up(s), Side(s))
  BY WentOnUp DEF Champ
<1>4. ASSUME NEW s \in Series, NEW slot \in {"high", "low"}
      PROVE  Shown(s, slot, CompletedSeries) = file.rounds[s][slot]
  <2>1. CASE s[1] = 0  BY <2>1 DEF Shown
  <2>2. CASE s[1] # 0
    <3>1. s[1] > 0 /\ slot \in Slots  BY <2>2, <1>2, GridPairs DEF Slots
    <3>2. /\ Parent(s, slot) \in Series /\ Parent(s, slot) # Final
          /\ Up(Parent(s, slot)) = s /\ Side(Parent(s, slot)) = slot
      BY <3>1, <1>2, GridDown
    <3>3. Slot(s, slot) = file.rounds[s][slot]  BY DEF Slot
    <3>4. CASE Parent(s, slot) \in Done
      BY <3>2, <3>3, <3>4, <2>2, <1>1, <1>3 DEF Shown
    <3>5. CASE Parent(s, slot) \notin Done
      <4>1. Slot(s, slot) = None  BY <3>1, <3>5, <1>2 DEF GridOK, Fed
      <4> QED  BY <4>1, <3>3, <3>5, <2>2, <1>1 DEF Shown
    <3> QED  BY <3>4, <3>5
  <2> QED  BY <2>1, <2>2
<1>5. ChampionShown(CompletedSeries) = file.champion
  <2>1. CASE file.champion = None
    BY <2>1 DEF ChampionShown
  <2>2. CASE file.champion # None
    <3>1. WentOn(Final) = file.champion /\ Final \in Done
      BY <2>2, <1>1, <1>2, <1>3
    <3> QED  BY <3>1, <1>1, <1>2 DEF ChampionShown
  <2> QED  BY <2>1, <2>2
<1>6. ASSUME NEW e \in 1..8
      PROVE  /\ PolicySummary(e).seriesWins = Wins[e]
             /\ PolicySummary(e).seriesLosses = IF e \in Beaten THEN 1 ELSE 0
             /\ PolicySummary(e).eliminatedIn =
                  {s[1] : s \in {t \in Series : /\ file.rounds[t].done
                                               /\ e \in {file.rounds[t].high, file.rounds[t].low}
                                               /\ WentOn(t) # e}}
             /\ PolicySummary(e).champion = (e = file.champion)
  <2> DEFINE won  == {s \in Series : WinnerOf(s) = e}
             left == {s \in Series : LoserOf(s) = e}
  <2>0. e # None  BY DEF None
  <2>1. /\ PolicySummary(e).seriesWins = Cardinality(won)
        /\ PolicySummary(e).seriesLosses = Cardinality(left)
        /\ PolicySummary(e).eliminatedIn = {s[1] : s \in left}
        /\ PolicySummary(e).champion = (won # {} /\ e = file.champion)
    BY DEF PolicySummary
  <2>2. won = {s \in Series : WentOn(s) = e}  BY <1>1
  <2>3. left = {s \in Done : LostBy(s) = e}  BY <1>1, <1>2, <2>0
  <2>4. left = {t \in Series : /\ file.rounds[t].done
                               /\ e \in {file.rounds[t].high, file.rounds[t].low}
                               /\ WentOn(t) # e}
    <3>1. \A t \in Done : LostBy(t) = e <=> /\ e \in {file.rounds[t].high, file.rounds[t].low}
                                            /\ WentOn(t) # e
      <4>1. \A t \in Done : {file.rounds[t].high, file.rounds[t].low} \ {WentOn(t)} = {LostBy(t)}
        BY OneWentOn
      <4> QED  BY <4>1
    <3> QED  BY <3>1, <2>3, <1>2
  <2>5. Wins[e] = Cardinality(won)
    BY <2>2, <1>2 DEF Wins
  <2>6. Cardinality(left) = IF e \in Beaten THEN 1 ELSE 0
    BY <2>3, BeatenOnce
  <2>7. e = file.champion => won # {}
    <3>1. WentOn(Final) = file.champion  BY <1>2, <1>3
    <3> QED  BY <3>1, <2>2, <1>2
  <2> HIDE DEF won, left
  <2> QED  BY <2>1, <2>4, <2>5, <2>6, <2>7
<1>7. Overview.completedSeries = Cardinality(Beaten)
  BY <1>2, BeatenOnce DEF Overview
<1> QED  BY <1>4, <1>5, <1>6, <1>7

-----------------------------------------------------------------------------
(* The games *)

LEMMA GamesFinite ==
  IsFiniteSet(Games) /\ \A s : IsFiniteSet(GamesIn(s)) /\ GamesIn(s) \subseteq Games
<1>1. IsFiniteSet(Games)  BY ScriptAssumption, FS_Interval DEF Games
<1>2. \A s : GamesIn(s) \subseteq Games  BY DEF GamesIn
<1>3. \A s : IsFiniteSet(GamesIn(s))  BY <1>1, <1>2, FS_Subset
<1> QED  BY <1>1, <1>2, <1>3

\* The games of a series that was played out are those that its score counts.
LEMMA PlayedGames ==
  ASSUME ScriptOK, Kept, Analysable, NEW s \in Series, PlayedOut(s)
  PROVE  /\ Cardinality(Took(s, "p1")) = file.rounds[s].wins[1]
         /\ Cardinality(Took(s, "p2")) = file.rounds[s].wins[2]
         /\ GamesIn(s) = Took(s, "p1") \cup Took(s, "p2")
         /\ {g \in GamesIn(s) : GameLines(s)[g] = "right"} = Took(s, "p2")
<1> DEFINE wins == file.rounds[s].wins
<1>1. IsFiniteSet(GamesIn(s))  BY GamesFinite
<1>2. \A g \in GamesIn(s) : /\ g \in Games /\ logs[s][g][1] = "completed"
                            /\ \/ logs[s][g] = Plain \/ logs[s][g] = Draw
                               \/ logs[s][g] = <<"completed", "p2">>
  <2>1. \A x \in Results : x[1] = "completed" =>
          x \in {Plain, Draw, <<"completed", "p2">>}
    BY DEF Results, Plain, Draw
  <2> QED  BY <2>1 DEF PlayedOut, GamesIn
<1>3. /\ Plain[2] = "p1" /\ Draw[2] = "none" /\ Plain # Draw
      /\ <<"completed", "p2">>[2] = "p2" /\ <<"completed", "p2">> \notin {Plain, Draw}
  BY DEF Plain, Draw
<1>4. /\ Took(s, "p1") = {g \in GamesIn(s) : logs[s][g] = Plain}
      /\ Took(s, "p2") = {g \in GamesIn(s) : logs[s][g] \notin {Plain, Draw}}
  BY <1>2, <1>3 DEF Took
<1>5. ASSUME ~file.rounds[s].done
      PROVE  GamesIn(s) = {} /\ wins = <<0, 0>>
  <2>1. wins = <<0, 0>>  BY <1>5 DEF Kept
  <2>2. Cardinality(GamesIn(s)) = 0  BY <2>1 DEF PlayedOut
  <2> QED  BY <2>1, <2>2, <1>1, FS_EmptySet
<1>6. /\ Cardinality(Took(s, "p1")) = wins[1]
      /\ Cardinality(Took(s, "p2")) = wins[2]
      /\ GamesIn(s) = Took(s, "p1") \cup Took(s, "p2")
  <2>1. CASE ~file.rounds[s].done
    <3>1. GamesIn(s) = {} /\ wins = <<0, 0>>  BY <2>1, <1>5
    <3>2. Took(s, "p1") = {} /\ Took(s, "p2") = {}  BY <3>1 DEF Took
    <3> QED  BY <3>1, <3>2, FS_EmptySet
  <2>2. CASE file.rounds[s].done
    <3>1. PICK n \in Games :
            /\ 1..n \subseteq GamesIn(s) /\ n \in Nat /\ n >= 1
            /\ wins[1] = Cardinality({g \in 1..n : logs[s][g] = Plain})
            /\ wins[2] = Cardinality({g \in 1..n : logs[s][g] \notin {Plain, Draw}})
      BY <2>2, LogsTell
    <3> DEFINE P == {g \in 1..n : logs[s][g] = Plain}
               Q == {g \in 1..n : logs[s][g] \notin {Plain, Draw}}
    <3>2. P \subseteq GamesIn(s) /\ Q \subseteq GamesIn(s) /\ P \cap Q = {}
      BY <3>1
    <3>3. P \subseteq Took(s, "p1") /\ Q \subseteq Took(s, "p2")
          /\ Took(s, "p1") \cap Q = {} /\ Took(s, "p2") \cap P = {}
      BY <3>1, <1>4
    <3>4. IsFiniteSet(P) /\ IsFiniteSet(Q)  BY <3>2, <1>1, FS_Subset
    <3>5. wins[1] = Cardinality(P) /\ wins[2] = Cardinality(Q)  BY <3>1
    <3> HIDE DEF P, Q
    <3>6. Cardinality(P \cup Q) = Cardinality(P) + Cardinality(Q)
      <4>1. Cardinality(P) \in Nat /\ Cardinality(Q) \in Nat
        BY <3>4, FS_CardinalityType
      <4>2. Cardinality(P \cap Q) = 0  BY <3>2, FS_EmptySet
      <4>3. Cardinality(P \cup Q) = Cardinality(P) + Cardinality(Q) - Cardinality(P \cap Q)
        BY <3>4, FS_Union
      <4> QED  BY <4>1, <4>2, <4>3
    <3>7. Cardinality(GamesIn(s)) = Cardinality(P \cup Q)
      BY <3>5, <3>6 DEF PlayedOut
    <3>8. GamesIn(s) = P \cup Q  BY <3>2, <3>7, <1>1, FS_Subset
    <3>9. Took(s, "p1") \subseteq GamesIn(s) /\ Took(s, "p2") \subseteq GamesIn(s)
      BY DEF Took
    <3>10. Took(s, "p1") = P /\ Took(s, "p2") = Q
      BY <3>3, <3>8, <3>9
    <3> QED  BY <3>5, <3>8, <3>10
  <2> QED  BY <2>1, <2>2
<1>7. {g \in GamesIn(s) : GameLines(s)[g] = "right"} = Took(s, "p2")
  <2>1. \A g \in GamesIn(s) : GameLines(s)[g] = IF logs[s][g][2] = "p1" THEN "left" ELSE "right"
    BY DEF GameLines
  <2>2. \A g \in GamesIn(s) : logs[s][g][2] \in {"p1", "p2"}
    BY <1>6 DEF Took
  <2> QED  BY <2>1, <2>2 DEF Took
<1> QED  BY <1>6, <1>7

\* The second parts of the pairs that begin with i.
With(i, A, D) == {d \in D : <<i, d>> \in A}

EquallyMany(I, D, A, B) ==
  /\ A \subseteq I \X D /\ B \subseteq I \X D
  /\ \A i \in I : Cardinality(With(i, A, D)) = Cardinality(With(i, B, D))

\* Sets of pairs are of one size when those with the same first part are.
LEMMA SamePairs ==
  ASSUME NEW I, NEW D, NEW A, NEW B, EquallyMany(I, D, A, B),
         IsFiniteSet(A), IsFiniteSet(D)
  PROVE  Cardinality(A) = Cardinality(B)
<1> DEFINE At(i) == With(i, A, D)
           Bt(i) == With(i, B, D)
           h == [i \in I |-> CHOOSE f \in Bijection(At(i), Bt(i)) : TRUE]
           F == [x \in A |-> <<x[1], h[x[1]][x[2]]>>]
<1>0. /\ A \subseteq I \X D /\ B \subseteq I \X D
      /\ \A i \in I : Cardinality(At(i)) = Cardinality(Bt(i))
  BY DEF EquallyMany
<1>1. \A i \in I : h[i] \in Bijection(At(i), Bt(i))
  <2>1. ASSUME NEW i \in I  PROVE Bijection(At(i), Bt(i)) # {}
    <3>1. IsFiniteSet(At(i)) /\ IsFiniteSet(Bt(i))  BY FS_Subset DEF With
    <3>2. ExistsBijection(At(i), Bt(i))
      <4>1. Cardinality(At(i)) = Cardinality(Bt(i))  BY <1>0
      <4> HIDE DEF At, Bt
      <4> QED  BY <4>1, <3>1, FS_SameCardinalityBij
    <3> QED  BY <3>2, Fun_ExistsBij
  <2> HIDE DEF At, Bt
  <2> QED  BY <2>1
<1>2. \A i \in I : /\ h[i] \in [At(i) -> Bt(i)]
                   /\ \A a, b \in At(i) : h[i][a] = h[i][b] => a = b
                   /\ \A t \in Bt(i) : \E a \in At(i) : h[i][a] = t
  <2> HIDE DEF h, At, Bt
  <2> QED  BY <1>1, Fun_BijectionProperties
<1> HIDE DEF h
<1>3. \A x \in A : x = <<x[1], x[2]>> /\ x[1] \in I /\ x[2] \in D /\ x[2] \in At(x[1])
  BY <1>0 DEF With
<1>4. \A x \in B : x = <<x[1], x[2]>> /\ x[1] \in I /\ x[2] \in D /\ x[2] \in Bt(x[1])
  BY <1>0 DEF With
<1>8. \A i \in I : /\ \A d \in At(i) : <<i, d>> \in A
                   /\ \A d \in Bt(i) : <<i, d>> \in B
  BY DEF With
<1>9. \A x \in A : F[x] = <<x[1], h[x[1]][x[2]]>>
  OBVIOUS
<1> HIDE DEF At, Bt
<1>5. F \in [A -> B]
  <2>1. ASSUME NEW x \in A  PROVE <<x[1], h[x[1]][x[2]]>> \in B
    <3>1. x[1] \in I /\ x[2] \in At(x[1])  BY <1>3
    <3>2. h[x[1]] \in [At(x[1]) -> Bt(x[1])]  BY <1>2, <3>1
    <3>3. h[x[1]][x[2]] \in Bt(x[1])  BY <3>1, <3>2
    <3> QED  BY <3>1, <3>3, <1>8
  <2> QED  BY <2>1
<1> HIDE DEF F
<1>6. ASSUME NEW x \in A, NEW y \in A, F[x] = F[y]  PROVE x = y
  <2>1. x[1] = y[1] /\ h[x[1]][x[2]] = h[x[1]][y[2]]  BY <1>6, <1>9
  <2>2. x[1] \in I /\ x[2] \in At(x[1]) /\ y[2] \in At(x[1])  BY <2>1, <1>3
  <2>3. \A a, b \in At(x[1]) : h[x[1]][a] = h[x[1]][b] => a = b
    BY <1>2, <2>2
  <2>4. x[2] = y[2]  BY <2>1, <2>2, <2>3
  <2> QED  BY <2>1, <2>4, <1>3
<1>7. ASSUME NEW y \in B  PROVE \E x \in A : F[x] = y
  <2>1. y[1] \in I /\ y[2] \in Bt(y[1]) /\ y = <<y[1], y[2]>>  BY <1>4
  <2>2. \A t \in Bt(y[1]) : \E a \in At(y[1]) : h[y[1]][a] = t
    BY <1>2, <2>1
  <2>3. PICK a \in At(y[1]) : h[y[1]][a] = y[2]  BY <2>1, <2>2
  <2>4. <<y[1], a>> \in A  BY <2>1, <1>8
  <2>5. F[<<y[1], a>>] = <<y[1], h[y[1]][a]>>  BY <2>4, <1>9
  <2> QED  BY <2>1, <2>3, <2>4, <2>5
<1> QED  BY <1>5, <1>6, <1>7, SameSize

\* The games of an entrant add up to the scores.
LEMMA GamesAddUp ==
  ASSUME entry = "script", GridOK, ScriptOK, Kept, Analysable,
         \A s \in Series : PlayedOut(s), NEW e \in 1..8
  PROVE  /\ PolicySummary(e).gameWins = Cardinality(Scored(e))
         /\ PolicySummary(e).gameWins + PolicySummary(e).gameLosses = TotalGames(e)
<1> DEFINE games == {x \in GamesOf(e) : TookGame(x) # "none"}
           taken == {x \in games : TookGame(x) = SlotOf(e, x[1])}
<1>1. /\ PolicySummary(e).gameWins = Cardinality(taken)
      /\ PolicySummary(e).gameLosses = Cardinality(games \ taken)
  BY DEF PolicySummary
<1>2. \A s \in Series : /\ Cardinality(Took(s, "p1")) = file.rounds[s].wins[1]
                        /\ Cardinality(Took(s, "p2")) = file.rounds[s].wins[2]
                        /\ GamesIn(s) = Took(s, "p1") \cup Took(s, "p2")
  BY PlayedGames
<1>3. games = GamesOf(e)
  <2>1. \A x \in GamesOf(e) : TookGame(x) # "none"
    BY <1>2 DEF GamesOf, TookGame, Took
  <2> QED  BY <2>1
<1>4. /\ GamesOf(e) \subseteq Series \X Games
      /\ IsFiniteSet(Series \X Games) /\ IsFiniteSet(Games)
  BY SeriesFinite, GamesFinite, FS_Product DEF GamesOf
<1>5. IsFiniteSet(games) /\ IsFiniteSet(taken)
  BY <1>3, <1>4, FS_Subset
<1>6. Cardinality(taken) + Cardinality(games \ taken) = TotalGames(e)
  <2>1. taken \subseteq games /\ games \cap taken = taken  OBVIOUS
  <2> HIDE DEF taken, games
  <2>2. Cardinality(games) \in Nat /\ Cardinality(taken) \in Nat
    BY <1>5, FS_CardinalityType
  <2>3. Cardinality(games \ taken) = Cardinality(games) - Cardinality(taken)
    BY <2>1, <1>5, FS_Difference
  <2> QED  BY <2>2, <2>3, <1>3 DEF TotalGames
<1>7. ASSUME NEW s \in Series
      PROVE  Cardinality({g \in Games : <<s, g>> \in taken})
               = Cardinality({g \in Games : <<s, g>> \in Scored(e)})
  <2> DEFINE of == file.rounds[s]
  <2>1. \A g \in Games : <<s, g>> \in taken <=>
          /\ g \in GamesIn(s) /\ e \in {of.high, of.low}
          /\ logs[s][g][2] = SlotOf(e, s)
    BY <1>3 DEF GamesOf, TookGame
  <2>2. \A g \in Games : <<s, g>> \in Scored(e) <=>
          \/ e = of.high /\ g <= of.wins[1]
          \/ e = of.low /\ g <= of.wins[2]
    BY DEF Scored
  <2>3. /\ of.wins[1] \in 0..BestOf /\ of.wins[2] \in 0..BestOf /\ BestOf \in Nat
    BY ScoreTypes
  <2>4. \A n \in 0..BestOf : {g \in Games : g <= n} = 1..n /\ Cardinality(1..n) = n
    <3>1. ASSUME NEW n \in 0..BestOf
          PROVE {g \in Games : g <= n} = 1..n /\ Cardinality(1..n) = n
      <4>1. n \in Int /\ 1 \in Int /\ n >= 0  BY <2>3
      <4>2. Cardinality(1..n) = n  BY <4>1, FS_Interval
      <4> QED  BY <4>2, <2>3 DEF Games
    <3> QED  BY <3>1
  <2>5. CASE e \notin {of.high, of.low}
    <3>1. /\ {g \in Games : <<s, g>> \in taken} = {}
          /\ {g \in Games : <<s, g>> \in Scored(e)} = {}
      BY <2>1, <2>2, <2>5
    <3> QED  BY <3>1
  <2>6. CASE e \in {of.high, of.low} /\ of.high # of.low
    <3>1. CASE e = of.high
      <4>1. SlotOf(e, s) = "p1" /\ e # of.low  BY <3>1, <2>6 DEF SlotOf
      <4>2. {g \in Games : <<s, g>> \in taken} = Took(s, "p1")
        BY <2>1, <2>6, <4>1, GamesFinite DEF Took
      <4>3. {g \in Games : <<s, g>> \in Scored(e)} = {g \in Games : g <= of.wins[1]}
        BY <2>2, <3>1, <4>1
      <4> QED  BY <4>2, <4>3, <2>3, <2>4, <1>2
    <3>2. CASE e = of.low
      <4>1. SlotOf(e, s) = "p2" /\ e # of.high  BY <3>2, <2>6 DEF SlotOf
      <4>2. {g \in Games : <<s, g>> \in taken} = Took(s, "p2")
        BY <2>1, <2>6, <4>1, GamesFinite DEF Took
      <4>3. {g \in Games : <<s, g>> \in Scored(e)} = {g \in Games : g <= of.wins[2]}
        BY <2>2, <3>2, <4>1
      <4> QED  BY <4>2, <4>3, <2>3, <2>4, <1>2
    <3> QED  BY <3>1, <3>2, <2>6
  <2>7. CASE of.high = of.low
    <3>1. ~of.done
      BY <2>7, OneWentOn DEF Done
    <3>2. of.wins = <<0, 0>>  BY <3>1 DEF Kept
    <3>3. of.wins[1] = 0 /\ of.wins[2] = 0  BY <3>2
    <3>4. GamesIn(s) = {}
      <4>1. Cardinality(Took(s, "p1")) = 0 /\ Cardinality(Took(s, "p2")) = 0
        BY <3>3, <1>2
      <4>2. IsFiniteSet(Took(s, "p1")) /\ IsFiniteSet(Took(s, "p2"))
        <5>1. Took(s, "p1") \subseteq Games /\ Took(s, "p2") \subseteq Games
          BY GamesFinite DEF Took
        <5> QED  BY <5>1, GamesFinite, FS_Subset
      <4>3. Took(s, "p1") = {} /\ Took(s, "p2") = {}
        BY <4>1, <4>2, FS_EmptySet
      <4> QED  BY <4>3, <1>2
    <3>5. {g \in Games : <<s, g>> \in taken} = {}
      BY <2>1, <3>4
    <3>6. {g \in Games : <<s, g>> \in Scored(e)} = {}
      BY <2>2, <3>3, <2>3 DEF Games
    <3> QED  BY <3>5, <3>6
  <2> QED  BY <2>5, <2>6, <2>7
<1>8. Cardinality(taken) = Cardinality(Scored(e))
  <2>1. taken \subseteq Series \X Games /\ Scored(e) \subseteq Series \X Games
    BY <1>4 DEF Scored
  <2>2. EquallyMany(Series, Games, taken, Scored(e))
    BY <2>1, <1>7 DEF EquallyMany, With
  <2> HIDE DEF taken
  <2> QED  BY <2>2, <1>4, <1>5, SamePairs
<1> QED  BY <1>1, <1>6, <1>8

-----------------------------------------------------------------------------
(* The blocks of a frame *)

\* A set of natural numbers has a least one.
LEMMA Least ==
  ASSUME NEW T \in SUBSET Nat, T # {}
  PROVE  \E x \in T : \A y \in T : x <= y
<1> DEFINE Below(x) == 0..(x - 1)
           All == {Below(x) : x \in T}
           R == StrictSubsetOrdering(Nat)
           S == FiniteSubsetsOf(Nat)
<1>1. All # {}  OBVIOUS
<1>2. All \subseteq S
  <2>1. ASSUME NEW x \in T  PROVE Below(x) \in S
    <3>1. x - 1 \in Int /\ 0 \in Int  OBVIOUS
    <3>2. IsFiniteSet(Below(x))  BY <3>1, FS_Interval
    <3>3. Below(x) \subseteq Nat  OBVIOUS
    <3> QED  BY <3>2, <3>3 DEF FiniteSubsetsOf
  <2> HIDE DEF Below, S
  <2> QED  BY <2>1
<1>3. IsWellFoundedOn(R, S)  BY FS_StrictSubsetOrderingWellFounded
<1>4. PICK U \in All : \A V \in All : ~(<<V, U>> \in R)
  <2> HIDE DEF All, R, S
  <2> QED  BY <1>1, <1>2, <1>3, WFMin
<1>5. PICK x \in T : U = Below(x)  BY <1>4
<1>6. ASSUME NEW y \in T, y < x  PROVE FALSE
  <2>1. Below(y) \in All /\ Below(y) \subseteq Below(x) /\ Below(y) # Below(x)
    <3>1. y \in Below(x) /\ y \notin Below(y)  BY <1>6
    <3> QED  BY <3>1, <1>6
  <2>2. <<Below(y), U>> \in R
    BY <2>1, <1>5 DEF StrictSubsetOrdering
  <2> QED  BY <2>1, <2>2, <1>4
<1> QED  BY <1>6

\* The pitch of the columns leaves room for the series with the most games.
LEMMA PitchIs ==
  ASSUME NEW revealed, revealed \subseteq Series
  PROVE  \E most \in Nat :
           /\ \A s \in revealed : Cardinality(GamesIn(s)) \in 0..most
           /\ LeafPitch(revealed) = 4 * (164 + (IF most = 0 THEN 0 ELSE most - 1) * 20)
<1> DEFINE lines == {Cardinality(GamesIn(s)) : s \in revealed} \cup {0}
           bounds == {n \in Nat : \A k \in lines : k <= n}
           most == CHOOSE n \in lines : \A k \in lines : k <= n
<1>1. /\ \A s : Cardinality(GamesIn(s)) \in Nat /\ Cardinality(GamesIn(s)) <= Cardinality(Games)
      /\ Cardinality(Games) \in Nat
  <2>1. ASSUME NEW s  PROVE /\ Cardinality(GamesIn(s)) \in Nat
                            /\ Cardinality(GamesIn(s)) <= Cardinality(Games)
    BY GamesFinite, FS_Subset, FS_CardinalityType
  <2> QED  BY <2>1, GamesFinite, FS_CardinalityType
<1>2. lines \subseteq Nat /\ 0 \in lines  BY <1>1
<1>3. Cardinality(Games) \in bounds  BY <1>1
<1> HIDE DEF lines
<1>4. PICK n \in bounds : \A m \in bounds : n <= m
  <2>1. bounds \in SUBSET Nat /\ bounds # {}  BY <1>3
  <2> HIDE DEF bounds
  <2> QED  BY <2>1, Least
<1>5. n \in lines
  <2> SUFFICES ASSUME n \notin lines PROVE FALSE
    OBVIOUS
  <2>1. n \in Nat /\ \A k \in lines : k <= n  BY <1>4
  <2>2. n # 0  BY <1>2
  <2>3. \A k \in lines : k <= n - 1
    <3>1. \A k \in lines : k # n /\ k \in Nat  BY <1>2
    <3> QED  BY <2>1, <3>1
  <2>4. n - 1 \in bounds  BY <2>1, <2>2, <2>3
  <2> QED  BY <2>1, <2>4, <1>4
<1>6. most \in lines /\ \A k \in lines : k <= most
  BY <1>4, <1>5
<1>7. most \in Nat /\ \A s \in revealed : Cardinality(GamesIn(s)) \in 0..most
  <2>1. \A s \in revealed : Cardinality(GamesIn(s)) \in lines  BY DEF lines
  <2>2. most \in lines /\ \A k \in lines : k <= most  BY <1>6
  <2> HIDE DEF most, bounds
  <2>3. most \in Nat  BY <2>2, <1>2
  <2>4. ASSUME NEW s \in revealed  PROVE Cardinality(GamesIn(s)) \in 0..most
    <3>1. Cardinality(GamesIn(s)) \in Nat /\ Cardinality(GamesIn(s)) <= most
      BY <2>1, <2>2, <1>2
    <3> QED  BY <3>1, <2>3
  <2> QED  BY <2>3, <2>4
<1>8. LeafPitch(revealed) = 4 * (164 + (IF most = 0 THEN 0 ELSE most - 1) * 20)
  BY DEF LeafPitch, lines
<1> HIDE DEF most
<1> QED  BY <1>7, <1>8

\* No block reaches the one below it.
LEMMA NoOverlap ==
  ASSUME NEW revealed, revealed \subseteq Series, NEW s \in Series
  PROVE  ~Overlap(s, revealed)
<1> DEFINE t == <<s[1], s[2] + 1>>
           P == LeafPitch(revealed)
           half(u) == Height(u, revealed) \div 2
<1>1. PICK most \in Nat :
        /\ \A u \in revealed : Cardinality(GamesIn(u)) \in 0..most
        /\ P = 4 * (164 + (IF most = 0 THEN 0 ELSE most - 1) * 20)
  BY PitchIs
<1>2. \A u : half(u) \in Int /\ half(u) <= 2 * (100 + most * 18)
  <2>1. ASSUME NEW u  PROVE half(u) \in Int /\ half(u) <= 2 * (100 + most * 18)
    <3>1. CASE u \in revealed
      <4>1. PICK n \in 0..most : n = Cardinality(GamesIn(u))  BY <3>1, <1>1
      <4>2. Height(u, revealed) = 4 * (74 + (26 + n * 18))
        BY <4>1, <3>1 DEF Height
      <4> QED  BY <4>1, <4>2
    <3>2. CASE u \notin revealed
      <4>1. Height(u, revealed) = 4 * (74 + 0)  BY <3>2 DEF Height
      <4> QED  BY <4>1
    <3> QED  BY <3>1, <3>2
  <2> QED  BY <2>1
<1>3. P \in Nat /\ P >= 4 * (100 + most * 18)  BY <1>1
<1> SUFFICES ASSUME t \in Series
             PROVE  ~(Center(s, revealed) + half(s) > Center(t, revealed) - half(t))
  BY DEF Overlap
<1> HIDE DEF P, half
<1>4. /\ Center(s, revealed) \in Int /\ Center(t, revealed) \in Int
      /\ Center(t, revealed) >= Center(s, revealed) + P
  <2>0. P = 4 * (164 + (IF most = 0 THEN 0 ELSE most - 1) * 20)  BY <1>1 DEF P
  <2>1. PICK q : q = 2 * (164 + (IF most = 0 THEN 0 ELSE most - 1) * 20)
    OBVIOUS
  <2>7. q \in Nat /\ P = 2 * q  BY <2>0, <2>1
  <2> DEFINE from(u) == u[2] * 2^u[1]
             to(u) == (u[2] + 1) * 2^u[1] - 1
  <2>2. \A u : Center(u, revealed) = ((1200 + from(u) * P) + (1200 + to(u) * P)) \div 2
    BY DEF Center, P
  <2>3. t[1] = s[1] /\ t[2] = s[2] + 1 /\ s[2] \in 0..3  BY SeriesIs
  <2>4. CASE s[1] = 0
    <3>1. /\ from(s) = s[2] /\ to(s) = s[2]
          /\ from(t) = s[2] + 1 /\ to(t) = s[2] + 1
      <4>1. 2^s[1] = 1 /\ 2^t[1] = 1  BY <2>4, <2>3
      <4> HIDE DEF t
      <4> QED  BY <4>1, <2>3
    <3> HIDE DEF from, to, t
    <3>2. /\ Center(s, revealed) = ((1200 + s[2] * P) + (1200 + s[2] * P)) \div 2
          /\ Center(t, revealed) = ((1200 + (s[2] + 1) * P) + (1200 + (s[2] + 1) * P)) \div 2
      BY <2>2, <3>1
    <3>3. PICK c, d : c = s[2] * P /\ d = (s[2] + 1) * P  OBVIOUS
    <3>4. c \in Int /\ d = c + P
      <4>1. s[2] \in {0, 1, 2, 3}  BY <2>3
      <4> QED  BY <4>1, <3>3, <1>3
    <3>5. /\ Center(s, revealed) = ((1200 + c) + (1200 + c)) \div 2
          /\ Center(t, revealed) = ((1200 + d) + (1200 + d)) \div 2
      BY <3>2, <3>3
    <3>6. \A x \in Int : ((1200 + x) + (1200 + x)) \div 2 = 1200 + x  OBVIOUS
    <3>7. Center(s, revealed) = 1200 + c /\ Center(t, revealed) = 1200 + c + P
      BY <3>4, <3>5, <3>6, <1>3
    <3> QED  BY <3>4, <3>7, <1>3
  <2>5. CASE s[1] = 1
    <3>1. from(s) = 0 /\ to(s) = 1 /\ from(t) = 2 /\ to(t) = 3
      <4>1. 2^s[1] = 2 /\ 2^t[1] = 2  BY <2>5, <2>3
      <4>2. s[2] = 0 /\ t[2] = 1  BY <2>5, <2>3, SeriesIs
      <4> HIDE DEF t
      <4> QED  BY <4>1, <4>2
    <3> HIDE DEF from, to, t
    <3>2. /\ Center(s, revealed) = ((1200 + 0 * P) + (1200 + 1 * P)) \div 2
          /\ Center(t, revealed) = ((1200 + 2 * P) + (1200 + 3 * P)) \div 2
      BY <2>2, <3>1
    <3> QED  BY <3>2, <2>7
  <2>6. CASE s[1] = 2  BY <2>6, <2>3, SeriesIs
  <2> QED  BY <2>4, <2>5, <2>6, SeriesIs
<1>5. half(s) + half(t) <= P
  <2>1. half(s) \in Int /\ half(t) \in Int
        /\ half(s) <= 2 * (100 + most * 18) /\ half(t) <= 2 * (100 + most * 18)
    BY <1>2 DEF half
  <2> QED  BY <2>1, <1>3
<1>6. half(s) \in Int /\ half(t) \in Int  BY <1>2 DEF half
<1> QED  BY <1>3, <1>4, <1>5, <1>6

-----------------------------------------------------------------------------
(* The analysis *)

LEMMA AnalysisIsRight == IInv /\ AInv => AnalysisFollowsBracket
<1> SUFFICES ASSUME IInv, AInv, Analysable, entry = "script"
             PROVE  AnalysisFollowsBracket
  BY DEF AnalysisFollowsBracket
<1> DEFINE summary == [e \in 1..8 |-> PolicySummary(e)]
<1>1. GridOK /\ ScriptOK /\ Kept /\ OneLoss  BY DEF IInv, AInv
<1>2. \A e \in 1..8 : summary[e] = PolicySummary(e)  OBVIOUS
<1>3. \A s \in Series : Decided(s) => WinnerOf(s) = WentOn(s)
  BY <1>1, WinnersNamed
<1>4. (\A s \in Series : file.rounds[s].done => Decided(s)) =>
         /\ \A s \in Series, slot \in {"high", "low"} :
              Shown(s, slot, CompletedSeries) = file.rounds[s][slot]
         /\ ChampionShown(CompletedSeries) = file.champion
         /\ \A e \in 1..8 :
              /\ summary[e].seriesWins = Wins[e]
              /\ summary[e].seriesLosses = IF e \in Beaten THEN 1 ELSE 0
              /\ summary[e].eliminatedIn =
                   {s[1] : s \in {t \in Series : /\ file.rounds[t].done
                                                /\ e \in {file.rounds[t].high, file.rounds[t].low}
                                                /\ WentOn(t) # e}}
              /\ summary[e].champion = (e = file.champion)
         /\ Overview.completedSeries = Cardinality(Beaten)
  <2> HIDE DEF summary
  <2> SUFFICES ASSUME \A s \in Series : file.rounds[s].done => Decided(s)
               PROVE  /\ \A s \in Series, slot \in {"high", "low"} :
                           Shown(s, slot, CompletedSeries) = file.rounds[s][slot]
                      /\ ChampionShown(CompletedSeries) = file.champion
                      /\ \A e \in 1..8 :
                           /\ PolicySummary(e).seriesWins = Wins[e]
                           /\ PolicySummary(e).seriesLosses = IF e \in Beaten THEN 1 ELSE 0
                           /\ PolicySummary(e).eliminatedIn =
                                {s[1] : s \in {t \in Series :
                                  /\ file.rounds[t].done
                                  /\ e \in {file.rounds[t].high, file.rounds[t].low}
                                  /\ WentOn(t) # e}}
                           /\ PolicySummary(e).champion = (e = file.champion)
                      /\ Overview.completedSeries = Cardinality(Beaten)
    BY <1>2
  <2> QED  BY <1>1, SummariesTell
<1>5. \A s \in Series : file.rounds[s].done /\ PlayedOut(s) =>
         /\ Cardinality(Took(s, "p1")) = file.rounds[s].wins[1]
         /\ {g \in GamesIn(s) : GameLines(s)[g] = "right"} = Took(s, "p2")
  BY <1>1, PlayedGames
<1>6. (\A s \in Series : PlayedOut(s)) =>
         \A e \in 1..8 :
           /\ summary[e].gameWins = Cardinality(Scored(e))
           /\ summary[e].gameWins + summary[e].gameLosses = TotalGames(e)
  BY <1>1, <1>2, GamesAddUp
<1>7. \A revealed \in Frames, s \in Series : ~Overlap(s, revealed)
  <2>1. \A revealed \in Frames : revealed \subseteq Series
    BY DEF Frames, CompletedSeries
  <2> QED  BY <2>1, NoOverlap
<1> HIDE DEF summary
<1> QED  BY <1>3, <1>4, <1>5, <1>6, <1>7 DEF AnalysisFollowsBracket, summary

\* What yomi-analysis says of a directory that it can read (tournament.py,
\* summary.py, bracket.py): it names the winners that the script sent on of
\* all series that were decided, and when they all were, draws the bracket of
\* the file and tells of one loss of everybody who is out; games add up to the
\* scores where none failed, was drawn or is left from an attempt before; and
\* no two blocks overlap.  After any kills and resumed runs, for series of any
\* length.
THEOREM AnalysisNamesTheWinners == Spec => []AnalysisFollowsBracket
  BY AnalysisIsRight, Invariance, ScoresAreTallied, PTL
=============================================================================
