------------------------------- MODULE League -------------------------------
(***************************************************************************)
(* tournament/: a schedule of pairings (scheduler.py), a runner that plays *)
(* them one after the other or a bounded number at a time (runner.py),     *)
(* Elo ratings (ratings.py) and the reports (reporter.py), made by the     *)
(* runner at the end or by `yomi-tournament report` from the runs on disk. *)
(*                                                                         *)
(* Elo's expected score is a function Gain of the difference of two        *)
(* ratings: what the first of the two gains by winning, no longer changing *)
(* when they are more than Span apart.  Labels of a pairing, rounding and  *)
(* the order of a leaderboard are left out.                                *)
(*                                                                         *)
(* A definition whose name ends in Bug is a faulty variant used by the     *)
(* mutation runs only.                                                     *)
(***************************************************************************)
EXTENDS Integers, FiniteSets, FiniteSetsExt, Sequences, SequencesExt

CONSTANTS
  Policies,         \* policy ids
  Plans,            \* the tournaments there may be
  Decisions,        \* how many decisions a run may record
  Rating, K,        \* the initial rating, the K factor
  Span, Gain        \* K * (1 - expected score), of differences up to Span

Formats   == {"single", "single_match", "side_swapped_pair", "round_robin",
              "double_round_robin"}
\* "daemon": DaemonMatchExecutor; "fake": the tests' FakeMatchExecutor, which
\* returns a verdict and stores no run.
Executors == {"daemon", "fake"}
Verdicts  == {"p1", "p2", "none"}

\* The calls of run_tournament, by the fields of the configuration.
TournamentPlans ==
  [ids : Seq(Policies), format : Formats, games : Nat \ {0}, swap : BOOLEAN,
   mirrors : BOOLEAN, concurrency : Int, executor : Executors, port : Nat]

ASSUME LeagueAssumption ==
  /\ Plans \subseteq TournamentPlans
  /\ Decisions \subseteq Nat
  /\ Rating \in Int /\ K \in Nat /\ K % 2 = 0
  /\ Span \in Nat
  /\ DOMAIN Gain = -Span..Span
  /\ \A d \in -Span..Span : Gain[d] \in 0..K /\ Gain[d] + Gain[-d] = K

MaxConcurrency == 16

VARIABLES
  plan,       \* the tournament that runs
  phase,      \* "planned", "playing", "failed", "played", "reported"
  pairings,   \* its schedule
  outcome,    \* per pairing: waiting, playing, a verdict, or "error"
  table,      \* RatingTable.records
  runs,       \* the finished runs on disk, as they were stored
  report      \* what run_tournament returned

leagueVars == <<plan, phase, pairings, outcome, table, runs, report>>

-----------------------------------------------------------------------------
(* scheduler.py                                                            *)

Pairing(a, b) == [p1 |-> a, p2 |-> b]

Unique(ids) ==
  LET seen[n \in 0..Len(ids)] ==
        IF n = 0 THEN <<>>
        ELSE LET before == seen[n - 1]
             IN IF Contains(before, ids[n]) THEN before ELSE Append(before, ids[n])
  IN seen[Len(ids)]

\* Each pair of the list, in the order of the list.
Combinations(ids) ==
  FlattenSeq([i \in 1..Len(ids) |->
               [j \in 1..Len(ids) - i |-> Pairing(ids[i], ids[i + j])]])

OnePass(ids, p) ==
  LET mirrors == FlattenSeq([i \in 1..Len(ids) |->
                              [g \in 1..p.games |-> Pairing(ids[i], ids[i])]])
      all     == Combinations(ids)
      cross   == FlattenSeq([c \in 1..Len(all) |->
                              [g \in 1..p.games |->
                                 IF p.swap /\ g % 2 = 0 THEN Pairing(all[c].p2, all[c].p1)
                                                        ELSE all[c]]])
  IN IF p.mirrors THEN mirrors \o cross ELSE cross

\* The empty schedule stands for a SchedulerError.
GeneratePairings(p) ==
  LET ids == Unique(p.ids)
  IN IF Len(ids) < 2 THEN <<>>
     ELSE CASE p.format = "single"             -> <<Pairing(ids[1], ids[2])>>
            [] p.format = "side_swapped_pair"  -> <<Pairing(ids[1], ids[2]), Pairing(ids[2], ids[1])>>
            [] p.format = "round_robin"        -> OnePass(ids, p)
            [] p.format = "double_round_robin" -> OnePass(ids, p) \o OnePass(ids, p)
            [] OTHER                           -> <<>>

-----------------------------------------------------------------------------
(* ratings.py                                                              *)

NewRecord == [rating |-> Rating, wins |-> 0, losses |-> 0, draws |-> 0]
NoRecords == [p \in {} |-> NewRecord]

Ensured(t, p) == IF p \in DOMAIN t THEN t[p] ELSE NewRecord

GainBy(d) == Gain[IF d > Span THEN Span ELSE IF d < -Span THEN -Span ELSE d]

\* What the first rating changes by; elo_draw is half of K less than a win.
EloChange(verdict, d) ==
  CASE verdict = "p1" -> GainBy(d)
    [] verdict = "p2" -> -GainBy(-d)
    [] OTHER          -> GainBy(d) - K \div 2

Count(record, result) ==
  CASE result = "won"  -> [record EXCEPT !.wins = @ + 1]
    [] result = "lost" -> [record EXCEPT !.losses = @ + 1]
    [] OTHER           -> [record EXCEPT !.draws = @ + 1]

\* A match of a policy with itself is skipped.
RateResult(t, r) ==
  LET a == Ensured(t, r.p1)
      b == Ensured(t, r.p2)
      change == EloChange(r.winner, a.rating - b.rating)
      of(slot) == IF r.winner \notin {"p1", "p2"} THEN "drew"
                  ELSE IF r.winner = slot THEN "won" ELSE "lost"
  IN IF r.p1 = r.p2 THEN t
     ELSE [p \in DOMAIN t \cup {r.p1, r.p2} |->
             CASE p = r.p1 -> [Count(a, of("p1")) EXCEPT !.rating = @ + change]
               [] p = r.p2 -> [Count(b, of("p2")) EXCEPT !.rating = @ - change]
               [] OTHER    -> t[p]]

\* A match that did not end has no result.
ApplyResults(t, results) ==
  LET rated[n \in 0..Len(results)] ==
        IF n = 0 THEN t
        ELSE LET before == rated[n - 1]
             IN IF results[n].winner \in Verdicts THEN RateResult(before, results[n]) ELSE before
  IN rated[Len(results)]

-----------------------------------------------------------------------------
(* reporter.py                                                             *)

\* A run: its match id, its two policies, winner and decision count.  What
\* is collected are the places of the runs.
CollectResults(ids) == {i \in DOMAIN runs : runs[i].id \in ids}

Won(r, p) ==
  \/ r.winner = "p1" /\ p = r.p1
  \/ r.winner = "p2" /\ p = r.p2

\* Per pair of policies, who won how often.
MatchupTable(results) ==
  LET sides(i)      == {runs[i].p1, runs[i].p2}
      between(pair) == {i \in results : sides(i) = pair}
  IN [pair \in {sides(i) : i \in {j \in results : runs[j].p1 # runs[j].p2}} |->
        [wins  |-> [p \in pair |-> Cardinality({i \in between(pair) : Won(runs[i], p)})],
         draws |-> Cardinality({i \in between(pair) : \A p \in pair : ~Won(runs[i], p)})]]

\* Each slot gets half of a run's decisions, rounded down; the two slots of
\* a policy that played itself get all of them, each.
DecisionShare(r) == IF r.p1 = r.p2 THEN r.decisions ELSE r.decisions \div 2

LatencyDecisions(results, p) ==
  MapThenSumSet(LAMBDA i : (IF runs[i].p1 = p THEN DecisionShare(runs[i]) ELSE 0)
                         + (IF runs[i].p2 = p THEN DecisionShare(runs[i]) ELSE 0),
                results)

BuildReport(results, t) ==
  [leaderboard |-> t,
   matchups    |-> MatchupTable(results),
   decisions   |-> [p \in Policies |-> LatencyDecisions(results, p)],
   matches     |-> Cardinality(results),
   errors      |-> Cardinality({i \in results : runs[i].winner = "none"})]

NoReport == BuildReport({}, NoRecords)

\* yomi-tournament report, recompute_ratings: from what is on disk.
StoredReport == BuildReport(DOMAIN runs, ApplyResults(NoRecords, runs))

-----------------------------------------------------------------------------
(* runner.py                                                               *)

LeagueInit ==
  /\ plan \in Plans
  /\ phase = "planned"
  /\ pairings = <<>> /\ outcome = <<>>
  /\ table = NoRecords
  /\ runs = <<>>
  /\ report = NoReport

Concurrency ==
  IF plan.concurrency < 1 THEN 1
  ELSE IF plan.concurrency > MaxConcurrency THEN MaxConcurrency ELSE plan.concurrency
Parallel == Concurrency > 1

Plan ==
  /\ phase = "planned"
  /\ pairings' = GeneratePairings(plan)
  /\ phase' = IF pairings' = <<>> THEN "failed" ELSE "playing"
  /\ outcome' = [i \in DOMAIN pairings' |-> "waiting"]
  /\ UNCHANGED <<plan, table, runs, report>>

Playing == {i \in DOMAIN outcome : outcome[i] = "playing"}

\* The id the runner mints for a pairing; a daemon stores its run under the
\* id of the game's match.
RunnerId(i) == <<"runner", i>>
GameId(i)   == <<"game", i>>

\* The semaphore is first come, first served.
May(i) ==
  /\ phase = "playing"
  /\ outcome[i] = "waiting"
  /\ \A j \in 1..i - 1 : outcome[j] # "waiting"
  /\ Cardinality(Playing) < Concurrency

\* The daemons share the configured port: a second one cannot bind it, unless
\* it is 0, for which the system picks a free one.
PortTaken == plan.executor = "daemon" /\ plan.port # 0 /\ Playing # {}

StartMatch(i) ==
  /\ May(i)
  /\ outcome' = [outcome EXCEPT ![i] = IF PortTaken THEN "error" ELSE "playing"]
  /\ UNCHANGED <<plan, phase, pairings, table, runs, report>>

MatchResult(i, winner) == [p1 |-> pairings[i].p1, p2 |-> pairings[i].p2, winner |-> winner]

Stored(i, winner) ==
  \E d \in Decisions :
    runs' = Append(runs, [id |-> GameId(i), p1 |-> pairings[i].p1, p2 |-> pairings[i].p2,
                          winner |-> winner, decisions |-> d])

ReturnedBug(i, winner) ==   \* rates in parallel too
  /\ outcome' = [outcome EXCEPT ![i] = winner]
  /\ table' = RateResult(table, MatchResult(i, winner))

\* Sequentially a result is rated when it is there, in parallel at the end.
Returned(i, winner) ==
  /\ outcome' = [outcome EXCEPT ![i] = winner]
  /\ table' = IF Parallel THEN table ELSE RateResult(table, MatchResult(i, winner))

FakeMatchEnds(i) ==
  /\ i \in Playing /\ plan.executor = "fake"
  /\ \E winner \in Verdicts : Returned(i, winner)
  /\ UNCHANGED <<plan, phase, pairings, runs, report>>

\* A session may end without a match.  collect_results is for the runner's id,
\* which the run of the session does not have.
DaemonMatchEnds(i) ==
  /\ i \in Playing /\ plan.executor = "daemon"
  /\ \/ \E winner \in Verdicts : Stored(i, winner)
     \/ UNCHANGED runs
  /\ LET found == CollectResults({RunnerId(i)})'
     IN Returned(i, IF found = {} THEN "none" ELSE runs'[Min(found)].winner)
  /\ UNCHANGED <<plan, phase, pairings, report>>

MatchFails(i) ==
  /\ i \in Playing
  /\ outcome' = [outcome EXCEPT ![i] = "error"]
  /\ UNCHANGED <<plan, phase, pairings, table, runs, report>>

\* The results in the order of the schedule; "error" is not one.
Finished == [i \in DOMAIN outcome |-> MatchResult(i, outcome[i])]

\* gather has returned, or the loop is through.
AllPlayed ==
  /\ phase = "playing"
  /\ \A i \in DOMAIN outcome : outcome[i] \notin {"waiting", "playing"}
  /\ phase' = "played"
  /\ table' = IF Parallel THEN ApplyResults(table, Finished) ELSE table
  /\ UNCHANGED <<plan, pairings, outcome, runs, report>>

\* The runs are looked up in the default directory, which is also where the
\* daemons store them; runs_root is the directory of the latencies only.
Report ==
  /\ phase = "played"
  /\ phase' = "reported"
  /\ report' = BuildReport(CollectResults({RunnerId(i) : i \in DOMAIN pairings}), table)
  /\ UNCHANGED <<plan, pairings, outcome, table, runs>>

LeagueNext ==
  \/ Plan \/ AllPlayed \/ Report
  \/ \E i \in DOMAIN outcome :
       StartMatch(i) \/ FakeMatchEnds(i) \/ DaemonMatchEnds(i) \/ MatchFails(i)

Records == [rating : Int, wins : Nat, losses : Nat, draws : Nat]

LeagueTypeOK ==
  /\ plan \in Plans
  /\ phase \in {"planned", "playing", "failed", "played", "reported"}
  /\ \A i \in DOMAIN pairings : pairings[i] \in [p1 : Policies, p2 : Policies]
  /\ DOMAIN outcome = DOMAIN pairings
  /\ \A i \in DOMAIN outcome : outcome[i] \in {"waiting", "playing", "error"} \cup Verdicts
  /\ DOMAIN table \subseteq Policies /\ \A p \in DOMAIN table : table[p] \in Records
  /\ \A i \in DOMAIN runs :
       runs[i] \in [id : {"runner", "game"} \X Nat, p1 : Policies, p2 : Policies,
                    winner : Verdicts, decisions : Decisions]
  /\ DOMAIN report.leaderboard \subseteq Policies
=============================================================================
