---------------------------- MODULE BracketState ----------------------------
(***************************************************************************)
(* The bracket of tournament/bracket.py: build_bracket and the operations  *)
(* of BracketState, driven the way next_series is made for: ask for the    *)
(* next series, play it, record its result, until there is none.           *)
(*                                                                         *)
(* Rounds, positions and series are counted from 0, as in the code; an     *)
(* entrant is its seed.  The games of a series are left out: a result is   *)
(* who won it.                                                             *)
(*                                                                         *)
(* A definition whose name ends in Bug is a faulty variant used by the     *)
(* mutation runs only.                                                     *)
(***************************************************************************)
EXTENDS Integers, FiniteSets, Sequences, SequencesExt

CONSTANT Sizes        \* how many entrants a bracket may be asked for

TBD == 0              \* BracketSeed(seed=0, policy_id="TBD")

ASSUME SizesAssumption == Sizes \subseteq Nat

VARIABLES
  bracket,    \* BracketState: rounds and results
  matchup     \* the SeriesMatchup the driver was given: [at, high, low]

stateVars == <<bracket, matchup>>

Supported == {2, 4, 8}
RoundCount(n) == CHOOSE k \in 1..3 : 2^k = n

\* build_bracket's order of the first-round pairs: seeds 1 and 2 come to
\* stand in different halves.
BracketOrder(half, position) == IF half = 4 THEN (4 - position) % 4 ELSE position

BuildBracket(n) ==
  LET half == n \div 2
      pair(i) == [high |-> i + 1, low |-> n - i]
  IN [rounds |-> [r \in 0..RoundCount(n) - 1 |->
                    [p \in 0..(half \div 2^r) - 1 |->
                       IF r = 0 THEN pair(BracketOrder(half, p))
                                ELSE [high |-> TBD, low |-> TBD]]],
      results |-> <<>>]

NoBracket == [rounds |-> <<>>, results |-> <<>>]

\* The series of a bracket, as <<round, position>>.
SeriesOf(rounds) == UNION {{<<r, p>> : p \in DOMAIN rounds[r]} : r \in DOMAIN rounds}

Matchup(b, s) == [at |-> s, high |-> b.rounds[s[1]][s[2]].high,
                  low |-> b.rounds[s[1]][s[2]].low]
NoMatchup == [at |-> <<0, 0>>, high |-> TBD, low |-> TBD]

Completed(b) == {b.results[i].at : i \in DOMAIN b.results}

\* Round by round, and from the top.
NextSeries(b) ==
  LET open == SeriesOf(b.rounds) \ Completed(b)
      first(s) == \A t \in open : s[1] < t[1] \/ (s[1] = t[1] /\ s[2] <= t[2])
  IN IF open = {} THEN NoMatchup ELSE Matchup(b, CHOOSE s \in open : first(s))

\* The first result recorded for the final counts.
Champion(b) ==
  LET final == <<Cardinality(DOMAIN b.rounds) - 1, 0>>
      of    == {i \in DOMAIN b.results : b.results[i].at = final}
  IN IF of = {} THEN TBD ELSE b.results[Min(of)].winner

AdvanceWinnerBug(rounds, result) ==
  LET r == result.at[1]  p == result.at[2]
  IN IF r + 1 \notin DOMAIN rounds THEN rounds
     ELSE [rounds EXCEPT ![r + 1][p \div 2].high = result.winner]

AdvanceWinner(rounds, result) ==
  LET r == result.at[1]  p == result.at[2]
      slot == IF p % 2 = 0 THEN "high" ELSE "low"
  IN IF r + 1 \notin DOMAIN rounds THEN rounds
     ELSE [rounds EXCEPT ![r + 1][p \div 2][slot] = result.winner]

RecordResult(b, result) ==
  [rounds |-> AdvanceWinner(b.rounds, result), results |-> Append(b.results, result)]

-----------------------------------------------------------------------------
(* The driver                                                              *)

\* Any other number of entrants is refused with a ValueError.
StateInit ==
  /\ bracket \in {BuildBracket(n) : n \in Sizes \cap Supported}
                   \cup (IF Sizes \subseteq Supported THEN {} ELSE {NoBracket})
  /\ matchup = NoMatchup

TakeSeries ==
  /\ bracket # NoBracket
  /\ matchup = NoMatchup
  /\ NextSeries(bracket) # NoMatchup
  /\ matchup' = NextSeries(bracket)
  /\ UNCHANGED bracket

RecordSeries ==
  /\ matchup # NoMatchup
  /\ \E winner \in {matchup.high, matchup.low} :
       bracket' = RecordResult(bracket,
                    [at |-> matchup.at, winner |-> winner,
                     loser |-> IF winner = matchup.high THEN matchup.low ELSE matchup.high])
  /\ matchup' = NoMatchup

StateNext == TakeSeries \/ RecordSeries

StateTypeOK ==
  /\ \A i \in DOMAIN bracket.results :
       bracket.results[i] \in [at : (0..2) \X (0..3), winner : 1..8, loser : 1..8]
  /\ \A r \in DOMAIN bracket.rounds : \A p \in DOMAIN bracket.rounds[r] :
       bracket.rounds[r][p] \in [high : 0..8, low : 0..8]
  /\ matchup \in [at : (0..2) \X (0..3), high : 0..8, low : 0..8]
=============================================================================
