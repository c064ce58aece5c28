---------------------------- MODULE Elimination ----------------------------
(***************************************************************************)
(* What a single-elimination bracket promises: entrants stand in fixed     *)
(* places, two that have won r series meet only when they are the last     *)
(* ones left of the same block of 2^(r+1) places, the loser is out for     *)
(* good, and in the end one entrant is left, who is named the champion -   *)
(* unless the record of the tournament is lost.                            *)
(***************************************************************************)
EXTENDS Naturals, FiniteSets

CONSTANTS
  Seeds,    \* who may enter
  Nobody    \* no champion yet

VARIABLES
  entrants, \* who entered
  place,    \* where each entrant stands, counted from 0
  won,      \* how many series each entrant has won
  out,      \* who has lost one
  champion, \* who was named the champion
  lost      \* the record is gone

vars == <<entrants, place, won, out, champion, lost>>

TypeOK ==
  /\ entrants \subseteq Seeds
  /\ place \in [entrants -> 0..Cardinality(entrants) - 1]
  /\ won \in [entrants -> 0..Cardinality(entrants)]
  /\ out \subseteq entrants
  /\ champion \in entrants \cup {Nobody}
  /\ lost \in BOOLEAN

Init ==
  /\ entrants \subseteq Seeds
  /\ place \in [entrants -> 0..Cardinality(entrants) - 1]
  /\ \A e, f \in entrants : place[e] = place[f] => e = f
  /\ won = [e \in entrants |-> 0]
  /\ out = {}
  /\ champion = Nobody
  /\ lost = FALSE

Block(e) == place[e] \div 2^(won[e] + 1)

\* The two are the last of their block: both have come so far and are not out.
Meet(winner, loser) ==
  /\ winner # loser
  /\ {winner, loser} \cap out = {}
  /\ won[winner] = won[loser]
  /\ Block(winner) = Block(loser)

Play ==
  /\ ~lost
  /\ \E loser \in entrants :
       /\ out' = out \cup {loser}
       /\ \E winner \in entrants :
            /\ Meet(winner, loser)
            /\ won' = [won EXCEPT ![winner] = @ + 1]
            /\ champion' = IF entrants \ out' = {winner} THEN winner ELSE Nobody
  /\ UNCHANGED <<entrants, place, lost>>

Lose ==
  /\ ~lost
  /\ lost' = TRUE
  /\ UNCHANGED <<entrants, place, won, out, champion>>

Next == Play \/ Lose

\* One entrant is left; what happened before the record was lost still holds.
Decided == Cardinality(entrants \ out) <= 1

Spec == Init /\ [][Next]_vars /\ <>(Decided \/ lost)
=============================================================================
