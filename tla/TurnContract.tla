---------------------------- MODULE TurnContract ----------------------------
(***************************************************************************)
(* What the bridge promises about the decisions it asks for, independent   *)
(* of how it gets them: a request is issued under a number of its own, a   *)
(* player has one open request at a time, and a request is settled once -  *)
(* by the daemon's decision or by a local fallback - and stays settled.    *)
(* When the match is over nothing is asked any more, and what is still     *)
(* open is abandoned.  TurnHook implements this specification.             *)
(***************************************************************************)
EXTENDS Naturals

CONSTANTS
  Asked,        \* who can be asked: the two player slots
  Turns         \* the numbers a request can carry

VARIABLES
  owner,        \* whom each issued turn was addressed to
  verdict,      \* what became of each turn
  closed        \* the match is over

vars == <<owner, verdict, closed>>

Settled  == {"decided", "fallback"}
Verdicts == {"unissued", "open", "abandoned"} \cup Settled

TypeOK ==
  /\ owner \in [Turns -> Asked]
  /\ verdict \in [Turns -> Verdicts]
  /\ closed \in BOOLEAN

Open == {t \in Turns : verdict[t] = "open"}

Init ==
  /\ owner \in [Turns -> Asked]
  /\ verdict = [t \in Turns |-> "unissued"]
  /\ closed = FALSE

\* Several players can be asked in one step, each at most once.
Ask ==
  /\ ~closed
  /\ \E S \in (SUBSET Turns) \ {{}} :
       /\ \A t \in S : verdict[t] = "unissued"
       /\ verdict' = [t \in Turns |-> IF t \in S THEN "open" ELSE verdict[t]]
       /\ \A t \in Turns \ S : owner'[t] = owner[t]
       /\ \A t \in S, u \in S \cup Open : owner'[t] = owner'[u] => t = u
  /\ owner' \in [Turns -> Asked]
  /\ UNCHANGED closed

Settle ==
  /\ ~closed
  /\ \E S \in (SUBSET Open) \ {{}}, v \in Settled :
       verdict' = [t \in Turns |-> IF t \in S THEN v ELSE verdict[t]]
  /\ UNCHANGED <<owner, closed>>

Close ==
  /\ ~closed
  /\ closed' = TRUE
  /\ verdict' = [t \in Turns |-> IF t \in Open THEN "abandoned" ELSE verdict[t]]
  /\ UNCHANGED owner

Next == Ask \/ Settle \/ Close

Spec == Init /\ [][Next]_vars

=============================================================================
