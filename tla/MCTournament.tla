---------------------------- MODULE MCTournament ----------------------------
(* An instance of Tournament for TLC. *)
EXTENDS Tournament

CONSTANTS alice, bob, carol

MCPolicies == {alice, bob, carol}

\* A gain that depends on the difference, so that the order of results matters.
MCGain == [d \in -40..40 |-> IF d > 1 THEN 1 ELSE IF d < -1 THEN 3 ELSE 2]

Base == [ids |-> <<alice, bob, carol>>, format |-> "round_robin", games |-> 1,
         swap |-> TRUE, mirrors |-> FALSE, concurrency |-> 2, executor |-> "fake",
         port |-> 8765]

\* Each format, both executors, the configured port and a free one, with and
\* without mirror matches, side swaps and concurrency, and the calls that are
\* refused.
MCPlans ==
  {[Base EXCEPT !.format = "single", !.concurrency = 0],
   [Base EXCEPT !.format = "single_match"],
   [Base EXCEPT !.ids = <<alice, alice>>],
   [Base EXCEPT !.format = "side_swapped_pair"],
   [Base EXCEPT !.ids = <<alice, bob>>, !.mirrors = TRUE, !.concurrency = 1],
   [Base EXCEPT !.ids = <<alice, bob, alice>>, !.games = 2, !.format = "double_round_robin"],
   [Base EXCEPT !.ids = <<alice, bob>>, !.games = 3, !.concurrency = 20,
                !.executor = "daemon"],
   [Base EXCEPT !.executor = "daemon", !.concurrency = 1],
   [Base EXCEPT !.executor = "daemon", !.port = 0],
   [Base EXCEPT !.ids = <<alice, bob>>, !.mirrors = TRUE, !.executor = "daemon", !.port = 0],
   Base}
=============================================================================
