----------------------------- MODULE MCTurnHook -----------------------------
(* Instances of TurnHook for TLC. *)
EXTENDS TurnHook

CONSTANTS block, slash

MCActions == {block, slash}
MCGuards  == {block}

\* Lists that differ in what survives from one tick to the next, and the
\* empty one, for which there is no fallback.
MCLegalSets == {{}, {slash}, {block, slash}}

\* For liveness: the list itself does not matter as long as it is not empty.
MCSomeLegal == {{block}}
MCMaybeNone == {{}, {block}}
=============================================================================
