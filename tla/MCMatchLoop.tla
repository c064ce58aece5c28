---------------------------- MODULE MCMatchLoop ----------------------------
(* Instances of MatchLoop for TLC. *)
EXTENDS MatchLoop, TLC

CONSTANTS m1, m2, h1, h2

MCBothMatches == {m1, m2}
MCOneMatch    == {m1}
MCHashes      == {h1, h2}

\* Neither the loop nor a property tells one hash from another.
HashSymmetry == Permutations(MCHashes)
=============================================================================
