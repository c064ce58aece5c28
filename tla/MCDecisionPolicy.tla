-------------------------- MODULE MCDecisionPolicy --------------------------
(* Instances of DecisionPolicy for TLC. *)
EXTENDS DecisionPolicy

CONSTANTS block, slash

MCActions   == {block, slash}
MCGuards    == {block}
MCLegalSets == {{slash}, {block, slash}}
=============================================================================
