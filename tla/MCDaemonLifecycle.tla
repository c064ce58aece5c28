------------------------- MODULE MCDaemonLifecycle -------------------------
(* An instance of DaemonLifecycle for TLC. *)
EXTENDS DaemonLifecycle

CONSTANTS Robot, Wizard, file1

MCCharacters == {Robot, Wizard}
MCSeeded     == [p \in Players |-> Robot]
MCFiles      == {file1}

Good == [text |-> TRUE, object |-> TRUE, type |-> "hello", version |-> "v2",
         schema |-> "current", versions |-> {"v1", "v2"}, wellFormed |-> TRUE,
         token |-> "right"]

\* One that is accepted and one for each check that can fail.
MCHellos ==
  {Good, [Good EXCEPT !.text = FALSE], [Good EXCEPT !.object = FALSE],
   [Good EXCEPT !.type = "other"], [Good EXCEPT !.version = "array"],
   [Good EXCEPT !.version = "v1"], [Good EXCEPT !.schema = "other"],
   [Good EXCEPT !.versions = {"v1"}], [Good EXCEPT !.versions = {"v2", "unknown"}],
   [Good EXCEPT !.wellFormed = FALSE], [Good EXCEPT !.token = "wrong"]}

File == [valid |-> TRUE,
         policies |-> [p1 |-> "baseline", p2 |-> "openai", spare |-> "anthropic"],
         mapping |-> [p1 |-> "p1", p2 |-> "p2"], characters |-> "assigned",
         secret |-> TRUE, replay |-> TRUE]

MCDocuments ==
  {File, [File EXCEPT !.valid = FALSE], [File EXCEPT !.policies["spare"] = "other"],
   [File EXCEPT !.characters = "llm_choice", !.replay = FALSE]}

MCOverrides ==
  {[mapping |-> [p1 |-> "none", p2 |-> "none"], replay |-> "none"],
   [mapping |-> [p1 |-> "undefined", p2 |-> "none"], replay |-> "off"]}
=============================================================================
