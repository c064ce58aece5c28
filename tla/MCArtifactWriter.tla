-------------------------- MODULE MCArtifactWriter --------------------------
(* An instance of ArtifactWriter for TLC. *)
EXTENDS ArtifactWriter

CONSTANTS path1

\* Two requests of a baseline about one tick, and one of a model about the
\* same tick, whose history has an outcome the others' does not have.
MCRequest ==
  <<[player |-> "p1", tick |-> 2, outcomes |-> {}],
    [player |-> "p1", tick |-> 2, outcomes |-> {}],
    [player |-> "p2", tick |-> 2, outcomes |-> {1}]>>
MCPrompted == {"p2"}
MCPaths    == {path1}
=============================================================================
