---------------------------- MODULE MatchRecord ----------------------------
(***************************************************************************)
(* What a run directory promises to whoever reads it - the driver scripts, *)
(* the tournament reports, the analysis: a log of decisions that only      *)
(* grows, and one verdict that closes it.  Once the verdict is there the   *)
(* log is complete, the verdict counts it correctly, and nothing but the   *)
(* path of the replay is added to it.  A daemon that is killed leaves a    *)
(* log without a verdict; that is a stuttering step.                       *)
(***************************************************************************)
EXTENDS Naturals, Sequences

CONSTANTS
  Lines,     \* what a line of the log can say
  Statuses,  \* the statuses that close a match
  Paths,     \* the paths a replay can have, or that there is none
  Open       \* the verdict of a match that is still open

VARIABLES
  log,       \* the decisions, in the order they were made
  verdict    \* Open, or how the match ended

Verdicts == [status : Statuses, decisions : Nat, replay : Paths]

Init == log = <<>> /\ verdict = Open

Record(line) ==
  /\ verdict = Open
  /\ log' = Append(log, line)
  /\ UNCHANGED verdict

Close(v) ==
  /\ verdict = Open
  /\ v.decisions = Len(log)
  /\ verdict' = v
  /\ UNCHANGED log

Link(path) ==
  /\ verdict # Open
  /\ verdict' = [verdict EXCEPT !.replay = path]
  /\ UNCHANGED log

Next ==
  \/ \E line \in Lines : Record(line)
  \/ \E status \in Statuses, path \in Paths :
       Close([status |-> status, decisions |-> Len(log), replay |-> path])
  \/ \E path \in Paths : Link(path)

Spec == Init /\ [][Next]_<<log, verdict>>
=============================================================================
