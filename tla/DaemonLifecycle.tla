-------------------------- MODULE DaemonLifecycle --------------------------
(***************************************************************************)
(* The life of the daemon process: the CLI resolves a configuration and    *)
(* starts the server; each connection gets a handler, which refuses or     *)
(* acknowledges the hello, runs the match loop and the replay phase; the   *)
(* first session that is served to its end asks the server to stop, and    *)
(* with the server the process ends.                                       *)
(*                                                                         *)
(* asyncio: an action is what runs between two awaits.  The match loop     *)
(* itself is the module MatchLoop; here it is a stage with its exits.  The *)
(* server is always the CLI's: it has a runtime configuration.             *)
(*                                                                         *)
(* A definition whose name ends in Bug is a faulty variant used by the     *)
(* mutation runs only.                                                     *)
(***************************************************************************)
EXTENDS ReplayCapture, FiniteSets

CONSTANTS
  Characters,   \* VALID_CHARACTERS
  Seeded,       \* what the seeded random choice picks for a player
  Hellos,       \* the first frames a client may send
  Documents,    \* the configuration files there may be
  Overrides     \* the command line flags there may be

Players   == {"p1", "p2"}
Providers == {"baseline", "anthropic", "openai", "openrouter", "other"}
Versions  == {"v1", "v2"}
Supported == {"v2"}

\* A first frame, by what the handshake looks at.
Frames == [text : BOOLEAN, object : BOOLEAN, type : {"hello", "other"},
           version : Versions \cup {"unknown", "array"},
           schema : {"current", "other"}, versions : SUBSET (Versions \cup {"unknown"}),
           wellFormed : BOOLEAN, token : {"right", "wrong"}]

\* Policies not mapped to a player have providers too.
Configs == [valid : BOOLEAN, policies : [Players \cup {"spare"} -> Providers],
            mapping : [Players -> Players \cup {"spare", "undefined"}],
            characters : {"assigned", "llm_choice"}, secret : BOOLEAN,
            replay : BOOLEAN]
Flags == [mapping : [Players -> Players \cup {"spare", "undefined", "none"}],
          replay : {"on", "off", "none"}]

ASSUME LifecycleAssumption ==
  /\ Seeded \in [Players -> Characters]
  /\ Hellos \subseteq Frames
  /\ Documents \subseteq Configs /\ Overrides \subseteq Flags

VARIABLES
  cli,        \* "starting", "serving", "stopping", "exited"
  code,       \* the exit status
  config,     \* the runtime configuration, with the flags
  server,     \* "none", "open", "closing": _server
  cut,        \* close() has closed the connections there were
  stopped,    \* _stopped is set
  stops,      \* the callers of stop() that wait for the server: "task", "cli"
  accepted,   \* the connections so far
  handler,    \* per session, where its handler is
  outcome,    \* per session, how its handler ended
  choice,     \* per session and player, the character chosen
  ack,        \* per session, the characters in the hello_ack
  traces      \* per session, character_selection.json of its match; empty while
              \* there is no match record

process  == <<cli, code, config>>
serving  == <<server, cut, stopped, stops>>
sessions == <<handler, outcome, choice, ack, traces>>
vars     == <<process, serving, accepted, link, sessions, capture>>

Unchosen == [character |-> "none", fallback |-> FALSE]
Choices  == [character : Characters, fallback : BOOLEAN]

NoConfig == [valid |-> FALSE, policies |-> [p \in Players \cup {"spare"} |-> "other"],
             mapping |-> [p \in Players |-> "undefined"], characters |-> "assigned",
             secret |-> FALSE, replay |-> FALSE]

Init ==
  /\ cli = "starting" /\ code = 0 /\ config = NoConfig
  /\ server = "none" /\ cut = FALSE /\ stopped = TRUE /\ stops = {}
  /\ accepted = 0
  /\ link = [s \in Sessions |-> "none"]
  /\ handler = [s \in Sessions |-> "none"] /\ outcome = [s \in Sessions |-> "none"]
  /\ choice = [s \in Sessions |-> [p \in Players |-> Unchosen]]
  /\ ack = [s \in Sessions |-> <<>>] /\ traces = [s \in Sessions |-> <<>>]
  /\ InitCapture

-----------------------------------------------------------------------------
(* The CLI *)

OverrideBug(flag, value) == flag   \* also one that was not given

Override(flag, value) == IF flag = "none" THEN value ELSE flag

\* The flags win over the file.
Resolve(doc, flags) ==
  [doc EXCEPT !.mapping = [p \in Players |-> Override(flags.mapping[p], @[p])],
              !.replay  = IF flags.replay = "none" THEN @ ELSE flags.replay = "on"]

\* Schema and ranges, and every mapped policy is defined.
ConfigOK(c) == c.valid /\ \A p \in Players : c.mapping[p] \in DOMAIN c.policies

\* An adapter is built for every policy defined, mapped or not.
AdaptersOK(c) == \A q \in DOMAIN c.policies : c.policies[q] # "other"

Exit(status) == cli' = "exited" /\ code' = status

\* ConfigError is caught (2); an AdapterConstructionError or a port in use is a
\* traceback (1).
Start ==
  /\ cli = "starting"
  /\ \E doc \in Documents, flags \in Overrides :
       /\ config' = Resolve(doc, flags)
       /\ \/ /\ ~ConfigOK(config') /\ Exit(2) /\ UNCHANGED serving
          \/ /\ ConfigOK(config') /\ Exit(1) /\ UNCHANGED serving
          \/ /\ ConfigOK(config') /\ AdaptersOK(config')
             /\ cli' = "serving" /\ server' = "open" /\ stopped' = FALSE
             /\ UNCHANGED <<code, cut, stops>>
  /\ UNCHANGED <<accepted, link, sessions, capture>>

\* serve_forever returns, or is cancelled by SIGINT; then finally: stop().
LeaveServeForever(interrupted) ==
  /\ cli = "serving" /\ (interrupted \/ stopped)
  /\ IF server = "none"
     THEN Exit(0) /\ UNCHANGED <<server, stops>>
     ELSE /\ cli' = "stopping" /\ server' = "closing" /\ stops' = stops \cup {"cli"}
          /\ UNCHANGED code
  /\ UNCHANGED <<config, cut, stopped, accepted, link, sessions, capture>>

-----------------------------------------------------------------------------
(* stop() *)

Handling == {s \in Sessions : handler[s] \notin {"none", "done"}}

RequestStopBug ==   \* leaves it to the last handler
  IF server = "none" \/ "task" \in stops \/ Cardinality(Handling) > 1
  THEN UNCHANGED serving
  ELSE server' = "closing" /\ stops' = stops \cup {"task"} /\ UNCHANGED <<cut, stopped>>

\* The task calls close() before any connection is accepted again; a stop task
\* that is not done, or no server, makes this a no-op.
RequestStop ==
  IF server = "none" \/ "task" \in stops THEN UNCHANGED serving
  ELSE server' = "closing" /\ stops' = stops \cup {"task"} /\ UNCHANGED <<cut, stopped>>

\* close() runs as a task of its own: handlers go on for a while before their
\* connections are closed with code 1001.  A peer that does not answer the
\* close frame makes it an unclean closure.
CloseConnections ==
  /\ server = "closing" /\ ~cut
  /\ cut' = TRUE
  /\ \E silent \in SUBSET {s \in Sessions : link[s] = "open"} :
       link' = [s \in Sessions |-> IF link[s] # "open" THEN link[s]
                                   ELSE IF s \in silent THEN "lost" ELSE "closed"]
  /\ UNCHANGED <<process, server, stopped, stops, accepted, sessions, capture>>

CanStopBug == cut   \* does not wait for the handlers

\* wait_closed() returns when every handler has.
CanStop == cut /\ Handling = {}

\* _server, _stop_task and _stopped are set by whoever waited.
StopReturns(caller) ==
  /\ caller \in stops /\ CanStop
  /\ server' = "none" /\ stopped' = TRUE /\ stops' = stops \ {caller}
  /\ IF caller = "cli" THEN Exit(0) ELSE UNCHANGED <<cli, code>>
  /\ UNCHANGED <<config, cut, accepted, link, sessions, capture>>

-----------------------------------------------------------------------------
(* Connections *)

\* A listener that is closing answers 503, and there is no handler.
Accept ==
  /\ server = "open" /\ accepted < MaxSessions
  /\ accepted' = accepted + 1
  /\ link' = [link EXCEPT ![accepted'] = "open"]
  /\ handler' = [handler EXCEPT ![accepted'] = "hello"]
  /\ UNCHANGED <<process, serving, outcome, choice, ack, traces, capture>>

\* The client closes, or the connection breaks or misses its pings.
Disconnect(s, how) ==
  /\ link[s] = "open"
  /\ link' = [link EXCEPT ![s] = how]
  /\ UNCHANGED <<process, serving, accepted, sessions, capture>>

\* The handler of s returns or raises; the connection is closed with it.
Return(s, how) ==
  /\ handler' = [handler EXCEPT ![s] = "done"]
  /\ outcome' = [outcome EXCEPT ![s] = how]
  /\ link' = [link EXCEPT ![s] = IF @ = "open" THEN "closed" ELSE @]

EndHandshakeBug(s, how) == Return(s, how) /\ RequestStop   \* also one refused

\* A handshake that fails is no session: it stops nothing.
EndHandshake(s, how) == Return(s, how) /\ UNCHANGED serving

-----------------------------------------------------------------------------
(* The handshake *)

Stage(s, stage) == handler' = [handler EXCEPT ![s] = stage]

\* The checks in their order; "none" if the hello is accepted, "raised" for a
\* version that is not hashable.
Refusal(f) ==
  CASE ~f.text                                   -> "1003"
    [] ~f.object \/ f.type # "hello"             -> "1002"
    [] f.version = "array"                       -> "raised"
    [] f.version \notin Supported                -> "1002"
    [] f.schema # "current"                      -> "1002"
    [] f.versions \cap Supported = {}            -> "1002"
    [] ~f.wellFormed \/ "unknown" \in f.versions -> "1007"
    [] config.secret /\ f.token # "right"        -> "1008"
    [] OTHER                                     -> "none"

ReadHello(s) ==
  /\ handler[s] = "hello"
  /\ \E f \in Hellos :
       IF Refusal(f) = "none"
       THEN /\ Stage(s, IF config.characters = "llm_choice" THEN "choosing" ELSE "ack")
            /\ UNCHANGED <<serving, outcome, link>>
       ELSE EndHandshake(s, IF Refusal(f) = "raised" THEN "raised" ELSE "refused")
  /\ UNCHANGED <<process, accepted, choice, ack, traces, capture>>

\* No hello came before the connection was gone.
HelloMissing(s) ==
  /\ handler[s] = "hello" /\ link[s] \in {"closed", "lost"}
  /\ EndHandshake(s, "gone")
  /\ UNCHANGED <<process, accepted, choice, ack, traces, capture>>

\* A provider's response by what it says where: a structured answer (the
\* tool's input, parsed output), text, reasoning.
Responses == [structured : Characters \cup {"junk", "missing"},
              text       : Characters \cup {"junk", "missing"},
              reasoning  : Characters \cup {"missing"}]

\* The first that is there decides; only the OpenAI clients look at reasoning.
Said(provider, r) ==
  IF r.structured # "missing" THEN r.structured
  ELSE IF r.text # "missing" THEN r.text
  ELSE IF provider # "anthropic" THEN r.reasoning ELSE "missing"

Chosen(c)        == [character |-> c, fallback |-> FALSE]
RandomCharacter(p, fallback) == [character |-> Seeded[p], fallback |-> fallback]

ParseChoiceBug(p, said) == Chosen(said)

\* An answer that names no character makes the choice a random one, as every
\* exception of the call does.
ParseChoice(p, said) ==
  IF said \in Characters THEN Chosen(said) ELSE RandomCharacter(p, TRUE)

Possible(p) ==
  LET provider == config.policies[config.mapping[p]]
  IN  IF provider = "baseline" THEN {RandomCharacter(p, FALSE)}
      ELSE {ParseChoice(p, Said(provider, r)) : r \in Responses}
             \cup {RandomCharacter(p, TRUE)}

\* Both players are asked at once; each call ends by its own timeout at last.
ChooseCharacter(s, p) ==
  /\ handler[s] = "choosing" /\ choice[s][p] = Unchosen
  /\ \E c \in Possible(p) : choice' = [choice EXCEPT ![s][p] = c]
  /\ IF \A q \in Players \ {p} : choice[s][q] # Unchosen
     THEN Stage(s, "ack") ELSE UNCHANGED handler
  /\ UNCHANGED <<process, serving, accepted, link, outcome, ack, traces, capture>>

\* The configuration in the hello_ack names the characters chosen.
SendAck(s) ==
  /\ handler[s] = "ack"
  /\ IF link[s] = "open"
     THEN /\ Stage(s, "match")
          /\ ack' = [ack EXCEPT ![s] = [p \in Players |-> choice[s][p].character]]
          /\ UNCHANGED <<serving, outcome, link>>
     ELSE EndHandshake(s, "gone") /\ UNCHANGED ack
  /\ UNCHANGED <<process, accepted, choice, traces, capture>>

-----------------------------------------------------------------------------
(* The session *)

Active(s) == handler[s] \in {"match", "replay"}

TracedBug(s) == choice[accepted]   \* those of the last connection

Traced(s) == choice[s]

\* The first request makes the writer, and the traces of the choice a file.
BeginMatch(s) ==
  /\ handler[s] = "match" /\ traces[s] = <<>>
  /\ traces' = [traces EXCEPT ![s] = Traced(s)]
  /\ UNCHANGED <<process, serving, accepted, link, handler, outcome, choice, ack,
                 capture>>

\* The handler returns behind its session and asks the server to stop.
Leave(s) == Return(s, "served") /\ RequestStop

\* match_ended, or the connection is gone, or an error of the loop: the record
\* is finalized, and only match_ended leads to a replay phase.
MatchEnds(s) ==
  /\ handler[s] = "match"
  /\ IF config.replay /\ traces[s] # <<>>
     THEN /\ Stage(s, "replay")
          /\ \E path \in ReplayFiles \cup {NoFile} : Becomes(s, BeginCapture(path))
          /\ UNCHANGED <<serving, outcome, link>>
     ELSE Leave(s) /\ UNCHANGED capture
  /\ UNCHANGED <<process, accepted, choice, ack, traces>>

ConnectionEnds(s) ==
  /\ handler[s] = "match" /\ link[s] # "open"
  /\ Leave(s)
  /\ UNCHANGED <<process, accepted, choice, ack, traces, capture>>

LoopFails(s) ==
  /\ handler[s] = "match" /\ traces[s] # <<>>
  /\ Leave(s)
  /\ UNCHANGED <<process, accepted, choice, ack, traces, capture>>

\* finalize() refuses the match_ended of another match: the exception leaves
\* the handler, and nobody asks the server to stop.
FinalizeRaises(s) ==
  /\ handler[s] = "match" /\ traces[s] # <<>>
  /\ Return(s, "raised")
  /\ UNCHANGED <<process, serving, accepted, choice, ack, traces, capture>>

Replay(s) ==
  /\ handler[s] = "replay"
  /\ CaptureStep(s)
  /\ IF capture'[s].stage # "over" THEN UNCHANGED <<serving, link, handler, outcome>>
     ELSE IF capture'[s].exit = "raised" THEN Return(s, "raised") /\ UNCHANGED serving
     ELSE Leave(s)
  /\ UNCHANGED <<process, accepted, choice, ack, traces>>

Ffmpeg(s) ==
  FfmpegExits(s) /\ UNCHANGED <<process, serving, accepted, link, sessions>>

-----------------------------------------------------------------------------
Stop == CloseConnections \/ \E caller \in {"task", "cli"} : StopReturns(caller)

\* What a handler does sooner or later, whatever its client does.
Proceed(s) ==
  \/ HelloMissing(s) \/ (\E p \in Players : ChooseCharacter(s, p)) \/ SendAck(s)
  \/ ConnectionEnds(s) \/ Replay(s)

Next ==
  \/ Start \/ LeaveServeForever(TRUE) \/ LeaveServeForever(FALSE) \/ Stop
  \/ Accept
  \/ \E s \in Sessions :
       \/ Disconnect(s, "closed") \/ Disconnect(s, "lost")
       \/ ReadHello(s) \/ Proceed(s)
       \/ BeginMatch(s) \/ MatchEnds(s) \/ LoopFails(s) \/ FinalizeRaises(s)
       \/ Ffmpeg(s)
  \/ cli = "exited" /\ UNCHANGED vars

Spec == Init /\ [][Next]_vars

\* asyncio runs what is ready; provider calls, subprocesses and the replay
\* phase end by their timeouts.  A client need not send, answer or close.
Fairness ==
  /\ WF_vars(LeaveServeForever(FALSE)) /\ WF_vars(Stop)
  /\ \A s \in Sessions : WF_vars(Proceed(s)) /\ WF_vars(Ffmpeg(s))

FairSpec == Spec /\ Fairness
-----------------------------------------------------------------------------
(* What must hold *)

TypeOK ==
  /\ cli \in {"starting", "serving", "stopping", "exited"} /\ code \in 0..2
  /\ config \in Configs
  /\ server \in {"none", "open", "closing"} /\ cut \in BOOLEAN
  /\ stopped \in BOOLEAN /\ stops \subseteq {"task", "cli"}
  /\ accepted \in 0..MaxSessions
  /\ link \in [Sessions -> {"none", "open", "closed", "lost"}]
  /\ handler \in [Sessions ->
                    {"none", "hello", "choosing", "ack", "match", "replay", "done"}]
  /\ outcome \in [Sessions -> {"none", "served", "refused", "gone", "raised"}]
  /\ CaptureTypeOK

\* Once the process has ended its loop, or the server says it is stopped, no
\* handler is at work and no recording is still being waited for or pulled.
StoppedIsQuiet ==
  stopped \/ cli = "exited" =>
    /\ server = "none" /\ Handling = {}
    /\ \A s \in Sessions : capture[s].stage \in {"off", "over"}

\* The characters a client was told to play are legal, and they are those the
\* traces of its match give for the choice; a fallback is the seeded choice.
TracesTellTheAck ==
  \A s \in Sessions :
    traces[s] # <<>> /\ config.characters = "llm_choice" =>
      \A p \in Players :
        /\ traces[s][p].character = ack[s][p] /\ ack[s][p] \in Characters
        /\ traces[s][p].fallback => ack[s][p] = Seeded[p]

\* The server goes on serving until a session was served to its end or the
\* user interrupts: no client that fails to become a session, and no session
\* that fails, takes it away from the others.
ServesUntilServed ==
  [][server = "open" /\ server' # "open" =>
       cli' = "stopping" \/ \E s \in Sessions : outcome'[s] = "served"]_vars

\* A session served to its end ends the daemon, whatever other clients do and
\* wherever their handlers are.
SessionEndsTheDaemon ==
  \A s \in Sessions : outcome[s] = "served" ~> cli = "exited"
=============================================================================
