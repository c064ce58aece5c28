------------------------------ MODULE TurnHook ------------------------------
(***************************************************************************)
(* The turn lifecycle of the game mod (TurnHook.gd, with the parts of      *)
(* DecisionValidator, FallbackHandler, ActionApplier and Telemetry that it *)
(* calls).  GDScript runs the handlers one at a time, so each handler is   *)
(* one action; what interleaves is their order: game signals, frames of    *)
(* _process, messages of the daemon, the loss of the connection.           *)
(*                                                                         *)
(* The game is external: it stops at a decision point (here one "tick"),   *)
(* waits for the players whose turn it is, announces them through          *)
(* player_actionable once or more often, takes a player's choice through   *)
(* on_action_selected - after which the fighter is no longer interruptable *)
(* - and moves on when nobody is awaited.  The daemon is any source of     *)
(* decisions: late, repeated, foreign, wrong or none.                      *)
(*                                                                         *)
(* A definition whose name ends in Bug is a faulty variant of the one that *)
(* follows it; no specification uses it, the mutation runs put it in its   *)
(* place to see a property fail.                                           *)
(***************************************************************************)
EXTENDS Naturals, Sequences

CONSTANTS
  Actions,          \* the names of the game's actions
  GuardActions,     \* those with a positive guard score (FallbackHandler)
  LegalSets,        \* the legal-action lists the action buttons can show
  FallbackMode,     \* config: fallback_mode
  DecisionTimeout,  \* config: decision_timeout_ms, in units of TimePasses
  MatchLength,      \* decision points until the game's own clock ends a match
  MaxTurns,         \* bound on the requests of a match
  NoAction          \* the empty action name

FallbackModes == {"safe_continue", "heuristic_guard", "last_valid_replayable"}

ASSUME ActionsAssumption == /\ GuardActions \subseteq Actions
                            /\ LegalSets \subseteq SUBSET Actions
                            /\ LegalSets # {}
                            /\ NoAction \notin Actions
ASSUME ConfigAssumption  == /\ FallbackMode \in FallbackModes
                            /\ DecisionTimeout \in Nat \ {0}
                            /\ MatchLength \in Nat \ {0}
                            /\ MaxTurns \in Nat \ {0}

Players == {"p1", "p2"}
Turns   == 1..MaxTurns

VARIABLES
  \* the game
  phase,          \* "absent", "live", "won": before, during, after the match
  tick,           \* the decision point the game stands at
  awaiting,       \* players it waits for: pN_turn /\ state_interruptable
  queued,         \* what each fighter was handed at this decision point
  announced,      \* player_actionable was emitted at this decision point
  replayGame,     \* the game's automatic replay: "none", "playing", ...
  \* the connection
  linkUp,
  \* TurnHook.gd
  gameConnected,  \* _game_connected
  attachCheck,    \* the deferred _check_already_actionable is queued
  turnId,         \* _turn_id
  sent,           \* the decision_request payloads, by turn_id
  pending,        \* keys of _pending_requests; pN of the key is sent[t].player
  age,            \* now - _pending_timestamps, for the pending keys
  lastValid,      \* FallbackHandler._last_valid_decisions
  history,        \* _turn_history (and _turn_decisions), by game tick
  matchEnded,     \* _match_ended
  monitor,        \* "off", "awaiting", "recording", "grace", "done"
  \* Telemetry.gd, with logging.events on, as it is by default: switched off,
  \* it sends none of these events, ReplayEnded included
  telemetry,      \* per turn, the events emitted for it, in order
  notices         \* the match-level events, in order

gameVars    == <<phase, tick, awaiting, queued, announced, replayGame>>
requestVars == <<turnId, sent, pending, age, telemetry>>
endVars     == <<matchEnded, monitor, notices>>
attachVars  == <<gameConnected, attachCheck>>
vars == <<phase, tick, awaiting, queued, announced, replayGame, linkUp,
          gameConnected, attachCheck, turnId, sent, pending, age, lastValid,
          history, matchEnded, monitor, telemetry, notices>>

-----------------------------------------------------------------------------
(* Requests, telemetry and history entries *)

Requests == [player : Players, tick : 0..MatchLength, legal : LegalSets \cup {{}}]
Blank    == [player |-> "p1", tick |-> 0, legal |-> {}]

Reasons == {"timeout", "disconnect", "malformed_output", "illegal_output",
            "stale_response"}
Resolutions == {"DecisionApplied"} \cup Reasons   \* a reason: DecisionFallback
EventKinds  == {"TurnRequested", "DecisionReceived"} \cup Resolutions
NoticeKinds == {"MatchEnded", "match_ended", "ReplaySaved", "ReplayStarted",
                "ReplayEnded"}

\* "none": the player did not act at that tick; outcome: the tick whose HP
\* and positions the entry was enriched with, 0 while it has no outcome.
Entries == [acted : [Players -> {"none", "decision", "fallback"}],
            outcome : 0..MatchLength]
NoEntry == [acted |-> [p \in Players |-> "none"], outcome |-> 0]

Recorded(k)  == \E p \in Players : history[k].acted[p] # "none"
LastEntry(k) == Recorded(k) /\ \A j \in 1..MatchLength : Recorded(j) => j <= k

-----------------------------------------------------------------------------
Init ==
  /\ phase = "absent" /\ tick = 0 /\ awaiting = {} /\ announced = FALSE
  /\ queued = [p \in Players |-> NoAction]
  /\ replayGame = "none"
  /\ linkUp = TRUE
  /\ gameConnected = FALSE /\ attachCheck = FALSE
  /\ turnId = 0 /\ pending = {}
  /\ sent = [t \in Turns |-> Blank]
  /\ age = [t \in Turns |-> 0]
  /\ lastValid = [p \in Players |-> NoAction]
  /\ history = [k \in 1..MatchLength |-> NoEntry]
  /\ matchEnded = FALSE /\ monitor = "off"
  /\ telemetry = [t \in Turns |-> <<>>]
  /\ notices = <<>>

-----------------------------------------------------------------------------
(* What handlers share *)

HasPendingBug(p) == FALSE   \* no guard against repeated signals

\* _has_pending_for_player
HasPending(p) == \E t \in pending : sent[t].player = p

EnrichLastBug ==   \* numbers the outcome by the tick to come
  history' = [k \in 1..MatchLength |->
    IF LastEntry(k) /\ history[k].outcome = 0
    THEN [history[k] EXCEPT !.outcome = tick + 1]
    ELSE history[k]]

\* _enrich_last_history_entry: once, with what the game shows now.
EnrichLast ==
  history' = [k \in 1..MatchLength |->
    IF LastEntry(k) /\ history[k].outcome = 0
    THEN [history[k] EXCEPT !.outcome = tick]
    ELSE history[k]]

NextTurnBug(p, ps) == turnId + 1   \* both players under one number

\* turn_id of the request to p when the players of ps are asked, p1 first.
NextTurn(p, ps) == turnId + (IF p = "p2" /\ "p1" \in ps THEN 2 ELSE 1)

\* The loop body of _on_player_actionable, for the players of ps.
SendRequests(ps) ==
  LET new == {NextTurn(p, ps) : p \in ps}
  IN  /\ \A t \in new : t <= MaxTurns
      /\ turnId' = turnId + (IF "p1" \in ps THEN 1 ELSE 0)
                          + (IF "p2" \in ps THEN 1 ELSE 0)
      /\ \E legal \in [ps -> LegalSets] :
           sent' = [t \in Turns |->
             IF t \in new
             THEN LET p == CHOOSE q \in ps : NextTurn(q, ps) = t
                  IN  [player |-> p, tick |-> tick, legal |-> legal[p]]
             ELSE sent[t]]
      /\ pending' = pending \cup new
      /\ age' = [t \in Turns |-> IF t \in new THEN 0 ELSE age[t]]
      /\ telemetry' = [t \in Turns |-> IF t \in new
                                       THEN Append(telemetry[t], "TurnRequested")
                                       ELSE telemetry[t]]

\* _on_player_actionable
OnPlayerActionable ==
  /\ EnrichLast
  /\ SendRequests({p \in awaiting : ~HasPending(p)})

\* ActionApplier.apply_decision for each turn of DOMAIN act, onto the fighter
\* of its player; an empty action name is not applied.
ApplyActions(act) ==
  LET took(p) == {t \in DOMAIN act : sent[t].player = p /\ act[t] # NoAction}
  IN  /\ queued' = [p \in Players |-> IF took(p) = {}
                                      THEN queued[p]
                                      ELSE act[CHOOSE t \in took(p) : TRUE]]
      /\ awaiting' = {p \in awaiting : took(p) = {}}

RecordDecisionsAloneBug(ts, how) ==   \* forgets the other player's decision
  history' = [k \in 1..MatchLength |->
    IF k = tick /\ ts # {}
    THEN [acted |-> [p \in Players |-> IF \E t \in ts : sent[t].player = p
                                       THEN how ELSE "none"],
          outcome |-> 0]
    ELSE history[k]]

RecordDecisionsMergeBug(ts, how) ==   \* keeps an outcome taken too early
  history' = [k \in 1..MatchLength |->
    IF k = tick
    THEN [history[k] EXCEPT !.acted =
           [p \in Players |-> IF \E t \in ts : sent[t].player = p THEN how ELSE @[p]]]
    ELSE history[k]]

\* _record_turn_decision: the tick's entry is built anew, without an outcome.
RecordDecisions(ts, how) ==
  history' = [k \in 1..MatchLength |->
    IF k = tick /\ ts # {}
    THEN [acted |-> [p \in Players |-> IF \E t \in ts : sent[t].player = p
                                       THEN how ELSE history[k].acted[p]],
          outcome |-> 0]
    ELSE history[k]]

ClearPendingBug(ts) ==   \* erases the timestamp and forgets the request
  /\ pending' = pending
  /\ age' = [t \in Turns |-> IF t \in ts THEN 0 ELSE age[t]]

\* _clear_pending
ClearPending(ts) ==
  /\ pending' = pending \ ts
  /\ age' = [t \in Turns |-> IF t \in ts THEN 0 ELSE age[t]]

EmitFor(ts, events) ==
  telemetry' = [t \in Turns |-> IF t \in ts THEN telemetry[t] \o events
                                            ELSE telemetry[t]]

\* _select_guard_action looks among these.
Guards(t) == IF FallbackMode = "safe_continue" THEN {} ELSE sent[t].legal \cap GuardActions

FallbackChoicesBug(t) ==   \* replays the prior decision unchecked
  LET prior == {lastValid[sent[t].player]} \ {NoAction}
  IN  IF sent[t].legal = {} THEN {NoAction}
      ELSE IF prior # {} THEN prior ELSE sent[t].legal

\* choose_fallback.  Which of several eligible actions scores best is left
\* open, and so is whether the prior decision's data still fits the request.
FallbackChoices(t) ==
  LET legal  == sent[t].legal
      prior  == IF FallbackMode = "last_valid_replayable"
                THEN {lastValid[sent[t].player]} \cap legal ELSE {}
  IN  IF legal = {} THEN {NoAction}
      ELSE prior \cup (IF Guards(t) # {} THEN Guards(t) ELSE legal)

\* _apply_fallback on each turn of ts; whether it was applied is not looked at.
ApplyFallbacks(ts, reason) ==
  /\ \E act \in [ts -> Actions \cup {NoAction}] :
       /\ \A t \in ts : act[t] \in FallbackChoices(t)
       /\ ApplyActions(act)
  /\ RecordDecisions(ts, "fallback")
  /\ EmitFor(ts, <<reason>>)
  /\ ClearPending(ts)
  /\ UNCHANGED <<lastValid, turnId, sent>>

-----------------------------------------------------------------------------
(* Decisions of the daemon *)

\* _validate_extras and _validate_payload_data, against the legal action.
Details == {"ok", "malformed_output", "illegal_output"}

\* "shape": version, payload and extra have the required form.
Decisions == [ours : BOOLEAN, turn : Turns, action : Actions \cup {NoAction},
              shape : BOOLEAN, detail : Details]

CorrelatesBug(m) == m.ours   \* answers to settled turns are taken up

\* _find_player_for_decision: match_id and turn_id name a pending request.
Correlates(m) == m.ours /\ m.turn \in pending

\* validate_decision, "ok" for the empty string it returns on success.
Verdict(m) ==
  IF ~m.shape THEN "malformed_output"
  ELSE IF ~m.ours THEN "stale_response"
  ELSE IF m.action = NoAction THEN "malformed_output"
  ELSE IF m.action \notin sent[m.turn].legal THEN "illegal_output"
  ELSE m.detail

\* _apply_valid_decision.  A valid decision names an action and the fighter
\* has on_action_selected (checked before attaching), so it is applied.
ApplyValidDecision(m) ==
  LET p == sent[m.turn].player
  IN  /\ ApplyActions([t \in {m.turn} |-> m.action])
      /\ lastValid' = [lastValid EXCEPT ![p] = m.action]
      /\ RecordDecisions({m.turn}, "decision")
      /\ EmitFor({m.turn}, <<"DecisionReceived", "DecisionApplied">>)
      /\ ClearPending({m.turn})
      /\ UNCHANGED <<turnId, sent>>

\* _on_daemon_message; a message that correlates with nothing changes nothing.
OnDaemonMessage(m) ==
  /\ linkUp /\ ~matchEnded
  /\ Correlates(m)
  /\ IF Verdict(m) = "ok" THEN ApplyValidDecision(m)
                          ELSE ApplyFallbacks({m.turn}, Verdict(m))
  /\ UNCHANGED <<phase, tick, announced, replayGame, linkUp, attachVars, endVars>>

\* BridgeClient emits daemon_disconnected once; nothing reconnects.
OnDaemonDisconnected ==
  /\ linkUp
  /\ linkUp' = FALSE
  /\ IF matchEnded
     THEN UNCHANGED <<queued, awaiting, lastValid, history, requestVars>>
     ELSE ApplyFallbacks(pending, "disconnect")
  /\ UNCHANGED <<phase, tick, announced, replayGame, attachVars, endVars>>

-----------------------------------------------------------------------------
(* Frames of _process during the match *)

\* _process with no game yet attached: _attach_to_game, once.
AttachToGame ==
  /\ ~gameConnected /\ phase = "live"
  /\ gameConnected' = TRUE
  /\ attachCheck' = TRUE
  /\ UNCHANGED <<gameVars, linkUp, requestVars, lastValid, history, endVars>>

CheckAlreadyActionableBug ==   \* relies on the signal alone
  /\ attachCheck
  /\ attachCheck' = FALSE
  /\ UNCHANGED <<gameVars, linkUp, gameConnected, lastValid, history, requestVars, endVars>>

\* The deferred call queued by _attach_to_game.
CheckAlreadyActionable ==
  /\ attachCheck
  /\ attachCheck' = FALSE
  /\ IF ~matchEnded /\ awaiting # {}
     THEN OnPlayerActionable
     ELSE UNCHANGED <<history, requestVars>>
  /\ UNCHANGED <<gameVars, linkUp, gameConnected, lastValid, endVars>>

ExpiredBug == IF linkUp THEN {t \in pending : age[t] >= DecisionTimeout} ELSE {}

Expired == {t \in pending : age[t] >= DecisionTimeout}

\* _check_timeouts
CheckTimeouts ==
  /\ gameConnected /\ ~matchEnded
  /\ Expired # {}
  /\ ApplyFallbacks(Expired, "timeout")
  /\ UNCHANGED <<phase, tick, announced, replayGame, linkUp, attachVars, endVars>>

TimePasses ==
  /\ \E t \in pending : age[t] < DecisionTimeout
  /\ age' = [t \in Turns |-> IF t \in pending /\ age[t] < DecisionTimeout
                             THEN age[t] + 1 ELSE age[t]]
  /\ UNCHANGED <<gameVars, linkUp, attachVars, turnId, sent, pending, lastValid,
                 history, endVars, telemetry>>

-----------------------------------------------------------------------------
(* The game *)

StartMatch ==
  /\ phase = "absent"
  /\ phase' = "live"
  /\ tick' = 1
  /\ awaiting' \in (SUBSET Players) \ {{}}
  /\ UNCHANGED <<queued, announced, replayGame, linkUp, attachVars, requestVars,
                 lastValid, history, endVars>>

\* The signal, with TurnHook's handler when it is connected.
PlayerActionable ==
  /\ phase = "live" /\ awaiting # {}
  /\ announced' = TRUE
  /\ IF gameConnected THEN OnPlayerActionable
                      ELSE UNCHANGED <<history, requestVars>>
  /\ UNCHANGED <<phase, tick, awaiting, queued, replayGame, linkUp, attachVars,
                 lastValid, endVars>>

\* All choices are locked in: the game resolves them up to the next decision.
ResolveTick ==
  /\ phase = "live" /\ awaiting = {} /\ tick < MatchLength
  /\ tick' = tick + 1
  /\ awaiting' \in (SUBSET Players) \ {{}}
  /\ queued' = [p \in Players |-> NoAction]
  /\ announced' = FALSE
  /\ UNCHANGED <<phase, replayGame, linkUp, attachVars, requestVars, lastValid,
                 history, endVars>>

\* _resolve_saved_replay_path, _find_replay_path: there is a file, or not.
SavedNotices == {<<>>, <<"ReplaySaved">>}

\* end_game emits game_ended, then game_won: _on_game_ended, _on_game_won and
\* _finalize_match run in one go.  It can also happen with players awaited
\* (a forfeit).  The replay file may not be found; ReplayStarted is sent anyway.
EndMatch ==
  /\ phase = "live" /\ gameConnected
  /\ phase' = "won"
  /\ matchEnded' = TRUE
  /\ ClearPending(pending)
  /\ monitor' = "awaiting"
  /\ \E saved \in SavedNotices :
       notices' = notices \o <<"MatchEnded", "match_ended">> \o saved
                          \o <<"ReplayStarted">>
  /\ UNCHANGED <<tick, awaiting, queued, announced, replayGame, linkUp, attachVars,
                 turnId, sent, telemetry, lastValid, history>>

-----------------------------------------------------------------------------
(* After the match: _monitor_replay_lifecycle *)

ReplayGameMoves ==
  /\ phase = "won"
  /\ \/ replayGame = "none" /\ replayGame' = "playing"
     \/ replayGame = "playing" /\ replayGame' \in {"finished", "freed"}
     \/ replayGame = "finished" /\ replayGame' = "freed"
  /\ UNCHANGED <<phase, tick, awaiting, queued, announced, linkUp, attachVars,
                 requestVars, lastValid, history, endVars>>

Monitoring ==
  UNCHANGED <<gameVars, linkUp, attachVars, requestVars, lastValid, history, matchEnded>>

EmitReplayEnded ==
  /\ monitor' = "done"
  /\ notices' = Append(notices, "ReplayEnded")

\* More than 60 s without a new game instance in Global.current_game.
ReplayWaitTimesOut ==
  /\ monitor = "awaiting"
  /\ EmitReplayEnded
  /\ Monitoring

DetectReplayGame ==
  /\ monitor = "awaiting" /\ replayGame \in {"playing", "finished"}
  /\ monitor' = "recording"
  /\ UNCHANGED notices /\ Monitoring

ReplayGameFreedBug ==   \* not looked for during the grace period
  /\ monitor = "recording" /\ replayGame = "freed"
  /\ EmitReplayEnded
  /\ Monitoring

ReplayGameFreed ==
  /\ monitor \in {"recording", "grace"} /\ replayGame = "freed"
  /\ EmitReplayEnded
  /\ Monitoring

ReplayGraceStarts ==
  /\ monitor = "recording" /\ replayGame = "finished"
  /\ monitor' = "grace"
  /\ UNCHANGED notices /\ Monitoring

ReplayGraceOver ==
  /\ monitor = "grace" /\ replayGame = "finished"
  /\ EmitReplayEnded
  /\ Monitoring

MonitorReplay == \/ ReplayWaitTimesOut \/ DetectReplayGame \/ ReplayGameFreed
                 \/ ReplayGraceStarts \/ ReplayGraceOver

\* Nothing happens any more but empty frames, until the process is killed.
Finished == matchEnded /\ replayGame = "freed" /\ ~linkUp /\ UNCHANGED vars

-----------------------------------------------------------------------------
Next ==
  \/ StartMatch \/ PlayerActionable \/ ResolveTick \/ EndMatch
  \/ AttachToGame \/ CheckAlreadyActionable \/ CheckTimeouts \/ TimePasses
  \/ \E m \in Decisions : OnDaemonMessage(m)
  \/ OnDaemonDisconnected
  \/ ReplayGameMoves
  \/ ReplayWaitTimesOut \/ DetectReplayGame \/ ReplayGameFreed
  \/ ReplayGraceStarts \/ ReplayGraceOver
  \/ Finished

Spec == Init /\ [][Next]_vars

(* Godot calls _process every frame and runs deferred calls; the clock      *)
(* moves; the game starts, announces each decision point at least once,     *)
(* resolves it when nobody is awaited, and ends when its clock runs out.    *)
(* Nothing is assumed of the daemon, the link or repeated announcements.    *)
Fairness ==
  /\ WF_vars(AttachToGame) /\ WF_vars(CheckAlreadyActionable)
  /\ WF_vars(CheckTimeouts) /\ WF_vars(TimePasses)
  /\ WF_vars(StartMatch) /\ WF_vars(ResolveTick)
  /\ WF_vars(~announced /\ PlayerActionable)
  /\ WF_vars(tick = MatchLength /\ awaiting = {} /\ EndMatch)
  /\ WF_vars(ReplayGameMoves) /\ WF_vars(MonitorReplay)

FairSpec == Spec /\ Fairness
-----------------------------------------------------------------------------
(* What must hold *)

TypeOK ==
  /\ phase \in {"absent", "live", "won"}
  /\ tick \in 0..MatchLength
  /\ awaiting \in SUBSET Players
  /\ queued \in [Players -> Actions \cup {NoAction}]
  /\ announced \in BOOLEAN
  /\ replayGame \in {"none", "playing", "finished", "freed"}
  /\ linkUp \in BOOLEAN /\ gameConnected \in BOOLEAN /\ attachCheck \in BOOLEAN
  /\ turnId \in 0..MaxTurns
  /\ sent \in [Turns -> Requests]
  /\ pending \in SUBSET Turns
  /\ age \in [Turns -> 0..DecisionTimeout]
  /\ lastValid \in [Players -> Actions \cup {NoAction}]
  /\ history \in [1..MatchLength -> Entries]
  /\ matchEnded \in BOOLEAN
  /\ monitor \in {"off", "awaiting", "recording", "grace", "done"}
  /\ telemetry \in [Turns -> Seq(EventKinds)]
  /\ notices \in Seq(NoticeKinds)

\* A pending request is about the decision point the game stands at, and the
\* game still waits for its player: whatever answers it - decision, timeout,
\* disconnect - acts on the state the request described, not on a later one.
PendingIsCurrent ==
  \A t \in pending : /\ phase = "live" /\ sent[t].tick = tick
                     /\ sent[t].player \in awaiting

\* However often the game repeats player_actionable, a player has at most one
\* request outstanding (the guard of _on_player_actionable).
OneOpenRequest ==
  \A t, u \in pending : sent[t].player = sent[u].player => t = u

\* What a fighter was handed at this decision point was legal in a request
\* made for this player at this decision point: a validated decision, a
\* fallback and a replayed prior decision alike (spec: "invalid actions must
\* never be applied to live game state").
HandedActionIsLegal ==
  \A p \in Players : queued[p] # NoAction =>
    \E t \in (1..turnId) \ pending :
      sent[t].player = p /\ sent[t].tick = tick /\ queued[p] \in sent[t].legal

\* A fighter's choice is locked in once per decision point: no late answer,
\* timeout or disconnect hands it a second action before the tick resolves.
LockedIn ==
  [][\A p \in Players : queued[p] # NoAction /\ tick' = tick => queued'[p] = queued[p]]_vars

SettledTurns == {t \in 1..turnId : telemetry[t] # <<"TurnRequested">>}

\* How the last settled request to p at tick k ended, "none" without one.
LastSettled(p, k) ==
  LET ts == {t \in SettledTurns : sent[t].player = p /\ sent[t].tick = k}
  IN  IF ts = {} THEN "none"
      ELSE LET t == CHOOSE u \in ts : \A v \in ts : v <= u
           IN  IF telemetry[t] = <<"TurnRequested", "DecisionReceived", "DecisionApplied">>
               THEN "decision" ELSE "fallback"

\* The three records of a turn agree: an issued request shows exactly one
\* resolution in the telemetry unless it is open or died with the match, and
\* the history shown to the policies says of each tick and player what the
\* telemetry says ("All applied decisions must be auditable after the fact").
AuditTrail ==
  /\ \A t \in SettledTurns :
       /\ t \notin pending
       /\ \/ telemetry[t] = <<"TurnRequested", "DecisionReceived", "DecisionApplied">>
          \/ \E r \in Reasons : telemetry[t] = <<"TurnRequested", r>>
  /\ ~matchEnded => \A t \in (1..turnId) \ SettledTurns : t \in pending
  /\ \A k \in 1..MatchLength, p \in Players : history[k].acted[p] = LastSettled(p, k)

\* The outcome a history entry carries once its tick is over was taken from
\* the next decision point, however often player_actionable was repeated
\* while the tick was still being decided.
OutcomesAreTrue ==
  \A k \in 1..MatchLength : Recorded(k) /\ k < tick =>
    \/ history[k].outcome = k + 1
    \/ /\ history[k].outcome = 0 /\ k = tick - 1
       /\ \A t \in 1..turnId : sent[t].tick # tick

TurnOwner == [t \in Turns |-> sent[t].player]

TurnVerdict ==
  [t \in Turns |-> IF t > turnId THEN "unissued"
                  ELSE IF t \in pending THEN "open"
                  ELSE IF Len(telemetry[t]) = 1 THEN "abandoned"
                  ELSE IF Len(telemetry[t]) = 3 THEN "decided" ELSE "fallback"]

Contract == INSTANCE TurnContract WITH
  Asked <- Players, Turns <- Turns,
  owner <- TurnOwner, verdict <- TurnVerdict, closed <- matchEnded

\* The promise of TurnContract, read off the telemetry: one open request per
\* player, each request settled once, nothing asked after the match.
ImplementsContract == Contract!Spec

\* A match that has begun comes to its end whatever the daemon does: silence,
\* late, wrong or repeated answers and a lost connection are all outlasted.
MatchCompletes == phase = "live" ~> matchEnded

\* What the specification asks of a lost connection: "disconnects must degrade
\* into safe fallback rather than deadlock".  _apply_fallback does not look at
\* whether its action was applied, and clears the request all the same.
DisconnectNeverDeadlocks == phase = "live" /\ ~linkUp ~> matchEnded

\* No request stays open for ever.
RequestsSettle == \A t \in Turns : t \in pending ~> t \notin pending

\* The daemon, told to record the replay, is told to stop.
RecordingEnds == monitor = "awaiting" ~> monitor = "done"
=============================================================================
